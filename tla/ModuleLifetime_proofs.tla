----------------------- MODULE ModuleLifetime_proofs -----------------------
(***************************************************************************)
(* For any modules, any finite number of values and any result shapes: no  *)
(* module, handle or retained byte buffer outlives the library it needs,   *)
(* and the counts of ModuleHandle are exact.                               *)
(***************************************************************************)
EXTENDS ModuleLifetime, FiniteSetTheorems, TLAPS

USE ItemsAssumption, NamesAssumption, ResultsAssumption

Holding(f, m) == {i \in Items : f[i] = m}

(* A count moves by one when one value starts or stops holding a module.   *)
LEMMA HoldingType ==
  ASSUME NEW f, NEW m
  PROVE  IsFiniteSet(Holding(f, m)) /\ Cardinality(Holding(f, m)) \in Nat
  BY FS_Subset, FS_CardinalityType DEF Holding

LEMMA HoldingGain ==
  ASSUME NEW f, NEW g, NEW i \in Items, NEW m, f[i] # m, g[i] = m,
         \A k \in Items \ {i} : g[k] = f[k]
  PROVE  Cardinality(Holding(g, m)) = Cardinality(Holding(f, m)) + 1
  <1>1. Holding(g, m) = Holding(f, m) \cup {i} /\ i \notin Holding(f, m)
    BY DEF Holding
  <1>2. QED
    BY <1>1, HoldingType, FS_AddElement

LEMMA HoldingLoss ==
  ASSUME NEW f, NEW g, NEW i \in Items, NEW m, f[i] = m, g[i] # m,
         \A k \in Items \ {i} : g[k] = f[k]
  PROVE  Cardinality(Holding(f, m)) = Cardinality(Holding(g, m)) + 1
  BY HoldingGain

LEMMA HoldingSame ==
  ASSUME NEW f, NEW g, NEW m, \A k \in Items : g[k] = m <=> f[k] = m
  PROVE  Holding(g, m) = Holding(f, m)
  BY DEF Holding

LEMMA HeldIsLoaded ==
  ASSUME TypeOK, CountIsHolders, NEW i \in Items, arc[i] # "none"
  PROVE  mapped[arc[i]] = "loaded" /\ arc[i] \in Modules
  <1>1. arc[i] \in Modules /\ i \in Holding(arc, arc[i])
    BY DEF TypeOK, Holding
  <1>2. Cardinality(Holding(arc, arc[i])) # 0
    BY <1>1, HoldingType, FS_EmptySet
  <1>3. QED
    BY <1>1, <1>2, HoldingType DEF CountIsHolders, TypeOK, Holding

(* Every change of an Arc field is one of these three.                     *)
LEMMA TakeArc ==
  ASSUME TypeOK, CountIsHolders, NEW i \in Items, NEW m \in Modules,
         arc[i] = "none", Retain(m),
         arc'[i] = m, \A k \in Items \ {i} : arc'[k] = arc[k],
         mapped' \in [Modules -> {"fresh", "loaded", "unloaded"}],
         mapped'[m] = "loaded", \A n \in Modules \ {m} : mapped'[n] = mapped[n]
  PROVE  CountIsHolders' /\ count' \in [Modules -> Nat]
  <1>1. count' \in [Modules -> Nat] /\ count'[m] = count[m] + 1
        /\ \A n \in Modules \ {m} : count'[n] = count[n]
    BY DEF Retain, TypeOK
  <1>n. \A n \in Modules : n # "none"
    BY NamesAssumption
  <1>3. Cardinality(Holding(arc', m)) = Cardinality(Holding(arc, m)) + 1
    BY <1>n, HoldingGain
  <1>4. \A n \in Modules \ {m} : Holding(arc', n) = Holding(arc, n)
    BY <1>n, HoldingSame
  <1>5. QED
    <2>1. \A n \in Modules : /\ count[n] = Cardinality(Holding(arc, n))
                             /\ mapped[n] = "loaded" <=> count[n] > 0
      BY DEF CountIsHolders, Holding
    <2>2. \A n \in Modules : count'[n] = Cardinality(Holding(arc', n))
      BY <1>1, <1>3, <1>4, <2>1
    <2>3. \A n \in Modules : mapped'[n] = "loaded" <=> count'[n] > 0
      BY <1>1, <2>1 DEF TypeOK
    <2>4. QED
      BY <1>1, <2>2, <2>3 DEF CountIsHolders, Holding

LEMMA GiveArc ==
  ASSUME TypeOK, CountIsHolders, NEW i \in Items,
         DropArc(arc[i]),
         arc'[i] = "none", \A k \in Items \ {i} : arc'[k] = arc[k]
  PROVE  /\ CountIsHolders'
         /\ count' \in [Modules -> Nat]
         /\ mapped' \in [Modules -> {"fresh", "loaded", "unloaded"}]
  <1>n. \A n \in Modules : n # "none"
    BY NamesAssumption
  <1>2. CASE arc[i] = "none"
    <2>1. \A n \in Modules : Holding(arc', n) = Holding(arc, n)
      BY <1>2, <1>n, HoldingSame
    <2>2. QED
      BY <1>2, <2>1 DEF CountIsHolders, Holding, TypeOK, DropArc
  <1>3. CASE arc[i] # "none"
    <2> DEFINE m == arc[i]
    <2>1. m \in Modules /\ mapped[m] = "loaded"
      BY <1>3, HeldIsLoaded
    <2>2. Cardinality(Holding(arc, m)) = Cardinality(Holding(arc', m)) + 1
      BY <1>3, <1>n, HoldingLoss
    <2>3. \A n \in Modules \ {m} : Holding(arc', n) = Holding(arc, n)
      BY <1>3, <1>n, HoldingSame
    <2>4. count[m] = Cardinality(Holding(arc', m)) + 1
      BY <2>1, <2>2 DEF CountIsHolders, Holding
    <2>5. /\ count' = [count EXCEPT ![m] = @ - 1]
          /\ mapped' = IF count[m] = 1 THEN [mapped EXCEPT ![m] = "unloaded"]
                                       ELSE mapped
      BY <1>3 DEF DropArc
    <2>6. count'[m] = Cardinality(Holding(arc', m))
          /\ count' \in [Modules -> Nat]
          /\ \A n \in Modules \ {m} : count'[n] = count[n]
      BY <2>1, <2>4, <2>5, HoldingType DEF TypeOK
    <2>7. /\ mapped' \in [Modules -> {"fresh", "loaded", "unloaded"}]
          /\ mapped'[m] = "loaded" <=> count'[m] > 0
          /\ \A n \in Modules \ {m} : mapped'[n] = mapped[n]
      BY <2>1, <2>4, <2>5, <2>6, HoldingType DEF TypeOK
    <2>8. QED
      BY <2>3, <2>6, <2>7 DEF CountIsHolders, Holding
  <1>4. QED
    BY <1>2, <1>3

LEMMA SameArcs ==
  ASSUME CountIsHolders, UNCHANGED <<count, mapped, arc>>
  PROVE  CountIsHolders'
  BY DEF CountIsHolders

LEMMA LoadKeeps ==
  ASSUME IInv, NEW m \in Modules, NEW i \in Items, Load(m, i)
  PROVE  IInv'
  <1>b. /\ arc[i] = "none" /\ arc'[i] = m
        /\ \A k \in Items \ {i} : arc'[k] = arc[k]
        /\ mapped' \in [Modules -> {"fresh", "loaded", "unloaded"}]
        /\ mapped'[m] = "loaded"
        /\ \A n \in Modules \ {m} : mapped'[n] = mapped[n]
    BY SMT DEF IInv, TypeOK, Slots, Free, Load, New, Retain
  <1>c. Retain(m)
    BY DEF Load
  <1>6. CountIsHolders' /\ count' \in [Modules -> Nat]
    BY <1>b, <1>c, TakeArc DEF IInv
  <1> USE DEF IInv, Load, New, Retain
  <1>1. TypeOK'
    BY <1>6 DEF TypeOK, Shapes, Free
  <1>2. Slots'
    BY DEF Slots, Free, TypeOK
  <1>3. Frames'
    BY DEF Frames, Free, Callable, TypeOK, Slots
  <1>4. Arrivals'
    BY DEF Arrivals, Free, Callable, TypeOK, Slots, Frames, Arriving
  <1>5. Arcs'
    BY DEF Arcs, Arriving, Arrivals, Frames, Slots, Free, TypeOK
  <1>7. QED
    BY <1>1, <1>2, <1>3, <1>4, <1>5, <1>6 DEF IInv

LEMMA CloneArcKeeps ==
  ASSUME IInv, NEW i \in Items, NEW j \in Items, CloneArc(i, j)
  PROVE  IInv'
  <1>a. arc[i] \in Modules /\ mapped[arc[i]] = "loaded"
    BY HeldIsLoaded DEF IInv, Arcs, Arriving, CloneArc, New, Retain, Usable
  <1>b. /\ arc[j] = "none" /\ arc'[j] = arc[i]
        /\ \A k \in Items \ {j} : arc'[k] = arc[k]
        /\ mapped' \in [Modules -> {"fresh", "loaded", "unloaded"}]
        /\ mapped'[arc[i]] = "loaded"
        /\ \A n \in Modules \ {arc[i]} : mapped'[n] = mapped[n]
    BY <1>a, SMT DEF IInv, TypeOK, Slots, Free, CloneArc, New, Retain, Usable
  <1>c. Retain(arc[i])
    BY DEF CloneArc
  <1>6. CountIsHolders' /\ count' \in [Modules -> Nat]
    BY <1>a, <1>b, <1>c, TakeArc DEF IInv
  <1> USE DEF IInv, CloneArc, New, Retain, Usable
  <1>1. TypeOK'
    BY <1>6 DEF TypeOK, Shapes, Free
  <1>2. Slots'
    BY DEF Slots, Free, TypeOK
  <1>3. Frames'
    BY DEF Frames, Free, Callable, TypeOK, Slots
  <1>4. Arrivals'
    BY DEF Arrivals, Free, Callable, TypeOK, Slots, Frames, Arriving
  <1>5. Arcs'
    BY DEF Arcs, Arriving, Arrivals, Frames, Slots, Free, TypeOK
  <1>7. QED
    BY <1>1, <1>2, <1>3, <1>4, <1>5, <1>6 DEF IInv

LEMMA LoadExportKeeps ==
  ASSUME IInv, NEW i \in Items, NEW j \in Items, LoadExport(i, j)
  PROVE  IInv'
  <1>a. arc[i] \in Modules /\ mapped[arc[i]] = "loaded"
    BY HeldIsLoaded DEF IInv, Arcs, Arriving, LoadExport, New, Retain, Usable
  <1>b. /\ arc[j] = "none" /\ arc'[j] = arc[i]
        /\ \A k \in Items \ {j} : arc'[k] = arc[k]
        /\ mapped' \in [Modules -> {"fresh", "loaded", "unloaded"}]
        /\ mapped'[arc[i]] = "loaded"
        /\ \A n \in Modules \ {arc[i]} : mapped'[n] = mapped[n]
    BY <1>a, SMT DEF IInv, TypeOK, Slots, Free, LoadExport, New, Retain, Usable
  <1>c. Retain(arc[i])
    BY DEF LoadExport
  <1>6. CountIsHolders' /\ count' \in [Modules -> Nat]
    BY <1>a, <1>b, <1>c, TakeArc DEF IInv
  <1> USE DEF IInv, LoadExport, New, Retain, Usable
  <1>1. TypeOK'
    BY <1>6 DEF TypeOK, Shapes, Free
  <1>2. Slots'
    BY DEF Slots, Free, TypeOK
  <1>3. Frames'
    BY DEF Frames, Free, Callable, TypeOK, Slots
  <1>4. Arrivals'
    BY DEF Arrivals, Free, Callable, TypeOK, Slots, Frames, Arriving
  <1>5. Arcs'
    BY DEF Arcs, Arriving, Arrivals, Frames, Slots, Free, TypeOK
  <1>7. QED
    BY <1>1, <1>2, <1>3, <1>4, <1>5, <1>6 DEF IInv

LEMMA WrapKeeps ==
  ASSUME IInv, NEW i \in Items, NEW j \in Items, Wrap(i, j)
  PROVE  IInv'
  <1> USE DEF IInv, Wrap, Usable
  <1>1. TypeOK'
    BY DEF TypeOK, Shapes, Free
  <1>2. Slots'
    BY DEF Slots, Free, TypeOK
  <1>3. Frames'
    BY DEF Frames, Free, Callable, TypeOK, Slots
  <1>4. Arrivals'
    BY DEF Arrivals, Free, Callable, TypeOK, Slots, Frames, Arriving
  <1>5. Arcs'
    BY DEF Arcs, Arriving, Arrivals, Frames, Slots, Free, TypeOK
  <1>6. CountIsHolders'
    BY SameArcs
  <1>7. QED
    BY <1>1, <1>2, <1>3, <1>4, <1>5, <1>6 DEF IInv

LEMMA InvokeKeeps ==
  ASSUME IInv, NEW h \in Items, Invoke(h)
  PROVE  IInv'
  <1> USE DEF IInv, Invoke, Usable, values
  <1>1. TypeOK'
    BY DEF TypeOK, Shapes, Free
  <1>2. Slots'
    BY DEF Slots, Free, TypeOK
  <1>3. Frames'
    BY DEF Frames, Free, Callable, TypeOK, Slots
  <1>4. Arrivals'
    BY DEF Arrivals, Free, Callable, TypeOK, Slots, Frames, Arriving
  <1>5. Arcs'
    BY DEF Arcs, Arriving, Arrivals, Frames, Slots, Free, TypeOK
  <1>6. CountIsHolders'
    BY SameArcs
  <1>7. QED
    BY <1>1, <1>2, <1>3, <1>4, <1>5, <1>6 DEF IInv

LEMMA InvokeWithKeeps ==
  ASSUME IInv, NEW h \in Items, NEW i \in Items, InvokeWith(h, i)
  PROVE  IInv'
  <1>b. /\ DropArc(arc[i]) /\ arc'[i] = "none"
        /\ \A k \in Items \ {i} : arc'[k] = arc[k]
    BY DEF IInv, TypeOK, InvokeWith
  <1>6. /\ CountIsHolders' /\ count' \in [Modules -> Nat]
        /\ mapped' \in [Modules -> {"fresh", "loaded", "unloaded"}]
    BY <1>b, GiveArc DEF IInv
  <1> USE DEF IInv, InvokeWith, Usable
  <1>1. TypeOK'
    BY <1>6 DEF TypeOK, Shapes, Free
  <1>2. Slots'
    BY DEF Slots, Free, TypeOK
  <1>3. Frames'
    BY DEF Frames, Free, Callable, TypeOK, Slots
  <1>4. Arrivals'
    BY DEF Arrivals, Free, Callable, TypeOK, Slots, Frames, Arriving
  <1>5. Arcs'
    BY DEF Arcs, Arriving, Arrivals, Frames, Slots, Free, TypeOK
  <1>7. QED
    BY <1>1, <1>2, <1>3, <1>4, <1>5, <1>6 DEF IInv

LEMMA ReturnPlainKeeps ==
  ASSUME IInv, NEW h \in Items, ReturnPlain(h)
  PROVE  IInv'
  <1> USE DEF IInv, ReturnPlain, Returns, values
  <1>1. TypeOK'
    BY DEF TypeOK, Shapes, Free
  <1>2. Slots'
    BY DEF Slots, Free, TypeOK
  <1>3. Frames'
    BY DEF Frames, Free, Callable, TypeOK, Slots
  <1>4. Arrivals'
    BY DEF Arrivals, Free, Callable, TypeOK, Slots, Frames, Arriving
  <1>5. Arcs'
    BY DEF Arcs, Arriving, Arrivals, Frames, Slots, Free, TypeOK
  <1>6. CountIsHolders'
    BY SameArcs
  <1>7. QED
    BY <1>1, <1>2, <1>3, <1>4, <1>5, <1>6 DEF IInv

LEMMA ReturnOneKeeps ==
  ASSUME IInv, NEW h \in Items, NEW j \in Items, ReturnOne(h, j)
  PROVE  IInv'
  <1>a. /\ Callable(h) /\ ~Arriving(h) /\ frame[h] = {} /\ h # j
        /\ \A g \in Items : j \notin frame[g]
        /\ arc[j] = "none" /\ call[j] = "idle" /\ frame[j] = {}
    BY DEF IInv, TypeOK, Slots, Frames, Arrivals, Arriving, Free, Callable, Returns, ReturnOne, New
  <1>b. arc[h] # "none" => code[h] = arc[h]
    BY <1>a DEF IInv, TypeOK, Arcs, Callable
  <1>c. /\ arc' = arc /\ mapped' = mapped /\ count' = count
        /\ code'[j] = code[h] /\ holder'[j] = holder[h]
        /\ shape'[j] \in {"handle", "bytes", "owned", "raw"}
        /\ shape'[j] \in {"handle", "bytes"} => arc[h] # "none"
        /\ \A k \in Items \ {j} : /\ shape'[k] = shape[k] /\ code'[k] = code[k]
                                  /\ holder'[k] = holder[k]
        /\ \A k \in Items \ {h} : call'[k] = call[k] /\ frame'[k] = frame[k]
        /\ call'[h] = "decode" /\ frame'[h] = {j}
    BY <1>a DEF IInv, TypeOK, ReturnOne, New, Arrive, Decoded
  <1>4. Arrivals'
    <2> SUFFICES ASSUME NEW g \in Items, NEW i \in frame'[g]
                 PROVE  /\ shape'[i] \notin {"none", "module", "arc"}
                        /\ call'[i] = "idle" /\ arc'[i] = "none"
                        /\ holder'[i] = holder'[g]
                        /\ \A f \in Items : i \in frame'[f] => f = g
                        /\ shape'[i] = "handle" =>
                             /\ arc'[g] # "none" /\ code'[i] = arc'[g]
                             /\ \A k \in frame'[g] : shape'[k] = "handle" => k = i
                        /\ shape'[i] = "bytes" =>
                             /\ frame'[g] = {i}
                             /\ code'[i] # "host" => arc'[g] # "none" /\ code'[i] = arc'[g]
      BY DEF Arrivals
    <2>1. CASE g = h
      BY <1>a, <1>b, <1>c, <2>1
    <2>2. CASE g # h
      <3>1. i \in frame[g] /\ i # j /\ i \in Items /\ i # h
        BY <1>a, <1>c, <2>2 DEF IInv, TypeOK, Arriving
      <3>2. \A k \in frame[g] : k \in Items \ {j}
        BY <1>a DEF IInv, TypeOK
      <3>3. g # j
        BY <1>a, <3>1
      <3>4. QED
        BY <1>a, <1>c, <2>2, <3>1, <3>2, <3>3 DEF IInv, Arrivals
    <2>3. QED
      BY <2>1, <2>2
  <1>5. Arcs'
    <2>1. \A k \in Items : Arriving(k)' <=> (Arriving(k) \/ k = j)
      BY <1>a, <1>c DEF Arriving
    <2>2. QED
      BY <1>a, <1>b, <1>c, <2>1 DEF IInv, Arcs
  <1>6. CountIsHolders'
    BY <1>c, SameArcs DEF IInv
  <1> USE DEF IInv, ReturnOne, Returns, New, Arrive, Decoded
  <1>1. TypeOK'
    BY DEF TypeOK, Shapes, Free
  <1>2. Slots'
    BY DEF Slots, Free, TypeOK
  <1>3. Frames'
    BY DEF Frames, Free, Callable, TypeOK, Slots
  <1>7. QED
    BY <1>1, <1>2, <1>3, <1>4, <1>5, <1>6 DEF IInv

LEMMA ReturnPairKeeps ==
  ASSUME IInv, NEW h \in Items, NEW j \in Items, NEW k \in Items, ReturnPair(h, j, k)
  PROVE  IInv'
  <1>a. /\ Callable(h) /\ ~Arriving(h) /\ frame[h] = {} /\ h # j
        /\ \A g \in Items : j \notin frame[g]
        /\ h # k /\ \A g \in Items : k \notin frame[g]
        /\ arc[k] = "none" /\ call[k] = "idle" /\ frame[k] = {}
        /\ arc[j] = "none" /\ call[j] = "idle" /\ frame[j] = {}
    BY DEF IInv, TypeOK, Slots, Frames, Arrivals, Arriving, Free, Callable, Returns, ReturnPair
  <1>b. arc[h] # "none" => code[h] = arc[h]
    BY <1>a DEF IInv, TypeOK, Arcs, Callable
  <1>c. /\ arc' = arc /\ mapped' = mapped /\ count' = count /\ j # k
        /\ code'[j] = code[h] /\ holder'[j] = holder[h] /\ shape'[j] = "raw"
        /\ code'[k] = code[h] /\ holder'[k] = holder[h]
        /\ shape'[k] \in {"handle", "owned"}
        /\ shape'[k] = "handle" => arc[h] # "none"
        /\ \A x \in Items \ {j, k} : /\ shape'[x] = shape[x] /\ code'[x] = code[x]
                                     /\ holder'[x] = holder[x]
        /\ \A x \in Items \ {h} : call'[x] = call[x] /\ frame'[x] = frame[x]
        /\ call'[h] = "decode" /\ frame'[h] = {j, k}
    BY <1>a DEF IInv, TypeOK, ReturnPair, Arrive, Decoded
  <1>4. Arrivals'
    <2> SUFFICES ASSUME NEW g \in Items, NEW i \in frame'[g]
                 PROVE  /\ shape'[i] \notin {"none", "module", "arc"}
                        /\ call'[i] = "idle" /\ arc'[i] = "none"
                        /\ holder'[i] = holder'[g]
                        /\ \A f \in Items : i \in frame'[f] => f = g
                        /\ shape'[i] = "handle" =>
                             /\ arc'[g] # "none" /\ code'[i] = arc'[g]
                             /\ \A x \in frame'[g] : shape'[x] = "handle" => x = i
                        /\ shape'[i] = "bytes" =>
                             /\ frame'[g] = {i}
                             /\ code'[i] # "host" => arc'[g] # "none" /\ code'[i] = arc'[g]
      BY DEF Arrivals
    <2>1. CASE g = h
      BY <1>a, <1>b, <1>c, <2>1
    <2>2. CASE g # h
      <3>1. i \in frame[g] /\ i \notin {j, k} /\ i \in Items /\ i # h
        BY <1>a, <1>c, <2>2 DEF IInv, TypeOK, Arriving
      <3>2. \A x \in frame[g] : x \in Items \ {j, k}
        BY <1>a DEF IInv, TypeOK
      <3>3. g \notin {j, k}
        BY <1>a, <3>1
      <3>4. QED
        BY <1>a, <1>c, <2>2, <3>1, <3>2, <3>3 DEF IInv, Arrivals
    <2>3. QED
      BY <2>1, <2>2
  <1>5. Arcs'
    <2>1. \A x \in Items : Arriving(x)' <=> (Arriving(x) \/ x \in {j, k})
      BY <1>a, <1>c DEF Arriving
    <2>2. QED
      BY <1>a, <1>b, <1>c, <2>1 DEF IInv, Arcs
  <1>6. CountIsHolders'
    BY <1>c, SameArcs DEF IInv
  <1> USE DEF IInv, ReturnPair, Returns, Arrive, Decoded
  <1>1. TypeOK'
    BY DEF TypeOK, Shapes, Free
  <1>2. Slots'
    BY DEF Slots, Free, TypeOK
  <1>3. Frames'
    BY DEF Frames, Free, Callable, TypeOK, Slots
  <1>7. QED
    BY <1>1, <1>2, <1>3, <1>4, <1>5, <1>6 DEF IInv

LEMMA ReturnKeptKeeps ==
  ASSUME IInv, NEW h \in Items, NEW i \in Items, ReturnKept(h, i)
  PROVE  IInv'
  <1>a. /\ Callable(h) /\ ~Arriving(h) /\ frame[h] = {} /\ h # i
        /\ ~Arriving(i) /\ call[i] = "idle" /\ frame[i] = {}
    BY DEF IInv, TypeOK, Slots, Frames, Arrivals, Arriving, Free, Callable, Returns, ReturnKept
  <1>c. /\ arc[h] # "none" => code[h] = arc[h]
        /\ shape[i] \in {"bytes", "raw", "owned", "wrapper"}
        /\ shape[i] = "bytes" => code'[i] = "host"
        /\ shape' = shape /\ arc'[i] = "none" /\ holder'[i] = holder[h]
        /\ \A k \in Items \ {i} : /\ code'[k] = code[k] /\ arc'[k] = arc[k]
                                  /\ holder'[k] = holder[k]
        /\ \A k \in Items \ {h} : call'[k] = call[k] /\ frame'[k] = frame[k]
        /\ call'[h] = "decode" /\ frame'[h] = {i}
    BY <1>a DEF IInv, TypeOK, Arcs, Callable, ReturnKept, Arrive
  <1>4. Arrivals'
    <2> SUFFICES ASSUME NEW g \in Items, NEW x \in frame'[g]
                 PROVE  /\ shape'[x] \notin {"none", "module", "arc"}
                        /\ call'[x] = "idle" /\ arc'[x] = "none"
                        /\ holder'[x] = holder'[g]
                        /\ \A f \in Items : x \in frame'[f] => f = g
                        /\ shape'[x] = "handle" =>
                             /\ arc'[g] # "none" /\ code'[x] = arc'[g]
                             /\ \A k \in frame'[g] : shape'[k] = "handle" => k = x
                        /\ shape'[x] = "bytes" =>
                             /\ frame'[g] = {x}
                             /\ code'[x] # "host" => arc'[g] # "none" /\ code'[x] = arc'[g]
      BY DEF Arrivals
    <2>1. CASE g = h
      BY <1>a, <1>c, <2>1 DEF Arriving
    <2>2. CASE g # h
      <3>1. x \in frame[g] /\ x # i /\ x \in Items /\ x # h
        BY <1>a, <1>c, <2>2 DEF IInv, TypeOK, Arriving
      <3>2. \A k \in frame[g] : k \in Items \ {i}
        BY <1>a DEF IInv, TypeOK, Arriving
      <3>3. g # i
        BY <1>a, <3>1
      <3>4. QED
        BY <1>a, <1>c, <2>2, <3>1, <3>2, <3>3 DEF IInv, Arrivals, Arriving
    <2>3. QED
      BY <2>1, <2>2
  <1>b. /\ DropArc(arc[i]) /\ arc'[i] = "none"
        /\ \A k \in Items \ {i} : arc'[k] = arc[k]
    BY DEF IInv, TypeOK, ReturnKept
  <1>6. /\ CountIsHolders' /\ count' \in [Modules -> Nat]
        /\ mapped' \in [Modules -> {"fresh", "loaded", "unloaded"}]
    BY <1>b, GiveArc DEF IInv
  <1> USE DEF IInv, ReturnKept, Returns, Arrive
  <1>1. TypeOK'
    BY <1>6 DEF TypeOK, Shapes, Free
  <1>2. Slots'
    BY DEF Slots, Free, TypeOK
  <1>3. Frames'
    BY DEF Frames, Free, Callable, TypeOK, Slots
  <1>5. Arcs'
    BY DEF Arcs, Arriving, Arrivals, Frames, Slots, Free, TypeOK
  <1>7. QED
    BY <1>1, <1>2, <1>3, <1>4, <1>5, <1>6 DEF IInv

LEMMA DecodeKeeps ==
  ASSUME IInv, NEW h \in Items, Decode(h)
  PROVE  IInv'
  <1>a. frame[h] # {} /\ Callable(h) /\ ~Arriving(h) /\ call[h] = "decode"
    BY DEF IInv, Frames, Arrivals, Arriving, Decode
  <1>b. \A i, k \in Retaining(h) : i = k
    BY DEF IInv, Arrivals, Retaining, TypeOK
  <1>6. CountIsHolders'
    <2>1. CASE arc[h] # "none" /\ Retaining(h) # {}
      <3>1. PICK i \in Items : Retaining(h) = {i} /\ arc[i] = "none"
        BY <1>b, <2>1 DEF IInv, Arrivals, Retaining, TypeOK
      <3>2. mapped[arc[h]] = "loaded" /\ arc[h] \in Modules
        BY <2>1, HeldIsLoaded DEF IInv
      <3>3. /\ Retain(arc[h]) /\ mapped' = mapped /\ arc'[i] = arc[h]
            /\ \A k \in Items \ {i} : arc'[k] = arc[k]
        BY <2>1, <3>1 DEF Decode
      <3>4. QED
        BY <3>1, <3>2, <3>3, TakeArc DEF IInv, TypeOK
    <2>2. CASE ~(arc[h] # "none" /\ Retaining(h) # {})
      BY <2>2, SameArcs DEF Decode, IInv
    <2>3. QED
      BY <2>1, <2>2
  <1> USE DEF IInv, Decode, Retain, Retaining
  <1>1. TypeOK'
    BY DEF TypeOK, Shapes, Free
  <1>2. Slots'
    BY DEF Slots, Free, TypeOK
  <1>3. Frames'
    BY DEF Frames, Free, Callable, TypeOK, Slots
  <1>4. Arrivals'
    BY DEF Arrivals, Free, Callable, TypeOK, Slots, Frames, Arriving
  <1>5. Arcs'
    BY DEF Arcs, Arriving, Arrivals, Frames, Slots, Free, TypeOK
  <1>7. QED
    BY <1>1, <1>2, <1>3, <1>4, <1>5, <1>6 DEF IInv

LEMMA BeginDropKeeps ==
  ASSUME IInv, NEW i \in Items, BeginDrop(i)
  PROVE  IInv'
  <1> USE DEF IInv, BeginDrop, Usable, values
  <1>1. TypeOK'
    BY DEF TypeOK, Shapes, Free
  <1>2. Slots'
    BY DEF Slots, Free, TypeOK
  <1>3. Frames'
    BY DEF Frames, Free, Callable, TypeOK, Slots
  <1>4. Arrivals'
    BY DEF Arrivals, Free, Callable, TypeOK, Slots, Frames, Arriving
  <1>5. Arcs'
    BY DEF Arcs, Arriving, Arrivals, Frames, Slots, Free, TypeOK
  <1>6. CountIsHolders'
    BY SameArcs
  <1>7. QED
    BY <1>1, <1>2, <1>3, <1>4, <1>5, <1>6 DEF IInv

LEMMA FinishDropKeeps ==
  ASSUME IInv, NEW i \in Items, FinishDrop(i)
  PROVE  IInv'
  <1>b. /\ DropArc(arc[i]) /\ arc'[i] = "none"
        /\ \A k \in Items \ {i} : arc'[k] = arc[k]
    BY DEF IInv, TypeOK, FinishDrop
  <1>6. /\ CountIsHolders' /\ count' \in [Modules -> Nat]
        /\ mapped' \in [Modules -> {"fresh", "loaded", "unloaded"}]
    BY <1>b, GiveArc DEF IInv
  <1> USE DEF IInv, FinishDrop
  <1>1. TypeOK'
    BY <1>6 DEF TypeOK, Shapes, Free
  <1>2. Slots'
    BY DEF Slots, Free, TypeOK
  <1>3. Frames'
    BY DEF Frames, Free, Callable, TypeOK, Slots
  <1>4. Arrivals'
    BY DEF Arrivals, Free, Callable, TypeOK, Slots, Frames, Arriving
  <1>5. Arcs'
    BY DEF Arcs, Arriving, Arrivals, Frames, Slots, Free, TypeOK
  <1>7. QED
    BY <1>1, <1>2, <1>3, <1>4, <1>5, <1>6 DEF IInv

LEMMA InitKeeps == Init => IInv
  <1> SUFFICES ASSUME Init
               PROVE  IInv
    OBVIOUS
  <1>1. \A m \in Modules : {i \in Items : arc[i] = m} = {}
    BY DEF Init
  <1>2. CountIsHolders
    BY <1>1, FS_EmptySet DEF Init, CountIsHolders
  <1>3. QED
    BY <1>2 DEF Init, IInv, TypeOK, Shapes, Slots, Frames, Arrivals, Arcs, Free, Arriving

(* The inductive invariant: what a value of the model retains is what its  *)
(* callbacks need, from the return of the call that produced it (the       *)
(* decoding of results in method/handle.rs) to the end of its drop.        *)
THEOREM InvHolds == Spec => []IInv
  <1>1. IInv /\ [Next]_vars => IInv'
    <2> SUFFICES ASSUME IInv, [Next]_vars
                 PROVE  IInv'
      OBVIOUS
    <2>1. ASSUME NEW m \in Modules, NEW i \in Items, Load(m, i)
          PROVE  IInv'
      BY <2>1, LoadKeeps
    <2>2. ASSUME NEW i \in Items, NEW j \in Items, Create(i, j)
          PROVE  IInv'
      BY <2>2, CloneArcKeeps, LoadExportKeeps, WrapKeeps DEF Create
    <2>3. ASSUME NEW i \in Items, NEW j \in Items, InvokeWith(i, j)
          PROVE  IInv'
      BY <2>3, InvokeWithKeeps
    <2>4. ASSUME NEW h \in Items, Return(h)
          PROVE  IInv'
      BY <2>4, ReturnPlainKeeps, ReturnOneKeeps, ReturnPairKeeps, ReturnKeptKeeps
         DEF Return
    <2>5. ASSUME NEW i \in Items, Invoke(i) \/ Decode(i) \/ BeginDrop(i) \/ FinishDrop(i)
          PROVE  IInv'
      BY <2>5, InvokeKeeps, DecodeKeeps, BeginDropKeeps, FinishDropKeeps
    <2>6. CASE UNCHANGED vars
      BY <2>6 DEF vars, values, IInv, TypeOK, Slots, Frames, Arrivals, Arcs,
                  CountIsHolders, Free, Callable, Arriving
    <2>7. QED
      BY <2>1, <2>2, <2>3, <2>4, <2>5, <2>6 DEF Next
  <1>2. QED
    BY InitKeeps, <1>1, PTL DEF Spec

(* The variables of ModuleLifetime keep their types.                       *)
THEOREM TypeCorrect == Spec => []TypeOK
  <1>1. IInv => TypeOK
    BY DEF IInv
  <1>2. QED
    BY <1>1, InvHolds, PTL

(* No module, handle or retained byte buffer is without its library, also  *)
(* while it is being returned, moved or dropped (library.rs:126-127).      *)
THEOREM RetainedValuesAreSafe == Spec => []RetainedStayLoaded
  <1>1. IInv => RetainedStayLoaded
    <2> SUFFICES ASSUME IInv, NEW i \in Items,
                        shape[i] \in {"module", "arc", "handle", "bytes"},
                        code[i] # "host"
                 PROVE  mapped[code[i]] = "loaded"
      BY DEF RetainedStayLoaded, Mapped
    <2>1. CASE Arriving(i)
      <3>1. PICK h \in Items : i \in frame[h]
        BY <2>1 DEF Arriving
      <3>2. arc[h] # "none" /\ code[i] = arc[h]
        BY <3>1 DEF IInv, Arrivals
      <3>3. QED
        BY <3>2, HeldIsLoaded DEF IInv
    <2>2. CASE ~Arriving(i)
      <3>1. arc[i] # "none" /\ code[i] = arc[i]
        BY <2>2 DEF IInv, Arcs
      <3>2. QED
        BY <3>1, HeldIsLoaded DEF IInv
    <2>3. QED
      BY <2>1, <2>2
  <1>2. QED
    BY <1>1, InvHolds, PTL

(* The strong counts are exact, so that the last drop of a value that      *)
(* holds a module closes the library, and no earlier one.                  *)
THEOREM CountsAreExact == Spec => []CountIsHolders
  <1>1. IInv => CountIsHolders
    BY DEF IInv
  <1>2. QED
    BY <1>1, InvHolds, PTL

-----------------------------------------------------------------------------
(* The refinement: a step that takes an Arc opens or shares its library,   *)
(* one that gives an Arc back leaves it, and every other step stutters.    *)
Users == [m \in Modules |-> Holding(arc, m)]

LEMMA OpenStep ==
  ASSUME IInv, NEW m \in Modules, NEW i \in Items,
         mapped[m] = "fresh", mapped' = [mapped EXCEPT ![m] = "loaded"],
         arc[i] = "none", arc'[i] = m, \A k \in Items \ {i} : arc'[k] = arc[k]
  PROVE  Libraries!Open(m, i)
  <1>1. \A k \in Items : arc[k] # m
    BY HeldIsLoaded DEF IInv
  <1>2. Holding(arc', m) = {i}
    BY <1>1 DEF Holding
  <1>3. \A n \in Modules \ {m} : Holding(arc', n) = Holding(arc, n)
    BY HoldingSame
  <1>4. Users' = [Users EXCEPT ![m] = {i}]
    BY <1>2, <1>3 DEF Users
  <1>5. \A n \in Modules : i \notin Users[n]
    BY DEF Users, Holding
  <1>6. QED
    BY <1>4, <1>5 DEF Libraries!Open, Libraries!Unattached, Users, Holding

LEMMA ShareStep ==
  ASSUME IInv, NEW v \in Items, NEW i \in Items, arc[v] # "none", mapped' = mapped,
         arc[i] = "none", arc'[i] = arc[v], \A k \in Items \ {i} : arc'[k] = arc[k]
  PROVE  \E m \in Modules : Libraries!Share(m, i)
  <1> DEFINE m == arc[v]
  <1>1. m \in Modules /\ v \in Users[m]
    BY HeldIsLoaded DEF IInv, Users, Holding
  <1>2. Holding(arc', m) = Holding(arc, m) \cup {i}
    BY DEF Holding
  <1>3. \A n \in Modules \ {m} : Holding(arc', n) = Holding(arc, n)
    BY HoldingSame
  <1>4. Users' = [Users EXCEPT ![m] = Users[m] \cup {i}]
    BY <1>1, <1>2, <1>3 DEF Users
  <1>5. \A n \in Modules : i \notin Users[n]
    BY DEF Users, Holding
  <1>6. QED
    BY <1>1, <1>4, <1>5 DEF Libraries!Share, Libraries!Unattached, Users, Holding

LEMMA LeaveStep ==
  ASSUME IInv, NEW i \in Items, arc[i] # "none", DropArc(arc[i]),
         arc'[i] = "none", \A k \in Items \ {i} : arc'[k] = arc[k]
  PROVE  \E m \in Modules : Libraries!Leave(m, i)
  <1> DEFINE m == arc[i]
  <1>1. m \in Modules /\ i \in Users[m]
    BY HeldIsLoaded DEF IInv, Users, Holding
  <1>2. Holding(arc', m) = Holding(arc, m) \ {i}
    BY <1>1 DEF Holding
  <1>3. \A n \in Modules \ {m} : Holding(arc', n) = Holding(arc, n)
    BY HoldingSame
  <1>4. Users' = [Users EXCEPT ![m] = Users[m] \ {i}]
    BY <1>1, <1>2, <1>3 DEF Users
  <1>5. count[m] = 1 <=> Users[m] = {i}
    <2>1. Cardinality(Holding(arc, m)) = Cardinality(Holding(arc', m)) + 1
      BY <1>1, HoldingLoss
    <2>2. count[m] = Cardinality(Holding(arc', m)) + 1
      BY <1>1, <2>1 DEF IInv, CountIsHolders, Holding
    <2>3. Cardinality(Holding(arc', m)) = 0 <=> Holding(arc', m) = {}
      BY HoldingType, FS_EmptySet
    <2>4. QED
      BY <1>1, <1>2, <2>2, <2>3, HoldingType DEF Users
  <1>6. mapped' = IF Users[m] = {i} THEN [mapped EXCEPT ![m] = "unloaded"]
                                    ELSE mapped
    BY <1>5 DEF DropArc
  <1>7. QED
    BY <1>1, <1>4, <1>6 DEF Libraries!Leave, Users, Holding

LEMMA SameUsers ==
  ASSUME TypeOK, TypeOK', mapped' = mapped, \A k \in Items : arc'[k] = arc[k]
  PROVE  UNCHANGED Libraries!vars
  <1>1. arc' = arc
    BY DEF TypeOK
  <1>2. QED
    BY <1>1 DEF Libraries!vars

LEMMA LibrariesNext ==
  ASSUME IInv, IInv', [Next]_vars
  PROVE  [Libraries!Next]_(Libraries!vars)
  <1>1. ASSUME NEW m \in Modules, NEW i \in Items, Load(m, i)
        PROVE  Libraries!Next
    <2>1. /\ arc[i] = "none" /\ arc'[i] = m
          /\ \A k \in Items \ {i} : arc'[k] = arc[k]
      BY <1>1 DEF IInv, TypeOK, Slots, Load, New
    <2>2. Libraries!Open(m, i)
      BY <1>1, <2>1, OpenStep DEF Load
    <2>3. QED
      BY <2>2 DEF Libraries!Next
  <1>2. ASSUME NEW i \in Items, NEW j \in Items, CloneArc(i, j) \/ LoadExport(i, j)
        PROVE  Libraries!Next
    <2>1. /\ arc[i] # "none" /\ mapped' = mapped
          /\ arc[j] = "none" /\ arc'[j] = arc[i]
          /\ \A k \in Items \ {j} : arc'[k] = arc[k]
      BY <1>2 DEF IInv, TypeOK, Slots, Arcs, Usable, CloneArc, LoadExport, New
    <2>2. PICK m \in Modules : Libraries!Share(m, j)
      BY <2>1, ShareStep
    <2>3. QED
      BY <2>2 DEF Libraries!Next
  <1>3. ASSUME NEW i \in Items, DropArc(arc[i]), arc'[i] = "none",
               \A k \in Items \ {i} : arc'[k] = arc[k]
        PROVE  [Libraries!Next]_(Libraries!vars)
    <2>1. CASE arc[i] = "none"
      BY <1>3, <2>1, SameUsers DEF IInv, DropArc
    <2>2. CASE arc[i] # "none"
      <3>1. PICK m \in Modules : Libraries!Leave(m, i)
        BY <1>3, <2>2, LeaveStep
      <3>2. QED
        BY <3>1 DEF Libraries!Next
    <2>3. QED
      BY <2>1, <2>2
  <1>4. ASSUME NEW i \in Items, NEW j \in Items, Create(i, j) \/ InvokeWith(i, j)
        PROVE  [Libraries!Next]_(Libraries!vars)
    <2>1. CASE CloneArc(i, j) \/ LoadExport(i, j)
      BY <1>2, <2>1
    <2>2. CASE Wrap(i, j)
      BY <2>2, SameUsers DEF IInv, Wrap
    <2>3. CASE InvokeWith(i, j)
      BY <1>3, <2>3 DEF IInv, TypeOK, InvokeWith
    <2>4. QED
      BY <1>4, <2>1, <2>2, <2>3 DEF Create
  <1>5. ASSUME NEW h \in Items, Return(h)
        PROVE  [Libraries!Next]_(Libraries!vars)
    <2>1. CASE ReturnPlain(h)
      BY <2>1, SameUsers DEF IInv, ReturnPlain, values
    <2>2. ASSUME NEW j \in Items, ReturnOne(h, j)
          PROVE  UNCHANGED Libraries!vars
      <3>1. \A k \in Items : arc'[k] = arc[k]
        BY <2>2 DEF IInv, TypeOK, Slots, ReturnOne, New
      <3>2. QED
        BY <2>2, <3>1, SameUsers DEF IInv, ReturnOne
    <2>3. ASSUME NEW j \in Items, ReturnKept(h, j)
          PROVE  [Libraries!Next]_(Libraries!vars)
      BY <1>3, <2>3 DEF IInv, TypeOK, ReturnKept
    <2>4. ASSUME NEW j \in Items, NEW k \in Items, ReturnPair(h, j, k)
          PROVE  UNCHANGED Libraries!vars
      BY <2>4, SameUsers DEF IInv, ReturnPair
    <2>5. QED
      BY <1>5, <2>1, <2>2, <2>3, <2>4 DEF Return
  <1>6. ASSUME NEW h \in Items, Decode(h)
        PROVE  [Libraries!Next]_(Libraries!vars)
    <2>1. CASE arc[h] # "none" /\ Retaining(h) # {}
      <3>1. PICK i \in Items : Retaining(h) = {i} /\ arc[i] = "none"
        BY <2>1 DEF IInv, Arrivals, Retaining, TypeOK
      <3>2. /\ mapped' = mapped /\ arc'[i] = arc[h]
            /\ \A k \in Items \ {i} : arc'[k] = arc[k]
        BY <1>6, <2>1, <3>1 DEF Decode
      <3>3. PICK m \in Modules : Libraries!Share(m, i)
        BY <2>1, <3>1, <3>2, ShareStep
      <3>4. QED
        BY <3>3 DEF Libraries!Next
    <2>2. CASE ~(arc[h] # "none" /\ Retaining(h) # {})
      BY <1>6, <2>2, SameUsers DEF IInv, Decode
    <2>3. QED
      BY <2>1, <2>2
  <1>7. ASSUME NEW i \in Items, Invoke(i) \/ BeginDrop(i)
        PROVE  UNCHANGED Libraries!vars
    BY <1>7, SameUsers DEF IInv, Invoke, BeginDrop, values
  <1>8. ASSUME NEW i \in Items, FinishDrop(i)
        PROVE  [Libraries!Next]_(Libraries!vars)
    BY <1>3, <1>8 DEF IInv, TypeOK, FinishDrop
  <1>9. CASE UNCHANGED vars
    BY <1>9, SameUsers DEF IInv, vars, values
  <1>10. QED
    BY <1>1, <1>4, <1>5, <1>6, <1>7, <1>8, <1>9 DEF Next

(* The holders of Arc<ModuleHandle> implement a shared library: opened for *)
(* one, passed on only by one that has it, closed by the last and for good *)
(* (library.rs:124-136), for any modules, values and result shapes.        *)
THEOREM ImplementsSharedLibrary == Spec => SharesLibraries
  <1>1. Init => Libraries!Init
    BY DEF Init, Libraries!Init
  <1>2. IInv /\ IInv' /\ [Next]_vars => [Libraries!Next]_(Libraries!vars)
    BY LibrariesNext
  <1>3. QED
    BY <1>1, <1>2, InvHolds, PTL DEF Spec, SharesLibraries, Libraries!Spec

=============================================================================
