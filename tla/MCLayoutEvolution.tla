------------------------- MODULE MCLayoutEvolution -------------------------
(* Instances of LayoutEvolution for TLC, in words.                         *)
EXTENDS LayoutEvolution, Sequences, TLC

Widths == [ptr |-> 1, u8 |-> 1, u128 |-> 2]

Carrying(ls, at, ty, ret) ==
  [offset |-> at, ty |-> ty, returns |-> ret, collects |-> ls]

Slot(at, ty, ret) == Carrying({}, at, ty, ret)

Type(stability, size, align, fields) ==
  [stability |-> stability, size |-> size, align |-> align, fields |-> fields]

StablePrefix == [release |-> Slot(0, "ptr", "none")]

(* Vtables: a method m whose result may change its shape, another method n *)
(* that may take its place, and one that takes another argument.           *)
Methods == {
  <<>>,
  "m" :> Slot(1, "ptr", "String"),
  "m" :> Slot(1, "ptr", "Vec"),
  "m" :> Slot(1, "u8", "String"),
  "n" :> Slot(1, "ptr", "String"),
  "m" :> Slot(1, "ptr", "String") @@ "n" :> Slot(2, "ptr", "String"),
  "m" :> Slot(1, "ptr", "Vec") @@ "n" :> Slot(2, "ptr", "String"),
  "n" :> Slot(1, "ptr", "String") @@ "m" :> Slot(2, "ptr", "String")}

VTable(ms) == Type("prefix", 1 + Cardinality(DOMAIN ms), 1, StablePrefix @@ ms)

(* Another type of the contract, of either stability: with a field more,   *)
(* one in the padding, fields swapped, a wider field, and removed.         *)
Fields == {
  <<1, "x" :> Slot(0, "u8", "none")>>,
  <<2, "x" :> Slot(0, "u8", "none")>>,
  <<2, "x" :> Slot(0, "u8", "none") @@ "y" :> Slot(1, "u8", "none")>>,
  <<2, "y" :> Slot(0, "u8", "none") @@ "x" :> Slot(1, "u8", "none")>>,
  <<3, "x" :> Slot(0, "u8", "none") @@ "y" :> Slot(2, "u8", "none")>>,
  <<2, "x" :> Slot(0, "u128", "none")>>}

Others == {Type(s, fs[1], 1, fs[2]) : s \in {"fixed", "prefix"}, fs \in Fields}

Layout(v, ts, vt) == [head |-> "demo", version |-> v, types |-> ts, vtables |-> vt]

WithVTable(v, ms, others) ==
  Layout(v, "V" :> VTable(ms) @@ others,
         "V" :> [full |-> VTable(ms).size, min |-> 1])

Plain == "x" :> Slot(0, "u8", "none")

(* A method whose argument keeps its name while the name stands for D or   *)
(* for E, with the other one in use elsewhere or not.                      *)
Renamed ==
  {WithVTable(1, "m" :> Carrying({n}, 1, "ptr", "String"),
              [o \in {n} \cup others |-> Type("fixed", 1, 1, Plain)]) :
     n \in {"D", "E"}, others \in {{}, {"D", "E"}}}

(* One part changes at a time, and in the last ones both.                  *)
SomeLayouts ==
  {WithVTable(1, ms, "D" :> Type("prefix", 1, 1, Plain)) : ms \in Methods}
    \cup {WithVTable(1, <<>>, "D" :> d) : d \in Others}
    \cup {WithVTable(1, "m" :> Slot(1, "ptr", "String"), "D" :> d) : d \in Others}
    \cup {WithVTable(2, ms, <<>>) : ms \in Methods}
    \cup {WithVTable(1, <<>>, <<>>)}
    \cup Renamed
=============================================================================
