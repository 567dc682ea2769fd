------------------------------ MODULE MCLoader ------------------------------
(* Instances of Loader for TLC.                                            *)
EXTENDS Loader

Descriptor(valid, id, name, version, make) ==
  [valid |-> valid, id |-> id, name |-> name, version |-> version, make |-> make]

(* Exports of the trait, of every kind that the loaders tell apart, and    *)
(* one of each kind of descriptor that they do not look into.              *)
Kinds ==
  {Descriptor(TRUE, "this", n, v, m) : n \in {"a", "b", "bad"}, v \in {1, 2},
                                       m \in {"valid", "null", "broken"}}
  \cup {Descriptor(TRUE, "other", "a", 1, "valid"),
        Descriptor(TRUE, "bad", "a", 1, "valid"),
        Descriptor(FALSE, "this", "a", 1, "valid")}

(* Plain exports of three traits, for tables of wider descriptors.         *)
PlainKinds ==
  {Descriptor(TRUE, "this", n, v, "valid") : n \in {"a", "b"}, v \in {1, 2}}
  \cup {Descriptor(FALSE, "other", "a", 1, "valid")}
=============================================================================
