-------------------------- MODULE MCModuleLifetime --------------------------
(* Instances of ModuleLifetime for TLC.                                    *)
EXTENDS ModuleLifetime, TLC

Alike == Permutations(Modules) \cup Permutations(Items)

(* Bound: once two modules have been loaded, TLC does not go on from a     *)
(* state with an owned trait value whose callbacks are in a module.        *)
OwnedInOneModule ==
  Cardinality({m \in Modules : mapped[m] # "fresh"}) > 1 =>
    \A i \in Items : ~(shape[i] = "owned" /\ code[i] \in Modules)
=============================================================================
