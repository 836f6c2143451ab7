------------------------- MODULE MCForeachCursors -------------------------
(* Instances of ForeachCursors for TLC.                                    *)
EXTENDS ForeachCursors, TLC

CONSTANTS a, b, f, g

ByRef(v) == [over |-> v, byRef |-> TRUE]
ByValue(v) == [over |-> v, byRef |-> FALSE]

(* A loop by value inside one by reference over the same array, in one     *)
(* activation: with a second variable to share the array, or with more     *)
(* keys.                                                                   *)
InOut == [s \in {"outer", "inner"} |-> IF s = "outer" THEN ByRef(a) ELSE ByValue(a)]
Nested == [loops |-> InOut, frames |-> {f}, writes |-> {a, b}, keys |-> 2]
NestedAlone == [loops |-> InOut, frames |-> {f}, writes |-> {a}, keys |-> 3]

(* Two by reference on one array.                                          *)
Twice == [loops |-> [s \in {"outer", "inner"} |-> ByRef(a)],
          frames |-> {f}, writes |-> {a}, keys |-> 4]

(* One loop, in two activations at a time: recursion, or generators.       *)
Suspended == [loops |-> [s \in {"outer"} |-> ByRef(a)],
              frames |-> {f, g}, writes |-> {a}, keys |-> 4]

(* A loop over a temporary                                                 *)
Temporary == [loops |-> [s \in {"outer"} |-> ByValue(None)],
              frames |-> {f}, writes |-> {a}, keys |-> 3]

AnyCode == {Nested, NestedAlone, Twice, Suspended, Temporary}
NestedOnly == {Nested}

Symmetry == Permutations({f, g})
============================================================================
