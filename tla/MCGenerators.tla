---------------------------- MODULE MCGenerators ----------------------------
(* Small instances of Generators.                                          *)
EXTENDS Generators

CONSTANTS g1, g2, f1, m

(* Two functions, or one that both generators run. *)
OwnFunctions == [g \in Gens |-> g]
OneFunction == [g \in Gens |-> g1]

(* Two tries around a position of the first generator, one around one of   *)
(* the second and of the fiber.                                            *)
FirstNests == [b \in Bodies |-> CASE b = g1 -> 2 [] b = Main -> 0 [] OTHER -> 1]

(* Every kind of try in the first generator, and in the second the one     *)
(* that has both blocks.                                                   *)
SomeKinds == [b \in Bodies |-> CASE b = g1 -> TryKinds [] b = g2 -> {"both"} [] OTHER -> {"catch"}]

(* The script drives the first generator and the fiber, the generator the  *)
(* other two, and the fiber the second generator.                          *)
Nested ==
  [b \in Bodies |-> CASE b = Main -> {g1, f1}
                      [] b = g1 -> {g2, f1}
                      [] b = f1 -> {g2}
                      [] OTHER -> {}]

=============================================================================
