---------------------------- MODULE MCCycleGc ----------------------------
(***************************************************************************)
(* Instances of CycleGc for TLC: the slots the script aliases.             *)
(***************************************************************************)
EXTENDS CycleGc

CONSTANT o1

NoSlots == {}
OneSlot == {<<o1, CHOOSE key \in Keys : TRUE>>}
==========================================================================
