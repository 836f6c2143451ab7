---------------------------- MODULE ArrayValues ----------------------------
(***************************************************************************)
(* What php promises of arrays and of foreach by value, and copy-on-write  *)
(* has to keep (src/ph7/hashmap.c, src/ph7/vm_ops_iter.c): an array is a   *)
(* value.  A write through a variable changes that variable's array and    *)
(* no other's, and a loop walks the array as it was when the loop began.   *)
(***************************************************************************)
EXTENDS Sequences

CONSTANTS
  Vars, Walks, Keys,
  Idle      \* stands for what an unused walk has to visit

VARIABLES
  val,    \* the array each variable holds, as its keys in order
  rest    \* what each walk has still to visit, or Idle

vars == <<val, rest>>

Init ==
  /\ val \in [Vars -> Seq(Keys)]
  /\ rest = [i \in Walks |-> Idle]

Write(v) ==
  /\ \A w \in Vars \ {v} : val'[w] = val[w]
  /\ val'[v] \in Seq(Keys)
  /\ DOMAIN val' = Vars
  /\ UNCHANGED rest

(* Walks end when they are over, and in numbers when a frame that left     *)
(* loops half way returns; a new one may begin in the place of an old.     *)
MayEnd(S) ==
  /\ \A i \in S : rest'[i] \in {rest[i], Idle}
  /\ DOMAIN rest' = Walks
  /\ UNCHANGED val

(* A loop walks a variable's array, or a temporary.                        *)
Begin(i) ==
  /\ MayEnd(Walks \ {i})
  /\ \/ \E v \in Vars : rest'[i] = val[v]
     \/ \E k \in Keys : rest'[i] = <<k>>

Visit(i) ==
  /\ rest[i] \notin {Idle, << >>}
  /\ rest' = [rest EXCEPT ![i] = Tail(@)]
  /\ UNCHANGED val

End == MayEnd(Walks)

Next ==
  \/ \E v \in Vars : Write(v)
  \/ \E i \in Walks : Begin(i) \/ Visit(i)
  \/ End

Spec == Init /\ [][Next]_vars
============================================================================
