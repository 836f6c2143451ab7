---------------------------- MODULE SignalQueue ----------------------------
(***************************************************************************)
(* What ext/pcntl promises a PHP program about the signals it handles,     *)
(* without the ring: deliveries queue in the order they arrive, and a      *)
(* dispatch detaches the whole queue before it calls anything, so that     *)
(* what arrives meanwhile waits for the next one (the header comment of    *)
(* src/ph7/builtin_pcntl.c, "A DISPATCH DETACHES THE QUEUE").              *)
(***************************************************************************)
EXTENDS Naturals, Sequences

CONSTANTS
  Signals,    \* the signals of the system
  None,       \* no signal
  Capacity    \* how many deliveries are remembered at once

VARIABLES
  fresh,      \* deliveries the next dispatch will detach
  detached,   \* deliveries the running dispatch still has to serve
  current,    \* the one it is serving
  phase       \* of the dispatch

vars == <<fresh, detached, current, phase>>

Init == fresh = << >> /\ detached = << >> /\ current = None /\ phase = "idle"

Arrive(s) ==
  /\ Len(fresh) + Len(detached) < Capacity
  /\ fresh' = Append(fresh, s)
  /\ UNCHANGED <<detached, current, phase>>

Begin ==
  /\ phase = "idle"
  /\ phase' = "begun"
  /\ UNCHANGED <<fresh, detached, current>>

Detach ==
  /\ phase = "begun"
  /\ phase' = "serving"
  /\ detached' = fresh
  /\ fresh' = << >>
  /\ UNCHANGED current

Serve ==
  /\ phase = "serving"
  /\ detached # << >>
  /\ current' = Head(detached)
  /\ detached' = Tail(detached)
  /\ UNCHANGED <<fresh, phase>>

(* A dispatch that runs out of memory leaves the rest to the next one;     *)
(* otherwise nothing is left.                                              *)
End ==
  /\ phase = "serving"
  /\ phase' = "idle"
  /\ fresh' = detached \o fresh
  /\ detached' = << >>
  /\ current' = None

(* The program the queue belongs to is torn down.                          *)
Forget ==
  /\ phase = "idle"
  /\ fresh' = << >>
  /\ UNCHANGED <<detached, current, phase>>

Next ==
  \/ \E s \in Signals : Arrive(s)
  \/ Begin \/ Detach \/ Serve \/ End \/ Forget

Spec == Init /\ [][Next]_vars
============================================================================
