------------------------------ MODULE CycleGc ------------------------------
(***************************************************************************)
(* Reference counting and the cycle collector of the PHL virtual machine   *)
(* (vm_gc.c, with the drop and release paths of hashmap.c and oo.c).       *)
(*                                                                         *)
(* A container is an array (ph7_hashmap) or an object (ph7_class_instance).*)
(* It owns value slots; a slot that names a container is one edge.  The    *)
(* script holds containers through variables and operands, counted in      *)
(* "ext".  "rc" is the field iRef, which the collector itself lowers and   *)
(* raises while it works; "debt" is a history variable, the set of slots   *)
(* whose reference the collector has subtracted and not yet put back.      *)
(*                                                                         *)
(* C code runs to completion between two places where PHP may run: the     *)
(* fetch point of the interpreter and the body of a __destruct.  "stack"   *)
(* is the C stack as far as it matters: releases tearing a container down, *)
(* destructor bodies, and the collection itself.  Work lists are sets: the *)
(* order in which the code pops them is left open.                         *)
(***************************************************************************)
EXTENDS Integers, Sequences, FiniteSets

CONSTANTS
  Maps,          (* arrays the script may allocate                          *)
  Objects,       (* objects the script may allocate                         *)
  Keys,          (* slots of one container                                  *)
  Nil,           (* a slot that names no container                          *)
  HasDtor,       (* objects whose class declares __destruct                 *)
  Weak,          (* objects the script holds a WeakReference to             *)
  Walkable,      (* containers the script iterates (by-ref foreach)         *)
  Aliasable,     (* slots the script takes a PHP reference to               *)
  MayDisable,    (* whether the script calls gc_disable / gc_enable         *)
  MaxExt,        (* bound: references the script holds to one container     *)
  ThresholdMin,  (* VM_GC_THRESHOLD_MIN                                     *)
  ThresholdMax   (* VM_GC_THRESHOLD_MAX                                     *)

Cont == Maps \cup Objects
Slots == Cont \X Keys

ASSUME FiniteHeap == IsFiniteSet(Cont) /\ IsFiniteSet(Keys)
ASSUME DisjointKinds == Maps \cap Objects = {}
ASSUME NilIsNoContainer == Nil \notin Cont
ASSUME ObjectSubsets == HasDtor \subseteq Objects /\ Weak \subseteq Objects
ASSUME ScriptAbilities == /\ Walkable \subseteq Cont
                          /\ Aliasable \subseteq Slots
                          /\ MayDisable \in BOOLEAN
ASSUME Bounds == /\ MaxExt \in Nat \ {0}
                 /\ ThresholdMin \in Nat \ {0}
                 /\ ThresholdMax \in Nat

VARIABLES
  status,      (* "free", "live", or "dying" once its release has begun     *)
  slot,        (* Slots -> container named by the slot                      *)
  named,       (* slots some variable is a PHP reference to                 *)
  bound,       (* property slots under a counted pin (REFSRCPIN)            *)
  ext,         (* references held by variables and operands                 *)
  rc,          (* iRef                                                      *)
  hold,        (* pins taken by the collector and around a destructor       *)
  walked,      (* containers with an open foreach step or attribute walk    *)
  dtorCalled,  (* CLASS_INSTANCE_DTOR_CALLED                                *)
  color,       (* iGcColor                                                  *)
  roots,       (* containers a row of aGcRoot names (nGcRoot # 0)           *)
  rows,        (* SySetUsed(aGcRoot), rows nulled by PH7_GcForget included  *)
  enabled,     (* bGcEnabled                                                *)
  wanted,      (* bGcWanted                                                 *)
  threshold,   (* nGcThreshold                                              *)
  pc,          (* step of PH7_GcCollect; "idle" is bGcRunning = 0           *)
  todo,        (* members the current loop of PH7_GcCollect has still ahead *)
  work,        (* aGcWork                                                   *)
  aux,         (* aGcAux                                                    *)
  dead,        (* aGcDead                                                   *)
  nRoots,      (* rows the running collection started with                  *)
  verified,    (* what VmGcVerifyDead answered                              *)
  debt,        (* history: slots whose reference is subtracted              *)
  stack        (* C frames: "tear", "dtor" or "gc", innermost first         *)

heap == <<status, slot, named, bound, ext, hold, walked, dtorCalled>>
buffer == <<roots, rows, enabled, wanted, threshold>>
round == <<pc, todo, work, aux, dead, nRoots, verified, debt>>
vars == <<heap, rc, color, buffer, round, stack>>

Colors == {"black", "grey", "white", "purple", "dead"}
Steps == {"idle", "mark", "scan", "white", "restore", "dtors", "cut", "give"}
Frame(kind, c, left) == [kind |-> kind, obj |-> c, left |-> left]
Frames == [kind : {"tear", "dtor"}, obj : Cont, left : SUBSET Keys] \cup {Frame("gc", Nil, {})}

(* The frame running now: the script itself when C has nothing on its stack. *)
Top == IF stack = << >> THEN Frame("php", Nil, {}) ELSE Head(stack)

Init ==
  /\ status = [c \in Cont |-> "free"]
  /\ slot = [e \in Slots |-> Nil]
  /\ named = {} /\ bound = {}
  /\ ext = [c \in Cont |-> 0]
  /\ rc = [c \in Cont |-> 0]
  /\ hold = [c \in Cont |-> 0]
  /\ walked = {} /\ dtorCalled = {}
  /\ color = [c \in Cont |-> "black"]
  /\ roots = {} /\ rows = 0
  /\ enabled = TRUE /\ wanted = FALSE
  /\ threshold = ThresholdMin
  /\ pc = "idle"
  /\ todo = {} /\ work = {} /\ aux = {} /\ dead = {}
  /\ nRoots = 0 /\ verified = FALSE
  /\ debt = {}
  /\ stack = << >>

-----------------------------------------------------------------------------
(* What the collector sees.                                                *)

Running == pc # "idle"

(* VmGcSlotOwned: nobody but the container holds the slot.                 *)
SlotOwned(e) == e \notin named \cup bound

(* VmGcCollectable: no walk in flight, and no object mid-release.          *)
CollectableGiven(c, walks) == c \notin walks /\ (c \in Objects => status[c] # "dying")
Collectable(c) == CollectableGiven(c, walked)

(* VmGcWalkChildren: the edges of c it visits.                             *)
Visible(c) == {e \in {c} \X Keys : /\ slot[e] # Nil
                                   /\ SlotOwned(e)
                                   /\ Collectable(slot[e])}
Children(c) == {slot[e] : e \in Visible(c)}
Weight(edges, d) == Cardinality({e \in edges : slot[e] = d})

(* PH7_GcPossibleRoot                                                      *)
PossibleRoot(c, walks) ==
  IF enabled /\ ~Running /\ CollectableGiven(c, walks) /\ c \notin roots
    THEN /\ roots' = roots \cup {c}
         /\ rows' = rows + 1
         /\ color' = [color EXCEPT ![c] = "purple"]
         /\ wanted' = (wanted \/ rows + 1 >= threshold)
    ELSE UNCHANGED <<roots, rows, color, wanted>>

(* Mutant of Marked: the release leaves no mark.                           *)
MarkedNot(c) == status

(* CLASS_INSTANCE_DESTROYED is set before the destructor runs.  An array   *)
(* has no such mark: for it this is what the C stack says.                 *)
Marked(c) == [status EXCEPT ![c] = "dying"]

(* The count of c reached zero: PH7_HashmapRelease starts tearing, while   *)
(* PH7_ClassInstanceRelease marks the object and runs its destructor first.*)
Release(c, cnt, pins, below) ==
  IF c \in Objects /\ status[c] = "dying"
    THEN /\ rc' = cnt
         /\ hold' = pins
         /\ stack' = below
         /\ UNCHANGED <<status, dtorCalled>>
    ELSE /\ status' = Marked(c)
         /\ dtorCalled' = dtorCalled \cup ({c} \cap Objects)
         /\ IF c \in HasDtor \ dtorCalled
              THEN /\ hold' = [pins EXCEPT ![c] = @ + 2]
                   /\ rc' = [cnt EXCEPT ![c] = @ + 2]
                   /\ stack' = <<Frame("dtor", c, {})>> \o below
              ELSE /\ hold' = pins
                   /\ rc' = cnt
                   /\ stack' = <<Frame("tear", c, Keys)>> \o below

(* PH7_HashmapUnref, PH7_ClassInstanceUnref: cnt is iRef before the drop,  *)
(* pins the holds, below the C stack and walks the walks open by then.     *)
UnrefGiven(c, cnt, pins, below, walks) ==
  LET less == [cnt EXCEPT ![c] = @ - 1]
  IN IF less[c] < 1
       THEN Release(c, less, pins, below) /\ UNCHANGED <<roots, rows, color, wanted>>
       ELSE /\ PossibleRoot(c, walks)
            /\ rc' = less
            /\ hold' = pins
            /\ stack' = below
            /\ UNCHANGED <<status, dtorCalled>>

Unref(c, cnt, below) == UnrefGiven(c, cnt, hold, below, walked)

(* A slot loses its owner.  A value another name still holds survives      *)
(* under that name; any other is released.                                 *)
ReleaseSlot(e, below) ==
  /\ slot' = [slot EXCEPT ![e] = Nil]
  /\ named' = named \ {e}
  /\ bound' = bound \ {e}
  /\ IF slot[e] # Nil /\ e \notin named
       THEN Unref(slot[e], rc, below) /\ UNCHANGED ext
       ELSE /\ ext' = IF slot[e] = Nil THEN ext ELSE [ext EXCEPT ![slot[e]] = @ + 1]
            /\ stack' = below
            /\ UNCHANGED <<rc, status, dtorCalled, hold, roots, rows, color, wanted>>

-----------------------------------------------------------------------------
(* What the script does between two fetch points, or inside a destructor.  *)

(* C code has returned to the interpreter.                                 *)
AtFetchPoint == Top.kind \in {"php", "dtor"}

(* A wanted collection runs before the next instruction does.              *)
PhpRuns == AtFetchPoint /\ ~wanted

(* The script has the container in a variable, or as the running $this.    *)
Held(c) == ext[c] > 0 \/ Top.obj = c

Holders(e) == Held(e[1]) \/ e \in named

(* PH7_NewHashmap, NewClassInstance: a zeroed block with one reference.    *)
New(c) ==
  /\ PhpRuns /\ status[c] = "free"
  /\ status' = [status EXCEPT ![c] = "live"]
  /\ ext' = [ext EXCEPT ![c] = 1]
  /\ rc' = [rc EXCEPT ![c] = 1]
  /\ color' = [color EXCEPT ![c] = "black"]
  /\ dtorCalled' = dtorCalled \ {c}
  /\ UNCHANGED <<slot, named, bound, hold, walked, buffer, round, stack>>

TakeRef(c) ==
  /\ ext[c] < MaxExt
  /\ ext' = [ext EXCEPT ![c] = @ + 1]
  /\ rc' = [rc EXCEPT ![c] = @ + 1]
  /\ UNCHANGED <<status, slot, named, bound, hold, walked, dtorCalled, color,
                 buffer, round, stack>>

(* A variable, an element or an alias is read into another variable.       *)
Copy(c) ==
  /\ PhpRuns
  /\ Held(c) \/ \E e \in Slots : slot[e] = c /\ Holders(e)
  /\ TakeRef(c)

(* WeakReference::get() on a cell the release has not killed yet.          *)
WeakGet(c) ==
  /\ PhpRuns /\ c \in Weak /\ status[c] # "free"
  /\ \A i \in DOMAIN stack : ~(stack[i].kind = "tear" /\ stack[i].obj = c)
  /\ TakeRef(c)

(* Mutant of Drop: the reference of an open walk goes like any other.      *)
DropAny(c) ==
  /\ PhpRuns /\ ext[c] > 0
  /\ ext' = [ext EXCEPT ![c] = @ - 1]
  /\ Unref(c, rc, stack)
  /\ UNCHANGED <<slot, named, bound, walked, enabled, threshold, round>>

(* A variable goes away or is overwritten.                                 *)
Drop(c) ==
  /\ PhpRuns /\ ext[c] > (IF c \in walked THEN 1 ELSE 0)
  /\ ext' = [ext EXCEPT ![c] = @ - 1]
  /\ Unref(c, rc, stack)
  /\ UNCHANGED <<slot, named, bound, walked, enabled, threshold, round>>

(* PH7_HashmapCowSeparate returns the map itself: no other sharer.         *)
SoleOwner(c) == rc[c] - (IF c \in walked THEN 1 ELSE 0) < 2

(* A slot is written through its container, or through an alias of it:     *)
(* PH7_MemObjStore takes the new reference before it drops the old one.    *)
Store(e, d) ==
  /\ PhpRuns
  /\ d \in {Nil} \cup {c \in Cont : Held(c) /\ ext[c] <= MaxExt}
  /\ \/ Held(e[1]) /\ (e[1] \in Maps => SoleOwner(e[1]) /\ d # e[1])
     \/ e \in named
  /\ slot[e] # d
  /\ slot' = [slot EXCEPT ![e] = d]
  /\ LET taken == IF d = Nil THEN rc ELSE [rc EXCEPT ![d] = @ + 1]
     IN IF slot[e] = Nil
          THEN /\ rc' = taken
               /\ UNCHANGED <<status, dtorCalled, hold, stack, roots, rows, color, wanted>>
          ELSE Unref(slot[e], taken, stack)
  /\ UNCHANGED <<named, bound, ext, walked, enabled, threshold, round>>

(* unset($o->p), unset($a[k])                                              *)
Unset(e) ==
  /\ PhpRuns /\ Held(e[1]) /\ slot[e] # Nil
  /\ e[1] \in Maps => SoleOwner(e[1])
  /\ ReleaseSlot(e, stack)
  /\ UNCHANGED <<walked, enabled, threshold, round>>

(* PH7_HashmapCowSeparate: a variable that shares map c gets the copy n.   *)
(* The count of c is lowered in place, without PH7_HashmapUnref.           *)
Separate(c, n) ==
  /\ PhpRuns /\ ext[c] > (IF c \in walked THEN 1 ELSE 0) /\ ~SoleOwner(c)
  /\ status[n] = "free"
  /\ \A k \in Keys : SlotOwned(<<c, k>>)
  /\ status' = [status EXCEPT ![n] = "live"]
  /\ slot' = [e \in Slots |-> IF e[1] = n THEN slot[<<c, e[2]>>] ELSE slot[e]]
  /\ ext' = [ext EXCEPT ![c] = @ - 1, ![n] = 1]
  /\ rc' = [d \in Cont |-> IF d = n THEN 1
                           ELSE rc[d] + Weight({c} \X Keys, d) - (IF d = c THEN 1 ELSE 0)]
  /\ color' = [color EXCEPT ![n] = "black"]
  /\ UNCHANGED <<named, bound, hold, walked, dtorCalled, buffer, round, stack>>

(* foreach by reference registers its step and retains the container.      *)
OpenWalk(c) ==
  /\ PhpRuns /\ c \in Walkable \ walked /\ Held(c)
  /\ walked' = walked \cup {c}
  /\ ext' = [ext EXCEPT ![c] = @ + 1]
  /\ rc' = [rc EXCEPT ![c] = @ + 1]
  /\ UNCHANGED <<status, slot, named, bound, hold, dtorCalled, color, buffer, round, stack>>

(* Mutant of CloseWalk: the reference goes while the step is still hooked. *)
CloseWalkHooked(c) ==
  /\ PhpRuns /\ c \in walked
  /\ walked' = walked \ {c}
  /\ ext' = [ext EXCEPT ![c] = @ - 1]
  /\ UnrefGiven(c, rc, hold, stack, walked)
  /\ UNCHANGED <<slot, named, bound, enabled, threshold, round>>

(* VmForeachStepRelease: the step is unhooked before its reference goes.   *)
CloseWalk(c) ==
  /\ PhpRuns /\ c \in walked
  /\ walked' = walked \ {c}
  /\ ext' = [ext EXCEPT ![c] = @ - 1]
  /\ UnrefGiven(c, rc, hold, stack, walked \ {c})
  /\ UNCHANGED <<slot, named, bound, enabled, threshold, round>>

(* $r =& $a[k] adds a name to the element's slot; $r =& $o->p also pins    *)
(* the property's slot for good.                                           *)
Alias(e) ==
  /\ PhpRuns /\ e \in Aliasable \ named /\ Held(e[1])
  /\ e[1] \in Maps => SoleOwner(e[1])
  /\ named' = named \cup {e}
  /\ bound' = bound \cup ({e} \cap (Objects \X Keys))
  /\ UNCHANGED <<status, slot, ext, rc, hold, walked, dtorCalled, color, buffer, round, stack>>

(* unset($r): the slot still has its owner, so no reference is dropped.    *)
Unalias(e) ==
  /\ PhpRuns /\ e \in named
  /\ named' = named \ {e}
  /\ UNCHANGED <<status, slot, bound, ext, rc, hold, walked, dtorCalled, color,
                 buffer, round, stack>>

(* gc_enable(), gc_disable()                                               *)
Toggle ==
  /\ PhpRuns /\ MayDisable
  /\ enabled' = ~enabled
  /\ UNCHANGED <<heap, rc, color, roots, rows, wanted, threshold, round, stack>>

(* A destructor body returns.  PH7_ClassInstanceRelease frees the object   *)
(* only if the body left no reference behind; after a destructor run by    *)
(* the collector the object simply stays.                                  *)
DtorReturn ==
  /\ Top.kind = "dtor"
  /\ LET c == Top.obj
         resurrected == rc[c] - 2 > 0
     IN /\ hold' = [hold EXCEPT ![c] = @ - 2]
        /\ rc' = [rc EXCEPT ![c] = @ - 2]
        /\ status' = [status EXCEPT ![c] = IF resurrected THEN "live" ELSE @]
        /\ stack' = IF status[c] = "dying" /\ ~resurrected
                      THEN <<Frame("tear", c, Keys)>> \o Tail(stack)
                      ELSE Tail(stack)
  /\ UNCHANGED <<slot, named, bound, ext, walked, dtorCalled, color, buffer, round>>

-----------------------------------------------------------------------------
(* Tearing a container down: its slots one by one, then the memory.        *)

Tearing == Top.kind = "tear"

TearSlot(k) ==
  /\ Tearing /\ k \in Top.left
  /\ ReleaseSlot(<<Top.obj, k>>, <<[Top EXCEPT !.left = @ \ {k}]>> \o Tail(stack))
  /\ UNCHANGED <<walked, enabled, threshold, round>>

(* Mutant of Forget: the row keeps naming the container.                   *)
ForgetNothing(c) == roots' = roots

(* PH7_GcForget, then the block goes back to the pool.                     *)
Forget(c) == roots' = roots \ {c}

TearEnd ==
  /\ Tearing /\ Top.left = {}
  /\ LET c == Top.obj
     IN /\ Forget(c)
        /\ status' = [status EXCEPT ![c] = "free"]
        /\ dtorCalled' = dtorCalled \ {c}
        /\ color' = [color EXCEPT ![c] = "black"]
  /\ stack' = Tail(stack)
  /\ UNCHANGED <<slot, named, bound, ext, rc, hold, walked, rows, enabled, wanted,
                 threshold, round>>

-----------------------------------------------------------------------------
(* PH7_GcCollect.                                                          *)

Collecting == Top.kind = "gc"

StayInHeap == UNCHANGED <<heap, buffer, stack>>

(* VmGcAdjustThreshold                                                     *)
Adjusted(collected) ==
  IF collected * 4 < nRoots
    THEN IF threshold < ThresholdMax THEN 2 * threshold ELSE threshold
    ELSE ThresholdMin

(* The fetch point answers bGcWanted, or the script calls                  *)
(* gc_collect_cycles().                                                    *)
Collect ==
  /\ AtFetchPoint
  /\ wanted' = FALSE
  /\ IF Running \/ rows = 0
       THEN UNCHANGED <<round, stack>>
       ELSE /\ pc' = "mark" /\ todo' = roots /\ nRoots' = rows
            /\ work' = {} /\ aux' = {} /\ dead' = {} /\ verified' = FALSE
            /\ stack' = <<Frame("gc", Nil, {})>> \o stack
            /\ UNCHANGED debt
  /\ UNCHANGED <<heap, rc, color, roots, rows, enabled, threshold>>

(* (1) VmGcMarkGrey on the next root, VmGcMarkVisit on a popped container. *)
MarkRoot(r) ==
  /\ Collecting /\ pc = "mark" /\ work = {} /\ r \in todo
  /\ todo' = todo \ {r}
  /\ IF Collectable(r) /\ color[r] # "grey"
       THEN color' = [color EXCEPT ![r] = "grey"] /\ work' = {r}
       ELSE UNCHANGED <<color, work>>
  /\ UNCHANGED <<rc, pc, aux, dead, nRoots, verified, debt>> /\ StayInHeap

(* Mutant of MarkVisit: grey children are pushed again.                    *)
MarkVisitAgain(c) ==
  /\ Collecting /\ pc = "mark" /\ c \in work
  /\ rc' = [d \in Cont |-> rc[d] - Weight(Visible(c), d)]
  /\ color' = [d \in Cont |-> IF d \in Children(c) THEN "grey" ELSE color[d]]
  /\ work' = (work \ {c}) \cup Children(c)
  /\ debt' = debt \cup Visible(c)
  /\ UNCHANGED <<pc, todo, aux, dead, nRoots, verified>> /\ StayInHeap

MarkVisit(c) ==
  /\ Collecting /\ pc = "mark" /\ c \in work
  /\ rc' = [d \in Cont |-> rc[d] - Weight(Visible(c), d)]
  /\ color' = [d \in Cont |-> IF d \in Children(c) THEN "grey" ELSE color[d]]
  /\ work' = (work \ {c}) \cup {d \in Children(c) : color[d] # "grey"}
  /\ debt' = debt \cup Visible(c)
  /\ UNCHANGED <<pc, todo, aux, dead, nRoots, verified>> /\ StayInHeap

MarkDone ==
  /\ Collecting /\ pc = "mark" /\ todo = {} /\ work = {}
  /\ pc' = "scan" /\ todo' = roots
  /\ UNCHANGED <<rc, color, work, aux, dead, nRoots, verified, debt>> /\ StayInHeap

(* (2) VmGcScan, with VmGcScanBlack draining its own list in between.      *)
ScanRoot(r) ==
  /\ Collecting /\ pc = "scan" /\ work = {} /\ aux = {} /\ r \in todo
  /\ todo' = todo \ {r}
  /\ work' = IF Collectable(r) THEN {r} ELSE {}
  /\ UNCHANGED <<rc, color, pc, aux, dead, nRoots, verified, debt>> /\ StayInHeap

(* Mutant of ScanVisit: a container already scanned is scanned again.      *)
ScanVisitAgain(c) ==
  /\ Collecting /\ pc = "scan" /\ aux = {} /\ c \in work
  /\ IF rc[c] > 0 \/ ~Collectable(c)
       THEN /\ color' = [color EXCEPT ![c] = "black"]
            /\ aux' = {c}
            /\ work' = work \ {c}
       ELSE /\ color' = [color EXCEPT ![c] = "white"]
            /\ work' = (work \ {c}) \cup Children(c)
            /\ UNCHANGED aux
  /\ UNCHANGED <<rc, pc, todo, dead, nRoots, verified, debt>> /\ StayInHeap

ScanVisit(c) ==
  /\ Collecting /\ pc = "scan" /\ aux = {} /\ c \in work
  /\ IF color[c] # "grey"
       THEN work' = work \ {c} /\ UNCHANGED <<color, aux>>
       ELSE IF rc[c] > 0 \/ ~Collectable(c)
       THEN /\ color' = [color EXCEPT ![c] = "black"]
            /\ aux' = {c}
            /\ work' = work \ {c}
       ELSE /\ color' = [color EXCEPT ![c] = "white"]
            /\ work' = (work \ {c}) \cup Children(c)
            /\ UNCHANGED aux
  /\ UNCHANGED <<rc, pc, todo, dead, nRoots, verified, debt>> /\ StayInHeap

BlackVisit(c) ==
  /\ Collecting /\ pc = "scan" /\ c \in aux
  /\ rc' = [d \in Cont |-> rc[d] + Weight(Visible(c), d)]
  /\ color' = [d \in Cont |-> IF d \in Children(c) THEN "black" ELSE color[d]]
  /\ aux' = (aux \ {c}) \cup {d \in Children(c) : color[d] # "black"}
  /\ debt' = debt \ Visible(c)
  /\ UNCHANGED <<pc, todo, work, dead, nRoots, verified>> /\ StayInHeap

ScanDone ==
  /\ Collecting /\ pc = "scan" /\ todo = {} /\ work = {} /\ aux = {}
  /\ pc' = "white" /\ todo' = roots
  /\ UNCHANGED <<rc, color, work, aux, dead, nRoots, verified, debt>> /\ StayInHeap

(* (3) VmGcCollectWhite                                                    *)
WhiteRoot(r) ==
  /\ Collecting /\ pc = "white" /\ work = {} /\ r \in todo
  /\ todo' = todo \ {r}
  /\ work' = IF Collectable(r) THEN {r} ELSE {}
  /\ UNCHANGED <<rc, color, pc, aux, dead, nRoots, verified, debt>> /\ StayInHeap

WhiteVisit(c) ==
  /\ Collecting /\ pc = "white" /\ c \in work
  /\ IF color[c] # "white"
       THEN work' = work \ {c} /\ UNCHANGED <<color, dead>>
       ELSE /\ color' = [color EXCEPT ![c] = "dead"]
            /\ dead' = dead \cup {c}
            /\ work' = (work \ {c}) \cup Children(c)
  /\ UNCHANGED <<rc, pc, todo, aux, nRoots, verified, debt>> /\ StayInHeap

EndRound(collected) ==
  /\ pc' = "idle"
  /\ threshold' = Adjusted(collected)
  /\ dead' = {} /\ todo' = {} /\ nRoots' = 0 /\ verified' = FALSE
  /\ stack' = Tail(stack)

(* The buffer is spent; every member of the dead list gets one hold.       *)
WhiteDone ==
  /\ Collecting /\ pc = "white" /\ todo = {} /\ work = {}
  /\ color' = [c \in Cont |-> IF c \in roots /\ color[c] # "dead" THEN "black" ELSE color[c]]
  /\ roots' = {} /\ rows' = 0
  /\ IF dead = {}
       THEN EndRound(0) /\ UNCHANGED <<rc, hold>>
       ELSE /\ pc' = "restore" /\ todo' = dead
            /\ rc' = [c \in Cont |-> IF c \in dead THEN rc[c] + 1 ELSE rc[c]]
            /\ hold' = [c \in Cont |-> IF c \in dead THEN hold[c] + 1 ELSE hold[c]]
            /\ UNCHANGED <<threshold, dead, nRoots, verified, stack>>
  /\ UNCHANGED <<status, slot, named, bound, ext, walked, dtorCalled, enabled, wanted,
                 work, aux, debt>>

(* Mutant of Restore: only children that are dead too get theirs back.     *)
RestoreDeadOnly(c) ==
  LET inner == {e \in Visible(c) : slot[e] \in dead}
  IN /\ Collecting /\ pc = "restore" /\ c \in todo
     /\ todo' = todo \ {c}
     /\ rc' = [d \in Cont |-> rc[d] + Weight(inner, d)]
     /\ debt' = debt \ inner
     /\ UNCHANGED <<color, pc, work, aux, dead, nRoots, verified>> /\ StayInHeap

(* (4) VmGcRestoreDead: the children of the dead get their counts back.    *)
Restore(c) ==
  /\ Collecting /\ pc = "restore" /\ c \in todo
  /\ todo' = todo \ {c}
  /\ rc' = [d \in Cont |-> rc[d] + Weight(Visible(c), d)]
  /\ debt' = debt \ Visible(c)
  /\ UNCHANGED <<color, pc, work, aux, dead, nRoots, verified>> /\ StayInHeap

RestoreDone ==
  /\ Collecting /\ pc = "restore" /\ todo = {}
  /\ pc' = "dtors" /\ todo' = dead
  /\ UNCHANGED <<rc, color, work, aux, dead, nRoots, verified, debt>> /\ StayInHeap

(* PH7_ClassInstanceCallDestructor on a member not yet destructed.         *)
Destruct(c) ==
  /\ Collecting /\ pc = "dtors" /\ c \in todo
  /\ todo' = todo \ {c}
  /\ dtorCalled' = dtorCalled \cup ({c} \cap Objects)
  /\ IF c \in HasDtor \ dtorCalled
       THEN /\ hold' = [hold EXCEPT ![c] = @ + 2]
            /\ rc' = [rc EXCEPT ![c] = @ + 2]
            /\ stack' = <<Frame("dtor", c, {})>> \o stack
       ELSE UNCHANGED <<hold, rc, stack>>
  /\ UNCHANGED <<status, slot, named, bound, ext, walked, color, buffer, pc, work, aux,
                 dead, nRoots, verified, debt>>

(* Mutant of InnerEdges: edges to children outside the dead set as well.   *)
AllDeadEdges == {e \in Slots : e[1] \in dead /\ e \in Visible(e[1])}

(* (5) VmGcVerifyDead subtracts the edges inside the dead set, compares    *)
(* and adds them back: the counts it leaves are the counts it found.       *)
InnerEdges == {e \in Slots : e[1] \in dead /\ e \in Visible(e[1]) /\ color[slot[e]] = "dead"}

(* Mutants of OnlyHeldByCollector: no proof at all; too weak a one.        *)
NoProof == TRUE
AtLeastOurs == \A c \in dead : rc[c] - Weight(InnerEdges, c) >= 1

OnlyHeldByCollector == \A c \in dead : rc[c] - Weight(InnerEdges, c) = 1

Verify ==
  /\ Collecting /\ pc = "dtors" /\ todo = {}
  /\ verified' = OnlyHeldByCollector
  /\ pc' = "cut"
  /\ UNCHANGED <<rc, color, todo, work, aux, dead, nRoots, debt>> /\ StayInHeap

(* VmGcCutVisit releases the value in a slot between two dead members.     *)
Cut(e) ==
  /\ Collecting /\ pc = "cut" /\ verified /\ e \in InnerEdges
  /\ slot' = [slot EXCEPT ![e] = Nil]
  /\ Unref(slot[e], rc, stack)
  /\ UNCHANGED <<named, bound, ext, walked, enabled, threshold, round>>

(* Mutant of CutDone: the dead keep their colour.                          *)
CutDoneColored ==
  /\ Collecting /\ pc = "cut" /\ (verified => InnerEdges = {})
  /\ pc' = "give" /\ todo' = dead
  /\ UNCHANGED <<rc, color, work, aux, dead, nRoots, verified, debt>> /\ StayInHeap

CutDone ==
  /\ Collecting /\ pc = "cut" /\ (verified => InnerEdges = {})
  /\ pc' = "give" /\ todo' = dead
  /\ color' = [c \in Cont |-> IF c \in dead /\ color[c] = "dead" THEN "black" ELSE color[c]]
  /\ UNCHANGED <<rc, work, aux, dead, nRoots, verified, debt>> /\ StayInHeap

(* (6) The hold is given back and the member dies its ordinary death.      *)
GiveBack(c) ==
  /\ Collecting /\ pc = "give" /\ c \in todo
  /\ todo' = todo \ {c}
  /\ UnrefGiven(c, rc, [hold EXCEPT ![c] = @ - 1], stack, walked)
  /\ UNCHANGED <<slot, named, bound, ext, walked, enabled, threshold, pc, work, aux, dead,
                 nRoots, verified, debt>>

CollectDone ==
  /\ Collecting /\ pc = "give" /\ todo = {}
  /\ EndRound(IF verified THEN Cardinality(dead) ELSE 0)
  /\ UNCHANGED <<heap, rc, color, roots, rows, enabled, wanted, work, aux, debt>>

-----------------------------------------------------------------------------
PhpStep ==
  \/ \E c \in Cont : \/ New(c) \/ Copy(c) \/ WeakGet(c) \/ Drop(c)
                     \/ OpenWalk(c) \/ CloseWalk(c)
  \/ \E e \in Slots : \/ \E d \in Cont \cup {Nil} : Store(e, d)
                      \/ Unset(e) \/ Alias(e) \/ Unalias(e)
  \/ \E c, n \in Maps : Separate(c, n)
  \/ Toggle

TearStep == (\E k \in Keys : TearSlot(k)) \/ TearEnd

CollectorStep ==
  \/ \E c \in Cont : \/ MarkRoot(c) \/ MarkVisit(c)
                     \/ ScanRoot(c) \/ ScanVisit(c) \/ BlackVisit(c)
                     \/ WhiteRoot(c) \/ WhiteVisit(c)
                     \/ Restore(c) \/ Destruct(c) \/ GiveBack(c)
  \/ \E e \in Slots : Cut(e)
  \/ MarkDone \/ ScanDone \/ WhiteDone \/ RestoreDone \/ Verify \/ CutDone \/ CollectDone

Next == PhpStep \/ DtorReturn \/ TearStep \/ Collect \/ CollectorStep

Spec == Init /\ [][Next]_vars

(* C code that has begun runs on; PHP owes no further instruction.         *)
FairSpec == Spec /\ WF_vars(TearStep) /\ WF_vars(CollectorStep)

-----------------------------------------------------------------------------
(* Properties.                                                             *)

(* Every variable keeps its type.                                          *)
TypeOK ==
  /\ status \in [Cont -> {"free", "live", "dying"}]
  /\ slot \in [Slots -> Cont \cup {Nil}]
  /\ named \subseteq Slots /\ bound \subseteq Slots /\ debt \subseteq Slots
  /\ ext \in [Cont -> Nat] /\ rc \in [Cont -> Int] /\ hold \in [Cont -> Int]
  /\ walked \subseteq Cont /\ dtorCalled \subseteq Objects
  /\ color \in [Cont -> Colors]
  /\ roots \subseteq Cont /\ rows \in Nat
  /\ enabled \in BOOLEAN /\ wanted \in BOOLEAN /\ threshold \in Nat
  /\ pc \in Steps /\ nRoots \in Nat /\ verified \in BOOLEAN
  /\ todo \subseteq Cont /\ work \subseteq Cont /\ aux \subseteq Cont /\ dead \subseteq Cont
  /\ stack \in Seq(Frames)

(* The slots that still contribute to the count of c.                      *)
Counted(c) == {e \in Slots : slot[e] = c /\ e \notin debt}

(* At every step of a collection, with destructors rewiring the heap in    *)
(* the middle of it, iRef is the references that exist minus those the     *)
(* collector has subtracted: no edge is subtracted or put back twice.      *)
CountsExact == \A c \in Cont : rc[c] = ext[c] + hold[c] + Cardinality(Counted(c))

(* Nothing stays subtracted when PHP or a release may look at a count.     *)
DebtSettled == pc \notin {"mark", "scan", "white", "restore"} => debt = {}

(* What the script can still get at: its variables and aliases, the $this  *)
(* of every destructor on the stack, and all those lead to.                *)
Anchors == {c \in Cont : ext[c] > 0} \cup {slot[e] : e \in named}
             \cup {stack[i].obj : i \in {j \in DOMAIN stack : stack[j].kind = "dtor"}}
Closed(S) == \A e \in Slots : e[1] \in S /\ slot[e] # Nil => slot[e] \in S
ReachableFrom(A) == {c \in Cont : \A S \in SUBSET Cont : A \cap Cont \subseteq S /\ Closed(S) => c \in S}
Reachable == ReachableFrom(Anchors)

Torn(c) == \E i \in DOMAIN stack : stack[i].kind = "tear" /\ stack[i].obj = c

(* No container the script can reach is ever torn down, by a last drop or  *)
(* by a collection, nor does a collection cut an edge of one, whatever     *)
(* destructors do while it runs.                                           *)
ReachableIsKept ==
  /\ \A c \in Cont : Torn(c) => c \notin Reachable
  /\ pc = "cut" /\ verified => dead \cap Reachable = {}

(* No slot and no row of the root buffer names memory given back.          *)
NothingNamesFreed ==
  /\ \A e \in Slots : slot[e] # Nil => status[slot[e]] # "free"
  /\ \A c \in roots : status[c] # "free"

(* A container is torn down by one release only.                           *)
TornOnce == \A i, j \in DOMAIN stack :
              stack[i].kind = "tear" /\ stack[j].kind = "tear" /\ stack[i].obj = stack[j].obj => i = j

(* Cutting an edge inside the dead set frees nothing: every child is held. *)
CutFreesNothing == pc = "cut" => Collecting

(* Once the round is proved and cut, a member falls to zero and dies as    *)
(* soon as its hold is given back, whatever the destructors of what the    *)
(* members before it held have done; unless one has taken it from a        *)
(* WeakReference.                                                          *)
CutMembersDie ==
  [][pc = "give" /\ verified => \A c \in (todo \ todo') \ Weak : status'[c] # "live"]_vars

(* Between collections no colour is left that would hide a container from  *)
(* the next one, and purple marks exactly the buffered roots.              *)
ColorsClean ==
  pc = "idle" => \A c \in Cont : color[c] = IF c \in roots THEN "purple" ELSE "black"

(* The edges a collection starting at r would follow.                      *)
FollowedFrom(r) ==
  {c \in Cont : \A S \in SUBSET Cont :
     r \in S /\ (\A s \in S : Children(s) \subseteq S) => c \in S}

(* Trial deletion needs no root set: whatever became unreachable without   *)
(* being freed is found from a row of the root buffer.                     *)
NoGarbageLost ==
  stack = << >> => \A c \in Cont :
    status[c] = "live" /\ c \notin Reachable => \E r \in roots : c \in FollowedFrom(r)

(* A collection ends, if no destructor it runs goes on for ever.           *)
RoundEnds == pc # "idle" ~> pc = "idle"
=============================================================================
