-------------------------- MODULE ForeachCursors --------------------------
(***************************************************************************)
(* Arrays under foreach (src/ph7/hashmap.c, vm_ops_iter.c, vm.c).          *)
(*                                                                         *)
(* Variables share an array (a ph7_hashmap) until one of them writes.      *)
(* Each foreach owns a step with a private cursor.  The step holds a       *)
(* reference on the map it walks, and is on three lists: the map's active  *)
(* steps, which a removed node's cursors are moved through; the            *)
(* statement's aStep, which the loop finds its step on; and its frame's,   *)
(* which ends whatever a break or an exception left behind.                *)
(*                                                                         *)
(* Several frames are live at once (recursion, suspended generators) and   *)
(* any of them may run next.  A key stands for its node; each insertion    *)
(* has a key of its own.                                                   *)
(***************************************************************************)
EXTENDS Integers, Sequences, FiniteSets, Functions

CONSTANTS
  Vars,      \* the variables that may hold an array
  Frames,    \* the addresses frames are allocated at
  Stmts,     \* the foreach statements
  Codes,     \* the programs in play
  None,      \* no variable, no frame or no walk
  NMaps,     \* bound: maps allocated at a time
  NSteps,    \* bound: steps allocated at a time
  MaxKeys    \* bound: insertions

ASSUME SizesAssumption == {NMaps, NSteps, MaxKeys} \subseteq Nat
ASSUME NoneAssumption == None \notin Frames \cup Vars \cup Seq(Nat)
ASSUME VarsAssumption == IsFiniteSet(Vars)

(* ph7_foreach_info: a loop over a variable, by value or by reference, or  *)
(* over a temporary.                                                       *)
Foreach == [over: Vars \cup {None}, byRef: BOOLEAN]
(* A program: its loops, the frames its calls need at a time, the          *)
(* variables it writes, and how many keys it inserts.                      *)
Program == [loops: UNION {[S -> Foreach] : S \in SUBSET Stmts}, frames: SUBSET Frames,
            writes: SUBSET Vars, keys: 1 .. MaxKeys]
ASSUME CodesAssumption == Codes \subseteq Program

ASSUME StartAssumption == NMaps > 0 /\ MaxKeys > 0 /\ Vars # {}

VARIABLES
  code,     \* the program that runs
  var,      \* the map each variable holds, 0 for none
  map,      \* the maps
  step,     \* the foreach steps
  aStep,    \* per statement, its steps, oldest first
  owned,    \* per frame, the steps it made, newest first (pForeachSteps)
  live,     \* the frames that exist
  inside,   \* the loops whose body, or head, the frames are in
  nKeys     \* insertions so far

vars == <<code, var, map, step, aStep, owned, live, inside, nKeys>>

Maps == 1 .. NMaps
Steps == 1 .. NSteps
Key == 1 .. MaxKeys

(* ph7_hashmap; a count of 0 marks a map that is not allocated.            *)
FreeMap == [ref |-> 0, keys |-> << >>, active |-> << >>]

(* ph7_foreach_step; map 0 marks one that is not allocated.  The cursor is *)
(* the next key to visit, 0 for NULL.  History: the last key it visited,   *)
(* and the loop's variable while it has not been assigned since.           *)
FreeStep == [map |-> 0, cursor |-> 0, byRef |-> FALSE, frame |-> None,
             visited |-> 0, over |-> None]

First(keys) == IF keys = << >> THEN 0 ELSE Head(keys)
Position(keys, k) == CHOOSE i \in DOMAIN keys : keys[i] = k
After(keys, k) ==
  IF Position(keys, k) = Len(keys) THEN 0 ELSE keys[Position(keys, k) + 1]
Without(s, x) ==
  IF x \notin Range(s) THEN s
  ELSE [i \in 1 .. Len(s) - 1 |-> s[IF i < Position(s, x) THEN i ELSE i + 1]]
Least(S) == CHOOSE i \in S : \A j \in S : i <= j

---------------------------------------------------------------------------
(* The operations, as functions of the heap, so that a handler is the      *)
(* composition of the calls it makes.                                      *)

Heap == [var |-> var, map |-> map, step |-> step, aStep |-> aStep, owned |-> owned]

HeapBecomes(h) ==
  /\ var' = h.var /\ map' = h.map /\ step' = h.step
  /\ aStep' = h.aStep /\ owned' = h.owned

FreeMaps(h) == {m \in Maps : h.map[m].ref = 0}
FreeSteps(h) == {i \in Steps : h.step[i].map = 0}

NewMap(h, m, keys) == [h EXCEPT !.map[m] = [FreeMap EXCEPT !.ref = 1, !.keys = keys]]
Retain(h, m) == [h EXCEPT !.map[m].ref = @ + 1]

(* PH7_HashmapUnref                                                        *)
UnrefOnly(h, m) == [h EXCEPT !.map[m].ref = @ - 1]
Unref(h, m) ==
  IF h.map[m].ref = 1 THEN [h EXCEPT !.map[m] = FreeMap] ELSE UnrefOnly(h, m)

(* HashmapByRefStepRefs                                                    *)
ActiveStepRefs(h, m) == Len(h.map[m].active)
ByRefStepRefs(h, m) ==
  Cardinality({j \in DOMAIN h.map[m].active : h.step[h.map[m].active[j]].byRef})

(* PH7_HashmapCowSeparate on the array of variable v: a shared map is      *)
(* duplicated, unless by-ref loops are all that share it.                  *)
SeparateFrom(h, v, discount) ==
  LET m == h.var[v]
      copy == Least(FreeMaps(h))
  IN IF h.map[m].ref - discount < 2 THEN h
     ELSE [Unref(NewMap(h, copy, h.map[m].keys), m) EXCEPT !.var[v] = copy]

SeparateFromAllLoops(h, v) == SeparateFrom(h, v, ActiveStepRefs(h, h.var[v]))
Separate(h, v) == SeparateFrom(h, v, ByRefStepRefs(h, h.var[v]))

(* HashmapNodeLink: a cursor parked past the end resumes on the new node.  *)
LinkOnly(h, m, k) == [h EXCEPT !.map[m].keys = Append(@, k)]
Link(h, m, k) ==
  [LinkOnly(h, m, k) EXCEPT !.step = [i \in Steps |->
     IF i \in Range(h.map[m].active) /\ h.step[i].cursor = 0
     THEN [h.step[i] EXCEPT !.cursor = k] ELSE h.step[i]]]

(* PH7_HashmapUnlinkNode: a cursor on the removed node moves on.           *)
UnlinkOnly(h, m, k) == [h EXCEPT !.map[m].keys = Without(@, k)]
Unlink(h, m, k) ==
  [UnlinkOnly(h, m, k) EXCEPT !.step = [i \in Steps |->
     IF i \in Range(h.map[m].active) /\ h.step[i].cursor = k
     THEN [h.step[i] EXCEPT !.cursor = After(h.map[m].keys, k)] ELSE h.step[i]]]

(* PH7_HashmapRelease that keeps the instance: its cursors are parked.     *)
EmptyOnly(h, m) == [h EXCEPT !.map[m].keys = << >>]
Empty(h, m) ==
  [EmptyOnly(h, m) EXCEPT !.step = [i \in Steps |->
     IF i \in Range(h.map[m].active) THEN [h.step[i] EXCEPT !.cursor = 0] ELSE h.step[i]]]

(* PH7_HashmapRegisterForeachStep, PH7_HashmapUnregisterForeachStep        *)
Register(h, m, i) ==
  [h EXCEPT !.step[i].cursor = First(h.map[m].keys), !.map[m].active = <<i>> \o @]
Unregister(h, i) == [h EXCEPT !.map[h.step[i].map].active = Without(@, i)]

(* VmForeachStepUnlink: off the statement's list and its frame's.          *)
StepUnlink(h, i) ==
  [h EXCEPT !.aStep = [s \in Stmts |-> Without(h.aStep[s], i)],
            !.owned = [f \in Frames |-> Without(h.owned[f], i)]]

(* VmForeachHashmapStepRelease                                             *)
FreedRegistered(h, i) ==
  Unref([StepUnlink(h, i) EXCEPT !.step[i] = FreeStep], h.step[i].map)
StepRelease(h, i) ==
  Unref([StepUnlink(Unregister(h, i), i) EXCEPT !.step[i] = FreeStep], h.step[i].map)

(* Releasing a list of steps, head first                                   *)
ReleaseAll(h, list) ==
  LET left[n \in 0 .. Len(list)] ==
        IF n = 0 THEN h ELSE StepRelease(left[n - 1], list[n])
  IN left[Len(list)]

(* What frame f has left on statement s, newest first                      *)
Leftover(h, f, s) ==
  LET mine == {j \in DOMAIN h.aStep[s] : h.step[h.aStep[s][j]].frame = f}
      down == CHOOSE d \in [1 .. Cardinality(mine) -> mine] :
                \A i, j \in DOMAIN d : i < j => d[i] > d[j]
  IN [n \in DOMAIN down |-> h.aStep[s][down[n]]]

---------------------------------------------------------------------------
(* Frames                                                                  *)

Enter(f) ==
  /\ f \in code.frames \ live
  /\ live' = live \cup {f}
  /\ UNCHANGED <<code, var, map, step, aStep, owned, inside, nKeys>>

LeaveBehind(f) ==
  /\ f \in live
  /\ live' = live \ {f}
  /\ inside' = {l \in inside : l[1] # f}
  /\ UNCHANGED <<code, var, map, step, aStep, owned, nKeys>>

(* VmLeaveFrame, VmFreeDetachedFrame: the frame ends the walks it owns.    *)
Leave(f) ==
  /\ f \in live
  /\ live' = live \ {f}
  /\ inside' = {l \in inside : l[1] # f}
  /\ HeapBecomes(ReleaseAll(Heap, owned[f]))
  /\ UNCHANGED <<code, nKeys>>

---------------------------------------------------------------------------
(* OP_FOREACH_INIT                                                         *)

NewStep(h, f, s, m) ==
  LET i == Least(FreeSteps(h))
      made == [FreeStep EXCEPT !.map = m, !.byRef = code.loops[s].byRef, !.frame = f,
                               !.over = code.loops[s].over]
  IN [Register([h EXCEPT !.step[i] = made], m, i) EXCEPT
        !.aStep[s] = Append(@, i), !.owned[f] = <<i>> \o @]

CanOpen(f, s) ==
  /\ f \in live
  /\ <<f, s>> \notin inside
  /\ inside' = inside \cup {<<f, s>>}
  /\ UNCHANGED <<code, live>>

Reclaimed(f, s) == ReleaseAll(Heap, Leftover(Heap, f, s))

(* Over a variable: this activation's leftover step for the statement is   *)
(* reclaimed, a by-ref loop separates the array first, and the step takes  *)
(* its reference.                                                          *)
Open(f, s) ==
  LET v == code.loops[s].over
      h == Reclaimed(f, s)
      own == IF code.loops[s].byRef THEN Separate(h, v) ELSE h
  IN /\ CanOpen(f, s)
     /\ v # None /\ var[v] # 0
     /\ FreeSteps(h) # {} /\ FreeMaps(h) # {}
     /\ HeapBecomes(NewStep(Retain(own, own.var[v]), f, s, own.var[v]))
     /\ UNCHANGED nKeys

(* Over a temporary, or a snapshot of $GLOBALS: nothing else holds it once *)
(* the operand is popped.                                                  *)
OpenTemporary(f, s) ==
  LET h == Reclaimed(f, s)
      m == Least(FreeMaps(h))
  IN /\ CanOpen(f, s)
     /\ code.loops[s].over = None
     /\ FreeMaps(h) # {} /\ FreeSteps(h) # {}
     /\ nKeys < code.keys /\ nKeys' = nKeys + 1
     /\ HeapBecomes(NewStep(NewMap(h, m, <<nKeys + 1>>), f, s, m))

(* OP_FOREACH_STEP selects this activation's step: the newest of the       *)
(* statement's whose frame is the running one, or else the newest.         *)
Newest(f, s) == aStep[s][Len(aStep[s])]
Selected(f, s) ==
  LET mine == {j \in DOMAIN aStep[s] : step[aStep[s][j]].frame = f}
  IN IF mine = {} THEN Newest(f, s)
     ELSE aStep[s][CHOOSE j \in mine : \A k \in mine : k <= j]

(* It visits the node under the cursor, which moves on before the body     *)
(* runs; with none left the walk is over.                                  *)
StepOn(f, s) ==
  LET i == Selected(f, s)
      k == step[i].cursor
  IN /\ <<f, s>> \in inside /\ aStep[s] # << >>
     /\ IF k = 0
        THEN /\ HeapBecomes(StepRelease(Heap, i))
             /\ inside' = inside \ {<<f, s>>}
        ELSE /\ step' = [step EXCEPT ![i].cursor = After(map[step[i].map].keys, k),
                                     ![i].visited = k]
             /\ UNCHANGED <<var, map, aStep, owned, inside>>
     /\ UNCHANGED <<code, live, nKeys>>

(* break, continue to an outer loop, goto, or an exception caught in the   *)
(* same function: the step stays.                                          *)
Break(f, s) ==
  /\ <<f, s>> \in inside
  /\ inside' = inside \ {<<f, s>>}
  /\ UNCHANGED <<code, var, map, step, aStep, owned, live, nKeys>>

---------------------------------------------------------------------------
(* The script's other code                                                 *)

Assigned(h, v) ==
  [h EXCEPT !.step = [i \in Steps |->
     IF h.step[i].over = v THEN [h.step[i] EXCEPT !.over = None] ELSE h.step[i]]]

(* Code that writes runs in some frame, and needs a map to separate into.  *)
CanWrite(v) == live # {} /\ var[v] # 0 /\ FreeMaps(Heap) # {}

AppendTo(v) ==
  /\ CanWrite(v)
  /\ nKeys < code.keys /\ nKeys' = nKeys + 1
  /\ LET h == Separate(Heap, v) IN HeapBecomes(Link(h, h.var[v], nKeys + 1))
  /\ UNCHANGED <<code, live, inside>>

UnsetKey(v, k) ==
  /\ CanWrite(v)
  /\ k \in Range(map[var[v]].keys)
  /\ LET h == Separate(Heap, v) IN HeapBecomes(Unlink(h, h.var[v], k))
  /\ UNCHANGED <<code, live, inside, nKeys>>

(* array_erase()                                                           *)
Erase(v) ==
  /\ CanWrite(v)
  /\ LET h == Separate(Heap, v) IN HeapBecomes(Empty(h, h.var[v]))
  /\ UNCHANGED <<code, live, inside, nKeys>>

(* PH7_MemObjRelease of an array                                           *)
Drop(h, v) == IF h.var[v] = 0 THEN h ELSE [Unref(h, h.var[v]) EXCEPT !.var[v] = 0]

AssignUncounted(v, w) ==
  /\ live # {} /\ var[w] # 0 /\ var[v] # var[w]
  /\ HeapBecomes([Drop(Assigned(Heap, v), v) EXCEPT !.var[v] = var[w]])
  /\ UNCHANGED <<code, live, inside, nKeys>>

(* $v = $w shares the array (PH7_MemObjStore).                             *)
Assign(v, w) ==
  /\ live # {} /\ var[w] # 0 /\ var[v] # var[w]
  /\ HeapBecomes([Drop(Retain(Assigned(Heap, v), var[w]), v) EXCEPT !.var[v] = var[w]])
  /\ UNCHANGED <<code, live, inside, nKeys>>

(* unset($v), or a value that is no array                                  *)
Forget(v) ==
  /\ live # {} /\ var[v] # 0
  /\ HeapBecomes(Drop(Assigned(Heap, v), v))
  /\ UNCHANGED <<code, live, inside, nKeys>>

---------------------------------------------------------------------------
Init ==
  /\ code \in Codes
  /\ var \in {[w \in Vars |-> IF w = v THEN 1 ELSE 0] : v \in code.writes}
  /\ map = [m \in Maps |-> IF m = 1 THEN [FreeMap EXCEPT !.ref = 1, !.keys = <<1>>]
                           ELSE FreeMap]
  /\ step = [i \in Steps |-> FreeStep]
  /\ aStep = [s \in Stmts |-> << >>]
  /\ owned = [f \in Frames |-> << >>]
  /\ live = {} /\ inside = {} /\ nKeys = 1

Loop(f, s) ==
  \/ Open(f, s) \/ OpenTemporary(f, s)
  \/ StepOn(f, s) \/ Break(f, s)

Mutate(v) ==
  \/ AppendTo(v) \/ Erase(v) \/ Forget(v)
  \/ \E k \in Key : UnsetKey(v, k)
  \/ \E w \in code.writes : Assign(v, w)

Next ==
  \/ \E f \in Frames : Enter(f) \/ Leave(f)
  \/ \E f \in Frames, s \in DOMAIN code.loops : Loop(f, s)
  \/ \E v \in code.writes : Mutate(v)

Spec == Init /\ [][Next]_vars

---------------------------------------------------------------------------
(* Properties                                                              *)

InUse(i) == step[i].map # 0

(* What each variable holds; a map nobody holds is empty and unregistered. *)
TypeOK ==
  /\ code \in Codes
  /\ var \in [Vars -> {0} \cup Maps]
  /\ map \in [Maps -> [ref: Nat, keys: Seq(Key), active: Seq(Steps)]]
  /\ \A m \in Maps : map[m].ref = 0 => map[m] = FreeMap
  /\ step \in [Steps -> [map: {0} \cup Maps, cursor: {0} \cup Key, byRef: BOOLEAN,
                         frame: Frames \cup {None}, over: Vars \cup {None},
                         visited: {0} \cup Key]]
  /\ aStep \in [Stmts -> Seq(Steps)]
  /\ owned \in [Frames -> Seq(Steps)]
  /\ live \subseteq Frames
  /\ inside \subseteq live \X Stmts
  /\ nKeys \in 0 .. MaxKeys

(* A map is counted once for each variable and each step that holds it, so *)
(* it is freed with its last holder, and the discount a by-ref loop gets   *)
(* when an array is about to be separated is a reference it really has.    *)
CountsExact ==
  \A m \in Maps : map[m].ref = Cardinality({v \in Vars : var[v] = m})
                             + Cardinality({i \in Steps : step[i].map = m})

(* A list of steps holds each of the steps of S once, and no other.        *)
Lists(list, S) == Range(list) = S /\ Len(list) = Cardinality(S)

(* The three lists agree: a step in use is on its map's, on its frame's    *)
(* and on one statement's, one in the pool is on none, and no step         *)
(* outlives the frame that made it.                                        *)
Registered ==
  /\ \A m \in Maps : Lists(map[m].active, {i \in Steps : step[i].map = m})
  /\ \A f \in Frames : Lists(owned[f], {i \in Steps : InUse(i) /\ step[i].frame = f})
  /\ \A i \in Steps : InUse(i) =>
       /\ step[i].frame \in live
       /\ Cardinality({s \in Stmts : i \in Range(aStep[s])}) = 1
  /\ \A s \in Stmts : Lists(aStep[s], {i \in Steps : i \in Range(aStep[s]) /\ InUse(i)})

(* Keys from the cursor on                                                 *)
Rest(i) ==
  LET keys == map[step[i].map].keys
  IN IF step[i].cursor = 0 THEN << >>
     ELSE SubSeq(keys, Position(keys, step[i].cursor), Len(keys))

(* A walk has before it exactly the nodes of its map it has not visited,   *)
(* which were inserted after the last one it has: whatever is inserted and *)
(* removed under it, by its own body or by a nested loop, it skips none    *)
(* and visits none twice.                                                  *)
RestIsUnseen ==
  \A i \in Steps : InUse(i) =>
    /\ step[i].cursor # 0 => step[i].cursor \in Range(map[step[i].map].keys)
    /\ Range(Rest(i)) = {k \in Range(map[step[i].map].keys) : k > step[i].visited}

(* A loop goes on with the step its own activation made for it, whichever  *)
(* activations of the same statement are suspended half way.               *)
OwnStep ==
  \A f \in Frames, s \in Stmts : <<f, s>> \in inside =>
    /\ aStep[s] # << >>
    /\ step[Selected(f, s)].frame = f
    /\ Cardinality({j \in DOMAIN aStep[s] : step[aStep[s][j]].frame = f}) = 1

(* Copy-on-write keeps arrays values, and by-value loops snapshots.        *)
Values == INSTANCE ArrayValues WITH
  Walks <- Steps, Keys <- Key, Idle <- None,
  val <- [v \in Vars |-> IF var[v] = 0 THEN << >> ELSE map[var[v]].keys],
  rest <- [i \in Steps |-> IF InUse(i) /\ ~step[i].byRef THEN Rest(i) ELSE None]
ArraysAreValues == Values!Spec

(* A by-ref loop walks the array its variable holds.                       *)
ByRefWalksLive ==
  \A i \in Steps :
    step[i].byRef /\ step[i].over # None => var[step[i].over] = step[i].map
============================================================================
