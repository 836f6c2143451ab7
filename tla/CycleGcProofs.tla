--------------------------- MODULE CycleGcProofs ---------------------------
(***************************************************************************)
(* Theorems about CycleGc, for every number of containers and slots.       *)
(***************************************************************************)
EXTENDS CycleGc, TLAPS, FiniteSetTheorems, SequenceTheorems

---------------------------------------------------------------------------
(* The invariant                                                           *)

(* The passes in which an edge may be subtracted.                          *)
Inner == pc \in {"mark", "scan", "white", "restore"}

(* Nothing runs above the collection while it counts or cuts; and without  *)
(* destructors there is nothing below it while it counts.                  *)
Control ==
  /\ Inner \/ pc = "cut" => Collecting
  /\ HasDtor = {} => /\ \A i \in DOMAIN stack : stack[i].kind # "dtor"
                     /\ Inner => Len(stack) = 1

(* An open walk is one of the script's references.                         *)
WalkHeld == \A c \in walked : ext[c] > 0

(* The heap, with its counts: over parameters, since a release looks at it *)
(* in the middle of a step.  st is status, sl slot, nm named, ex ext, ct   *)
(* rc, pn hold, dc dtorCalled, rt roots, db debt, stk the stack.           *)
Naming(sl, db, c) == {e \in Slots : sl[e] = c /\ e \notin db}
Exact(sl, ex, ct, pn, db) ==
  \A c \in Cont : ct[c] = ex[c] + pn[c] + Cardinality(Naming(sl, db, c))

Unnamed(sl, ex, pn, c) == ex[c] = 0 /\ pn[c] = 0 /\ \A e \in Slots : sl[e] # c
Gone(sl, nm, e) == sl[e] = Nil /\ e \notin nm

(* A free block is named by nothing and names nothing.                     *)
Freed(st, sl, nm, ex, pn, rt) == \A c \in Cont : st[c] = "free" =>
  Unnamed(sl, ex, pn, c) /\ c \notin rt /\ \A k \in Keys : Gone(sl, nm, <<c, k>>)

(* A container being torn down is named by nothing, and the slots it has   *)
(* lost stay lost; one whose destructor runs is marked.                    *)
FrameOK(f, st, sl, nm, ex, pn, dc) ==
  /\ f.kind = "tear" => /\ f.obj \in Cont /\ st[f.obj] = "dying"
                        /\ Unnamed(sl, ex, pn, f.obj)
                        /\ \A k \in Keys \ f.left : Gone(sl, nm, <<f.obj, k>>)
  /\ f.kind = "dtor" => f.obj \in dc

(* No container is torn down twice, or destructed twice, at a time.        *)
Distinct(stk) == \A i, j \in DOMAIN stk :
  /\ stk[i].kind = stk[j].kind /\ stk[i].obj = stk[j].obj
  /\ stk[i].kind # "gc"
  => i = j

Framed(stk, st, sl, nm, ex, pn, dc) ==
  /\ \A i \in DOMAIN stk : FrameOK(stk[i], st, sl, nm, ex, pn, dc)
  /\ Distinct(stk)

(* The pins: one of the collection, two around a destructor.               *)
HeldByGc == IF pc \in {"restore", "dtors", "cut"} THEN dead
            ELSE IF pc = "give" THEN todo ELSE {}
Destructing(stk, c) == \E i \in DOMAIN stk : stk[i].kind = "dtor" /\ stk[i].obj = c
Pinned(pn, stk, held) == \A c \in Cont :
  pn[c] = (IF c \in held THEN 1 ELSE 0) + (IF Destructing(stk, c) THEN 2 ELSE 0)

Sound(st, sl, nm, ex, ct, pn, dc, rt, db, stk, held) ==
  /\ Exact(sl, ex, ct, pn, db)
  /\ Freed(st, sl, nm, ex, pn, rt)
  /\ Framed(stk, st, sl, nm, ex, pn, dc)
  /\ Pinned(pn, stk, held)

HeapOK == Sound(status, slot, named, ext, rc, hold, dtorCalled, roots, debt, stack, HeldByGc)

(* Which edges are subtracted.                                             *)
Painted(col) == {c \in Cont : color[c] = col}
EdgesOf(S) == {e \in Slots : e[1] \in S /\ e \in Visible(e[1])}
Subtracted ==
  CASE pc = "mark" -> Painted("grey") \ work
    [] pc = "scan" -> Painted("grey") \cup Painted("white") \cup aux
    [] pc = "white" -> Painted("white") \cup Painted("dead")
    [] pc = "restore" -> todo
    [] OTHER -> {}
DebtOK == debt = EdgesOf(Subtracted)

(* What each pass paints.                                                  *)
Paints(c, cols) == color[c] \in cols \/ (color[c] = "purple" /\ c \in roots)
ColorsOK == \A c \in Cont :
  /\ pc = "idle" => color[c] = IF c \in roots THEN "purple" ELSE "black"
  /\ pc = "mark" => Paints(c, {"grey", "black"})
  /\ pc = "scan" => Paints(c, {"grey", "white", "black"})
  /\ pc = "white" => Paints(c, {"white", "dead", "black"})
  /\ pc \in {"restore", "dtors", "cut"} =>
       c \notin roots /\ color[c] = IF c \in dead THEN "dead" ELSE "black"
  /\ pc = "give" => c \notin roots /\ color[c] = "black"

(* No set of G avoids both the containers still ahead and an edge that     *)
(* leads into it from the rest of G or from X: all of G will be visited.   *)
Reached(G, ahead, X) ==
  \A S \in SUBSET G : S # {} /\ S \cap ahead = {} =>
    \E e \in Slots : slot[e] \in S /\ e \in Visible(e[1]) /\ e[1] \in (G \ S) \cup X

Counting == Painted("grey") \cup Painted("white")

MarkOK == pc = "mark" =>
  /\ aux = {} /\ dead = {}
  /\ work \subseteq Painted("grey")
  /\ \A c \in Painted("grey") \ work : Children(c) \subseteq Painted("grey")
  /\ Reached(Painted("grey"), roots, {})

ScanOK == pc = "scan" =>
  /\ dead = {}
  /\ aux \subseteq Painted("black")
  /\ \A c \in Counting \cup aux : Children(c) \subseteq Counting \cup Painted("black")
  /\ Reached(Painted("grey"), todo \cup work, aux)
  /\ Reached(Counting, roots, aux)

WhiteOK == pc = "white" =>
  /\ dead = Painted("dead")
  /\ Reached(Painted("white"), todo \cup work, {})

(* What a pass has painted may be collected, and is not free.              *)
PaintedOK == Inner => \A c \in Counting \cup Painted("dead") :
                        Collectable(c) /\ status[c] # "free"

(* The loops of the passes run over roots, the later ones over the dead.   *)
TodoOK == /\ pc \in {"mark", "scan", "white"} => todo \subseteq roots
          /\ pc \in {"restore", "dtors", "give"} => todo \subseteq dead

(* After the proof, only edges the collection will cut name a dead member. *)
CutOK == pc = "cut" /\ verified => \A c \in dead :
           /\ ext[c] = 0 /\ hold[c] = 1
           /\ \A e \in Slots : slot[e] = c => e \in InnerEdges

RoundOK == DebtOK /\ ColorsOK /\ MarkOK /\ ScanOK /\ WhiteOK /\ PaintedOK /\ TodoOK /\ CutOK

GcInv == TypeOK /\ WalkHeld /\ Control /\ HeapOK /\ RoundOK

---------------------------------------------------------------------------
(* Sets and sequences                                                      *)

(* Slots are finitely many, so that a container has a number of names.     *)
LEMMA SlotsFinite ==
  ASSUME NEW S \in SUBSET Slots
  PROVE  IsFiniteSet(S) /\ Cardinality(S) \in Nat
<1>1. IsFiniteSet(Slots)
  BY FiniteHeap, FS_Product DEF Slots
<1> QED BY <1>1, FS_Subset, FS_CardinalityType

(* Edges that leave a count.                                               *)
LEMMA LessEdges ==
  ASSUME NEW S \in SUBSET Slots, NEW T \in SUBSET S
  PROVE  Cardinality(S \ T) = Cardinality(S) - Cardinality(T)
<1>1. IsFiniteSet(S) /\ IsFiniteSet(T)
  BY SlotsFinite
<1>2. Cardinality(S \ T) = Cardinality(S) - Cardinality(S \cap T)
  BY <1>1, FS_Difference
<1>3. S \cap T = T
  OBVIOUS
<1> QED BY <1>2, <1>3

(* Edges that come to a count which none of them was in.                   *)
LEMMA MoreEdges ==
  ASSUME NEW S \in SUBSET Slots, NEW T \in SUBSET Slots, S \cap T = {}
  PROVE  Cardinality(S \cup T) = Cardinality(S) + Cardinality(T)
<1>1. IsFiniteSet(S) /\ IsFiniteSet(T)
      /\ Cardinality(S) \in Nat /\ Cardinality(T) \in Nat
  BY SlotsFinite
<1>2. Cardinality(S \cup T) = Cardinality(S) + Cardinality(T) - Cardinality(S \cap T)
  BY <1>1, FS_Union
<1>3. Cardinality(S \cap T) = 0
  BY FS_EmptySet
<1> QED BY <1>1, <1>2, <1>3

(* No edge at all.                                                         *)
LEMMA NoEdges ==
  ASSUME NEW S \in SUBSET Slots
  PROVE  Cardinality(S) = 0 <=> S = {}
BY SlotsFinite, FS_EmptySet

(* What a push does to the stack,                                          *)
LEMMA Push ==
  ASSUME NEW s \in Seq(Frames), NEW f \in Frames
  PROVE  /\ <<f>> \o s \in Seq(Frames)
         /\ DOMAIN (<<f>> \o s) = 1 .. (Len(s) + 1)
         /\ DOMAIN s = 1 .. Len(s) /\ Len(s) \in Nat
         /\ Len(<<f>> \o s) = Len(s) + 1
         /\ \A i \in 1 .. (Len(s) + 1) :
              (<<f>> \o s)[i] = IF i = 1 THEN f ELSE s[i - 1]
         /\ <<f>> \o s # << >> /\ Head(<<f>> \o s) = f
<1> DEFINE t == <<f>> \o s
<1>1. <<f>> \in Seq(Frames) /\ Len(<<f>>) = 1 /\ <<f>>[1] = f
  OBVIOUS
<1>2. /\ t \in Seq(Frames) /\ Len(t) = Len(s) + 1
      /\ \A i \in 1 .. (Len(s) + 1) : t[i] = IF i = 1 THEN f ELSE s[i - 1]
  BY <1>1, ConcatProperties
<1>3. DOMAIN t = 1 .. (Len(s) + 1) /\ DOMAIN s = 1 .. Len(s) /\ Len(s) \in Nat
  BY <1>2, LenProperties
<1> QED BY <1>2, <1>3

(* and what a pop does.                                                    *)
LEMMA Pop ==
  ASSUME NEW s \in Seq(Frames), s # << >>
  PROVE  /\ Tail(s) \in Seq(Frames) /\ Head(s) \in Frames /\ Head(s) = s[1]
         /\ DOMAIN s = 1 .. Len(s) /\ Len(s) \in Nat \ {0}
         /\ DOMAIN Tail(s) = 1 .. (Len(s) - 1)
         /\ Len(Tail(s)) = Len(s) - 1
         /\ \A i \in 1 .. (Len(s) - 1) : Tail(s)[i] = s[i + 1]
<1>1. Tail(s) \in Seq(Frames) /\ Head(s) \in Frames /\ Len(Tail(s)) = Len(s) - 1
      /\ \A i \in 1 .. Len(Tail(s)) : Tail(s)[i] = s[i + 1]
  BY HeadTailProperties
<1>2. DOMAIN s = 1 .. Len(s) /\ Len(s) \in Nat \ {0}
  BY LenProperties, EmptySeq
<1>3. DOMAIN Tail(s) = 1 .. Len(Tail(s))
  BY <1>1, LenProperties
<1> QED BY <1>1, <1>2, <1>3

(* A frame that takes the place of the first one.                          *)
LEMMA Replace ==
  ASSUME NEW s \in Seq(Frames), s # << >>, NEW g \in Frames
  PROVE  /\ <<g>> \o Tail(s) \in Seq(Frames)
         /\ DOMAIN (<<g>> \o Tail(s)) = DOMAIN s /\ 1 \in DOMAIN s
         /\ (<<g>> \o Tail(s))[1] = g
         /\ \A i \in DOMAIN s : i # 1 => (<<g>> \o Tail(s))[i] = s[i]
<1> DEFINE t == Tail(s)
           u == <<g>> \o t
<1>1. /\ t \in Seq(Frames) /\ DOMAIN s = 1 .. Len(s) /\ Len(s) \in Nat \ {0}
      /\ Len(t) = Len(s) - 1 /\ \A i \in 1 .. (Len(s) - 1) : t[i] = s[i + 1]
  BY Pop, ZenonT(30)
<1> HIDE DEF t
<1>2. /\ u \in Seq(Frames) /\ DOMAIN u = 1 .. (Len(t) + 1)
      /\ \A i \in 1 .. (Len(t) + 1) : u[i] = IF i = 1 THEN g ELSE t[i - 1]
  BY <1>1, Push, Zenon
<1> HIDE DEF u
<1>3. Len(t) + 1 = Len(s) /\ 1 \in 1 .. Len(s)
  BY <1>1
<1>4. DOMAIN u = DOMAIN s /\ 1 \in DOMAIN s /\ u[1] = g
  BY <1>1, <1>2, <1>3
<1>5. ASSUME NEW i \in DOMAIN s, i # 1 PROVE u[i] = s[i]
  <2>1. i \in 1 .. (Len(t) + 1) /\ i - 1 \in 1 .. (Len(s) - 1) /\ (i - 1) + 1 = i
    BY <1>1, <1>3, <1>5
  <2>2. u[i] = t[i - 1]
    BY <1>2, <1>5, <2>1
  <2>3. t[i - 1] = s[(i - 1) + 1]
    BY <1>1, <2>1
  <2> QED BY <2>1, <2>2, <2>3
<1> QED BY <1>2, <1>4, <1>5 DEF u, t

---------------------------------------------------------------------------
(* Types                                                                   *)

(* The frame that runs is the script, or the first of the C stack.         *)
LEMMA TopFrame ==
  ASSUME TypeOK
  PROVE  /\ stack = << >> => Top.kind = "php" /\ Top.obj = Nil
         /\ stack # << >> =>
              /\ Top \in Frames /\ Top = stack[1]
              /\ Tail(stack) \in Seq(Frames)
              /\ Top.kind \in {"tear", "dtor", "gc"}
              /\ Top.kind # "gc" => Top.obj \in Cont /\ Top.left \subseteq Keys
BY Pop DEF TypeOK, Top, Frame, Frames

(* Buffering a container keeps the types.                                  *)
LEMMA PossibleRootTypes ==
  ASSUME TypeOK, NEW c \in Cont, NEW walks, PossibleRoot(c, walks)
  PROVE  /\ color' \in [Cont -> Colors] /\ roots' \subseteq Cont /\ rows' \in Nat
         /\ wanted' \in BOOLEAN
<1>1. CASE UNCHANGED <<roots, rows, color, wanted>>
  BY <1>1 DEF TypeOK
<1>2. CASE /\ roots' = roots \cup {c} /\ rows' = rows + 1
           /\ color' = [color EXCEPT ![c] = "purple"]
           /\ wanted' = (wanted \/ rows + 1 >= threshold)
  <2>1. wanted' \in BOOLEAN
    BY <1>2, Zenon
  <2>2. "purple" \in Colors
    BY DEF Colors
  <2>3. color' \in [Cont -> Colors]
    BY <1>2, <2>2 DEF TypeOK
  <2>4. roots' \subseteq Cont /\ rows' \in Nat
    BY <1>2 DEF TypeOK
  <2> QED BY <2>1, <2>3, <2>4
<1> QED BY <1>1, <1>2, Zenon DEF PossibleRoot

(* Dropping a reference keeps the types.                                   *)
LEMMA UnrefTypes ==
  ASSUME TypeOK, NEW c \in Cont, NEW cnt \in [Cont -> Int], NEW pins \in [Cont -> Int],
         NEW below \in Seq(Frames), NEW walks, UnrefGiven(c, cnt, pins, below, walks)
  PROVE  /\ status' \in [Cont -> {"free", "live", "dying"}] /\ dtorCalled' \subseteq Objects
         /\ rc' \in [Cont -> Int] /\ hold' \in [Cont -> Int]
         /\ color' \in [Cont -> Colors] /\ roots' \subseteq Cont /\ rows' \in Nat
         /\ wanted' \in BOOLEAN /\ stack' \in Seq(Frames)
<1> DEFINE less == [cnt EXCEPT ![c] = @ - 1]
<1>1. less \in [Cont -> Int]
  OBVIOUS
<1>2. CASE less[c] < 1
  <2>1. Release(c, less, pins, below) /\ UNCHANGED <<roots, rows, color, wanted>>
    BY <1>2 DEF UnrefGiven
  <2>2. Frame("dtor", c, {}) \in Frames /\ Frame("tear", c, Keys) \in Frames
    BY DEF Frame, Frames
  <2>3. /\ <<Frame("dtor", c, {})>> \o below \in Seq(Frames)
        /\ <<Frame("tear", c, Keys)>> \o below \in Seq(Frames)
    BY <2>2, Push
  <2> HIDE DEF less
  <2>4. /\ status' \in [Cont -> {"free", "live", "dying"}] /\ dtorCalled' \subseteq Objects
        /\ rc' \in [Cont -> Int] /\ hold' \in [Cont -> Int] /\ stack' \in Seq(Frames)
    <3>1. CASE c \in Objects /\ status[c] = "dying"
      BY <1>1, <2>1, <3>1 DEF Release, Marked, TypeOK
    <3>2. CASE ~(c \in Objects /\ status[c] = "dying")
      <4>1. status' = [status EXCEPT ![c] = "dying"] /\ dtorCalled' = dtorCalled \cup ({c} \cap Objects)
        BY <2>1, <3>2 DEF Release, Marked
      <4>2. CASE c \in HasDtor \ dtorCalled
        <5>1. /\ hold' = [pins EXCEPT ![c] = @ + 2] /\ rc' = [less EXCEPT ![c] = @ + 2]
              /\ stack' = <<Frame("dtor", c, {})>> \o below
          BY <2>1, <3>2, <4>2 DEF Release, Marked
        <5> QED BY <1>1, <2>3, <4>1, <5>1 DEF TypeOK
      <4>3. CASE c \notin HasDtor \ dtorCalled
        <5>1. hold' = pins /\ rc' = less /\ stack' = <<Frame("tear", c, Keys)>> \o below
          BY <2>1, <3>2, <4>3 DEF Release, Marked
        <5> QED BY <1>1, <2>3, <4>1, <5>1 DEF TypeOK
      <4> QED BY <4>2, <4>3
    <3> QED BY <3>1, <3>2
  <2> QED BY <2>1, <2>4 DEF TypeOK
<1>3. CASE ~(less[c] < 1)
  <2>1. /\ PossibleRoot(c, walks) /\ rc' = less /\ hold' = pins /\ stack' = below
        /\ UNCHANGED <<status, dtorCalled>>
    BY <1>3 DEF UnrefGiven
  <2> HIDE DEF less
  <2> QED BY <1>1, <2>1, PossibleRootTypes DEF TypeOK
<1> QED BY <1>2, <1>3

(* So does a slot that loses its owner.                                    *)
LEMMA ReleaseSlotTypes ==
  ASSUME TypeOK, NEW e \in Slots, NEW below \in Seq(Frames), ReleaseSlot(e, below)
  PROVE  /\ status' \in [Cont -> {"free", "live", "dying"}] /\ dtorCalled' \subseteq Objects
         /\ slot' \in [Slots -> Cont \cup {Nil}]
         /\ named' \subseteq Slots /\ bound' \subseteq Slots
         /\ ext' \in [Cont -> Nat] /\ (\A c \in Cont : ext'[c] >= ext[c])
         /\ rc' \in [Cont -> Int] /\ hold' \in [Cont -> Int]
         /\ color' \in [Cont -> Colors] /\ roots' \subseteq Cont /\ rows' \in Nat
         /\ wanted' \in BOOLEAN /\ stack' \in Seq(Frames)
<1>0. /\ slot' \in [Slots -> Cont \cup {Nil}]
      /\ named' \subseteq Slots /\ bound' \subseteq Slots
  BY DEF ReleaseSlot, TypeOK
<1>1. CASE slot[e] # Nil /\ e \notin named
  <2>1. slot[e] \in Cont /\ UnrefGiven(slot[e], rc, hold, below, walked)
    BY <1>1 DEF ReleaseSlot, Unref, TypeOK
  <2>2. rc \in [Cont -> Int] /\ hold \in [Cont -> Int]
    BY DEF TypeOK
  <2>3. ext' = ext
    BY <1>1 DEF ReleaseSlot
  <2>4. ext' \in [Cont -> Nat] /\ (\A c \in Cont : ext'[c] >= ext[c])
    BY <2>3 DEF TypeOK
  <2> QED BY <1>0, <2>1, <2>2, <2>4, UnrefTypes
<1>2. CASE ~(slot[e] # Nil /\ e \notin named)
  <2>1. /\ ext' = IF slot[e] = Nil THEN ext ELSE [ext EXCEPT ![slot[e]] = @ + 1]
        /\ stack' = below
        /\ UNCHANGED <<rc, status, dtorCalled, hold, roots, rows, color, wanted>>
    BY <1>2 DEF ReleaseSlot
  <2>2. slot[e] \in Cont \cup {Nil} /\ ext \in [Cont -> Nat]
    BY DEF TypeOK
  <2>3. ext' \in [Cont -> Nat] /\ (\A c \in Cont : ext'[c] >= ext[c])
    BY <2>1, <2>2
  <2> QED BY <1>0, <2>1, <2>3 DEF TypeOK
<1> QED BY <1>1, <1>2

(* What the script does.                                                   *)
LEMMA PhpTypes == TypeOK /\ WalkHeld /\ PhpStep => TypeOK' /\ WalkHeld'
<1> SUFFICES ASSUME TypeOK, WalkHeld, PhpStep PROVE TypeOK' /\ WalkHeld'
  OBVIOUS
<1> USE DEF heap, buffer, round
<1>0. rc \in [Cont -> Int] /\ hold \in [Cont -> Int] /\ stack \in Seq(Frames)
  BY DEF TypeOK
<1>1. ASSUME NEW c \in Cont, New(c) PROVE TypeOK' /\ WalkHeld'
  BY <1>1 DEF New, TypeOK, WalkHeld, Colors
<1>2. ASSUME NEW c \in Cont, Copy(c) \/ WeakGet(c) PROVE TypeOK' /\ WalkHeld'
  <2>1. TakeRef(c)
    BY <1>2 DEF Copy, WeakGet
  <2> QED BY <2>1 DEF TakeRef, TypeOK, WalkHeld
<1>3. ASSUME NEW c \in Cont, Drop(c) PROVE TypeOK' /\ WalkHeld'
  <2>1. UnrefGiven(c, rc, hold, stack, walked)
    BY <1>3 DEF Drop, Unref
  <2>2. ext[c] \in Nat \ {0} /\ (c \in walked => ext[c] > 1)
    BY <1>3 DEF Drop, TypeOK
  <2>3. ext' \in [Cont -> Nat] /\ WalkHeld'
    BY <1>3, <2>2 DEF Drop, TypeOK, WalkHeld
  <2> QED BY <1>0, <1>3, <2>1, <2>3, UnrefTypes DEF Drop, TypeOK
<1>4. ASSUME NEW c \in Cont, OpenWalk(c) PROVE TypeOK' /\ WalkHeld'
  BY <1>4 DEF OpenWalk, TypeOK, WalkHeld
<1>5. ASSUME NEW c \in Cont, CloseWalk(c) PROVE TypeOK' /\ WalkHeld'
  <2>1. UnrefGiven(c, rc, hold, stack, walked \ {c})
    BY <1>5 DEF CloseWalk
  <2>2. ext[c] \in Nat \ {0}
    BY <1>5 DEF CloseWalk, TypeOK, WalkHeld
  <2>3. ext' \in [Cont -> Nat] /\ WalkHeld'
    BY <1>5, <2>2 DEF CloseWalk, TypeOK, WalkHeld
  <2> QED BY <1>0, <1>5, <2>1, <2>3, UnrefTypes DEF CloseWalk, TypeOK
<1>6. ASSUME NEW e \in Slots, NEW d \in Cont \cup {Nil}, Store(e, d)
      PROVE  TypeOK' /\ WalkHeld'
  <2> DEFINE taken == IF d = Nil THEN rc ELSE [rc EXCEPT ![d] = @ + 1]
  <2>1. taken \in [Cont -> Int]
    BY <1>0
  <2>2. slot' \in [Slots -> Cont \cup {Nil}]
    BY <1>6 DEF Store, TypeOK
  <2>3. CASE slot[e] = Nil
    <3>1. rc' = taken /\ UNCHANGED <<status, dtorCalled, hold, stack, roots, rows, color, wanted>>
      BY <1>6, <2>3 DEF Store
    <3> HIDE DEF taken
    <3> QED BY <1>6, <2>1, <2>2, <3>1 DEF Store, TypeOK, WalkHeld
  <2>4. CASE slot[e] # Nil
    <3>1. slot[e] \in Cont /\ UnrefGiven(slot[e], taken, hold, stack, walked)
      BY <1>6, <2>4 DEF Store, Unref, TypeOK
    <3> HIDE DEF taken
    <3> QED BY <1>0, <1>6, <2>1, <2>2, <3>1, UnrefTypes DEF Store, TypeOK, WalkHeld
  <2> QED BY <2>3, <2>4
<1>7. ASSUME NEW e \in Slots, Unset(e) PROVE TypeOK' /\ WalkHeld'
  <2>1. ReleaseSlot(e, stack)
    BY <1>7 DEF Unset
  <2>2. UNCHANGED <<walked, enabled, threshold, round>>
    BY <1>7 DEF Unset
  <2>3. /\ status' \in [Cont -> {"free", "live", "dying"}] /\ dtorCalled' \subseteq Objects
        /\ slot' \in [Slots -> Cont \cup {Nil}]
        /\ named' \subseteq Slots /\ bound' \subseteq Slots
        /\ ext' \in [Cont -> Nat] /\ (\A c \in Cont : ext'[c] >= ext[c])
        /\ rc' \in [Cont -> Int] /\ hold' \in [Cont -> Int]
        /\ color' \in [Cont -> Colors] /\ roots' \subseteq Cont /\ rows' \in Nat
        /\ wanted' \in BOOLEAN /\ stack' \in Seq(Frames)
    BY <1>0, <2>1, ReleaseSlotTypes, Zenon
  <2> QED BY <2>2, <2>3 DEF TypeOK, WalkHeld
<1>8. ASSUME NEW e \in Slots, Alias(e) \/ Unalias(e) PROVE TypeOK' /\ WalkHeld'
  BY <1>8 DEF Alias, Unalias, TypeOK, WalkHeld
<1>9. ASSUME NEW c \in Maps, NEW n \in Maps, Separate(c, n) PROVE TypeOK' /\ WalkHeld'
  <2>0. c \in Cont /\ n \in Cont
    BY DEF Cont
  <2>1. ext[c] \in Nat \ {0} /\ (c \in walked => ext[c] > 1)
    BY <1>9, <2>0 DEF Separate, TypeOK
  <2>2. ext' \in [Cont -> Nat] /\ WalkHeld'
    <3>1. ext' = [ext EXCEPT ![c] = @ - 1, ![n] = 1] /\ walked' = walked
      BY <1>9 DEF Separate
    <3>2. ext \in [Cont -> Nat] /\ walked \subseteq Cont
      BY DEF TypeOK
    <3>3. \A d \in Cont : ext'[d] = IF d = n THEN 1 ELSE IF d = c THEN ext[c] - 1 ELSE ext[d]
      BY <2>0, <3>1, <3>2
    <3> QED BY <2>0, <2>1, <3>1, <3>2, <3>3 DEF WalkHeld
  <2>3. \A d \in Cont : Weight({c} \X Keys, d) \in Nat
    BY <2>0, SlotsFinite DEF Weight, Slots
  <2>4. rc' \in [Cont -> Int]
    <3>1. rc' = [d \in Cont |-> IF d = n THEN 1
                    ELSE rc[d] + Weight({c} \X Keys, d) - (IF d = c THEN 1 ELSE 0)]
      BY <1>9 DEF Separate
    <3> DEFINE W(d) == Weight({c} \X Keys, d)
    <3>2. \A d \in Cont : W(d) \in Nat
      BY <2>3
    <3> HIDE DEF W
    <3>3. \A d \in Cont : (IF d = n THEN 1 ELSE rc[d] + W(d) - (IF d = c THEN 1 ELSE 0)) \in Int
      BY <1>0, <3>2
    <3> DEFINE V(d) == IF d = n THEN 1 ELSE rc[d] + W(d) - (IF d = c THEN 1 ELSE 0)
    <3>4. rc' = [d \in Cont |-> V(d)] /\ \A d \in Cont : V(d) \in Int
      BY <3>1, <3>3 DEF W
    <3> HIDE DEF V
    <3> QED BY <3>4
  <2>5. slot' \in [Slots -> Cont \cup {Nil}]
    BY <1>9, <2>0 DEF Separate, TypeOK, Slots
  <2> QED BY <1>9, <2>0, <2>2, <2>4, <2>5 DEF Separate, TypeOK, Colors
<1>10. CASE Toggle
  BY <1>10 DEF Toggle, TypeOK, WalkHeld
<1> QED BY <1>1, <1>2, <1>3, <1>4, <1>5, <1>6, <1>7, <1>8, <1>9, <1>10 DEF PhpStep

(* What runs below the script: releases, and the return of a destructor.   *)
LEMMA TearTypes == TypeOK /\ WalkHeld /\ (TearStep \/ DtorReturn) => TypeOK' /\ WalkHeld'
<1> SUFFICES ASSUME TypeOK, WalkHeld, TearStep \/ DtorReturn PROVE TypeOK' /\ WalkHeld'
  OBVIOUS
<1> USE DEF heap, buffer, round
<1>0. /\ stack # << >> /\ Top \in Frames /\ Tail(stack) \in Seq(Frames)
      /\ Top.kind \in {"tear", "dtor"} /\ Top.obj \in Cont
  <2>1. Top.kind = "tear" \/ Top.kind = "dtor"
    BY DEF TearStep, TearSlot, TearEnd, Tearing, DtorReturn
  <2>2. stack # << >>
    BY <2>1, TopFrame
  <2>3. Top \in Frames /\ Tail(stack) \in Seq(Frames) /\ (Top.kind # "gc" => Top.obj \in Cont)
    BY <2>2, TopFrame, Zenon
  <2> QED BY <2>1, <2>2, <2>3
<1>1. ASSUME NEW k \in Keys, TearSlot(k) PROVE TypeOK' /\ WalkHeld'
  <2> DEFINE below == <<[Top EXCEPT !.left = @ \ {k}]>> \o Tail(stack)
  <2>1. [Top EXCEPT !.left = @ \ {k}] \in Frames
    BY <1>0 DEF Frames, Frame
  <2>2. below \in Seq(Frames)
    BY <1>0, <2>1, Push
  <2>3. <<Top.obj, k>> \in Slots /\ ReleaseSlot(<<Top.obj, k>>, below)
    BY <1>0, <1>1 DEF TearSlot, Slots
  <2> HIDE DEF below
  <2>4. UNCHANGED <<walked, enabled, threshold, round>>
    BY <1>1 DEF TearSlot
  <2> QED BY <2>2, <2>3, <2>4, ReleaseSlotTypes DEF TypeOK, WalkHeld
<1>2. CASE TearEnd
  BY <1>0, <1>2 DEF TearEnd, Forget, TypeOK, WalkHeld, Colors
<1>3. CASE DtorReturn
  <2> DEFINE c == Top.obj
  <2>1. /\ hold' = [hold EXCEPT ![c] = @ - 2] /\ rc' = [rc EXCEPT ![c] = @ - 2]
        /\ status' \in {status, [status EXCEPT ![c] = "live"]}
        /\ stack' \in {Tail(stack), <<Frame("tear", c, Keys)>> \o Tail(stack)}
        /\ UNCHANGED <<slot, named, bound, ext, walked, dtorCalled, color, buffer, round>>
    BY <1>0, <1>3 DEF DtorReturn, TypeOK
  <2>2. stack' \in Seq(Frames)
    <3>1. Frame("tear", c, Keys) \in Frames
      BY <1>0 DEF Frame, Frames
    <3> QED BY <1>0, <2>1, <3>1, Push
  <2>3. c \in Cont
    BY <1>0
  <2> HIDE DEF c
  <2>4. rc' \in [Cont -> Int] /\ hold' \in [Cont -> Int]
    BY <2>1, <2>3 DEF TypeOK
  <2>5. status' \in [Cont -> {"free", "live", "dying"}]
    BY <2>1, <2>3 DEF TypeOK
  <2> QED BY <2>1, <2>2, <2>4, <2>5 DEF TypeOK, WalkHeld
<1> QED BY <1>1, <1>2, <1>3 DEF TearStep

(* The collection.                                                         *)
LEMMA CollectorTypes == TypeOK /\ WalkHeld /\ (Collect \/ CollectorStep) => TypeOK' /\ WalkHeld'
<1> SUFFICES ASSUME TypeOK, WalkHeld, Collect \/ CollectorStep PROVE TypeOK' /\ WalkHeld'
  OBVIOUS
<1> USE DEF heap, buffer, round, StayInHeap
<1>0. /\ rc \in [Cont -> Int] /\ hold \in [Cont -> Int] /\ stack \in Seq(Frames)
      /\ color \in [Cont -> Colors]
  BY DEF TypeOK
<1>1. "grey" \in Colors /\ "black" \in Colors /\ "white" \in Colors /\ "dead" \in Colors
  BY DEF Colors
<1>2. \A c \in Cont : Visible(c) \subseteq Slots /\ Children(c) \subseteq Cont
  BY DEF Visible, Children, Slots, TypeOK
<1>3. ASSUME NEW S \in SUBSET Slots
      PROVE  /\ [d \in Cont |-> rc[d] - Weight(S, d)] \in [Cont -> Int]
             /\ [d \in Cont |-> rc[d] + Weight(S, d)] \in [Cont -> Int]
  <2> DEFINE W(d) == Weight(S, d)
  <2>1. \A d \in Cont : W(d) \in Nat
    BY SlotsFinite DEF Weight
  <2> HIDE DEF W
  <2>2. /\ [d \in Cont |-> rc[d] - W(d)] \in [Cont -> Int]
        /\ [d \in Cont |-> rc[d] + W(d)] \in [Cont -> Int]
    BY <1>0, <2>1
  <2> QED BY <2>2 DEF W
<1>4. CASE Collect
  <2>1. <<Frame("gc", Nil, {})>> \o stack \in Seq(Frames)
    BY <1>0, Push DEF Frames
  <2> QED BY <1>4, <2>1 DEF Collect, TypeOK, WalkHeld, Steps
<1>5. ASSUME NEW c \in Cont, MarkRoot(c) \/ ScanRoot(c) \/ WhiteRoot(c)
      PROVE  TypeOK' /\ WalkHeld'
  BY <1>1, <1>5 DEF MarkRoot, ScanRoot, WhiteRoot, TypeOK, WalkHeld
<1>6. ASSUME NEW c \in Cont, MarkVisit(c) PROVE TypeOK' /\ WalkHeld'
  <2>1. rc' \in [Cont -> Int]
    BY <1>2, <1>3, <1>6 DEF MarkVisit
  <2> QED BY <1>1, <1>2, <1>6, <2>1 DEF MarkVisit, TypeOK, WalkHeld
<1>7. ASSUME NEW c \in Cont, ScanVisit(c) PROVE TypeOK' /\ WalkHeld'
  <2>1. /\ color' \in {color, [color EXCEPT ![c] = "black"], [color EXCEPT ![c] = "white"]}
        /\ aux' \in {aux, {c}}
        /\ work' \in {work \ {c}, (work \ {c}) \cup Children(c)}
        /\ UNCHANGED <<rc, pc, todo, dead, nRoots, verified, debt>> /\ StayInHeap
    BY <1>7 DEF ScanVisit
  <2>2. color' \in [Cont -> Colors]
    BY <1>0, <1>1, <2>1
  <2>3. aux' \subseteq Cont /\ work' \subseteq Cont
    BY <1>2, <2>1 DEF TypeOK
  <2> QED BY <2>1, <2>2, <2>3 DEF TypeOK, WalkHeld
<1>8. ASSUME NEW c \in Cont, BlackVisit(c) PROVE TypeOK' /\ WalkHeld'
  <2>1. rc' \in [Cont -> Int]
    BY <1>2, <1>3, <1>8 DEF BlackVisit
  <2> QED BY <1>1, <1>2, <1>8, <2>1 DEF BlackVisit, TypeOK, WalkHeld
<1>9. ASSUME NEW c \in Cont, WhiteVisit(c) PROVE TypeOK' /\ WalkHeld'
  BY <1>1, <1>2, <1>9 DEF WhiteVisit, TypeOK, WalkHeld
<1>10. ASSUME NEW c \in Cont, Restore(c) PROVE TypeOK' /\ WalkHeld'
  <2>1. rc' \in [Cont -> Int]
    BY <1>2, <1>3, <1>10 DEF Restore
  <2> QED BY <1>10, <2>1 DEF Restore, TypeOK, WalkHeld
<1>11. ASSUME NEW c \in Cont, Destruct(c) PROVE TypeOK' /\ WalkHeld'
  <2>1. c \in HasDtor => Frame("dtor", c, {}) \in Frames
    BY DEF Frame, Frames
  <2>2. stack' \in Seq(Frames)
    <3>1. \/ stack' = stack
          \/ c \in HasDtor /\ stack' = <<Frame("dtor", c, {})>> \o stack
      BY <1>11 DEF Destruct
    <3>2. stack \in Seq(Frames)
      BY DEF TypeOK
    <3> QED BY <2>1, <3>1, <3>2, Push, SMTT(30)
  <2>3. hold' \in [Cont -> Int] /\ rc' \in [Cont -> Int]
    BY <1>11 DEF Destruct, TypeOK
  <2> QED BY <1>11, <2>2, <2>3 DEF Destruct, TypeOK, WalkHeld
<1>12. ASSUME NEW e \in Slots, Cut(e) PROVE TypeOK' /\ WalkHeld'
  <2>1. slot[e] \in Cont
    BY <1>12 DEF Cut, InnerEdges, Visible, TypeOK
  <2>2. UnrefGiven(slot[e], rc, hold, stack, walked)
    BY <1>12 DEF Cut, Unref
  <2> QED BY <1>0, <1>12, <2>1, <2>2, UnrefTypes DEF Cut, TypeOK, WalkHeld
<1>13. ASSUME NEW c \in Cont, GiveBack(c) PROVE TypeOK' /\ WalkHeld'
  <2> DEFINE pins == [hold EXCEPT ![c] = @ - 1]
  <2>1. UnrefGiven(c, rc, pins, stack, walked) /\ pins \in [Cont -> Int]
    BY <1>0, <1>13 DEF GiveBack
  <2> HIDE DEF pins
  <2> QED BY <1>0, <1>13, <2>1, UnrefTypes DEF GiveBack, TypeOK, WalkHeld
<1>14. ASSUME NEW n \in Nat, EndRound(n), Collecting
       PROVE  threshold' \in Nat /\ stack' \in Seq(Frames)
  <2>0. stack # << >>
    BY <1>14, TopFrame DEF Collecting
  <2>1. Tail(stack) \in Seq(Frames)
    BY <2>0, TopFrame, Zenon
  <2> QED BY <1>14, <2>1, Bounds DEF EndRound, Adjusted, TypeOK
<1>15. CASE WhiteDone
  <2>1. /\ color' \in [Cont -> Colors] /\ roots' = {} /\ rows' = 0
        /\ UNCHANGED <<status, slot, named, bound, ext, walked, dtorCalled, enabled, wanted,
                       work, aux, debt>>
    BY <1>0, <1>1, <1>15 DEF WhiteDone
  <2>2. CASE dead = {}
    <3>1. EndRound(0) /\ Collecting /\ UNCHANGED <<rc, hold>>
      BY <1>15, <2>2 DEF WhiteDone
    <3> QED BY <1>14, <2>1, <3>1 DEF EndRound, TypeOK, WalkHeld, Steps
  <2>3. CASE dead # {}
    <3>1. /\ rc' \in [Cont -> Int] /\ hold' \in [Cont -> Int]
          /\ pc' = "restore" /\ todo' = dead
          /\ UNCHANGED <<threshold, dead, nRoots, verified, stack>>
      BY <1>0, <1>15, <2>3 DEF WhiteDone
    <3> QED BY <2>1, <3>1 DEF TypeOK, WalkHeld, Steps
  <2> QED BY <2>2, <2>3
<1>16. CASE CollectDone
  <2>1. IsFiniteSet(dead) /\ Cardinality(dead) \in Nat
    BY FiniteHeap, FS_Subset, FS_CardinalityType DEF TypeOK
  <2>2. PICK n \in Nat : EndRound(n)
    BY <1>16, <2>1 DEF CollectDone
  <2>3. threshold' \in Nat /\ stack' \in Seq(Frames)
    BY <1>14, <1>16, <2>2 DEF CollectDone
  <2>4. /\ pc' = "idle" /\ dead' = {} /\ todo' = {} /\ nRoots' = 0 /\ verified' = FALSE
        /\ UNCHANGED <<heap, rc, color, roots, rows, enabled, wanted, work, aux, debt>>
    BY <1>16, <2>2 DEF CollectDone, EndRound
  <2> QED BY <2>3, <2>4 DEF TypeOK, WalkHeld, Steps
<1>17. CASE MarkDone \/ ScanDone \/ RestoreDone
  BY <1>17 DEF MarkDone, ScanDone, RestoreDone, TypeOK, WalkHeld, Steps
<1>18. CASE Verify
  <2>1. verified' \in BOOLEAN
    BY <1>18 DEF Verify, OnlyHeldByCollector
  <2> QED BY <1>18, <2>1 DEF Verify, TypeOK, WalkHeld, Steps
<1>19. CASE CutDone
  BY <1>1, <1>19 DEF CutDone, TypeOK, WalkHeld, Steps
<1> QED BY <1>4, <1>5, <1>6, <1>7, <1>8, <1>9, <1>10, <1>11, <1>12, <1>13, <1>15, <1>16,
           <1>17, <1>18, <1>19 DEF CollectorStep

(* The empty heap.                                                         *)
LEMMA InitTypes == Init => TypeOK /\ WalkHeld
<1>1. ThresholdMin \in Nat
  BY Bounds
<1>2. << >> \in Seq(Frames)
  BY EmptySeq
<1> SUFFICES ASSUME Init PROVE TypeOK /\ WalkHeld
  OBVIOUS
<1>3. /\ status \in [Cont -> {"free", "live", "dying"}] /\ color \in [Cont -> Colors]
      /\ slot \in [Slots -> Cont \cup {Nil}]
  BY DEF Init, Colors
<1>4. ext \in [Cont -> Nat] /\ rc \in [Cont -> Int] /\ hold \in [Cont -> Int]
  BY DEF Init
<1> QED BY <1>1, <1>2, <1>3, <1>4 DEF Init, TypeOK, WalkHeld, Steps

(* A step that changes nothing.                                            *)
LEMMA StutterTypes == TypeOK /\ WalkHeld /\ UNCHANGED vars => TypeOK' /\ WalkHeld'
BY DEF TypeOK, WalkHeld, vars, heap, buffer, round

(* For every heap: each variable keeps its type, and an iterated container *)
(* is held by its iteration, whatever destructors and collections do.      *)
THEOREM Typing == Spec => [](TypeOK /\ WalkHeld)
<1>1. TypeOK /\ WalkHeld /\ [Next]_vars => TypeOK' /\ WalkHeld'
  BY PhpTypes, TearTypes, CollectorTypes, StutterTypes DEF Next
<1> QED BY <1>1, InitTypes, PTL DEF Spec

---------------------------------------------------------------------------
(* The heap                                                                *)

(* Names are finitely many.                                                *)
LEMMA NamingFinite ==
  ASSUME NEW sl, NEW db, NEW c
  PROVE  /\ Naming(sl, db, c) \in SUBSET Slots
         /\ IsFiniteSet(Naming(sl, db, c)) /\ Cardinality(Naming(sl, db, c)) \in Nat
         /\ Cardinality(Naming(sl, db, c)) = 0 <=> Naming(sl, db, c) = {}
<1>1. Naming(sl, db, c) \in SUBSET Slots
  BY DEF Naming
<1> QED BY <1>1, SlotsFinite, NoEdges

(* The pins are never negative.                                            *)
LEMMA PinsNat ==
  ASSUME NEW pn \in [Cont -> Int], NEW stk, NEW held, Pinned(pn, stk, held), NEW c \in Cont
  PROVE  /\ pn[c] \in Nat
         /\ c \in held => pn[c] > 0
         /\ Destructing(stk, c) => pn[c] > 1
BY DEF Pinned

(* A count that has come to zero is one of a container nothing names.      *)
LEMMA ZeroUnnamed ==
  ASSUME NEW sl, NEW ex \in [Cont -> Nat], NEW ct \in [Cont -> Int], NEW pn \in [Cont -> Int],
         NEW stk, NEW held, NEW c \in Cont,
         Exact(sl, ex, ct, pn, {}), Pinned(pn, stk, held), ct[c] < 1
  PROVE  Unnamed(sl, ex, pn, c)
<1>1. pn[c] \in Nat
  BY PinsNat
<1>2. Cardinality(Naming(sl, {}, c)) \in Nat
  BY NamingFinite
<1>3. ct[c] = ex[c] + pn[c] + Cardinality(Naming(sl, {}, c))
  BY DEF Exact
<1>4. ex[c] = 0 /\ pn[c] = 0 /\ Cardinality(Naming(sl, {}, c)) = 0
  BY <1>1, <1>2, <1>3
<1>5. Naming(sl, {}, c) = {}
  BY <1>4, NamingFinite
<1> QED BY <1>4, <1>5 DEF Unnamed, Naming

NotTorn(stk, c) == \A i \in DOMAIN stk : ~(stk[i].kind = "tear" /\ stk[i].obj = c)

(* A frame pushed for a container that has none of its kind keeps frames   *)
(* apart.                                                                  *)
LEMMA PushDistinct ==
  ASSUME NEW stk \in Seq(Frames), NEW f \in Frames, Distinct(stk),
         f.kind # "gc" => \A i \in DOMAIN stk : ~(stk[i].kind = f.kind /\ stk[i].obj = f.obj)
  PROVE  Distinct(<<f>> \o stk)
<1> DEFINE t == <<f>> \o stk
<1>1. /\ DOMAIN t = 1 .. (Len(stk) + 1) /\ DOMAIN stk = 1 .. Len(stk) /\ Len(stk) \in Nat
      /\ \A i \in 1 .. (Len(stk) + 1) : t[i] = IF i = 1 THEN f ELSE stk[i - 1]
  BY Push
<1> HIDE DEF t
<1>2. SUFFICES ASSUME NEW i \in DOMAIN t, NEW j \in DOMAIN t,
                      t[i].kind = t[j].kind, t[i].obj = t[j].obj, t[i].kind # "gc"
               PROVE  i = j
  BY DEF Distinct, t
<1>3. CASE i = 1 /\ j # 1
  <2>1. j - 1 \in DOMAIN stk /\ t[j] = stk[j - 1] /\ t[i] = f
    BY <1>1, <1>3
  <2> QED BY <1>2, <2>1
<1>4. CASE i # 1 /\ j = 1
  <2>1. i - 1 \in DOMAIN stk /\ t[i] = stk[i - 1] /\ t[j] = f
    BY <1>1, <1>4
  <2> QED BY <1>2, <2>1
<1>5. CASE i # 1 /\ j # 1
  <2>1. /\ i - 1 \in DOMAIN stk /\ t[i] = stk[i - 1]
        /\ j - 1 \in DOMAIN stk /\ t[j] = stk[j - 1]
    BY <1>1, <1>5
  <2>2. i - 1 = j - 1
    BY <1>2, <2>1 DEF Distinct
  <2> QED BY <1>1, <2>2
<1> QED BY <1>3, <1>4, <1>5

(* What holds of every frame holds of those pushed on it.                  *)
LEMMA PushFrames ==
  ASSUME NEW stk \in Seq(Frames), NEW f \in Frames, NEW i \in DOMAIN (<<f>> \o stk)
  PROVE  (<<f>> \o stk)[i] = f \/ \E j \in DOMAIN stk : (<<f>> \o stk)[i] = stk[j]
<1>1. /\ DOMAIN (<<f>> \o stk) = 1 .. (Len(stk) + 1) /\ DOMAIN stk = 1 .. Len(stk)
      /\ Len(stk) \in Nat
      /\ \A n \in 1 .. (Len(stk) + 1) : (<<f>> \o stk)[n] = IF n = 1 THEN f ELSE stk[n - 1]
  BY Push
<1>2. CASE i = 1
  BY <1>1, <1>2
<1>3. CASE i # 1
  BY <1>1, <1>3
<1> QED BY <1>2, <1>3

(* The destructors that run after a push.                                  *)
LEMMA PushDestructing ==
  ASSUME NEW stk \in Seq(Frames), NEW f \in Frames, NEW c
  PROVE  Destructing(<<f>> \o stk, c)
           <=> Destructing(stk, c) \/ (f.kind = "dtor" /\ f.obj = c)
<1> DEFINE t == <<f>> \o stk
<1>1. /\ DOMAIN t = 1 .. (Len(stk) + 1) /\ DOMAIN stk = 1 .. Len(stk) /\ Len(stk) \in Nat
      /\ \A i \in 1 .. (Len(stk) + 1) : t[i] = IF i = 1 THEN f ELSE stk[i - 1]
  BY Push
<1> HIDE DEF t
<1>2. t[1] = f /\ 1 \in DOMAIN t
  BY <1>1
<1>3. ASSUME NEW i \in DOMAIN stk PROVE i + 1 \in DOMAIN t /\ t[i + 1] = stk[i]
  BY <1>1
<1>4. ASSUME NEW i \in DOMAIN t, i # 1 PROVE i - 1 \in DOMAIN stk /\ t[i] = stk[i - 1]
  BY <1>1, <1>4
<1>5. Destructing(t, c) <=> Destructing(stk, c) \/ (f.kind = "dtor" /\ f.obj = c)
  BY <1>2, <1>3, <1>4 DEF Destructing
<1> QED BY <1>5 DEF t

(* A container whose last reference went is torn down, or destructed first *)
(* under two pins: the heap is sound with the frame on the stack.          *)
LEMMA ReleaseSound ==
  ASSUME TypeOK, NEW sl, NEW nm,
         NEW ex \in [Cont -> Nat], NEW c \in Cont, NEW ct \in [Cont -> Int],
         NEW pins \in [Cont -> Int], NEW below \in Seq(Frames), NEW held,
         status[c] # "free", NotTorn(below, c), ct[c] < 1,
         Sound(status, sl, nm, ex, ct, pins, dtorCalled, roots, {}, below, held),
         Release(c, ct, pins, below)
  PROVE  Sound(status', sl, nm, ex, rc', hold', dtorCalled', roots, {}, stack', held)
<1>1. /\ Exact(sl, ex, ct, pins, {}) /\ Freed(status, sl, nm, ex, pins, roots)
      /\ Framed(below, status, sl, nm, ex, pins, dtorCalled) /\ Pinned(pins, below, held)
  BY DEF Sound
<1>2. Unnamed(sl, ex, pins, c)
  BY <1>1, ZeroUnnamed
<1>3. CASE c \in Objects /\ status[c] = "dying"
  <2>1. rc' = ct /\ hold' = pins /\ stack' = below /\ status' = status /\ dtorCalled' = dtorCalled
    BY <1>3 DEF Release, Marked
  <2> QED BY <1>1, <2>1 DEF Sound
<1>4. CASE ~(c \in Objects /\ status[c] = "dying")
  <2>1. /\ status' = [status EXCEPT ![c] = "dying"]
        /\ dtorCalled' = dtorCalled \cup ({c} \cap Objects)
    BY <1>4 DEF Release, Marked
  <2>2. /\ status'[c] = "dying"
        /\ \A d \in Cont : d # c => status'[d] = status[d]
        /\ dtorCalled \subseteq dtorCalled'
    BY <2>1 DEF TypeOK
  <2>3. CASE c \in HasDtor \ dtorCalled
    <3> DEFINE f == Frame("dtor", c, {})
    <3>1. /\ hold' = [pins EXCEPT ![c] = @ + 2] /\ rc' = [ct EXCEPT ![c] = @ + 2]
          /\ stack' = <<f>> \o below
      BY <1>4, <2>3 DEF Release, Marked
    <3>2. f \in Frames /\ f.kind = "dtor" /\ f.obj = c /\ c \in dtorCalled'
      BY <2>1, <2>3, ObjectSubsets DEF Frame, Frames
    <3> HIDE DEF f
    <3>3. Exact(sl, ex, rc', hold', {})
      <4> SUFFICES ASSUME NEW d \in Cont
                   PROVE  rc'[d] = ex[d] + hold'[d] + Cardinality(Naming(sl, {}, d))
        BY DEF Exact
      <4>1. ct[d] = ex[d] + pins[d] + Cardinality(Naming(sl, {}, d))
        BY <1>1 DEF Exact
      <4>2. Cardinality(Naming(sl, {}, d)) \in Nat
        BY NamingFinite
      <4> QED BY <3>1, <4>1, <4>2
    <3>4. Freed(status', sl, nm, ex, hold', roots)
      BY <1>1, <2>2, <3>1 DEF Freed, Unnamed
    <3>5. \A i \in DOMAIN below : ~(below[i].kind = "dtor" /\ below[i].obj = c)
      BY <1>1, <2>3 DEF Framed, FrameOK
    <3>6. ASSUME NEW i \in DOMAIN stack'
          PROVE  FrameOK(stack'[i], status', sl, nm, ex, hold', dtorCalled')
      <4>1. CASE stack'[i] = f
        BY <3>2, <4>1 DEF FrameOK
      <4>2. CASE \E j \in DOMAIN below : stack'[i] = below[j]
        <5>1. PICK j \in DOMAIN below : stack'[i] = below[j]
          BY <4>2
        <5>2. FrameOK(below[j], status, sl, nm, ex, pins, dtorCalled)
          BY <1>1 DEF Framed
        <5>3. ~(below[j].kind = "tear" /\ below[j].obj = c)
          BY DEF NotTorn
        <5> QED BY <2>2, <3>1, <5>1, <5>2, <5>3 DEF FrameOK, Unnamed
      <4> QED BY <3>1, <3>2, <4>1, <4>2, PushFrames
    <3>7. Framed(stack', status', sl, nm, ex, hold', dtorCalled')
      BY <1>1, <3>1, <3>2, <3>5, <3>6, PushDistinct DEF Framed
    <3>8. Pinned(hold', stack', held)
      <4>1. ~Destructing(below, c)
        BY <3>5 DEF Destructing
      <4>2. \A d \in Cont : Destructing(stack', d) <=> Destructing(below, d) \/ d = c
        BY <3>1, <3>2, PushDestructing
      <4>3. pins[c] = 0
        BY <1>2 DEF Unnamed
      <4> SUFFICES ASSUME NEW d \in Cont
                   PROVE  hold'[d] = (IF d \in held THEN 1 ELSE 0)
                                      + (IF Destructing(stack', d) THEN 2 ELSE 0)
        BY DEF Pinned
      <4>4. pins[d] = (IF d \in held THEN 1 ELSE 0) + (IF Destructing(below, d) THEN 2 ELSE 0)
        BY <1>1 DEF Pinned
      <4>5. hold'[d] = IF d = c THEN pins[d] + 2 ELSE pins[d]
        BY <3>1
      <4> QED BY <4>1, <4>2, <4>3, <4>4, <4>5
    <3> QED BY <3>3, <3>4, <3>7, <3>8 DEF Sound
  <2>4. CASE c \notin HasDtor \ dtorCalled
    <3> DEFINE f == Frame("tear", c, Keys)
    <3>1. hold' = pins /\ rc' = ct /\ stack' = <<f>> \o below
      BY <1>4, <2>4 DEF Release, Marked
    <3>2. f \in Frames /\ f.kind = "tear" /\ f.obj = c /\ f.left = Keys
      BY DEF Frame, Frames
    <3> HIDE DEF f
    <3>3. Freed(status', sl, nm, ex, hold', roots)
      BY <1>1, <2>2, <3>1 DEF Freed
    <3>4. ASSUME NEW i \in DOMAIN stack'
          PROVE  FrameOK(stack'[i], status', sl, nm, ex, hold', dtorCalled')
      <4>1. CASE stack'[i] = f
        BY <1>2, <2>2, <3>1, <3>2, <4>1 DEF FrameOK
      <4>2. CASE \E j \in DOMAIN below : stack'[i] = below[j]
        <5>1. PICK j \in DOMAIN below : stack'[i] = below[j]
          BY <4>2
        <5>2. FrameOK(below[j], status, sl, nm, ex, pins, dtorCalled)
          BY <1>1 DEF Framed
        <5>3. ~(below[j].kind = "tear" /\ below[j].obj = c)
          BY DEF NotTorn
        <5> QED BY <2>2, <3>1, <5>1, <5>2, <5>3 DEF FrameOK
      <4> QED BY <3>1, <3>2, <4>1, <4>2, PushFrames
    <3>5. Distinct(stack')
      BY <1>1, <3>1, <3>2, PushDistinct DEF Framed, NotTorn
    <3>6. Pinned(hold', stack', held)
      BY <1>1, <3>1, <3>2, PushDestructing DEF Pinned
    <3> QED BY <1>1, <3>1, <3>3, <3>4, <3>5, <3>6 DEF Sound, Framed
  <2> QED BY <2>3, <2>4
<1> QED BY <1>3, <1>4

(* A reference dropped: if the heap is sound without it, it is sound after *)
(* PH7_ClassInstanceUnref or PH7_HashmapUnref.                             *)
LEMMA UnrefSound ==
  ASSUME TypeOK, NEW sl, NEW nm,
         NEW ex \in [Cont -> Nat], NEW c \in Cont, NEW cnt \in [Cont -> Int],
         NEW pins \in [Cont -> Int], NEW below \in Seq(Frames), NEW held, NEW walks,
         status[c] # "free", NotTorn(below, c),
         Sound(status, sl, nm, ex, [cnt EXCEPT ![c] = @ - 1], pins, dtorCalled, roots, {},
               below, held),
         UnrefGiven(c, cnt, pins, below, walks)
  PROVE  Sound(status', sl, nm, ex, rc', hold', dtorCalled', roots', {}, stack', held)
<1> DEFINE less == [cnt EXCEPT ![c] = @ - 1]
<1>1. less \in [Cont -> Int]
  OBVIOUS
<1>2. CASE less[c] < 1
  <2>1. Release(c, less, pins, below) /\ roots' = roots
    BY <1>2 DEF UnrefGiven
  <2> HIDE DEF less
  <2>2. Sound(status', sl, nm, ex, rc', hold', dtorCalled', roots, {}, stack', held)
    BY <1>1, <1>2, <2>1, ReleaseSound DEF less
  <2> QED BY <2>1, <2>2
<1>3. CASE ~(less[c] < 1)
  <2>1. /\ PossibleRoot(c, walks) /\ rc' = less /\ hold' = pins /\ stack' = below
        /\ status' = status /\ dtorCalled' = dtorCalled
    BY <1>3 DEF UnrefGiven
  <2>2. roots' \in {roots, roots \cup {c}}
    BY <2>1 DEF PossibleRoot
  <2>3. Freed(status, sl, nm, ex, pins, roots)
    BY DEF Sound
  <2>4. Freed(status, sl, nm, ex, pins, roots')
    BY <2>2, <2>3 DEF Freed
  <2> QED BY <2>1, <2>4 DEF Sound
<1> QED BY <1>2, <1>3

(* PHP runs, and a container is torn down, only where nothing is           *)
(* subtracted.                                                             *)
LEMMA Quiet ==
  ASSUME TypeOK, Control, DebtOK, Top.kind # "gc"
  PROVE  pc \in {"idle", "dtors", "give"} /\ debt = {}
<1>1. pc \in {"idle", "dtors", "give"}
  BY DEF Control, Collecting, Inner, TypeOK, Steps
<1>2. Subtracted = {}
  BY <1>1 DEF Subtracted
<1> QED BY <1>1, <1>2 DEF DebtOK, EdgesOf

(* What a slot names, or the script holds, is neither free nor torn down.  *)
LEMMA NamedAlive ==
  ASSUME TypeOK, HeapOK, NEW c \in Cont,
         ext[c] > 0 \/ hold[c] > 0 \/ \E e \in Slots : slot[e] = c
  PROVE  status[c] # "free" /\ NotTorn(stack, c)
<1>1. ~Unnamed(slot, ext, hold, c)
  BY DEF Unnamed, TypeOK
<1>2. status[c] # "free"
  BY <1>1 DEF HeapOK, Sound, Freed
<1>3. NotTorn(stack, c)
  BY <1>1 DEF HeapOK, Sound, Framed, FrameOK, NotTorn
<1> QED BY <1>2, <1>3

(* So is what the script holds as a variable or as $this.                  *)
LEMMA HeldAlive ==
  ASSUME TypeOK, HeapOK, AtFetchPoint, NEW c \in Cont, Held(c)
  PROVE  status[c] # "free" /\ NotTorn(stack, c)
<1>1. CASE ext[c] > 0
  BY <1>1, NamedAlive
<1>2. CASE Top.obj = c
  <2>1. stack # << >>
    BY <1>2, TopFrame, NilIsNoContainer
  <2>2. stack[1] = Top /\ Top.kind = "dtor" /\ 1 \in DOMAIN stack
    BY <2>1, TopFrame, Pop DEF AtFetchPoint, TypeOK
  <2>3. Destructing(stack, c)
    BY <1>2, <2>2 DEF Destructing
  <2>4. hold[c] > 1
    BY <2>3, PinsNat DEF HeapOK, Sound, TypeOK
  <2>5. hold[c] > 0
    BY <2>4 DEF TypeOK
  <2> QED BY <2>5, NamedAlive
<1> QED BY <1>1, <1>2 DEF Held

(* A slot the script can write belongs to a container that is not free; if *)
(* that is being torn down, the slot is still ahead of the release.        *)
LEMMA HolderAlive ==
  ASSUME TypeOK, HeapOK, AtFetchPoint, NEW e \in Slots, Holders(e)
  PROVE  /\ status[e[1]] # "free"
         /\ \A i \in DOMAIN stack :
              stack[i].kind = "tear" /\ stack[i].obj = e[1] => e[2] \in stack[i].left
<1>0. e[1] \in Cont /\ e[2] \in Keys /\ e = <<e[1], e[2]>>
  BY DEF Slots
<1>1. CASE Held(e[1])
  BY <1>0, <1>1, HeldAlive DEF NotTorn
<1>2. CASE e \in named
  <2>1. status[e[1]] # "free"
    BY <1>0, <1>2 DEF HeapOK, Sound, Freed, Gone
  <2>2. ASSUME NEW i \in DOMAIN stack, stack[i].kind = "tear", stack[i].obj = e[1]
        PROVE  e[2] \in stack[i].left
    <3>1. FrameOK(stack[i], status, slot, named, ext, hold, dtorCalled)
      BY DEF HeapOK, Sound, Framed
    <3>2. e[2] \notin stack[i].left => Gone(slot, named, <<e[1], e[2]>>)
      BY <1>0, <2>2, <3>1 DEF FrameOK
    <3> QED BY <1>0, <1>2, <3>2 DEF Gone
  <2> QED BY <2>1, <2>2
<1> QED BY <1>1, <1>2 DEF Holders

(* The heap over the next state, when the collection stays where it is.    *)
LEMMA HeapNext ==
  ASSUME TypeOK, Control, DebtOK, Top.kind # "gc", UNCHANGED round
  PROVE  /\ debt = {} /\ debt' = {} /\ HeldByGc' = HeldByGc
         /\ HeapOK <=> Sound(status, slot, named, ext, rc, hold, dtorCalled, roots, {}, stack,
                             HeldByGc)
         /\ HeapOK' <=> Sound(status', slot', named', ext', rc', hold', dtorCalled', roots', {},
                              stack', HeldByGc)
<1>1. debt = {} /\ debt' = {}
  BY Quiet DEF round
<1>2. HeldByGc' = HeldByGc
  BY DEF HeldByGc, round
<1> QED BY <1>1, <1>2 DEF HeapOK

(* An allocation.                                                          *)
LEMMA NewHeap ==
  ASSUME TypeOK, Control, HeapOK, DebtOK, NEW c \in Cont, New(c)
  PROVE  HeapOK'
<1>1. /\ Top.kind # "gc" /\ UNCHANGED round /\ stack' = stack /\ status[c] = "free"
      /\ slot' = slot /\ named' = named /\ hold' = hold /\ roots' = roots
      /\ dtorCalled' = dtorCalled \ {c}
  BY DEF New, PhpRuns, AtFetchPoint, buffer
<1>2. /\ status'[c] = "live" /\ ext'[c] = 1 /\ rc'[c] = 1
      /\ \A d \in Cont : d # c => status'[d] = status[d] /\ ext'[d] = ext[d] /\ rc'[d] = rc[d]
  BY DEF New, TypeOK
<1>3. /\ Exact(slot, ext, rc, hold, {}) /\ Freed(status, slot, named, ext, hold, roots)
      /\ Framed(stack, status, slot, named, ext, hold, dtorCalled)
      /\ Pinned(hold, stack, HeldByGc)
  BY <1>1, HeapNext DEF Sound
<1>4. Unnamed(slot, ext, hold, c)
  BY <1>1, <1>3 DEF Freed
<1>5. Exact(slot, ext', rc', hold, {})
  <2>1. Naming(slot, {}, c) = {}
    BY <1>4 DEF Unnamed, Naming
  <2>2. Cardinality(Naming(slot, {}, c)) = 0
    BY <2>1, NamingFinite
  <2> QED BY <1>2, <1>3, <1>4, <2>2 DEF Exact, Unnamed
<1>6. Freed(status', slot, named, ext', hold, roots)
  BY <1>2, <1>3 DEF Freed, Unnamed
<1>7. ASSUME NEW i \in DOMAIN stack
      PROVE  FrameOK(stack[i], status', slot, named, ext', hold, dtorCalled')
  <2>1. FrameOK(stack[i], status, slot, named, ext, hold, dtorCalled)
    BY <1>3 DEF Framed
  <2>2. stack[i].kind = "tear" => stack[i].obj # c
    BY <1>1, <2>1 DEF FrameOK
  <2>3. stack[i].kind = "dtor" => stack[i].obj # c
    <3>1. SUFFICES ASSUME Destructing(stack, c) PROVE FALSE
      BY DEF Destructing
    <3>2. hold[c] > 1
      BY <1>3, <3>1, PinsNat DEF TypeOK
    <3> QED BY <1>4, <3>2 DEF Unnamed
  <2> QED BY <1>1, <1>2, <2>1, <2>2, <2>3 DEF FrameOK, Unnamed
<1>8. Framed(stack, status', slot, named, ext', hold, dtorCalled')
  BY <1>3, <1>7 DEF Framed
<1> QED BY <1>1, <1>3, <1>5, <1>6, <1>8, HeapNext DEF Sound

(* One more reference to a container that is neither free nor torn down.   *)
LEMMA TakeHeap ==
  ASSUME TypeOK, Control, HeapOK, DebtOK, NEW c \in Cont, Top.kind # "gc",
         status[c] # "free", NotTorn(stack, c),
         ext' = [ext EXCEPT ![c] = @ + 1], rc' = [rc EXCEPT ![c] = @ + 1],
         UNCHANGED <<status, slot, named, hold, dtorCalled, roots, round, stack>>
  PROVE  HeapOK'
<1>1. /\ ext'[c] = ext[c] + 1 /\ rc'[c] = rc[c] + 1
      /\ \A d \in Cont : d # c => ext'[d] = ext[d] /\ rc'[d] = rc[d]
  BY DEF TypeOK
<1>2. /\ Exact(slot, ext, rc, hold, {}) /\ Freed(status, slot, named, ext, hold, roots)
      /\ Framed(stack, status, slot, named, ext, hold, dtorCalled)
      /\ Pinned(hold, stack, HeldByGc)
  BY HeapNext DEF Sound
<1>3. Exact(slot, ext', rc', hold, {})
  <2> SUFFICES ASSUME NEW d \in Cont
               PROVE  rc'[d] = ext'[d] + hold[d] + Cardinality(Naming(slot, {}, d))
    BY DEF Exact
  <2>1. Cardinality(Naming(slot, {}, d)) \in Nat
    BY NamingFinite
  <2>2. rc[d] = ext[d] + hold[d] + Cardinality(Naming(slot, {}, d))
    BY <1>2 DEF Exact
  <2> QED BY <1>1, <2>1, <2>2 DEF TypeOK
<1>4. Freed(status, slot, named, ext', hold, roots)
  BY <1>1, <1>2 DEF Freed, Unnamed
<1>5. Framed(stack, status, slot, named, ext', hold, dtorCalled)
  BY <1>1, <1>2 DEF Framed, FrameOK, Unnamed, NotTorn
<1> QED BY <1>2, <1>3, <1>4, <1>5, HeapNext DEF Sound

(* A reference of the script is dropped: a variable, or a walk.            *)
LEMMA DropHeap ==
  ASSUME TypeOK, Control, HeapOK, DebtOK, NEW c \in Cont, NEW walks, Top.kind # "gc",
         ext[c] > 0, ext' = [ext EXCEPT ![c] = @ - 1],
         UnrefGiven(c, rc, hold, stack, walks), UNCHANGED <<slot, named, round>>
  PROVE  HeapOK'
<1> DEFINE less == [rc EXCEPT ![c] = @ - 1]
<1>1. /\ ext' \in [Cont -> Nat] /\ ext'[c] = ext[c] - 1 /\ less[c] = rc[c] - 1
      /\ \A d \in Cont : d # c => ext'[d] = ext[d] /\ less[d] = rc[d]
  BY DEF TypeOK
<1> HIDE DEF less
<1>2. /\ Exact(slot, ext, rc, hold, {}) /\ Freed(status, slot, named, ext, hold, roots)
      /\ Framed(stack, status, slot, named, ext, hold, dtorCalled)
      /\ Pinned(hold, stack, HeldByGc)
  BY HeapNext DEF Sound
<1>3. status[c] # "free" /\ NotTorn(stack, c)
  BY NamedAlive
<1>4. Exact(slot, ext', less, hold, {})
  <2> SUFFICES ASSUME NEW d \in Cont
               PROVE  less[d] = ext'[d] + hold[d] + Cardinality(Naming(slot, {}, d))
    BY DEF Exact
  <2>1. Cardinality(Naming(slot, {}, d)) \in Nat
    BY NamingFinite
  <2>2. rc[d] = ext[d] + hold[d] + Cardinality(Naming(slot, {}, d))
    BY <1>2 DEF Exact
  <2>3. rc[d] \in Int /\ ext[d] \in Int /\ hold[d] \in Int
    BY DEF TypeOK
  <2>4. \/ d = c /\ ext'[d] = ext[d] - 1 /\ less[d] = rc[d] - 1
        \/ ext'[d] = ext[d] /\ less[d] = rc[d]
    BY <1>1
  <2> QED BY <2>1, <2>2, <2>3, <2>4
<1>5. Freed(status, slot, named, ext', hold, roots)
  BY <1>1, <1>2, <1>3 DEF Freed, Unnamed
<1>6. Framed(stack, status, slot, named, ext', hold, dtorCalled)
  BY <1>1, <1>2, <1>3 DEF Framed, FrameOK, Unnamed, NotTorn
<1>7. Sound(status, slot, named, ext', less, hold, dtorCalled, roots, {}, stack, HeldByGc)
  BY <1>2, <1>4, <1>5, <1>6 DEF Sound
<1>8. Sound(status', slot, named, ext', rc', hold', dtorCalled', roots', {}, stack', HeldByGc)
  <2>1. rc \in [Cont -> Int] /\ hold \in [Cont -> Int] /\ stack \in Seq(Frames)
    BY DEF TypeOK
  <2> QED BY <1>1, <1>3, <1>7, <2>1, UnrefSound DEF less
<1> QED BY <1>8, HeapNext

(* A slot written, or emptied with its names: the heap is sound if counts  *)
(* and references moved with it, its new value is alive, and it belongs to *)
(* a container that still has it.                                          *)
LEMMA SlotSound ==
  ASSUME TypeOK, NEW held, NEW nm \in SUBSET named, NEW ex \in [Cont -> Nat],
         NEW ct \in [Cont -> Int], NEW stk, NEW e \in Slots, NEW d \in Cont \cup {Nil},
         Sound(status, slot, named, ext, rc, hold, dtorCalled, roots, {}, stk, held),
         \A x \in Cont : ct[x] - ex[x] = rc[x] - ext[x] - (IF slot[e] = x THEN 1 ELSE 0)
                                           + (IF d = x THEN 1 ELSE 0),
         \A x \in Cont : x # slot[e] => ex[x] = ext[x],
         d # Nil => /\ status[d] # "free" /\ NotTorn(stk, d) /\ status[e[1]] # "free"
                    /\ \A i \in DOMAIN stk :
                         stk[i].kind = "tear" /\ stk[i].obj = e[1] => e[2] \in stk[i].left
  PROVE  Sound(status, [slot EXCEPT ![e] = d], nm, ex, ct, hold, dtorCalled, roots, {}, stk, held)
<1> DEFINE sl == [slot EXCEPT ![e] = d]
<1>0. /\ sl[e] = d /\ slot \in [Slots -> Cont \cup {Nil}]
      /\ \A f \in Slots : f # e => sl[f] = slot[f]
  BY DEF TypeOK
<1> HIDE DEF sl
<1>1. /\ Exact(slot, ext, rc, hold, {}) /\ Freed(status, slot, named, ext, hold, roots)
      /\ Framed(stk, status, slot, named, ext, hold, dtorCalled)
      /\ Pinned(hold, stk, held)
  BY DEF Sound
<1>2. Exact(sl, ex, ct, hold, {})
  <2> SUFFICES ASSUME NEW x \in Cont
               PROVE  ct[x] = ex[x] + hold[x] + Cardinality(Naming(sl, {}, x))
    BY DEF Exact
  <2>1. Cardinality(Naming(sl, {}, x)) = Cardinality(Naming(slot, {}, x))
          - (IF slot[e] = x THEN 1 ELSE 0) + (IF d = x THEN 1 ELSE 0)
    <3> DEFINE N == Naming(slot, {}, x)
               M == Naming(sl, {}, x)
    <3>1. IsFiniteSet(N) /\ Cardinality(N) \in Nat /\ IsFiniteSet(M) /\ Cardinality(M) \in Nat
      BY NamingFinite
    <3>2. M = IF d = x THEN N \cup {e} ELSE N \ {e}
      BY <1>0 DEF Naming
    <3>3. e \in N <=> slot[e] = x
      BY DEF Naming
    <3>4. /\ Cardinality(N \cup {e}) = IF e \in N THEN Cardinality(N) ELSE Cardinality(N) + 1
          /\ Cardinality(N \ {e}) = IF e \in N THEN Cardinality(N) - 1 ELSE Cardinality(N)
      BY <3>1, FS_AddElement, FS_RemoveElement
    <3> HIDE DEF N, M
    <3>5. Cardinality(M) = Cardinality(N) - (IF slot[e] = x THEN 1 ELSE 0)
                             + (IF d = x THEN 1 ELSE 0)
      BY <3>1, <3>2, <3>3, <3>4
    <3> QED BY <3>5 DEF N, M
  <2>2. Cardinality(Naming(slot, {}, x)) \in Nat
    BY NamingFinite
  <2>3. rc[x] = ext[x] + hold[x] + Cardinality(Naming(slot, {}, x))
    BY <1>1 DEF Exact
  <2>4. ct[x] - ex[x] = rc[x] - ext[x] - (IF slot[e] = x THEN 1 ELSE 0)
                          + (IF d = x THEN 1 ELSE 0)
    OBVIOUS
  <2>5. /\ ct[x] \in Int /\ ex[x] \in Nat /\ rc[x] \in Int /\ ext[x] \in Nat /\ hold[x] \in Int
    BY DEF TypeOK
  <2> DEFINE p == IF slot[e] = x THEN 1 ELSE 0
             q == IF d = x THEN 1 ELSE 0
             m == Cardinality(Naming(slot, {}, x))
             n == Cardinality(Naming(sl, {}, x))
  <2>6. p \in Int /\ q \in Int /\ m \in Nat
    BY <2>2
  <2>7. n = m - p + q /\ rc[x] = ext[x] + hold[x] + m /\ ct[x] - ex[x] = rc[x] - ext[x] - p + q
    BY <2>1, <2>3, <2>4, Zenon
  <2> HIDE DEF p, q, m, n
  <2>8. ct[x] = ex[x] + hold[x] + n
    BY <2>5, <2>6, <2>7
  <2> QED BY <2>8 DEF n
<1>3. ASSUME NEW x \in Cont, Unnamed(slot, ext, hold, x), d # x
      PROVE  Unnamed(sl, ex, hold, x)
  BY <1>0, <1>3 DEF Unnamed
<1>4. ASSUME NEW f \in Slots, Gone(slot, named, f), f # e \/ d = Nil
      PROVE  Gone(sl, nm, f)
  BY <1>0, <1>4 DEF Gone
<1>5. Freed(status, sl, nm, ex, hold, roots)
  <2> SUFFICES ASSUME NEW x \in Cont, status[x] = "free"
               PROVE  Unnamed(sl, ex, hold, x) /\ x \notin roots
                        /\ \A k \in Keys : Gone(sl, nm, <<x, k>>)
    BY DEF Freed
  <2>1. /\ Unnamed(slot, ext, hold, x) /\ x \notin roots
        /\ \A k \in Keys : Gone(slot, named, <<x, k>>)
    BY <1>1 DEF Freed
  <2>2. d # x
    BY NilIsNoContainer
  <2>3. ASSUME NEW k \in Keys PROVE Gone(sl, nm, <<x, k>>)
    <3>1. <<x, k>> \in Slots /\ (<<x, k>> = e => d = Nil)
      BY DEF Slots
    <3> QED BY <1>4, <2>1, <3>1
  <2> QED BY <1>3, <2>1, <2>2, <2>3
<1>6. ASSUME NEW i \in DOMAIN stk PROVE FrameOK(stk[i], status, sl, nm, ex, hold, dtorCalled)
  <2>1. FrameOK(stk[i], status, slot, named, ext, hold, dtorCalled)
    BY <1>1 DEF Framed
  <2>2. CASE stk[i].kind = "tear"
    <3>1. /\ stk[i].obj \in Cont /\ status[stk[i].obj] = "dying"
          /\ Unnamed(slot, ext, hold, stk[i].obj)
          /\ \A k \in Keys \ stk[i].left : Gone(slot, named, <<stk[i].obj, k>>)
      BY <2>1, <2>2 DEF FrameOK
    <3>2. d # stk[i].obj
      BY <2>2, <3>1, NilIsNoContainer DEF NotTorn
    <3>3. ASSUME NEW k \in Keys \ stk[i].left PROVE Gone(sl, nm, <<stk[i].obj, k>>)
      <4>1. <<stk[i].obj, k>> \in Slots /\ (<<stk[i].obj, k>> = e => d = Nil)
        BY <2>2, <3>1 DEF Slots
      <4> QED BY <1>4, <3>1, <4>1
    <3> QED BY <1>3, <2>2, <3>1, <3>2, <3>3 DEF FrameOK
  <2>3. CASE stk[i].kind # "tear"
    BY <2>1, <2>3 DEF FrameOK
  <2> QED BY <2>2, <2>3
<1>7. Framed(stk, status, sl, nm, ex, hold, dtorCalled)
  BY <1>1, <1>6 DEF Framed
<1> QED BY <1>1, <1>2, <1>5, <1>7 DEF Sound, sl

(* A slot written by the script.                                           *)
LEMMA StoreHeap ==
  ASSUME TypeOK, Control, HeapOK, DebtOK, NEW e \in Slots, NEW d \in Cont \cup {Nil}, Store(e, d)
  PROVE  HeapOK'
<1> DEFINE taken == IF d = Nil THEN rc ELSE [rc EXCEPT ![d] = @ + 1]
           less == [taken EXCEPT ![slot[e]] = @ - 1]
<1>1. /\ AtFetchPoint /\ Top.kind # "gc" /\ UNCHANGED <<named, ext, round>>
      /\ slot' = [slot EXCEPT ![e] = d] /\ (d # Nil => Held(d)) /\ Holders(e)
      /\ slot[e] # d
  BY DEF Store, PhpRuns, AtFetchPoint, Holders
<1>2. /\ rc \in [Cont -> Int] /\ hold \in [Cont -> Int] /\ ext \in [Cont -> Nat]
      /\ stack \in Seq(Frames) /\ slot[e] \in Cont \cup {Nil} /\ named \in SUBSET named
  BY DEF TypeOK
<1>3. Sound(status, slot, named, ext, rc, hold, dtorCalled, roots, {}, stack, HeldByGc)
  BY <1>1, HeapNext
<1>4. d # Nil => status[d] # "free" /\ NotTorn(stack, d)
  BY <1>1, HeldAlive
<1>5. /\ status[e[1]] # "free"
      /\ \A i \in DOMAIN stack :
           stack[i].kind = "tear" /\ stack[i].obj = e[1] => e[2] \in stack[i].left
  BY <1>1, HolderAlive
<1>6. /\ taken \in [Cont -> Int]
      /\ \A x \in Cont : taken[x] = rc[x] + (IF d = x THEN 1 ELSE 0)
  BY <1>2, NilIsNoContainer
<1>7. CASE slot[e] = Nil
  <2>1. rc' = taken /\ UNCHANGED <<status, dtorCalled, hold, stack, roots>>
    BY <1>7 DEF Store
  <2> HIDE DEF taken
  <2>2. \A x \in Cont : taken[x] - ext[x] = rc[x] - ext[x] - (IF slot[e] = x THEN 1 ELSE 0)
                                             + (IF d = x THEN 1 ELSE 0)
    BY <1>2, <1>6, <1>7, NilIsNoContainer
  <2>3. Sound(status, [slot EXCEPT ![e] = d], named, ext, taken, hold, dtorCalled, roots, {},
              stack, HeldByGc)
    BY <1>2, <1>3, <1>4, <1>5, <1>6, <2>2, SlotSound
  <2> QED BY <1>1, <2>1, <2>3, HeapNext
<1>8. CASE slot[e] # Nil
  <2>1. slot[e] \in Cont /\ UnrefGiven(slot[e], taken, hold, stack, walked)
    BY <1>2, <1>8 DEF Store, Unref
  <2>2. status[slot[e]] # "free" /\ NotTorn(stack, slot[e])
    BY <2>1, NamedAlive
  <2> HIDE DEF taken
  <2>3. /\ less \in [Cont -> Int]
        /\ \A x \in Cont : less[x] = taken[x] - (IF slot[e] = x THEN 1 ELSE 0)
    BY <1>6, <2>1
  <2> HIDE DEF less
  <2>4. ASSUME NEW x \in Cont
        PROVE  less[x] - ext[x] = rc[x] - ext[x] - (IF slot[e] = x THEN 1 ELSE 0)
                                    + (IF d = x THEN 1 ELSE 0)
    <3>1. rc[x] \in Int /\ ext[x] \in Int
      BY <1>2
    <3>2. less[x] = taken[x] - (IF slot[e] = x THEN 1 ELSE 0)
      BY <2>3
    <3>3. taken[x] = rc[x] + (IF d = x THEN 1 ELSE 0)
      BY <1>6
    <3> QED BY <3>1, <3>2, <3>3
  <2>5. Sound(status, [slot EXCEPT ![e] = d], named, ext, less, hold, dtorCalled, roots, {},
              stack, HeldByGc)
    BY <1>2, <1>3, <1>4, <1>5, <2>3, <2>4, SlotSound
  <2>6. Sound(status', [slot EXCEPT ![e] = d], named, ext, rc', hold', dtorCalled', roots', {},
              stack', HeldByGc)
    BY <1>2, <1>6, <2>1, <2>2, <2>5, UnrefSound DEF less
  <2> QED BY <1>1, <2>6, HeapNext
<1> QED BY <1>7, <1>8

(* A slot that loses its owner, over the C stack that goes on afterwards.  *)
LEMMA ReleaseSlotSound ==
  ASSUME TypeOK, NEW e \in Slots, NEW below \in Seq(Frames), NEW held, HeapOK,
         ReleaseSlot(e, below), NotTorn(stack, slot[e]) => NotTorn(below, slot[e]),
         Sound(status, slot, named, ext, rc, hold, dtorCalled, roots, {}, stack, held),
         \A ct, ex :
           Sound(status, slot', named', ex, ct, hold, dtorCalled, roots, {}, stack, held)
             => Sound(status, slot', named', ex, ct, hold, dtorCalled, roots, {}, below, held)
  PROVE  Sound(status', slot', named', ext', rc', hold', dtorCalled', roots', {}, stack', held)
<1>1. slot' = [slot EXCEPT ![e] = Nil] /\ named' \in SUBSET named
  BY DEF ReleaseSlot
<1>2. /\ rc \in [Cont -> Int] /\ hold \in [Cont -> Int] /\ ext \in [Cont -> Nat]
      /\ slot[e] \in Cont \cup {Nil}
  BY DEF TypeOK
<1>3. CASE slot[e] # Nil /\ e \notin named
  <2> DEFINE less == [rc EXCEPT ![slot[e]] = @ - 1]
  <2>1. slot[e] \in Cont /\ UnrefGiven(slot[e], rc, hold, below, walked) /\ ext' = ext
    BY <1>2, <1>3 DEF ReleaseSlot, Unref
  <2>2. status[slot[e]] # "free" /\ NotTorn(below, slot[e])
    BY <2>1, NamedAlive
  <2>3. /\ less \in [Cont -> Int]
        /\ \A x \in Cont : less[x] = rc[x] - (IF slot[e] = x THEN 1 ELSE 0)
    BY <1>2, <2>1
  <2> HIDE DEF less
  <2>4. \A x \in Cont : less[x] - ext[x] = rc[x] - ext[x] - (IF slot[e] = x THEN 1 ELSE 0)
                                            + (IF Nil = x THEN 1 ELSE 0)
    BY <1>2, <2>3, NilIsNoContainer, SMTT(30)
  <2>5. Sound(status, slot', named', ext, less, hold, dtorCalled, roots, {}, stack, held)
    BY <1>1, <1>2, <2>3, <2>4, SlotSound
  <2>6. Sound(status, slot', named', ext, less, hold, dtorCalled, roots, {}, below, held)
    BY <2>5
  <2> QED BY <1>2, <2>1, <2>2, <2>6, UnrefSound DEF less
<1>4. CASE ~(slot[e] # Nil /\ e \notin named)
  <2>1. /\ ext' = IF slot[e] = Nil THEN ext ELSE [ext EXCEPT ![slot[e]] = @ + 1]
        /\ stack' = below /\ UNCHANGED <<rc, status, dtorCalled, hold, roots>>
    BY <1>4 DEF ReleaseSlot
  <2>2. /\ ext' \in [Cont -> Nat]
        /\ \A x \in Cont : ext'[x] = ext[x] + (IF slot[e] = x THEN 1 ELSE 0)
    BY <1>2, <2>1, NilIsNoContainer
  <2>3. \A x \in Cont : /\ rc[x] - ext'[x] = rc[x] - ext[x] - (IF slot[e] = x THEN 1 ELSE 0)
                                            + (IF Nil = x THEN 1 ELSE 0)
                        /\ x # slot[e] => ext'[x] = ext[x]
    BY <1>2, <2>2, NilIsNoContainer
  <2>4. Sound(status, slot', named', ext', rc, hold, dtorCalled, roots, {}, stack, held)
    BY <1>1, <1>2, <2>2, <2>3, SlotSound
  <2> QED BY <2>1, <2>4
<1> QED BY <1>3, <1>4

(* unset() of an element or a property.                                    *)
LEMMA UnsetHeap ==
  ASSUME TypeOK, Control, HeapOK, DebtOK, NEW e \in Slots, Unset(e)
  PROVE  HeapOK'
<1>1. /\ Top.kind # "gc" /\ UNCHANGED round /\ ReleaseSlot(e, stack)
      /\ stack \in Seq(Frames)
  BY DEF Unset, PhpRuns, AtFetchPoint, TypeOK
<1>2. Sound(status, slot, named, ext, rc, hold, dtorCalled, roots, {}, stack, HeldByGc)
  BY <1>1, HeapNext
<1>3. Sound(status', slot', named', ext', rc', hold', dtorCalled', roots', {}, stack', HeldByGc)
  BY <1>1, <1>2, ReleaseSlotSound
<1> QED BY <1>1, <1>3, HeapNext

(* A release goes on to its next slot.                                     *)
LEMMA TearSlotHeap ==
  ASSUME TypeOK, Control, HeapOK, DebtOK, NEW k \in Keys, TearSlot(k)
  PROVE  HeapOK'
<1> DEFINE g == [Top EXCEPT !.left = @ \ {k}]
           e == <<Top.obj, k>>
           below == <<g>> \o Tail(stack)
<1>1. /\ Top.kind = "tear" /\ UNCHANGED round /\ ReleaseSlot(e, below)
  BY DEF TearSlot, Tearing
<1>2. stack # << >>
  BY <1>1, TopFrame
<1>3. /\ Top \in Frames /\ Top = stack[1] /\ Tail(stack) \in Seq(Frames)
      /\ Top.obj \in Cont /\ Top.left \subseteq Keys
  BY <1>1, <1>2, TopFrame
<1>4. /\ g \in Frames /\ g.kind = "tear" /\ g.obj = Top.obj /\ g.left = Top.left \ {k}
  BY <1>1, <1>3 DEF Frames, Frame
<1>5. e \in Slots
  BY <1>3 DEF Slots
<1> HIDE DEF g
<1>6. /\ DOMAIN below = DOMAIN stack /\ 1 \in DOMAIN stack /\ below \in Seq(Frames)
      /\ below[1] = g
      /\ \A i \in DOMAIN stack : i # 1 => below[i] = stack[i]
  <2>1. stack \in Seq(Frames)
    BY DEF TypeOK
  <2> QED BY <1>2, <1>4, <2>1, Replace
<1> HIDE DEF below
<1>7. \A i \in DOMAIN stack : below[i].kind = stack[i].kind /\ below[i].obj = stack[i].obj
  BY <1>1, <1>3, <1>4, <1>6
<1>8. Distinct(stack) => Distinct(below)
  BY <1>6, <1>7 DEF Distinct
<1>9. \A c : Destructing(below, c) <=> Destructing(stack, c)
  BY <1>6, <1>7 DEF Destructing
<1>10. \A c : NotTorn(below, c) <=> NotTorn(stack, c)
  BY <1>6, <1>7 DEF NotTorn
<1>11. Gone(slot', named', e)
  BY <1>1, <1>5 DEF ReleaseSlot, Gone, TypeOK
<1>12. ASSUME NEW ct, NEW ex,
             Sound(status, slot', named', ex, ct, hold, dtorCalled, roots, {}, stack, HeldByGc)
       PROVE  Sound(status, slot', named', ex, ct, hold, dtorCalled, roots, {}, below, HeldByGc)
  <2>1. /\ Exact(slot', ex, ct, hold, {}) /\ Freed(status, slot', named', ex, hold, roots)
        /\ Framed(stack, status, slot', named', ex, hold, dtorCalled)
        /\ Pinned(hold, stack, HeldByGc)
    BY <1>12 DEF Sound
  <2>2. Pinned(hold, below, HeldByGc)
    BY <1>9, <2>1 DEF Pinned
  <2>3. ASSUME NEW i \in DOMAIN below
        PROVE  FrameOK(below[i], status, slot', named', ex, hold, dtorCalled)
    <3>1. FrameOK(stack[i], status, slot', named', ex, hold, dtorCalled)
      BY <1>6, <2>1 DEF Framed
    <3>2. CASE i = 1
      <4>1. /\ status[Top.obj] = "dying" /\ Unnamed(slot', ex, hold, Top.obj)
            /\ \A n \in Keys \ Top.left : Gone(slot', named', <<Top.obj, n>>)
        BY <1>1, <1>3, <3>1, <3>2 DEF FrameOK
      <4>2. \A n \in Keys \ g.left : Gone(slot', named', <<Top.obj, n>>)
        BY <1>4, <1>11, <4>1
      <4> QED BY <1>3, <1>4, <1>6, <3>2, <4>1, <4>2 DEF FrameOK
    <3>3. CASE i # 1
      BY <1>6, <3>1, <3>3
    <3> QED BY <3>2, <3>3
  <2>4. Framed(below, status, slot', named', ex, hold, dtorCalled)
    BY <1>8, <2>1, <2>3 DEF Framed
  <2> QED BY <2>1, <2>2, <2>4 DEF Sound
<1>13. Sound(status, slot, named, ext, rc, hold, dtorCalled, roots, {}, stack, HeldByGc)
  BY <1>1, HeapNext
<1>14. Sound(status', slot', named', ext', rc', hold', dtorCalled', roots', {}, stack', HeldByGc)
  <2>1. ReleaseSlot(e, below) /\ below \in Seq(Frames)
    BY <1>1, <1>6 DEF below
  <2> HIDE DEF e
  <2> QED BY <1>5, <1>10, <1>12, <1>13, <2>1, ReleaseSlotSound
<1> QED BY <1>1, <1>14, HeapNext

(* Names given to a slot and taken away, and gc_enable(): no count moves.  *)
LEMMA AliasHeap ==
  ASSUME TypeOK, Control, HeapOK, DebtOK,
         Toggle \/ \E e \in Slots : Alias(e) \/ Unalias(e)
  PROVE  HeapOK'
<1>1. /\ Top.kind # "gc"
      /\ UNCHANGED <<status, slot, ext, rc, hold, dtorCalled, roots, round, stack>>
  BY DEF Toggle, Alias, Unalias, PhpRuns, AtFetchPoint, heap, buffer
<1>2. ASSUME NEW f \in Slots,
             status[f[1]] # "free",
             \A i \in DOMAIN stack :
               stack[i].kind = "tear" /\ stack[i].obj = f[1] => f[2] \in stack[i].left,
             named' = named \cup {f}
      PROVE  HeapOK'
  <2>1. /\ Exact(slot, ext, rc, hold, {}) /\ Freed(status, slot, named, ext, hold, roots)
        /\ Framed(stack, status, slot, named, ext, hold, dtorCalled)
        /\ Pinned(hold, stack, HeldByGc)
    BY <1>1, HeapNext DEF Sound
  <2>2. f = <<f[1], f[2]>>
    BY DEF Slots
  <2>3. \A x, k : f = <<x, k>> => f[1] = x /\ f[2] = k
    OBVIOUS
  <2>4. Freed(status, slot, named', ext, hold, roots)
    BY <1>2, <2>1, <2>3 DEF Freed, Gone
  <2>5. Framed(stack, status, slot, named', ext, hold, dtorCalled)
    BY <1>2, <2>1, <2>3 DEF Framed, FrameOK, Gone
  <2> QED BY <1>1, <2>1, <2>4, <2>5, HeapNext DEF Sound
<1>3. ASSUME named' \subseteq named PROVE HeapOK'
  <2>1. /\ Exact(slot, ext, rc, hold, {}) /\ Freed(status, slot, named, ext, hold, roots)
        /\ Framed(stack, status, slot, named, ext, hold, dtorCalled)
        /\ Pinned(hold, stack, HeldByGc)
    BY <1>1, HeapNext DEF Sound
  <2>2. Freed(status, slot, named', ext, hold, roots)
    BY <1>3, <2>1 DEF Freed, Gone
  <2>3. Framed(stack, status, slot, named', ext, hold, dtorCalled)
    BY <1>3, <2>1 DEF Framed, FrameOK, Gone
  <2> QED BY <1>1, <2>1, <2>2, <2>3, HeapNext DEF Sound
<1>4. ASSUME NEW e \in Slots, Alias(e) PROVE HeapOK'
  <2>1. AtFetchPoint /\ Holders(e) /\ named' = named \cup {e}
    BY <1>4 DEF Alias, PhpRuns, Holders
  <2> QED BY <1>2, <2>1, HolderAlive
<1>5. ASSUME NEW e \in Slots, Unalias(e) PROVE HeapOK'
  <2>1. named' \subseteq named
    BY <1>5 DEF Unalias
  <2> QED BY <1>3, <2>1
<1>6. CASE Toggle
  <2>1. named' \subseteq named
    BY <1>6 DEF Toggle, heap
  <2> QED BY <1>3, <2>1
<1> QED BY <1>4, <1>5, <1>6

(* What a pop leaves: the frames below, and none like the one popped.      *)
LEMMA PopFrames ==
  ASSUME NEW stk \in Seq(Frames), stk # << >>, Distinct(stk)
  PROVE  /\ Distinct(Tail(stk))
         /\ \A i \in DOMAIN Tail(stk) : \E j \in DOMAIN stk : Tail(stk)[i] = stk[j]
         /\ stk[1].kind # "gc" =>
              \A i \in DOMAIN Tail(stk) :
                ~(Tail(stk)[i].kind = stk[1].kind /\ Tail(stk)[i].obj = stk[1].obj)
         /\ \A c : Destructing(stk, c)
                     <=> Destructing(Tail(stk), c) \/ (stk[1].kind = "dtor" /\ stk[1].obj = c)
<1> DEFINE t == Tail(stk)
<1>1. /\ DOMAIN stk = 1 .. Len(stk) /\ Len(stk) \in Nat \ {0}
      /\ DOMAIN t = 1 .. (Len(stk) - 1)
      /\ \A i \in 1 .. (Len(stk) - 1) : t[i] = stk[i + 1]
  BY Pop
<1> HIDE DEF t
<1>2. \A i \in DOMAIN t : i \in Nat /\ i + 1 \in DOMAIN stk /\ t[i] = stk[i + 1] /\ i + 1 # 1
  BY <1>1
<1>3. 1 \in DOMAIN stk
  BY <1>1
<1>4. ASSUME NEW j \in DOMAIN stk, j # 1 PROVE j - 1 \in DOMAIN t /\ t[j - 1] = stk[j]
  BY <1>1, <1>4
<1>5. Distinct(t)
  <2> SUFFICES ASSUME NEW i \in DOMAIN t, NEW j \in DOMAIN t,
                      t[i].kind = t[j].kind, t[i].obj = t[j].obj, t[i].kind # "gc"
               PROVE  i = j
    BY DEF Distinct
  <2>1. i + 1 = j + 1
    BY <1>2 DEF Distinct
  <2> QED BY <1>2, <2>1
<1>6. \A i \in DOMAIN t : \E j \in DOMAIN stk : t[i] = stk[j]
  BY <1>2
<1>7. stk[1].kind # "gc" =>
        \A i \in DOMAIN t : ~(t[i].kind = stk[1].kind /\ t[i].obj = stk[1].obj)
  BY <1>2, <1>3 DEF Distinct
<1>8. \A c : Destructing(stk, c)
               <=> Destructing(t, c) \/ (stk[1].kind = "dtor" /\ stk[1].obj = c)
  BY <1>2, <1>3, <1>4 DEF Destructing
<1> QED BY <1>5, <1>6, <1>7, <1>8 DEF t

(* The body of a destructor returns: its two pins go, and a container that *)
(* still has no other reference is torn down.                              *)
LEMMA DtorReturnHeap ==
  ASSUME TypeOK, Control, HeapOK, DebtOK, DtorReturn
  PROVE  HeapOK'
<1> DEFINE c == Top.obj
<1>1. /\ Top.kind = "dtor" /\ UNCHANGED <<slot, named, ext, dtorCalled, roots, round>>
      /\ hold' = [hold EXCEPT ![c] = @ - 2] /\ rc' = [rc EXCEPT ![c] = @ - 2]
      /\ status' = [status EXCEPT ![c] = IF rc[c] - 2 > 0 THEN "live" ELSE @]
      /\ stack' = IF status[c] = "dying" /\ ~(rc[c] - 2 > 0)
                    THEN <<Frame("tear", c, Keys)>> \o Tail(stack) ELSE Tail(stack)
  BY DEF DtorReturn, buffer
<1>2. /\ stack # << >> /\ stack \in Seq(Frames) /\ stack[1] = Top
      /\ Tail(stack) \in Seq(Frames) /\ c \in Cont /\ 1 \in DOMAIN stack
  <2>1. stack # << >> /\ stack \in Seq(Frames)
    BY <1>1, TopFrame DEF TypeOK
  <2>2. Tail(stack) \in Seq(Frames) /\ stack[1] = Top /\ c \in Cont
    BY <1>1, <2>1, TopFrame
  <2>3. 1 \in DOMAIN stack
    BY <2>1, Pop
  <2> QED BY <2>1, <2>2, <2>3
<1> HIDE DEF c
<1>3. /\ Exact(slot, ext, rc, hold, {}) /\ Freed(status, slot, named, ext, hold, roots)
      /\ Framed(stack, status, slot, named, ext, hold, dtorCalled)
      /\ Pinned(hold, stack, HeldByGc)
  BY <1>1, HeapNext DEF Sound
<1>4. /\ hold' \in [Cont -> Int] /\ rc' \in [Cont -> Int]
      /\ hold'[c] = hold[c] - 2 /\ rc'[c] = rc[c] - 2
      /\ \A d \in Cont : d # c => hold'[d] = hold[d] /\ rc'[d] = rc[d] /\ status'[d] = status[d]
      /\ status'[c] \in {status[c], "live"}
  BY <1>1, <1>2 DEF TypeOK
<1>5. hold[c] > 0
  <2>1. Destructing(stack, c)
    BY <1>1, <1>2 DEF Destructing, c
  <2>2. hold[c] > 1
    BY <1>2, <1>3, <2>1, PinsNat DEF TypeOK
  <2> QED BY <1>2, <2>2 DEF TypeOK
<1>6. status[c] # "free" /\ NotTorn(stack, c)
  BY <1>2, <1>5, NamedAlive
<1>7. /\ Distinct(Tail(stack))
      /\ \A i \in DOMAIN Tail(stack) : \E j \in DOMAIN stack : Tail(stack)[i] = stack[j]
      /\ ~Destructing(Tail(stack), c)
      /\ \A d : Destructing(stack, d) <=> Destructing(Tail(stack), d) \/ d = c
  <2>1. Distinct(stack) /\ stack[1].kind = "dtor" /\ stack[1].obj = c
    BY <1>1, <1>2, <1>3 DEF Framed, c
  <2>2. /\ Distinct(Tail(stack))
        /\ \A i \in DOMAIN Tail(stack) : \E j \in DOMAIN stack : Tail(stack)[i] = stack[j]
        /\ \A i \in DOMAIN Tail(stack) :
             ~(Tail(stack)[i].kind = "dtor" /\ Tail(stack)[i].obj = c)
        /\ \A d : Destructing(stack, d) <=> Destructing(Tail(stack), d) \/ d = c
    BY <1>2, <2>1, PopFrames
  <2>3. ~Destructing(Tail(stack), c)
    BY <2>2 DEF Destructing
  <2> QED BY <2>2, <2>3
<1>8. Exact(slot, ext, rc', hold', {})
  <2> SUFFICES ASSUME NEW d \in Cont
               PROVE  rc'[d] = ext[d] + hold'[d] + Cardinality(Naming(slot, {}, d))
    BY DEF Exact
  <2>1. Cardinality(Naming(slot, {}, d)) \in Nat
    BY NamingFinite
  <2>2. rc[d] = ext[d] + hold[d] + Cardinality(Naming(slot, {}, d))
    BY <1>3 DEF Exact
  <2>3. rc[d] \in Int /\ ext[d] \in Int /\ hold[d] \in Int
    BY DEF TypeOK
  <2> QED BY <1>4, <2>1, <2>2, <2>3
<1>9. Pinned(hold', Tail(stack), HeldByGc)
  <2> SUFFICES ASSUME NEW d \in Cont
               PROVE  hold'[d] = (IF d \in HeldByGc THEN 1 ELSE 0)
                                  + (IF Destructing(Tail(stack), d) THEN 2 ELSE 0)
    BY DEF Pinned
  <2>1. hold[d] = (IF d \in HeldByGc THEN 1 ELSE 0) + (IF Destructing(stack, d) THEN 2 ELSE 0)
    BY <1>3 DEF Pinned
  <2>2. CASE d = c
    <3>1. hold[d] = (IF d \in HeldByGc THEN 1 ELSE 0) + 2
      BY <1>7, <2>1, <2>2
    <3>2. hold'[d] = (IF d \in HeldByGc THEN 1 ELSE 0)
      BY <1>4, <2>2, <3>1
    <3> QED BY <1>7, <2>2, <3>2
  <2>3. CASE d # c
    <3>1. Destructing(stack, d) <=> Destructing(Tail(stack), d)
      BY <1>7, <2>3
    <3> QED BY <1>4, <2>1, <2>3, <3>1
  <2> QED BY <2>2, <2>3
<1>10. Freed(status', slot, named, ext, hold', roots)
  BY <1>3, <1>4, <1>6 DEF Freed, Unnamed
<1>11. ASSUME NEW i \in DOMAIN Tail(stack)
       PROVE  FrameOK(Tail(stack)[i], status', slot, named, ext, hold', dtorCalled)
  <2>1. PICK j \in DOMAIN stack : Tail(stack)[i] = stack[j]
    BY <1>7
  <2>2. FrameOK(stack[j], status, slot, named, ext, hold, dtorCalled)
    BY <1>3 DEF Framed
  <2>3. stack[j].kind = "tear" => stack[j].obj # c
    BY <1>6 DEF NotTorn
  <2> QED BY <1>4, <2>1, <2>2, <2>3 DEF FrameOK, Unnamed
<1>12. Framed(Tail(stack), status', slot, named, ext, hold', dtorCalled)
  BY <1>7, <1>11 DEF Framed
<1>13. CASE status[c] = "dying" /\ ~(rc[c] - 2 > 0)
  <2> DEFINE f == Frame("tear", c, Keys)
  <2>1. f \in Frames /\ f.kind = "tear" /\ f.obj = c /\ f.left = Keys
    BY <1>2 DEF Frame, Frames
  <2>2. stack' = <<f>> \o Tail(stack) /\ status'[c] = "dying"
    BY <1>1, <1>2, <1>13 DEF TypeOK
  <2> HIDE DEF f
  <2>3. Unnamed(slot, ext, hold', c)
    <3>1. rc'[c] < 1
      BY <1>2, <1>4, <1>13 DEF TypeOK
    <3> QED BY <1>2, <1>4, <1>8, <1>9, <3>1, ZeroUnnamed DEF TypeOK
  <2>4. FrameOK(f, status', slot, named, ext, hold', dtorCalled)
    BY <1>2, <2>1, <2>2, <2>3 DEF FrameOK
  <2>5. \A i \in DOMAIN Tail(stack) : ~(Tail(stack)[i].kind = "tear" /\ Tail(stack)[i].obj = c)
    BY <1>6, <1>7 DEF NotTorn
  <2>6. Distinct(stack')
    BY <1>2, <1>7, <2>1, <2>2, <2>5, PushDistinct
  <2>7. ASSUME NEW i \in DOMAIN stack'
        PROVE  FrameOK(stack'[i], status', slot, named, ext, hold', dtorCalled)
    <3>1. stack'[i] = f \/ \E j \in DOMAIN Tail(stack) : stack'[i] = Tail(stack)[j]
      BY <1>2, <2>1, <2>2, PushFrames
    <3> QED BY <1>11, <2>4, <3>1
  <2>8. Pinned(hold', stack', HeldByGc)
    BY <1>2, <1>9, <2>1, <2>2, PushDestructing DEF Pinned
  <2> QED BY <1>1, <1>8, <1>10, <2>6, <2>7, <2>8, HeapNext DEF Sound, Framed
<1>14. CASE ~(status[c] = "dying" /\ ~(rc[c] - 2 > 0))
  <2>1. stack' = Tail(stack)
    BY <1>1, <1>14
  <2> QED BY <1>1, <1>8, <1>9, <1>10, <1>12, <2>1, HeapNext DEF Sound
<1> QED BY <1>13, <1>14

(* A release ends: nothing names the block, and it names nothing.          *)
LEMMA TearEndHeap ==
  ASSUME TypeOK, Control, HeapOK, DebtOK, TearEnd
  PROVE  HeapOK'
<1> DEFINE c == Top.obj
<1>1. /\ Top.kind = "tear" /\ Top.left = {} /\ UNCHANGED <<slot, named, ext, rc, hold, round>>
      /\ roots' = roots \ {c} /\ status' = [status EXCEPT ![c] = "free"]
      /\ dtorCalled' = dtorCalled \ {c} /\ stack' = Tail(stack)
  BY DEF TearEnd, Tearing, Forget
<1>2. /\ stack # << >> /\ stack \in Seq(Frames) /\ stack[1] = Top
      /\ c \in Cont /\ 1 \in DOMAIN stack
  <2>1. stack # << >> /\ stack \in Seq(Frames)
    BY <1>1, TopFrame DEF TypeOK
  <2>2. stack[1] = Top /\ c \in Cont
    BY <1>1, <2>1, TopFrame
  <2>3. 1 \in DOMAIN stack
    BY <2>1, Pop
  <2> QED BY <2>1, <2>2, <2>3
<1>3. /\ Exact(slot, ext, rc, hold, {}) /\ Freed(status, slot, named, ext, hold, roots)
      /\ Framed(stack, status, slot, named, ext, hold, dtorCalled)
      /\ Pinned(hold, stack, HeldByGc)
  BY <1>1, HeapNext DEF Sound
<1>4. /\ Unnamed(slot, ext, hold, c) /\ \A k \in Keys : Gone(slot, named, <<c, k>>)
  <2>1. FrameOK(Top, status, slot, named, ext, hold, dtorCalled)
    BY <1>2, <1>3 DEF Framed
  <2> QED BY <1>1, <2>1 DEF FrameOK
<1>5. /\ Distinct(Tail(stack))
      /\ \A i \in DOMAIN Tail(stack) : \E j \in DOMAIN stack : Tail(stack)[i] = stack[j]
      /\ \A i \in DOMAIN Tail(stack) : ~(Tail(stack)[i].kind = "tear" /\ Tail(stack)[i].obj = c)
      /\ \A d : Destructing(stack, d) <=> Destructing(Tail(stack), d)
  BY <1>1, <1>2, <1>3, PopFrames, SMTT(30) DEF Framed
<1> HIDE DEF c
<1>6. /\ status'[c] = "free" /\ \A d \in Cont : d # c => status'[d] = status[d]
  BY <1>1, <1>2 DEF TypeOK
<1>7. ~Destructing(stack, c)
  <2>1. SUFFICES ASSUME Destructing(stack, c) PROVE FALSE
    OBVIOUS
  <2>2. hold[c] > 1
    BY <1>2, <1>3, <2>1, PinsNat DEF TypeOK
  <2> QED BY <1>4, <2>2 DEF Unnamed
<1>8. Freed(status', slot, named, ext, hold, roots')
  BY <1>1, <1>3, <1>4, <1>6 DEF Freed
<1>9. ASSUME NEW i \in DOMAIN Tail(stack)
      PROVE  FrameOK(Tail(stack)[i], status', slot, named, ext, hold, dtorCalled')
  <2>1. PICK j \in DOMAIN stack : Tail(stack)[i] = stack[j]
    BY <1>5
  <2>2. FrameOK(stack[j], status, slot, named, ext, hold, dtorCalled)
    BY <1>3 DEF Framed
  <2>3. stack[j].kind = "tear" => stack[j].obj # c
    BY <1>5, <2>1
  <2>4. stack[j].kind = "dtor" => stack[j].obj # c
    BY <1>7 DEF Destructing
  <2> QED BY <1>1, <1>6, <2>1, <2>2, <2>3, <2>4 DEF FrameOK
<1>10. Pinned(hold, Tail(stack), HeldByGc)
  BY <1>3, <1>5 DEF Pinned
<1> QED BY <1>1, <1>3, <1>5, <1>8, <1>9, <1>10, HeapNext DEF Sound, Framed

(* A collection begins: one frame that pins nothing.                       *)
LEMMA CollectHeap ==
  ASSUME TypeOK, Control, HeapOK, DebtOK, Collect
  PROVE  HeapOK'
<1>1. /\ Top.kind # "gc"
      /\ UNCHANGED <<status, slot, named, ext, rc, hold, dtorCalled, roots>>
  BY DEF Collect, AtFetchPoint, heap
<1>2. CASE Running \/ rows = 0
  <2>1. UNCHANGED <<round, stack>>
    BY <1>2 DEF Collect
  <2>2. Sound(status', slot', named', ext', rc', hold', dtorCalled', roots', {}, stack', HeldByGc)
    BY <1>1, <2>1, HeapNext
  <2> QED BY <1>1, <2>1, <2>2, HeapNext
<1>3. CASE ~(Running \/ rows = 0)
  <2> DEFINE f == Frame("gc", Nil, {})
  <2>1. pc = "idle" /\ pc' = "mark" /\ stack' = <<f>> \o stack /\ debt' = debt
    BY <1>3 DEF Collect, Running
  <2>2. debt = {} /\ debt' = {} /\ HeldByGc = {} /\ HeldByGc' = {}
    BY <1>1, <2>1, Quiet DEF HeldByGc
  <2>3. /\ Exact(slot, ext, rc, hold, {}) /\ Freed(status, slot, named, ext, hold, roots)
        /\ Framed(stack, status, slot, named, ext, hold, dtorCalled)
        /\ Pinned(hold, stack, {})
    BY <2>2 DEF HeapOK, Sound
  <2>4. f \in Frames /\ f.kind = "gc" /\ stack \in Seq(Frames)
    BY DEF Frame, Frames, TypeOK
  <2> HIDE DEF f
  <2>5. Distinct(stack')
    BY <2>1, <2>3, <2>4, PushDistinct DEF Framed
  <2>6. ASSUME NEW i \in DOMAIN stack'
        PROVE  FrameOK(stack'[i], status, slot, named, ext, hold, dtorCalled)
    <3>1. stack'[i] = f \/ \E j \in DOMAIN stack : stack'[i] = stack[j]
      BY <2>1, <2>4, PushFrames
    <3> QED BY <2>3, <2>4, <3>1 DEF FrameOK, Framed
  <2>7. Pinned(hold, stack', {})
    BY <2>1, <2>3, <2>4, PushDestructing DEF Pinned
  <2>8. Sound(status', slot', named', ext', rc', hold', dtorCalled', roots', debt', stack', HeldByGc')
    BY <1>1, <2>2, <2>3, <2>5, <2>6, <2>7 DEF Sound, Framed
  <2> QED BY <2>8 DEF HeapOK
<1> QED BY <1>2, <1>3

(* A shared array is copied: the copy has a reference of the script's, and *)
(* what the elements name has one name more for each.                      *)
LEMMA SeparateHeap ==
  ASSUME TypeOK, Control, HeapOK, DebtOK, NEW c \in Maps, NEW n \in Maps, Separate(c, n)
  PROVE  HeapOK'
<1>0. c \in Cont /\ n \in Cont
  BY DEF Cont
<1>1. /\ Top.kind # "gc" /\ UNCHANGED <<named, hold, dtorCalled, roots, round, stack>>
      /\ ext[c] > 0 /\ status[n] = "free"
      /\ status' = [status EXCEPT ![n] = "live"]
      /\ slot' = [e \in Slots |-> IF e[1] = n THEN slot[<<c, e[2]>>] ELSE slot[e]]
      /\ ext' = [ext EXCEPT ![c] = @ - 1, ![n] = 1]
      /\ rc' = [d \in Cont |-> IF d = n THEN 1
                           ELSE rc[d] + Weight({c} \X Keys, d) - (IF d = c THEN 1 ELSE 0)]
  BY <1>0 DEF Separate, PhpRuns, AtFetchPoint, buffer, TypeOK
<1>2. /\ Exact(slot, ext, rc, hold, {}) /\ Freed(status, slot, named, ext, hold, roots)
      /\ Framed(stack, status, slot, named, ext, hold, dtorCalled)
      /\ Pinned(hold, stack, HeldByGc)
  BY <1>1, HeapNext DEF Sound
<1>3. /\ ext[n] = 0 /\ hold[n] = 0 /\ \A e \in Slots : slot[e] # n
      /\ \A k \in Keys : Gone(slot, named, <<n, k>>)
  BY <1>0, <1>1, <1>2 DEF Freed, Unnamed
<1>4. c # n
  BY <1>1, <1>3
<1>5. /\ \A d \in Cont : ext'[d] = IF d = n THEN 1 ELSE IF d = c THEN ext[c] - 1 ELSE ext[d]
      /\ \A d \in Cont : status'[d] = IF d = n THEN "live" ELSE status[d]
  BY <1>0, <1>1, <1>4 DEF TypeOK
<1>6. /\ \A k \in Keys : <<c, k>> \in Slots /\ <<n, k>> \in Slots
      /\ \A e \in Slots : e[1] \in Cont /\ e[2] \in Keys /\ e = <<e[1], e[2]>>
  BY <1>0 DEF Slots
<1>7. \A e \in Slots : slot'[e] = IF e[1] = n THEN slot[<<c, e[2]>>] ELSE slot[e]
  BY <1>1
<1>8. \A e \in Slots : e[1] = n => slot[e] = Nil
  BY <1>3, <1>6 DEF Gone
<1>9. \A e \in Slots : slot'[e] # n
  BY <1>3, <1>6, <1>7
<1>10. ASSUME NEW d \in Cont
       PROVE  Cardinality(Naming(slot', {}, d))
                = Cardinality(Naming(slot, {}, d)) + Weight({c} \X Keys, d)
  <2> DEFINE N == Naming(slot, {}, d)
             P == {e \in Slots : e[1] = n /\ slot[<<c, e[2]>>] = d}
             Q == {e \in {c} \X Keys : slot[e] = d}
             F == [e \in Q |-> <<n, e[2]>>]
  <2>1. d # Nil
    BY NilIsNoContainer
  <2>2. Naming(slot', {}, d) = N \cup P /\ N \cap P = {}
    <3>1. ASSUME NEW e \in Slots
          PROVE  slot'[e] = d <=> slot[e] = d \/ (e[1] = n /\ slot[<<c, e[2]>>] = d)
      BY <1>7, <1>8, <2>1
    <3> QED BY <1>8, <2>1, <3>1 DEF Naming
  <2>3. /\ N \in SUBSET Slots /\ P \in SUBSET Slots /\ Q \in SUBSET Slots
    BY <1>0, NamingFinite DEF Slots
  <2>4. \A e \in Q : e = <<c, e[2]>> /\ e[2] \in Keys /\ slot[e] = d
    OBVIOUS
  <2>5. \A k \in Keys : <<n, k>>[1] = n /\ <<n, k>>[2] = k
    OBVIOUS
  <2>6. \A e \in Q : <<n, e[2]>> \in P
    BY <1>6, <2>4, <2>5
  <2>7. \A f \in P : <<c, f[2]>> \in Q /\ f = <<n, <<c, f[2]>>[2]>>
    BY <1>6
  <2>8. \A e, g \in Q : <<n, e[2]>> = <<n, g[2]>> => e = g
    BY <2>4, <2>5
  <2> HIDE DEF P, Q
  <2>9. F \in [Q -> P]
    BY <2>6
  <2>10. \A f \in P : \E e \in Q : F[e] = f
    BY <2>7
  <2>11. \A e, g \in Q : F[e] = F[g] => e = g
    BY <2>8
  <2>12. ExistsBijection(Q, P)
    <3> HIDE DEF F
    <3>1. F \in Bijection(Q, P)
      BY <2>9, <2>10, <2>11 DEF Bijection, Injection, Surjection, IsInjective
    <3> QED BY <3>1 DEF ExistsBijection
  <2>13. Cardinality(P) = Cardinality(Q)
    BY <2>3, <2>12, SlotsFinite, FS_Bijection
  <2>14. Weight({c} \X Keys, d) = Cardinality(Q)
    BY DEF Weight, Q
  <2>15. Cardinality(N \cup P) = Cardinality(N) + Cardinality(P)
    BY <2>2, <2>3, MoreEdges
  <2> QED BY <2>2, <2>13, <2>14, <2>15
<1>11. Exact(slot', ext', rc', hold, {})
  <2> SUFFICES ASSUME NEW d \in Cont
               PROVE  rc'[d] = ext'[d] + hold[d] + Cardinality(Naming(slot', {}, d))
    BY DEF Exact
  <2>1. CASE d = n
    <3>1. Naming(slot', {}, d) = {}
      BY <1>9, <2>1 DEF Naming
    <3>2. Cardinality(Naming(slot', {}, d)) = 0
      BY <3>1, NamingFinite
    <3>3. rc'[d] = 1 /\ ext'[d] = 1 /\ hold[d] = 0
      BY <1>1, <1>3, <1>5, <2>1
    <3> QED BY <3>2, <3>3
  <2>2. CASE d # n
    <3> DEFINE W == Weight({c} \X Keys, d)
               m == Cardinality(Naming(slot, {}, d))
    <3>1. /\ rc'[d] = rc[d] + W - (IF d = c THEN 1 ELSE 0)
          /\ ext'[d] = IF d = c THEN ext[c] - 1 ELSE ext[d]
      BY <1>1, <1>5, <2>2
    <3>2. Cardinality(Naming(slot', {}, d)) = m + W
      BY <1>10
    <3>3. rc[d] = ext[d] + hold[d] + m
      BY <1>2 DEF Exact
    <3>4. W \in Nat /\ m \in Nat
      <4>1. {e \in {c} \X Keys : slot[e] = d} \in SUBSET Slots
        BY <1>0 DEF Slots
      <4> QED BY <4>1, SlotsFinite, NamingFinite DEF Weight
    <3>5. rc[d] \in Int /\ ext[d] \in Int /\ hold[d] \in Int
      BY DEF TypeOK
    <3> HIDE DEF W, m
    <3> QED BY <3>1, <3>2, <3>3, <3>4, <3>5
  <2> QED BY <2>1, <2>2
<1>12. ASSUME NEW x \in Cont, Unnamed(slot, ext, hold, x), x # n
       PROVE  Unnamed(slot', ext', hold, x)
  <2>1. x # c
    BY <1>1, <1>12 DEF Unnamed
  <2>3. ext'[x] = 0
    BY <1>5, <1>12, <2>1 DEF Unnamed
  <2>2. \A e \in Slots : slot'[e] # x
    BY <1>6, <1>7, <1>12 DEF Unnamed
  <2> QED BY <1>12, <2>2, <2>3 DEF Unnamed
<1>13. ASSUME NEW x \in Cont, x # n, NEW k \in Keys, Gone(slot, named, <<x, k>>)
       PROVE  Gone(slot', named, <<x, k>>)
  <2>1. <<x, k>> \in Slots /\ <<x, k>>[1] = x
    BY DEF Slots
  <2> QED BY <1>7, <1>13, <2>1 DEF Gone
<1>14. Freed(status', slot', named, ext', hold, roots)
  BY <1>2, <1>5, <1>12, <1>13 DEF Freed
<1>15. ASSUME NEW i \in DOMAIN stack
       PROVE  FrameOK(stack[i], status', slot', named, ext', hold, dtorCalled)
  <2>1. FrameOK(stack[i], status, slot, named, ext, hold, dtorCalled)
    BY <1>2 DEF Framed
  <2>2. stack[i].kind = "tear" => stack[i].obj \in Cont /\ stack[i].obj # n
    BY <1>1, <2>1 DEF FrameOK
  <2> QED BY <1>5, <1>12, <1>13, <2>1, <2>2 DEF FrameOK
<1>16. Framed(stack, status', slot', named, ext', hold, dtorCalled)
  BY <1>2, <1>15 DEF Framed
<1> QED BY <1>1, <1>2, <1>11, <1>14, <1>16, HeapNext DEF Sound

(* What the script does.                                                   *)
LEMMA PhpHeap ==
  ASSUME TypeOK, WalkHeld, Control, HeapOK, DebtOK, PhpStep
  PROVE  HeapOK'
<1>1. ASSUME NEW c \in Cont, Copy(c) PROVE HeapOK'
  <2>1. /\ AtFetchPoint /\ Top.kind # "gc" /\ TakeRef(c)
        /\ Held(c) \/ \E e \in Slots : slot[e] = c
    BY <1>1 DEF Copy, PhpRuns, AtFetchPoint
  <2>2. status[c] # "free" /\ NotTorn(stack, c)
    BY <2>1, HeldAlive, NamedAlive
  <2> QED BY <2>1, <2>2, TakeHeap DEF TakeRef, buffer
<1>2. ASSUME NEW c \in Cont, WeakGet(c) PROVE HeapOK'
  <2>1. Top.kind # "gc" /\ TakeRef(c) /\ status[c] # "free" /\ NotTorn(stack, c)
    BY <1>2 DEF WeakGet, PhpRuns, AtFetchPoint, NotTorn
  <2> QED BY <2>1, TakeHeap DEF TakeRef, buffer
<1>3. ASSUME NEW c \in Cont, Drop(c) PROVE HeapOK'
  <2>1. ext[c] > 0
    BY <1>3 DEF Drop, TypeOK
  <2> QED BY <1>3, <2>1, DropHeap DEF Drop, Unref, PhpRuns, AtFetchPoint
<1>4. ASSUME NEW c \in Cont, OpenWalk(c) PROVE HeapOK'
  <2>1. AtFetchPoint /\ Top.kind # "gc" /\ Held(c)
    BY <1>4 DEF OpenWalk, PhpRuns, AtFetchPoint
  <2>2. status[c] # "free" /\ NotTorn(stack, c)
    BY <2>1, HeldAlive
  <2> QED BY <1>4, <2>1, <2>2, TakeHeap DEF OpenWalk, buffer
<1>5. ASSUME NEW c \in Cont, CloseWalk(c) PROVE HeapOK'
  <2>1. ext[c] > 0
    BY <1>5 DEF CloseWalk, WalkHeld
  <2> QED BY <1>5, <2>1, DropHeap DEF CloseWalk, PhpRuns, AtFetchPoint
<1> QED BY <1>1, <1>2, <1>3, <1>4, <1>5, NewHeap, StoreHeap, UnsetHeap, AliasHeap, SeparateHeap
        DEF PhpStep

(* A pass that touches neither the heap nor a count.                       *)
LEMMA SameHeap ==
  ASSUME HeapOK, HeldByGc' = HeldByGc, UNCHANGED <<heap, rc, debt, stack, roots>>
  PROVE  HeapOK'
BY DEF HeapOK, heap

(* Edges subtracted in a pass were not subtracted before; edges put back   *)
(* were.                                                                   *)
LEMMA DebtHeap ==
  ASSUME TypeOK, HeapOK, HeldByGc' = HeldByGc, UNCHANGED <<heap, stack, roots>>,
         NEW V \in SUBSET Slots,
         \/ /\ V \cap debt = {} /\ debt' = debt \cup V
            /\ rc' = [d \in Cont |-> rc[d] - Weight(V, d)]
         \/ /\ V \subseteq debt /\ debt' = debt \ V
            /\ rc' = [d \in Cont |-> rc[d] + Weight(V, d)]
  PROVE  HeapOK'
<1>1. ASSUME NEW d \in Cont
      PROVE  rc'[d] = ext[d] + hold[d] + Cardinality(Naming(slot, debt', d))
  <2> DEFINE N == Naming(slot, debt, d)
             M == Naming(slot, debt', d)
             W == {e \in V : slot[e] = d}
  <2>1. /\ N \in SUBSET Slots /\ M \in SUBSET Slots /\ W \in SUBSET Slots
        /\ Cardinality(N) \in Nat /\ Cardinality(M) \in Nat /\ Cardinality(W) \in Nat
    BY NamingFinite, SlotsFinite
  <2>2. rc[d] = ext[d] + hold[d] + Cardinality(N)
    BY DEF HeapOK, Sound, Exact
  <2>3. rc[d] \in Int /\ ext[d] \in Int /\ hold[d] \in Int
    BY DEF TypeOK
  <2>4. CASE /\ V \cap debt = {} /\ debt' = debt \cup V
             /\ rc' = [x \in Cont |-> rc[x] - Weight(V, x)]
    <3>1. M = N \ W /\ W \subseteq N
      BY <2>4 DEF Naming
    <3>2. Cardinality(M) = Cardinality(N) - Cardinality(W)
      BY <2>1, <3>1, LessEdges
    <3>3. rc'[d] = rc[d] - Cardinality(W)
      BY <2>4 DEF Weight
    <3> HIDE DEF N, M, W
    <3>4. rc'[d] = ext[d] + hold[d] + Cardinality(M)
      BY <2>1, <2>2, <2>3, <3>2, <3>3
    <3> QED BY <3>4 DEF M
  <2>5. CASE /\ V \subseteq debt /\ debt' = debt \ V
             /\ rc' = [x \in Cont |-> rc[x] + Weight(V, x)]
    <3>1. M = N \cup W /\ N \cap W = {}
      BY <2>5 DEF Naming
    <3>2. Cardinality(M) = Cardinality(N) + Cardinality(W)
      BY <2>1, <3>1, MoreEdges
    <3>3. rc'[d] = rc[d] + Cardinality(W)
      BY <2>5 DEF Weight
    <3> HIDE DEF N, M, W
    <3>4. rc'[d] = ext[d] + hold[d] + Cardinality(M)
      BY <2>1, <2>2, <2>3, <3>2, <3>3
    <3> QED BY <3>4 DEF M
  <2> QED BY <2>4, <2>5
<1>2. Exact(slot, ext, rc', hold, debt')
  BY <1>1 DEF Exact
<1> QED BY <1>2 DEF HeapOK, Sound, heap

(* The collection leaves the stack: it pinned nothing there.               *)
LEMMA PopCollection ==
  ASSUME TypeOK, Collecting, NEW held, NEW st, NEW sl, NEW nm, NEW ex, NEW pn, NEW dc,
         Framed(stack, st, sl, nm, ex, pn, dc), Pinned(pn, stack, held)
  PROVE  Framed(Tail(stack), st, sl, nm, ex, pn, dc) /\ Pinned(pn, Tail(stack), held)
<1>1. stack # << >> /\ stack[1].kind = "gc" /\ stack \in Seq(Frames)
  BY TopFrame DEF Collecting, TypeOK
<1>2. /\ Distinct(Tail(stack))
      /\ \A i \in DOMAIN Tail(stack) : \E j \in DOMAIN stack : Tail(stack)[i] = stack[j]
      /\ \A d : Destructing(stack, d) <=> Destructing(Tail(stack), d)
  BY <1>1, PopFrames DEF Framed
<1>3. Pinned(pn, Tail(stack), held)
  BY <1>2 DEF Pinned
<1>4. \A i \in DOMAIN Tail(stack) : FrameOK(Tail(stack)[i], st, sl, nm, ex, pn, dc)
  BY <1>2 DEF Framed
<1> QED BY <1>2, <1>3, <1>4 DEF Framed

(* A pass visits a container: its edges are subtracted or put back, once.  *)
LEMMA VisitHeap ==
  ASSUME TypeOK, HeapOK, RoundOK, NEW c \in Cont, MarkVisit(c) \/ BlackVisit(c) \/ Restore(c)
  PROVE  HeapOK'
<1>1. Visible(c) \in SUBSET Slots /\ \A e \in Visible(c) : e[1] = c
  BY DEF Visible, Slots
<1>2. debt = {e \in Slots : e[1] \in Subtracted /\ e \in Visible(e[1])}
  BY DEF RoundOK, DebtOK, EdgesOf
<1>3. CASE MarkVisit(c)
  <2>1. c \notin Subtracted
    BY <1>3 DEF MarkVisit, Subtracted
  <2>2. Visible(c) \cap debt = {}
    BY <1>1, <1>2, <2>1
  <2>3. HeldByGc' = HeldByGc
    BY <1>3 DEF MarkVisit, HeldByGc
  <2> QED BY <1>1, <1>3, <2>2, <2>3, DebtHeap DEF MarkVisit, StayInHeap, buffer
<1>4. CASE BlackVisit(c) \/ Restore(c)
  <2>1. c \in Subtracted
    BY <1>4 DEF BlackVisit, Restore, Subtracted
  <2>2. Visible(c) \subseteq debt
    BY <1>1, <1>2, <2>1
  <2>3. HeldByGc' = HeldByGc
    BY <1>4 DEF BlackVisit, Restore, HeldByGc
  <2> QED BY <1>1, <1>4, <2>2, <2>3, DebtHeap DEF BlackVisit, Restore, StayInHeap, buffer
<1> QED BY <1>3, <1>4

(* The dead get their hold: none is free, and none is being torn down.     *)
LEMMA WhiteDoneHeap ==
  ASSUME TypeOK, Control, HeapOK, RoundOK, WhiteDone, Maps = {} \/ HasDtor = {}
  PROVE  HeapOK'
<1>1. /\ Collecting /\ pc = "white" /\ roots' = {}
      /\ UNCHANGED <<status, slot, named, ext, dtorCalled, debt>>
  BY DEF WhiteDone
<1>2. /\ Exact(slot, ext, rc, hold, debt) /\ Freed(status, slot, named, ext, hold, roots)
      /\ Framed(stack, status, slot, named, ext, hold, dtorCalled)
      /\ Pinned(hold, stack, {})
  BY <1>1 DEF HeapOK, Sound, HeldByGc
<1>3. Freed(status, slot, named, ext, hold, {})
  BY <1>2 DEF Freed
<1>4. CASE dead = {}
  <2>1. UNCHANGED <<rc, hold>> /\ stack' = Tail(stack) /\ pc' = "idle"
    BY <1>4 DEF WhiteDone, EndRound
  <2>2. HeldByGc' = {}
    BY <2>1 DEF HeldByGc
  <2>3. Framed(Tail(stack), status, slot, named, ext, hold, dtorCalled)
        /\ Pinned(hold, Tail(stack), {})
    BY <1>1, <1>2, PopCollection
  <2> QED BY <1>1, <1>2, <1>3, <2>1, <2>2, <2>3 DEF HeapOK, Sound
<1>5. CASE dead # {}
  <2>1. /\ pc' = "restore" /\ dead' = dead /\ stack' = stack
        /\ rc' = [c \in Cont |-> IF c \in dead THEN rc[c] + 1 ELSE rc[c]]
        /\ hold' = [c \in Cont |-> IF c \in dead THEN hold[c] + 1 ELSE hold[c]]
    BY <1>5 DEF WhiteDone
  <2>2. HeldByGc' = dead
    BY <2>1 DEF HeldByGc
  <2>3. Exact(slot, ext, rc', hold', debt)
    <3> SUFFICES ASSUME NEW d \in Cont
                 PROVE  rc'[d] = ext[d] + hold'[d] + Cardinality(Naming(slot, debt, d))
      BY DEF Exact
    <3>1. Cardinality(Naming(slot, debt, d)) \in Nat
      BY NamingFinite
    <3>2. rc[d] = ext[d] + hold[d] + Cardinality(Naming(slot, debt, d))
      BY <1>2 DEF Exact
    <3>3. rc[d] \in Int /\ ext[d] \in Int /\ hold[d] \in Int
      BY DEF TypeOK
    <3> QED BY <2>1, <3>1, <3>2, <3>3
  <2>4. Pinned(hold', stack, dead)
    BY <1>2, <2>1 DEF Pinned, TypeOK
  <2>5. \A c \in dead : c \in Cont /\ status[c] # "free" /\ Collectable(c)
    BY <1>1 DEF RoundOK, WhiteOK, PaintedOK, Inner, Painted
  <2>6. \A c \in dead : NotTorn(stack, c)
    <3>1. CASE HasDtor = {}
      <4>1. Len(stack) = 1
        BY <1>1, <3>1 DEF Control, Inner
      <4>2. stack # << >> /\ DOMAIN stack = 1 .. 1 /\ stack[1].kind = "gc"
        BY <1>1, <4>1, TopFrame, Pop DEF Collecting, TypeOK
      <4> QED BY <4>2 DEF NotTorn
    <3>2. CASE Maps = {}
      <4>1. \A c \in dead : status[c] # "dying"
        BY <2>5, <3>2 DEF Collectable, CollectableGiven, Cont
      <4> QED BY <1>2, <4>1 DEF Framed, FrameOK, NotTorn
    <3> QED BY <3>1, <3>2
  <2>7. Freed(status, slot, named, ext, hold', {})
    BY <1>3, <2>1, <2>5 DEF Freed, Unnamed
  <2>8. Framed(stack, status, slot, named, ext, hold', dtorCalled)
    BY <1>2, <2>1, <2>6 DEF Framed, FrameOK, Unnamed, NotTorn
  <2> QED BY <1>1, <2>1, <2>2, <2>3, <2>4, <2>7, <2>8 DEF HeapOK, Sound
<1> QED BY <1>4, <1>5

(* The destructor of a dead member runs under two more pins.               *)
LEMMA DestructHeap ==
  ASSUME TypeOK, HeapOK, RoundOK, NEW c \in Cont, Destruct(c)
  PROVE  HeapOK'
<1>1. /\ pc = "dtors" /\ c \in todo
      /\ UNCHANGED <<status, slot, named, ext, roots, debt, pc, dead>>
      /\ dtorCalled' = dtorCalled \cup ({c} \cap Objects)
  BY DEF Destruct, buffer
<1>2. HeldByGc' = HeldByGc /\ c \in HeldByGc
  BY <1>1 DEF HeldByGc, RoundOK, TodoOK
<1>3. /\ Exact(slot, ext, rc, hold, debt) /\ Freed(status, slot, named, ext, hold, roots)
      /\ Framed(stack, status, slot, named, ext, hold, dtorCalled)
      /\ Pinned(hold, stack, HeldByGc)
  BY DEF HeapOK, Sound
<1>4. hold[c] > 0 /\ status[c] # "free" /\ NotTorn(stack, c)
  <2>1. hold[c] > 0
    BY <1>2, <1>3, PinsNat DEF TypeOK
  <2> QED BY <2>1, NamedAlive
<1>5. CASE c \in HasDtor \ dtorCalled
  <2> DEFINE f == Frame("dtor", c, {})
  <2>1. /\ hold' = [hold EXCEPT ![c] = @ + 2] /\ rc' = [rc EXCEPT ![c] = @ + 2]
        /\ stack' = <<f>> \o stack
    BY <1>5 DEF Destruct
  <2>2. f \in Frames /\ f.kind = "dtor" /\ f.obj = c /\ c \in dtorCalled' /\ stack \in Seq(Frames)
    BY <1>1, <1>5, ObjectSubsets DEF Frame, Frames, TypeOK
  <2> HIDE DEF f
  <2>3. \A d \in Cont : /\ hold'[d] = IF d = c THEN hold[d] + 2 ELSE hold[d]
                        /\ rc'[d] = IF d = c THEN rc[d] + 2 ELSE rc[d]
    BY <2>1 DEF TypeOK
  <2>4. Exact(slot, ext, rc', hold', debt)
    <3> SUFFICES ASSUME NEW d \in Cont
                 PROVE  rc'[d] = ext[d] + hold'[d] + Cardinality(Naming(slot, debt, d))
      BY DEF Exact
    <3>1. Cardinality(Naming(slot, debt, d)) \in Nat
      BY NamingFinite
    <3>2. rc[d] = ext[d] + hold[d] + Cardinality(Naming(slot, debt, d))
      BY <1>3 DEF Exact
    <3>3. rc[d] \in Int /\ ext[d] \in Int /\ hold[d] \in Int
      BY DEF TypeOK
    <3> QED BY <2>3, <3>1, <3>2, <3>3
  <2>5. Freed(status, slot, named, ext, hold', roots)
    BY <1>3, <1>4, <2>3 DEF Freed, Unnamed
  <2>6. \A i \in DOMAIN stack : ~(stack[i].kind = "dtor" /\ stack[i].obj = c)
    BY <1>3, <1>5 DEF Framed, FrameOK
  <2>7. Distinct(stack')
    BY <1>3, <2>1, <2>2, <2>6, PushDistinct DEF Framed
  <2>8. ASSUME NEW i \in DOMAIN stack'
        PROVE  FrameOK(stack'[i], status, slot, named, ext, hold', dtorCalled')
    <3>1. CASE stack'[i] = f
      BY <2>2, <3>1 DEF FrameOK
    <3>2. CASE \E j \in DOMAIN stack : stack'[i] = stack[j]
      <4>1. PICK j \in DOMAIN stack : stack'[i] = stack[j]
        BY <3>2
      <4>2. FrameOK(stack[j], status, slot, named, ext, hold, dtorCalled)
        BY <1>3 DEF Framed
      <4>3. stack[j].kind = "tear" => stack[j].obj # c
        BY <1>4 DEF NotTorn
      <4> QED BY <1>1, <2>3, <4>1, <4>2, <4>3 DEF FrameOK, Unnamed
    <3> QED BY <2>1, <2>2, <3>1, <3>2, PushFrames
  <2>9. Pinned(hold', stack', HeldByGc)
    <3>1. ~Destructing(stack, c)
      BY <2>6 DEF Destructing
    <3>2. \A d \in Cont : Destructing(stack', d) <=> Destructing(stack, d) \/ d = c
      BY <2>1, <2>2, PushDestructing
    <3> SUFFICES ASSUME NEW d \in Cont
                 PROVE  hold'[d] = (IF d \in HeldByGc THEN 1 ELSE 0)
                                    + (IF Destructing(stack', d) THEN 2 ELSE 0)
      BY DEF Pinned
    <3>3. hold[d] = (IF d \in HeldByGc THEN 1 ELSE 0) + (IF Destructing(stack, d) THEN 2 ELSE 0)
      BY <1>3 DEF Pinned
    <3> QED BY <2>3, <3>1, <3>2, <3>3
  <2> QED BY <1>1, <1>2, <2>4, <2>5, <2>7, <2>8, <2>9 DEF HeapOK, Sound, Framed
<1>6. CASE c \notin HasDtor \ dtorCalled
  <2>1. UNCHANGED <<hold, rc, stack>>
    BY <1>6 DEF Destruct
  <2>2. Framed(stack, status, slot, named, ext, hold, dtorCalled')
    BY <1>1, <1>3 DEF Framed, FrameOK
  <2> QED BY <1>1, <1>2, <1>3, <2>1, <2>2 DEF HeapOK, Sound
<1> QED BY <1>5, <1>6

(* An edge between two dead members is cut.                                *)
LEMMA CutHeap ==
  ASSUME TypeOK, HeapOK, RoundOK, NEW e \in Slots, Cut(e)
  PROVE  HeapOK'
<1> DEFINE d == slot[e]
           less == [rc EXCEPT ![d] = @ - 1]
<1>1. /\ pc = "cut" /\ UNCHANGED <<named, ext, round>> /\ slot' = [slot EXCEPT ![e] = Nil]
      /\ UnrefGiven(d, rc, hold, stack, walked) /\ d \in Cont
  BY DEF Cut, Unref, InnerEdges, Visible, TypeOK
<1>2. debt = {} /\ debt' = {} /\ HeldByGc' = HeldByGc
  BY <1>1 DEF RoundOK, DebtOK, EdgesOf, Subtracted, round, HeldByGc
<1>3. Sound(status, slot, named, ext, rc, hold, dtorCalled, roots, {}, stack, HeldByGc)
  BY <1>2 DEF HeapOK
<1>4. status[d] # "free" /\ NotTorn(stack, d)
  BY <1>1, NamedAlive
<1>5. /\ rc \in [Cont -> Int] /\ hold \in [Cont -> Int] /\ ext \in [Cont -> Nat]
      /\ stack \in Seq(Frames) /\ named \in SUBSET named
  BY DEF TypeOK
<1> HIDE DEF d
<1>6. less \in [Cont -> Int] /\ \A x \in Cont : less[x] = rc[x] - (IF d = x THEN 1 ELSE 0)
  BY <1>1, <1>5
<1> HIDE DEF less
<1>7. \A x \in Cont : less[x] - ext[x] = rc[x] - ext[x] - (IF slot[e] = x THEN 1 ELSE 0)
                                          + (IF Nil = x THEN 1 ELSE 0)
  BY <1>5, <1>6, NilIsNoContainer DEF d
<1>8. Sound(status, slot', named, ext, less, hold, dtorCalled, roots, {}, stack, HeldByGc)
  BY <1>1, <1>3, <1>5, <1>6, <1>7, SlotSound
<1>9. Sound(status', slot', named, ext, rc', hold', dtorCalled', roots', {}, stack', HeldByGc)
  BY <1>1, <1>4, <1>5, <1>8, UnrefSound DEF less
<1> QED BY <1>1, <1>2, <1>9 DEF HeapOK

(* The hold of a member is given back.                                     *)
LEMMA GiveBackHeap ==
  ASSUME TypeOK, HeapOK, RoundOK, NEW c \in Cont, GiveBack(c)
  PROVE  HeapOK'
<1> DEFINE pins == [hold EXCEPT ![c] = @ - 1]
           less == [rc EXCEPT ![c] = @ - 1]
<1>1. /\ pc = "give" /\ c \in todo /\ todo' = todo \ {c}
      /\ UNCHANGED <<slot, named, ext, pc, debt>>
      /\ UnrefGiven(c, rc, pins, stack, walked)
  BY DEF GiveBack
<1>2. debt = {} /\ debt' = {} /\ HeldByGc = todo /\ HeldByGc' = todo \ {c}
  BY <1>1 DEF RoundOK, DebtOK, EdgesOf, Subtracted, HeldByGc
<1>3. /\ Exact(slot, ext, rc, hold, {}) /\ Freed(status, slot, named, ext, hold, roots)
      /\ Framed(stack, status, slot, named, ext, hold, dtorCalled)
      /\ Pinned(hold, stack, todo)
  BY <1>2 DEF HeapOK, Sound
<1>4. status[c] # "free" /\ NotTorn(stack, c)
  <2>1. hold[c] > 0
    BY <1>1, <1>3, PinsNat DEF TypeOK
  <2> QED BY <2>1, NamedAlive
<1>5. /\ pins \in [Cont -> Int] /\ less \in [Cont -> Int]
      /\ \A d \in Cont : /\ pins[d] = IF d = c THEN hold[d] - 1 ELSE hold[d]
                         /\ less[d] = IF d = c THEN rc[d] - 1 ELSE rc[d]
  BY DEF TypeOK
<1> HIDE DEF pins, less
<1>6. Exact(slot, ext, less, pins, {})
  <2> SUFFICES ASSUME NEW d \in Cont
               PROVE  less[d] = ext[d] + pins[d] + Cardinality(Naming(slot, {}, d))
    BY DEF Exact
  <2>1. Cardinality(Naming(slot, {}, d)) \in Nat
    BY NamingFinite
  <2>2. rc[d] = ext[d] + hold[d] + Cardinality(Naming(slot, {}, d))
    BY <1>3 DEF Exact
  <2>3. rc[d] \in Int /\ ext[d] \in Int /\ hold[d] \in Int
    BY DEF TypeOK
  <2> QED BY <1>5, <2>1, <2>2, <2>3
<1>7. Freed(status, slot, named, ext, pins, roots)
  BY <1>3, <1>4, <1>5 DEF Freed, Unnamed
<1>8. Framed(stack, status, slot, named, ext, pins, dtorCalled)
  BY <1>3, <1>4, <1>5 DEF Framed, FrameOK, Unnamed, NotTorn
<1>9. Pinned(pins, stack, todo \ {c})
  <2> SUFFICES ASSUME NEW d \in Cont
               PROVE  pins[d] = (IF d \in todo \ {c} THEN 1 ELSE 0)
                                  + (IF Destructing(stack, d) THEN 2 ELSE 0)
    BY DEF Pinned
  <2>1. hold[d] = (IF d \in todo THEN 1 ELSE 0) + (IF Destructing(stack, d) THEN 2 ELSE 0)
    BY <1>3 DEF Pinned
  <2> QED BY <1>1, <1>5, <2>1
<1>10. Sound(status, slot, named, ext, less, pins, dtorCalled, roots, {}, stack, todo \ {c})
  BY <1>6, <1>7, <1>8, <1>9 DEF Sound
<1>11. Sound(status', slot, named, ext, rc', hold', dtorCalled', roots', {}, stack', todo \ {c})
  <2>1. ext \in [Cont -> Nat] /\ rc \in [Cont -> Int] /\ stack \in Seq(Frames)
    BY DEF TypeOK
  <2> QED BY <1>1, <1>4, <1>5, <1>10, <2>1, UnrefSound DEF less
<1> QED BY <1>1, <1>2, <1>11 DEF HeapOK

(* What the collection does.                                               *)
LEMMA CollectorHeap ==
  ASSUME TypeOK, Control, HeapOK, RoundOK, CollectorStep, Maps = {} \/ HasDtor = {}
  PROVE  HeapOK'
<1> USE DEF StayInHeap, buffer
<1>1. ASSUME NEW c \in Cont, MarkRoot(c) \/ ScanRoot(c) \/ WhiteRoot(c) PROVE HeapOK'
  <2>1. HeldByGc' = HeldByGc /\ UNCHANGED <<heap, rc, debt, stack, roots>>
    BY <1>1 DEF MarkRoot, ScanRoot, WhiteRoot, HeldByGc
  <2> QED BY <2>1, SameHeap
<1>2. ASSUME NEW c \in Cont, ScanVisit(c) \/ WhiteVisit(c) PROVE HeapOK'
  <2>1. HeldByGc' = HeldByGc /\ UNCHANGED <<heap, rc, debt, stack, roots>>
    BY <1>2 DEF ScanVisit, WhiteVisit, HeldByGc
  <2> QED BY <2>1, SameHeap
<1>3. CASE MarkDone \/ ScanDone \/ RestoreDone \/ Verify \/ CutDone
  <2>1. HeldByGc' = HeldByGc /\ UNCHANGED <<heap, rc, debt, stack, roots>>
    BY <1>3 DEF MarkDone, ScanDone, RestoreDone, Verify, CutDone, HeldByGc
  <2> QED BY <2>1, SameHeap
<1>4. CASE CollectDone
  <2>1. /\ Collecting /\ HeldByGc = {} /\ HeldByGc' = {} /\ stack' = Tail(stack)
        /\ UNCHANGED <<heap, rc, roots, debt>>
    BY <1>4 DEF CollectDone, EndRound, HeldByGc
  <2>2. /\ Exact(slot, ext, rc, hold, debt) /\ Freed(status, slot, named, ext, hold, roots)
        /\ Framed(stack, status, slot, named, ext, hold, dtorCalled)
        /\ Pinned(hold, stack, {})
    BY <2>1 DEF HeapOK, Sound
  <2>3. Framed(Tail(stack), status, slot, named, ext, hold, dtorCalled)
        /\ Pinned(hold, Tail(stack), {})
    BY <2>1, <2>2, PopCollection
  <2> QED BY <2>1, <2>2, <2>3 DEF HeapOK, Sound, heap
<1> QED BY <1>1, <1>2, <1>3, <1>4, VisitHeap, WhiteDoneHeap, DestructHeap, CutHeap, GiveBackHeap
        DEF CollectorStep

---------------------------------------------------------------------------
(* The C stack                                                             *)

NoDtors(stk) == \A i \in DOMAIN stk : stk[i].kind # "dtor"

(* Without destructors a drop leaves none on the stack.                    *)
LEMMA UnrefNoDtors ==
  ASSUME TypeOK, NEW c \in Cont, NEW cnt, NEW pins, NEW below \in Seq(Frames), NEW walks,
         UnrefGiven(c, cnt, pins, below, walks), HasDtor = {}, NoDtors(below)
  PROVE  NoDtors(stack')
<1> DEFINE f == Frame("tear", c, Keys)
<1>1. f \in Frames /\ f.kind = "tear"
  BY DEF Frame, Frames
<1>2. stack' = below \/ stack' = <<f>> \o below
  BY DEF UnrefGiven, Release, Marked
<1> HIDE DEF f
<1>3. CASE stack' = below
  BY <1>3
<1>4. CASE stack' = <<f>> \o below
  <2>1. ASSUME NEW i \in DOMAIN stack' PROVE stack'[i].kind # "dtor"
    <3>1. stack'[i] = f \/ \E j \in DOMAIN below : stack'[i] = below[j]
      BY <1>1, <1>4, PushFrames
    <3> QED BY <1>1, <3>1 DEF NoDtors
  <2> QED BY <2>1 DEF NoDtors
<1> QED BY <1>2, <1>3, <1>4

(* What a pop leaves has no destructor either.                             *)
LEMMA TailNoDtors ==
  ASSUME NEW stk \in Seq(Frames), stk # << >>, NoDtors(stk)
  PROVE  NoDtors(Tail(stk))
<1>1. \A i \in DOMAIN Tail(stk) : i + 1 \in DOMAIN stk /\ Tail(stk)[i] = stk[i + 1]
  BY Pop
<1> QED BY <1>1 DEF NoDtors

(* The script and the releases leave the collection where it is.           *)
LEMMA QuietControl ==
  ASSUME TypeOK, WalkHeld, Control, HeapOK, DebtOK, PhpStep \/ TearStep \/ DtorReturn
  PROVE  Top.kind # "gc" /\ UNCHANGED round /\ Control'
<1>1. Top.kind # "gc" /\ UNCHANGED round
  BY DEF PhpStep, New, Copy, WeakGet, TakeRef, Drop, OpenWalk, CloseWalk, Store, Unset, Alias,
         Unalias, Separate, Toggle, TearStep, TearSlot, TearEnd, Tearing, DtorReturn, PhpRuns,
         AtFetchPoint
<1>2. pc' \in {"idle", "dtors", "give"}
  BY <1>1, Quiet DEF round
<1>3. ASSUME HasDtor = {} PROVE NoDtors(stack')
  <2>1. NoDtors(stack) /\ stack \in Seq(Frames)
    BY <1>3 DEF Control, NoDtors, TypeOK
  <2>2. ASSUME NEW c \in Cont, NEW cnt, NEW pins, NEW walks,
               UnrefGiven(c, cnt, pins, stack, walks)
        PROVE  NoDtors(stack')
    BY <1>3, <2>1, <2>2, UnrefNoDtors
  <2>3. ASSUME NEW e \in Slots, NEW below \in Seq(Frames), NoDtors(below), ReleaseSlot(e, below)
        PROVE  NoDtors(stack')
    <3>1. slot[e] # Nil => slot[e] \in Cont
      BY DEF TypeOK
    <3>2. CASE slot[e] # Nil /\ e \notin named
      BY <1>3, <2>3, <3>1, <3>2, UnrefNoDtors DEF ReleaseSlot, Unref
    <3>3. CASE ~(slot[e] # Nil /\ e \notin named)
      BY <2>3, <3>3 DEF ReleaseSlot
    <3> QED BY <3>2, <3>3
  <2>4. CASE PhpStep
    <3>1. ASSUME NEW c \in Cont,
                 New(c) \/ Copy(c) \/ WeakGet(c) \/ Drop(c) \/ OpenWalk(c) \/ CloseWalk(c)
          PROVE  NoDtors(stack')
      BY <2>1, <2>2, <3>1 DEF New, Copy, WeakGet, TakeRef, Drop, Unref, OpenWalk, CloseWalk
    <3>2. ASSUME NEW e \in Slots, NEW d \in Cont \cup {Nil}, Store(e, d)
          PROVE  NoDtors(stack')
      <4>1. slot[e] # Nil => slot[e] \in Cont
        BY DEF TypeOK
      <4>2. CASE slot[e] = Nil
        BY <2>1, <3>2, <4>2 DEF Store
      <4>3. CASE slot[e] # Nil
        BY <2>2, <3>2, <4>1, <4>3 DEF Store, Unref
      <4> QED BY <4>2, <4>3
    <3>3. ASSUME NEW e \in Slots, Unset(e) \/ Alias(e) \/ Unalias(e) PROVE NoDtors(stack')
      BY <2>1, <2>3, <3>3 DEF Unset, Alias, Unalias
    <3>4. ASSUME NEW c \in Maps, NEW n \in Maps, Separate(c, n) PROVE NoDtors(stack')
      BY <2>1, <3>4 DEF Separate
    <3>5. CASE Toggle
      BY <2>1, <3>5 DEF Toggle
    <3> QED BY <2>4, <3>1, <3>2, <3>3, <3>4, <3>5 DEF PhpStep
  <2>5. ASSUME stack # << >>
        PROVE  /\ Top = stack[1] /\ 1 \in DOMAIN stack /\ Top.kind # "dtor" /\ Top \in Frames
               /\ Tail(stack) \in Seq(Frames) /\ NoDtors(Tail(stack))
    BY <2>1, <2>5, TopFrame, Pop, TailNoDtors DEF NoDtors
  <2>6. CASE TearEnd
    BY <2>5, <2>6, TopFrame DEF TearEnd, Tearing
  <2>7. CASE DtorReturn
    BY <2>5, <2>7, TopFrame DEF DtorReturn
  <2>8. ASSUME NEW k \in Keys, TearSlot(k) PROVE NoDtors(stack')
    <3> DEFINE g == [Top EXCEPT !.left = @ \ {k}]
               below == <<g>> \o Tail(stack)
    <3>1. Top.kind = "tear" /\ stack # << >> /\ Top.obj \in Cont
      BY <2>8, TopFrame DEF TearSlot, Tearing
    <3>2. g \in Frames /\ g.kind = "tear"
      BY <2>5, <3>1 DEF Frames, Frame
    <3>3. ReleaseSlot(<<Top.obj, k>>, below) /\ <<Top.obj, k>> \in Slots
      BY <2>8, <3>1 DEF TearSlot, Slots
    <3> HIDE DEF g
    <3>4. below \in Seq(Frames)
      BY <2>5, <3>1, <3>2, Push
    <3>5. ASSUME NEW i \in DOMAIN below PROVE below[i].kind # "dtor"
      <4>1. below[i] = g \/ \E j \in DOMAIN Tail(stack) : below[i] = Tail(stack)[j]
        BY <2>5, <3>1, <3>2, PushFrames
      <4> QED BY <2>5, <3>1, <3>2, <4>1 DEF NoDtors
    <3> HIDE DEF below
    <3>6. NoDtors(below)
      BY <3>5 DEF NoDtors
    <3> QED BY <2>3, <3>3, <3>4, <3>6
  <2> QED BY <2>4, <2>6, <2>7, <2>8 DEF TearStep
<1> QED BY <1>1, <1>2, <1>3 DEF Control, NoDtors, Inner

---------------------------------------------------------------------------
(* The round, while the script and the releases run                        *)

(* What they may do to colours and to the buffer.                          *)
Buffered == \/ UNCHANGED <<color, roots>>
            \/ /\ pc = "idle"
               /\ \E c \in Cont : /\ color' = [color EXCEPT ![c] = "purple"]
                                  /\ roots' = roots \cup {c}
            \/ \E c \in Cont : /\ hold[c] = 0
                               /\ color' = [color EXCEPT ![c] = "black"]
                               /\ roots' = roots \ {c}

(* A drop buffers, and only between collections.                           *)
LEMMA UnrefBuffers ==
  ASSUME NEW c \in Cont, NEW cnt, NEW pins, NEW below, NEW walks,
         UnrefGiven(c, cnt, pins, below, walks)
  PROVE  Buffered /\ (pc # "idle" => UNCHANGED <<color, roots>>)
BY DEF UnrefGiven, PossibleRoot, Running, Buffered

(* Nothing of the round moves while the collection stays where it is.      *)
LEMMA QuietRound ==
  ASSUME TypeOK, HeapOK, RoundOK, pc \in {"idle", "dtors", "give"}, UNCHANGED round, Buffered
  PROVE  RoundOK'
<1>1. pc' = pc /\ dead' = dead /\ todo' = todo /\ debt' = debt
  BY DEF round
<1>2. debt = {} /\ Subtracted' = {}
  BY <1>1 DEF RoundOK, DebtOK, EdgesOf, Subtracted
<1>3. DebtOK'
  BY <1>1, <1>2 DEF DebtOK, EdgesOf
<1>4. ColorsOK'
  <2>1. ColorsOK /\ color \in [Cont -> Colors]
    BY DEF RoundOK, TypeOK
  <2>2. CASE UNCHANGED <<color, roots>>
    BY <1>1, <2>1, <2>2 DEF ColorsOK, Paints
  <2>3. ASSUME pc = "idle", NEW c \in Cont, color' = [color EXCEPT ![c] = "purple"],
               roots' = roots \cup {c}
        PROVE  ColorsOK'
    BY <1>1, <2>1, <2>3 DEF ColorsOK
  <2>4. ASSUME NEW c \in Cont, hold[c] = 0, color' = [color EXCEPT ![c] = "black"],
               roots' = roots \ {c}
        PROVE  ColorsOK'
    <3>1. pc = "dtors" => c \notin dead
      <4>1. SUFFICES ASSUME pc = "dtors", c \in dead PROVE FALSE
        OBVIOUS
      <4>2. c \in HeldByGc
        BY <4>1 DEF HeldByGc
      <4>3. hold \in [Cont -> Int] /\ Pinned(hold, stack, HeldByGc)
        BY DEF HeapOK, Sound, TypeOK
      <4>4. hold[c] > 0
        BY <4>2, <4>3, PinsNat
      <4> QED BY <2>4, <4>4
    <3> QED BY <1>1, <2>1, <2>4, <3>1 DEF ColorsOK
  <2> QED BY <2>2, <2>3, <2>4 DEF Buffered
<1>5. MarkOK' /\ ScanOK' /\ WhiteOK' /\ PaintedOK' /\ CutOK'
  BY <1>1 DEF MarkOK, ScanOK, WhiteOK, PaintedOK, CutOK, Inner
<1>6. TodoOK'
  BY <1>1 DEF RoundOK, TodoOK
<1> QED BY <1>3, <1>4, <1>5, <1>6 DEF RoundOK

(* What the script and the releases do to the buffer.                      *)
LEMMA QuietBuffers ==
  ASSUME TypeOK, WalkHeld, Control, HeapOK, DebtOK, PhpStep \/ TearStep \/ DtorReturn
  PROVE  Buffered
<1>1. Freed(status, slot, named, ext, hold, roots)
  BY DEF HeapOK, Sound
<1>2. ASSUME NEW c \in Cont, New(c) PROVE Buffered
  <2>1. hold[c] = 0 /\ c \notin roots
    BY <1>1, <1>2 DEF New, Freed, Unnamed
  <2> QED BY <1>2, <2>1 DEF New, buffer, Buffered
<1>3. ASSUME NEW c \in Cont, Copy(c) \/ WeakGet(c) \/ OpenWalk(c) PROVE Buffered
  BY <1>3 DEF Copy, WeakGet, TakeRef, OpenWalk, buffer, Buffered
<1>4. ASSUME NEW c \in Cont, Drop(c) \/ CloseWalk(c) PROVE Buffered
  BY <1>4, UnrefBuffers DEF Drop, Unref, CloseWalk
<1>5. ASSUME NEW e \in Slots, NEW d \in Cont \cup {Nil}, Store(e, d) PROVE Buffered
  <2>1. slot[e] # Nil => slot[e] \in Cont
    BY DEF TypeOK
  <2>2. CASE slot[e] = Nil
    BY <1>5, <2>2 DEF Store, Buffered
  <2>3. CASE slot[e] # Nil
    BY <1>5, <2>1, <2>3, UnrefBuffers DEF Store, Unref
  <2> QED BY <2>2, <2>3
<1>6. ASSUME NEW e \in Slots, NEW below, ReleaseSlot(e, below) PROVE Buffered
  <2>1. slot[e] # Nil => slot[e] \in Cont
    BY DEF TypeOK
  <2>2. CASE slot[e] # Nil /\ e \notin named
    BY <1>6, <2>1, <2>2, UnrefBuffers DEF ReleaseSlot, Unref
  <2>3. CASE ~(slot[e] # Nil /\ e \notin named)
    BY <1>6, <2>3 DEF ReleaseSlot, Buffered
  <2> QED BY <2>2, <2>3
<1>7. ASSUME NEW e \in Slots, Unset(e) \/ Alias(e) \/ Unalias(e) PROVE Buffered
  BY <1>6, <1>7 DEF Unset, Alias, Unalias, buffer, Buffered
<1>8. ASSUME NEW c \in Maps, NEW n \in Maps, Separate(c, n) PROVE Buffered
  <2>1. hold[n] = 0 /\ n \notin roots /\ n \in Cont
    BY <1>1, <1>8 DEF Separate, Freed, Unnamed, Cont
  <2> QED BY <1>8, <2>1 DEF Separate, buffer, Buffered
<1>9. CASE Toggle \/ DtorReturn
  BY <1>9 DEF Toggle, DtorReturn, buffer, Buffered
<1>10. ASSUME NEW k \in Keys, TearSlot(k) PROVE Buffered
  <2>1. stack # << >> /\ Top.obj \in Cont
    BY <1>10, TopFrame DEF TearSlot, Tearing
  <2>2. <<Top.obj, k>> \in Slots
    BY <2>1 DEF Slots
  <2> QED BY <1>6, <1>10, <2>2 DEF TearSlot
<1>11. CASE TearEnd
  <2>1. stack # << >> /\ Top.obj \in Cont /\ Top = stack[1] /\ 1 \in DOMAIN stack
    BY <1>11, TopFrame, Pop DEF TearEnd, Tearing, TypeOK
  <2>2. hold[Top.obj] = 0
    BY <1>11, <2>1 DEF HeapOK, Sound, Framed, FrameOK, TearEnd, Tearing, Unnamed
  <2> QED BY <1>11, <2>1, <2>2 DEF TearEnd, Forget, Buffered
<1> QED BY <1>2, <1>3, <1>4, <1>5, <1>7, <1>8, <1>9, <1>10, <1>11 DEF PhpStep, TearStep

(* The script, the releases and the destructors keep the invariant.        *)
LEMMA QuietStep ==
  ASSUME GcInv, PhpStep \/ TearStep \/ DtorReturn
  PROVE  GcInv'
<1>1. TypeOK /\ WalkHeld /\ Control /\ HeapOK /\ RoundOK /\ DebtOK
  BY DEF GcInv, RoundOK
<1>2. TypeOK' /\ WalkHeld'
  BY <1>1, PhpTypes, TearTypes
<1>3. Top.kind # "gc" /\ UNCHANGED round /\ Control'
  BY <1>1, QuietControl
<1>4. HeapOK'
  BY <1>1, PhpHeap, TearSlotHeap, TearEndHeap, DtorReturnHeap DEF TearStep
<1>5. RoundOK'
  BY <1>1, <1>3, Quiet, QuietBuffers, QuietRound
<1> QED BY <1>2, <1>3, <1>4, <1>5 DEF GcInv

---------------------------------------------------------------------------
(* The round, pass by pass                                                 *)

(* A pass sees the same edges all along.                                   *)
LEMMA SameView ==
  ASSUME UNCHANGED heap, NEW c
  PROVE  /\ Visible(c)' = Visible(c) /\ Children(c)' = Children(c)
         /\ Collectable(c)' <=> Collectable(c)
<1>1. Visible(c)' = Visible(c)
  BY DEF heap, Visible, SlotOwned, Collectable, CollectableGiven
<1> QED BY <1>1 DEF heap, Children, Collectable, CollectableGiven

(* The children a pass follows.                                            *)
LEMMA ChildrenOf ==
  ASSUME TypeOK, HeapOK, NEW c \in Cont
  PROVE  /\ \A e \in Visible(c) : e \in Slots /\ e[1] = c /\ slot[e] \in Children(c)
         /\ \A d \in Children(c) :
              /\ d \in Cont /\ Collectable(d) /\ status[d] # "free"
              /\ \E e \in Visible(c) : slot[e] = d
<1>1. \A e \in Visible(c) : e \in Slots /\ e[1] = c /\ slot[e] # Nil /\ Collectable(slot[e])
  BY DEF Visible, Slots
<1>2. \A d \in Children(c) : \E e \in Visible(c) : slot[e] = d
  BY DEF Children
<1>3. \A e \in Visible(c) : slot[e] \in Cont /\ status[slot[e]] # "free"
  BY <1>1, NamedAlive DEF TypeOK
<1> QED BY <1>1, <1>2, <1>3 DEF Children

(* A collection begins with every container black or purple.               *)
LEMMA CollectStep ==
  ASSUME GcInv, Collect
  PROVE  GcInv'
<1>1. TypeOK /\ WalkHeld /\ Control /\ HeapOK /\ RoundOK /\ DebtOK
  BY DEF GcInv, RoundOK
<1>2. TypeOK' /\ WalkHeld' /\ HeapOK'
  BY <1>1, CollectorTypes, CollectHeap
<1>3. UNCHANGED <<heap, color, roots>> /\ AtFetchPoint
  BY DEF Collect
<1>4. CASE Running \/ rows = 0
  <2>1. UNCHANGED <<round, stack>>
    BY <1>4 DEF Collect
  <2>2. Control'
    BY <1>1, <2>1 DEF Control, Inner, Collecting, Top, round
  <2>3. RoundOK'
    <3>1. Buffered /\ pc \in {"idle", "dtors", "give"}
      BY <1>1, <1>3, Quiet DEF Buffered, AtFetchPoint
    <3> QED BY <1>1, <2>1, <3>1, QuietRound
  <2> QED BY <1>2, <2>2, <2>3 DEF GcInv
<1>5. CASE ~(Running \/ rows = 0)
  <2> DEFINE f == Frame("gc", Nil, {})
  <2>1. /\ pc = "idle" /\ pc' = "mark" /\ stack' = <<f>> \o stack /\ debt' = debt
        /\ todo' = roots /\ work' = {} /\ aux' = {} /\ dead' = {} /\ verified' = FALSE
    BY <1>5 DEF Collect, Running
  <2>2. f \in Frames /\ f.kind = "gc" /\ stack \in Seq(Frames)
    BY <1>1 DEF Frame, Frames, TypeOK
  <2> HIDE DEF f
  <2>3. Control'
    <3>1. Top'.kind = "gc"
      BY <2>1, <2>2, Push DEF Top
    <3>2. HasDtor = {} => NoDtors(stack') /\ Len(stack') = 1
      <4>1. SUFFICES ASSUME HasDtor = {} PROVE NoDtors(stack') /\ Len(stack') = 1
        OBVIOUS
      <4>2. stack = << >>
        <5>1. SUFFICES ASSUME stack # << >> PROVE FALSE
          OBVIOUS
        <5>2. stack[1] = Top /\ Top.kind \in {"tear", "dtor", "gc"} /\ 1 \in DOMAIN stack
          BY <1>1, <2>2, <5>1, TopFrame, Pop
        <5> QED BY <1>1, <1>3, <4>1, <5>2 DEF Control, AtFetchPoint
      <4>3. Len(stack') = 1 /\ DOMAIN stack' = 1 .. 1 /\ stack'[1] = f
        BY <2>1, <2>2, <4>2
      <4> QED BY <2>2, <4>3 DEF NoDtors
    <3> QED BY <3>1, <3>2 DEF Control, NoDtors, Inner, Collecting
  <2>4. \A c \in Cont : color[c] = IF c \in roots THEN "purple" ELSE "black"
    BY <1>1, <2>1 DEF RoundOK, ColorsOK
  <2>5. color' = color /\ roots' = roots
    BY <1>3
  <2>6. /\ Painted("grey")' = {} /\ Painted("white")' = {} /\ Painted("dead")' = {}
    BY <2>4, <2>5 DEF Painted
  <2>7. DebtOK'
    <3>1. debt' = {}
      BY <1>1, <2>1 DEF DebtOK, EdgesOf, Subtracted
    <3>2. Subtracted' = {}
      BY <2>1, <2>6 DEF Subtracted
    <3> QED BY <3>1, <3>2 DEF DebtOK, EdgesOf
  <2>8. ColorsOK'
    BY <2>1, <2>4, <2>5 DEF ColorsOK, Paints
  <2>9. MarkOK'
    BY <2>1, <2>6 DEF MarkOK, Reached
  <2>10. ScanOK' /\ WhiteOK' /\ CutOK'
    BY <2>1 DEF ScanOK, WhiteOK, CutOK
  <2>11. PaintedOK' /\ TodoOK'
    BY <2>1, <2>5, <2>6 DEF PaintedOK, TodoOK, Counting
  <2> QED BY <1>2, <2>3, <2>7, <2>8, <2>9, <2>10, <2>11 DEF GcInv, RoundOK
<1> QED BY <1>4, <1>5

(* The mark phase takes its next root.                                     *)
LEMMA MarkRootRound ==
  ASSUME TypeOK, HeapOK, RoundOK, NEW r \in Cont, MarkRoot(r)
  PROVE  RoundOK'
<1>1. /\ pc = "mark" /\ pc' = "mark" /\ work = {} /\ r \in todo /\ todo' = todo \ {r}
      /\ UNCHANGED heap /\ UNCHANGED <<aux, dead, debt, roots>>
  BY DEF MarkRoot, StayInHeap, buffer
<1>2. /\ DebtOK /\ ColorsOK /\ MarkOK /\ PaintedOK /\ TodoOK
  BY DEF RoundOK
<1>3. r \in roots /\ status[r] # "free"
  BY <1>1, <1>2 DEF TodoOK, HeapOK, Sound, Freed
<1>4. ScanOK' /\ WhiteOK' /\ CutOK' /\ TodoOK'
  BY <1>1, <1>2 DEF ScanOK, WhiteOK, CutOK, TodoOK
<1>5. CASE Collectable(r) /\ color[r] # "grey"
  <2>1. color' = [color EXCEPT ![r] = "grey"] /\ work' = {r}
    BY <1>5 DEF MarkRoot
  <2>2. \A c \in Cont : color'[c] = IF c = r THEN "grey" ELSE color[c]
    BY <2>1 DEF TypeOK
  <2>3. /\ Painted("grey")' = Painted("grey") \cup {r} /\ r \notin Painted("grey")
        /\ Painted("white")' \subseteq Painted("white")
        /\ Painted("dead")' \subseteq Painted("dead")
    BY <1>5, <2>2 DEF Painted
  <2>4. DebtOK'
    <3>1. Subtracted' = Subtracted
      BY <1>1, <2>1, <2>3 DEF Subtracted
    <3> QED BY <1>1, <1>2, <3>1, SameView DEF DebtOK, EdgesOf
  <2>5. ColorsOK'
    BY <1>1, <1>2, <2>2 DEF ColorsOK, Paints
  <2>6. MarkOK'
    <3>1. Reached(Painted("grey"), roots, {})'
      <4> SUFFICES ASSUME NEW S \in SUBSET (Painted("grey") \cup {r}), S # {}, S \cap roots = {}
                   PROVE  \E e \in Slots : /\ slot[e] \in S /\ e \in Visible(e[1])
                                           /\ e[1] \in (Painted("grey") \cup {r}) \ S
        BY <1>1, <2>3, SameView DEF Reached, heap
      <4>1. S \in SUBSET Painted("grey")
        BY <1>3
      <4> QED BY <1>1, <1>2, <4>1 DEF MarkOK, Reached
    <3>2. /\ aux' = {} /\ dead' = {} /\ work' \subseteq Painted("grey")'
      BY <1>1, <1>2, <2>1, <2>3 DEF MarkOK
    <3>3. \A c \in Painted("grey")' \ work' : Children(c)' \subseteq Painted("grey")'
      BY <1>1, <1>2, <2>1, <2>3, SameView DEF MarkOK
    <3> QED BY <3>1, <3>2, <3>3 DEF MarkOK
  <2>7. PaintedOK'
    <3>1. status' = status
      BY <1>1 DEF heap
    <3> QED BY <1>1, <1>2, <1>3, <1>5, <2>3, <3>1, SameView DEF PaintedOK, Counting, Inner
  <2> QED BY <1>4, <2>4, <2>5, <2>6, <2>7 DEF RoundOK
<1>6. CASE ~(Collectable(r) /\ color[r] # "grey")
  <2>1. UNCHANGED <<color, work>>
    BY <1>6 DEF MarkRoot
  <2>2. Painted("grey")' = Painted("grey") /\ Counting' = Counting
        /\ Painted("dead")' = Painted("dead")
    BY <2>1 DEF Painted, Counting
  <2>3. DebtOK'
    <3>1. Subtracted' = Subtracted
      BY <1>1, <2>1, <2>2 DEF Subtracted
    <3> QED BY <1>1, <1>2, <3>1, SameView DEF DebtOK, EdgesOf
  <2>4. ColorsOK'
    BY <1>1, <1>2, <2>1 DEF ColorsOK, Paints
  <2>5. MarkOK'
    BY <1>1, <1>2, <2>1, <2>2, SameView DEF MarkOK, Reached, heap
  <2>6. PaintedOK'
    BY <1>1, <1>2, <2>2, SameView DEF PaintedOK, Inner, heap
  <2> QED BY <1>4, <2>3, <2>4, <2>5, <2>6 DEF RoundOK
<1> QED BY <1>5, <1>6

(* The mark phase visits a container: its children are grey from then on,  *)
(* and its edges are subtracted.                                           *)
LEMMA MarkVisitRound ==
  ASSUME TypeOK, HeapOK, RoundOK, NEW c \in Cont, MarkVisit(c)
  PROVE  RoundOK'
<1> DEFINE G == Painted("grey")
           K == Children(c)
<1>1. /\ pc = "mark" /\ pc' = "mark" /\ c \in work
      /\ UNCHANGED heap /\ UNCHANGED <<todo, aux, dead, roots>>
      /\ color' = [d \in Cont |-> IF d \in K THEN "grey" ELSE color[d]]
      /\ work' = (work \ {c}) \cup {d \in K : color[d] # "grey"}
      /\ debt' = debt \cup Visible(c)
  BY DEF MarkVisit, StayInHeap, buffer
<1>2. /\ DebtOK /\ ColorsOK /\ MarkOK /\ PaintedOK /\ TodoOK
  BY DEF RoundOK
<1>3. /\ \A e \in Visible(c) : e \in Slots /\ e[1] = c /\ slot[e] \in K
      /\ \A d \in K : /\ d \in Cont /\ Collectable(d) /\ status[d] # "free"
                      /\ \E e \in Visible(c) : slot[e] = d
  BY ChildrenOf
<1>4. c \in G /\ work \subseteq G
  BY <1>1, <1>2 DEF MarkOK
<1>5. /\ Painted("grey")' = G \cup K
      /\ Painted("white")' \subseteq Painted("white")
      /\ Painted("dead")' \subseteq Painted("dead")
  BY <1>1, <1>3 DEF Painted
<1> HIDE DEF K
<1>6. \A d \in K : color[d] # "grey" <=> d \notin G
  BY <1>3 DEF Painted
<1> HIDE DEF G
<1>7. ScanOK' /\ WhiteOK' /\ CutOK' /\ TodoOK'
  BY <1>1, <1>2 DEF ScanOK, WhiteOK, CutOK, TodoOK
<1>8. DebtOK'
  <2>1. Subtracted = G \ work
    BY <1>1 DEF Subtracted, G
  <2>2. Subtracted' = (G \cup K) \ work'
    BY <1>1, <1>5 DEF Subtracted
  <2>3. Subtracted' = Subtracted \cup {c}
    BY <1>1, <1>4, <1>6, <2>1, <2>2
  <2>4. \A e : e \in debt' <=> e \in Slots /\ e[1] \in Subtracted' /\ e \in Visible(e[1])
    BY <1>1, <1>2, <1>3, <2>3 DEF DebtOK, EdgesOf
  <2> QED BY <1>1, <2>4, SameView DEF DebtOK, EdgesOf
<1>9. ColorsOK'
  <2>1. \A d \in Cont : color'[d] = IF d \in K THEN "grey" ELSE color[d]
    BY <1>1
  <2> QED BY <1>1, <1>2, <2>1 DEF ColorsOK, Paints
<1>10. MarkOK'
  <2>1. Reached(Painted("grey"), roots, {})'
    <3> SUFFICES ASSUME NEW S \in SUBSET (G \cup K), S # {}, S \cap roots = {}
                 PROVE  \E e \in Slots : /\ slot[e] \in S /\ e \in Visible(e[1])
                                         /\ e[1] \in (G \cup K) \ S
      BY <1>1, <1>5, SameView DEF Reached, heap
    <3>1. CASE S \cap G # {}
      <4>1. S \cap G \in SUBSET G /\ (S \cap G) \cap roots = {}
        OBVIOUS
      <4>2. \E e \in Slots : /\ slot[e] \in S \cap G /\ e \in Visible(e[1])
                             /\ e[1] \in G \ (S \cap G)
        BY <1>1, <1>2, <3>1, <4>1 DEF MarkOK, Reached, G
      <4> QED BY <4>2
    <3>2. CASE S \cap G = {}
      <4>1. PICK d \in S : d \in K
        BY <3>2
      <4>2. PICK e \in Visible(c) : slot[e] = d
        BY <1>3, <4>1
      <4> QED BY <1>3, <1>4, <3>2, <4>1, <4>2
    <3> QED BY <3>1, <3>2
  <2>2. /\ aux' = {} /\ dead' = {} /\ work' \subseteq Painted("grey")'
    BY <1>1, <1>2, <1>4, <1>5 DEF MarkOK
  <2>3. \A d \in Painted("grey")' \ work' : Children(d)' \subseteq Painted("grey")'
    <3>1. \A d \in (G \cup K) \ work' : d = c \/ d \in G \ work
      BY <1>1, <1>6
    <3>2. \A d \in G \ work : Children(d) \subseteq G
      BY <1>1, <1>2 DEF MarkOK, G
    <3>3. Children(c) \subseteq G \cup K
      BY DEF K
    <3>4. \A d \in (G \cup K) \ work' : Children(d) \subseteq G \cup K
      BY <3>1, <3>2, <3>3
    <3> QED BY <1>1, <1>5, <3>4, SameView
  <2> QED BY <2>1, <2>2, <2>3 DEF MarkOK
<1>11. PaintedOK'
  <2>1. status' = status
    BY <1>1 DEF heap
  <2>2. \A d \in Counting \cup Painted("dead") : Collectable(d) /\ status[d] # "free"
    BY <1>1, <1>2 DEF PaintedOK, Inner
  <2>3. (Counting \cup Painted("dead"))' \subseteq (Counting \cup Painted("dead")) \cup K
    BY <1>5 DEF Counting, G
  <2>4. \A d \in (Counting \cup Painted("dead")) \cup K : Collectable(d) /\ status[d] # "free"
    BY <1>3, <2>2
  <2> QED BY <1>1, <2>1, <2>3, <2>4, SameView DEF PaintedOK
<1> QED BY <1>7, <1>8, <1>9, <1>10, <1>11 DEF RoundOK

(* The mark phase ends: what is grey is all that the roots lead to.        *)
LEMMA MarkDoneRound ==
  ASSUME TypeOK, HeapOK, RoundOK, MarkDone
  PROVE  RoundOK'
<1>1. /\ pc = "mark" /\ pc' = "scan" /\ todo = {} /\ work = {} /\ todo' = roots
      /\ UNCHANGED heap /\ UNCHANGED <<color, work, aux, dead, debt, roots>>
  BY DEF MarkDone, StayInHeap, buffer
<1>2. /\ DebtOK /\ ColorsOK /\ MarkOK /\ PaintedOK
  BY DEF RoundOK
<1>3. Painted("white") = {} /\ aux = {} /\ dead = {}
  BY <1>1, <1>2 DEF ColorsOK, Paints, Painted, MarkOK
<1>4. /\ Painted("grey")' = Painted("grey") /\ Painted("white")' = {}
      /\ Painted("dead")' = Painted("dead") /\ Painted("black")' = Painted("black")
  BY <1>1, <1>3 DEF Painted
<1>5. DebtOK'
  <2>1. Subtracted' = Subtracted
    BY <1>1, <1>3, <1>4 DEF Subtracted
  <2> QED BY <1>1, <1>2, <2>1, SameView DEF DebtOK, EdgesOf
<1>6. ColorsOK'
  BY <1>1, <1>2 DEF ColorsOK, Paints
<1>7. ScanOK'
  <2>1. Counting' = Painted("grey")
    BY <1>4 DEF Counting
  <2>2. \A S \in SUBSET Painted("grey") : S # {} /\ S \cap roots = {} =>
          \E e \in Slots : /\ slot[e] \in S /\ e \in Visible(e[1])
                           /\ e[1] \in Painted("grey") \ S
    BY <1>1, <1>2 DEF MarkOK, Reached
  <2>3. Reached(Painted("grey"), todo \cup work, aux)' /\ Reached(Counting, roots, aux)'
    BY <1>1, <1>3, <1>4, <2>1, <2>2, SameView DEF Reached, heap
  <2>4. \A c \in Painted("grey") : Children(c) \subseteq Painted("grey")
    BY <1>1, <1>2 DEF MarkOK
  <2>5. \A c \in Counting' \cup aux' : Children(c)' \subseteq Counting' \cup Painted("black")'
    BY <1>1, <1>3, <2>1, <2>4, SameView
  <2> QED BY <1>1, <1>3, <2>3, <2>5 DEF ScanOK
<1>8. PaintedOK'
  <2>1. Counting' = Counting
    BY <1>3, <1>4 DEF Counting
  <2> QED BY <1>1, <1>2, <1>4, <2>1, SameView DEF PaintedOK, Inner, heap
<1>9. MarkOK' /\ WhiteOK' /\ CutOK' /\ TodoOK'
  BY <1>1 DEF MarkOK, WhiteOK, CutOK, TodoOK
<1> QED BY <1>5, <1>6, <1>7, <1>8, <1>9 DEF RoundOK

(* The scan takes its next root.                                           *)
LEMMA ScanRootRound ==
  ASSUME TypeOK, HeapOK, RoundOK, NEW r \in Cont, ScanRoot(r)
  PROVE  RoundOK'
<1>1. /\ pc = "scan" /\ pc' = "scan" /\ work = {} /\ aux = {} /\ r \in todo
      /\ todo' = todo \ {r} /\ work' = IF Collectable(r) THEN {r} ELSE {}
      /\ UNCHANGED heap /\ UNCHANGED <<color, aux, dead, debt, roots>>
  BY DEF ScanRoot, StayInHeap, buffer
<1>2. /\ DebtOK /\ ColorsOK /\ ScanOK /\ PaintedOK /\ TodoOK
  BY DEF RoundOK
<1>3. /\ Painted("grey")' = Painted("grey") /\ Painted("white")' = Painted("white")
      /\ Painted("dead")' = Painted("dead") /\ Painted("black")' = Painted("black")
      /\ Counting' = Counting
  BY <1>1 DEF Painted, Counting
<1>4. Subtracted' = Subtracted
  BY <1>1, <1>3 DEF Subtracted
<1>5. DebtOK'
  BY <1>1, <1>2, <1>4, SameView DEF DebtOK, EdgesOf
<1>6. ColorsOK'
  BY <1>1, <1>2 DEF ColorsOK, Paints
<1>7. Reached(Painted("grey"), todo \cup work, aux)'
  <2> SUFFICES ASSUME NEW S \in SUBSET Painted("grey"), S # {}, S \cap (todo' \cup work') = {}
               PROVE  \E e \in Slots : /\ slot[e] \in S /\ e \in Visible(e[1])
                                       /\ e[1] \in (Painted("grey") \ S) \cup aux
    BY <1>1, <1>3, SameView DEF Reached, heap
  <2>1. r \notin Painted("grey") \/ Collectable(r)
    BY <1>1, <1>2 DEF PaintedOK, Counting, Inner
  <2>2. S \cap (todo \cup work) = {}
    BY <1>1, <2>1
  <2> QED BY <1>1, <1>2, <2>2 DEF ScanOK, Reached
<1>8. ScanOK'
  <2>1. Reached(Counting, roots, aux)'
    BY <1>1, <1>2, <1>3, SameView DEF ScanOK, Reached, heap
  <2>2. \A c \in Counting' \cup aux' : Children(c)' \subseteq Counting' \cup Painted("black")'
    BY <1>1, <1>2, <1>3, SameView DEF ScanOK
  <2> QED BY <1>1, <1>2, <1>3, <1>7, <2>1, <2>2 DEF ScanOK
<1>9. PaintedOK'
  BY <1>1, <1>2, <1>3, SameView DEF PaintedOK, Inner, heap
<1>10. MarkOK' /\ WhiteOK' /\ CutOK' /\ TodoOK'
  BY <1>1, <1>2 DEF MarkOK, WhiteOK, CutOK, TodoOK
<1> QED BY <1>5, <1>6, <1>8, <1>9, <1>10 DEF RoundOK

(* The scan visits a grey container: white when no count is left, else     *)
(* black, and its edges are to be put back.                                *)
LEMMA ScanVisitRound ==
  ASSUME TypeOK, HeapOK, RoundOK, NEW c \in Cont, ScanVisit(c)
  PROVE  RoundOK'
<1> DEFINE G == Painted("grey")
           W == Painted("white")
           B == Painted("black")
           K == Children(c)
<1>1. /\ pc = "scan" /\ pc' = "scan" /\ aux = {} /\ c \in work
      /\ UNCHANGED heap /\ UNCHANGED <<todo, dead, debt, roots>>
  BY DEF ScanVisit, StayInHeap, buffer
<1>2. /\ DebtOK /\ ColorsOK /\ ScanOK /\ PaintedOK /\ TodoOK
  BY DEF RoundOK
<1>3. /\ dead = {}
      /\ \A d \in G \cup W : Children(d) \subseteq G \cup W \cup B
      /\ \A S \in SUBSET G : S # {} /\ S \cap (todo \cup work) = {} =>
           \E e \in Slots : slot[e] \in S /\ e \in Visible(e[1]) /\ e[1] \in G \ S
      /\ \A S \in SUBSET (G \cup W) : S # {} /\ S \cap roots = {} =>
           \E e \in Slots : slot[e] \in S /\ e \in Visible(e[1]) /\ e[1] \in (G \cup W) \ S
  BY <1>1, <1>2 DEF ScanOK, Counting, Reached
<1>4. \A d : Visible(d)' = Visible(d) /\ Children(d)' = Children(d)
             /\ (Collectable(d)' <=> Collectable(d))
  BY <1>1, SameView
<1>5. slot' = slot /\ status' = status
  BY <1>1 DEF heap
<1>6. debt = EdgesOf(G \cup W)
  BY <1>1, <1>2 DEF DebtOK, Subtracted
<1>7. \A d \in (G \cup W) \cup Painted("dead") : Collectable(d) /\ status[d] # "free"
  BY <1>1, <1>2 DEF PaintedOK, Inner, Counting
<1>8. MarkOK' /\ WhiteOK' /\ CutOK' /\ TodoOK'
  BY <1>1, <1>2 DEF MarkOK, WhiteOK, CutOK, TodoOK
<1>9. CASE color[c] # "grey"
  <2>1. work' = work \ {c} /\ UNCHANGED <<color, aux>>
    BY <1>9 DEF ScanVisit
  <2>2. /\ Painted("grey")' = G /\ Painted("white")' = W /\ Painted("black")' = B
        /\ Painted("dead")' = Painted("dead") /\ Counting' = G \cup W
    BY <2>1 DEF Painted, Counting
  <2>3. c \notin G
    BY <1>9 DEF Painted
  <2> HIDE DEF G, W, B
  <2>4. DebtOK'
    BY <1>1, <1>4, <1>5, <1>6, <2>1, <2>2 DEF DebtOK, EdgesOf, Subtracted
  <2>5. ColorsOK'
    BY <1>1, <1>2, <2>1 DEF ColorsOK, Paints
  <2>6. ScanOK'
    <3>1. \A S \in SUBSET G : S # {} /\ S \cap (todo' \cup work') = {} =>
            \E e \in Slots : slot[e] \in S /\ e \in Visible(e[1]) /\ e[1] \in G \ S
      <4> SUFFICES ASSUME NEW S \in SUBSET G, S # {}, S \cap (todo' \cup work') = {}
                   PROVE  \E e \in Slots : slot[e] \in S /\ e \in Visible(e[1]) /\ e[1] \in G \ S
        OBVIOUS
      <4>1. S \cap (todo \cup work) = {}
        BY <1>1, <2>1, <2>3
      <4> QED BY <1>3, <4>1
    <3>2. Reached(Painted("grey"), todo \cup work, aux)' /\ Reached(Counting, roots, aux)'
      BY <1>1, <1>3, <1>4, <1>5, <2>1, <2>2, <3>1 DEF Reached
    <3> QED BY <1>1, <1>3, <1>4, <2>1, <2>2, <3>2 DEF ScanOK
  <2>7. PaintedOK'
    BY <1>4, <1>5, <1>7, <2>2 DEF PaintedOK
  <2> QED BY <1>8, <2>4, <2>5, <2>6, <2>7 DEF RoundOK
<1>10. CASE color[c] = "grey" /\ (rc[c] > 0 \/ ~Collectable(c))
  <2>1. /\ color' = [color EXCEPT ![c] = "black"] /\ aux' = {c} /\ work' = work \ {c}
    BY <1>10 DEF ScanVisit
  <2>2. \A d \in Cont : color'[d] = IF d = c THEN "black" ELSE color[d]
    BY <2>1 DEF TypeOK
  <2>3. /\ Painted("grey")' = G \ {c} /\ Painted("white")' = W
        /\ Painted("black")' = B \cup {c} /\ Painted("dead")' = Painted("dead")
        /\ c \in G /\ c \notin W
    BY <1>10, <2>2 DEF Painted
  <2>4. Counting' = (G \cup W) \ {c}
    BY <2>3 DEF Counting
  <2> HIDE DEF G, W, B
  <2>5. DebtOK'
    <3>1. Subtracted' = G \cup W
      BY <1>1, <2>1, <2>3 DEF Subtracted
    <3> QED BY <1>1, <1>4, <1>5, <1>6, <3>1 DEF DebtOK, EdgesOf
  <2>6. ColorsOK'
    BY <1>1, <1>2, <2>2 DEF ColorsOK, Paints
  <2>7. ScanOK'
    <3>1. Reached(Painted("grey"), todo \cup work, aux)'
      <4> SUFFICES ASSUME NEW S \in SUBSET (G \ {c}), S # {}, S \cap (todo' \cup work') = {}
                   PROVE  \E e \in Slots : /\ slot[e] \in S /\ e \in Visible(e[1])
                                           /\ e[1] \in ((G \ {c}) \ S) \cup {c}
        BY <1>4, <1>5, <2>1, <2>3 DEF Reached
      <4>1. S \cap (todo \cup work) = {} /\ S \in SUBSET G
        BY <1>1, <2>1
      <4> QED BY <1>3, <4>1
    <3>2. Reached(Counting, roots, aux)'
      <4> SUFFICES ASSUME NEW S \in SUBSET ((G \cup W) \ {c}), S # {}, S \cap roots = {}
                   PROVE  \E e \in Slots : /\ slot[e] \in S /\ e \in Visible(e[1])
                                           /\ e[1] \in (((G \cup W) \ {c}) \ S) \cup {c}
        BY <1>1, <1>4, <1>5, <2>1, <2>4 DEF Reached
      <4> QED BY <1>3
    <3>3. \A d \in Counting' \cup aux' : Children(d)' \subseteq Counting' \cup Painted("black")'
      BY <1>3, <1>4, <2>1, <2>3, <2>4
    <3> QED BY <1>1, <1>3, <2>1, <2>3, <3>1, <3>2, <3>3 DEF ScanOK
  <2>8. PaintedOK'
    BY <1>4, <1>5, <1>7, <2>3, <2>4 DEF PaintedOK
  <2> QED BY <1>8, <2>5, <2>6, <2>7, <2>8 DEF RoundOK
<1>11. CASE color[c] = "grey" /\ ~(rc[c] > 0 \/ ~Collectable(c))
  <2>1. /\ color' = [color EXCEPT ![c] = "white"] /\ aux' = aux /\ work' = (work \ {c}) \cup K
    BY <1>11 DEF ScanVisit
  <2>2. \A d \in Cont : color'[d] = IF d = c THEN "white" ELSE color[d]
    BY <2>1 DEF TypeOK
  <2>3. /\ Painted("grey")' = G \ {c} /\ Painted("white")' = W \cup {c}
        /\ Painted("black")' = B /\ Painted("dead")' = Painted("dead")
        /\ c \in G
    BY <1>11, <2>2 DEF Painted
  <2>4. Counting' = G \cup W
    BY <2>3 DEF Counting
  <2>5. \A e \in Visible(c) : slot[e] \in K
    BY DEF Children
  <2> HIDE DEF G, W, B, K
  <2>6. DebtOK'
    <3>1. Subtracted' = G \cup W
      BY <1>1, <2>1, <2>3 DEF Subtracted
    <3> QED BY <1>1, <1>4, <1>5, <1>6, <3>1 DEF DebtOK, EdgesOf
  <2>7. ColorsOK'
    BY <1>1, <1>2, <2>2 DEF ColorsOK, Paints
  <2>8. ScanOK'
    <3>1. Reached(Painted("grey"), todo \cup work, aux)'
      <4> SUFFICES ASSUME NEW S \in SUBSET (G \ {c}), S # {}, S \cap (todo' \cup work') = {}
                   PROVE  \E e \in Slots : /\ slot[e] \in S /\ e \in Visible(e[1])
                                           /\ e[1] \in ((G \ {c}) \ S) \cup aux
        BY <1>4, <1>5, <2>1, <2>3 DEF Reached
      <4>1. S \cap (todo \cup work) = {} /\ S \in SUBSET G
        BY <1>1, <2>1
      <4>2. PICK e \in Slots : slot[e] \in S /\ e \in Visible(e[1]) /\ e[1] \in G \ S
        BY <1>3, <4>1
      <4>3. e[1] # c
        BY <2>1, <2>5, <4>2
      <4> QED BY <4>2, <4>3
    <3>2. Reached(Counting, roots, aux)'
      BY <1>1, <1>3, <1>4, <1>5, <2>1, <2>4 DEF Reached
    <3>3. \A d \in Counting' \cup aux' : Children(d)' \subseteq Counting' \cup Painted("black")'
      BY <1>1, <1>3, <1>4, <2>1, <2>3, <2>4
    <3> QED BY <1>1, <1>3, <2>1, <3>1, <3>2, <3>3 DEF ScanOK
  <2>9. PaintedOK'
    BY <1>4, <1>5, <1>7, <2>3, <2>4 DEF PaintedOK
  <2> QED BY <1>8, <2>6, <2>7, <2>8, <2>9 DEF RoundOK
<1> QED BY <1>9, <1>10, <1>11

(* The inner work list of the scan: a container that lives puts its edges  *)
(* back and blackens its children.                                         *)
LEMMA BlackVisitRound ==
  ASSUME TypeOK, HeapOK, RoundOK, NEW c \in Cont, BlackVisit(c)
  PROVE  RoundOK'
<1> DEFINE G == Painted("grey")
           W == Painted("white")
           B == Painted("black")
           K == Children(c)
           E(S, X) == \E e \in Slots : slot[e] \in S /\ e \in Visible(e[1]) /\ e[1] \in X
<1>1. /\ pc = "scan" /\ pc' = "scan" /\ c \in aux
      /\ UNCHANGED heap /\ UNCHANGED <<todo, work, dead, roots>>
      /\ color' = [d \in Cont |-> IF d \in K THEN "black" ELSE color[d]]
      /\ aux' = (aux \ {c}) \cup {d \in K : color[d] # "black"}
      /\ debt' = debt \ Visible(c)
  BY DEF BlackVisit, StayInHeap, buffer
<1>2. /\ DebtOK /\ ColorsOK /\ ScanOK /\ PaintedOK /\ TodoOK
  BY DEF RoundOK
<1>3. /\ dead = {} /\ aux \subseteq B
      /\ \A d \in (G \cup W) \cup aux : Children(d) \subseteq (G \cup W) \cup B
      /\ \A S \in SUBSET G : S # {} /\ S \cap (todo \cup work) = {} => E(S, (G \ S) \cup aux)
      /\ \A S \in SUBSET (G \cup W) : S # {} /\ S \cap roots = {} =>
           E(S, ((G \cup W) \ S) \cup aux)
  BY <1>1, <1>2 DEF ScanOK, Counting, Reached
<1>4. \A d : Visible(d)' = Visible(d) /\ Children(d)' = Children(d)
             /\ (Collectable(d)' <=> Collectable(d))
  BY <1>1, SameView
<1>5. slot' = slot /\ status' = status
  BY <1>1 DEF heap
<1>6. debt = EdgesOf((G \cup W) \cup aux)
  BY <1>1, <1>2 DEF DebtOK, Subtracted
<1>7. \A d \in (G \cup W) \cup Painted("dead") : Collectable(d) /\ status[d] # "free"
  BY <1>1, <1>2 DEF PaintedOK, Inner, Counting
<1>8. MarkOK' /\ WhiteOK' /\ CutOK' /\ TodoOK'
  BY <1>1, <1>2 DEF MarkOK, WhiteOK, CutOK, TodoOK
<1>9. /\ \A e \in Visible(c) : e \in Slots /\ e[1] = c /\ slot[e] \in K
      /\ K \subseteq Cont
  BY ChildrenOf
<1>10. K \subseteq (G \cup W) \cup B
  BY <1>1, <1>3
<1> HIDE DEF K
<1>11. \A d \in Cont : color'[d] = IF d \in K THEN "black" ELSE color[d]
  BY <1>1
<1>12. /\ Painted("grey")' = G \ K /\ Painted("white")' = W \ K
       /\ Painted("black")' = B \cup K /\ Painted("dead")' \subseteq Painted("dead")
  BY <1>9, <1>11 DEF Painted
<1>13. Counting' = (G \cup W) \ K
  BY <1>12 DEF Counting
<1>14. {d \in K : color[d] # "black"} = K \cap (G \cup W)
  BY <1>9, <1>10 DEF Painted
<1>15. (G \cup W) \cap B = {}
  BY DEF Painted
<1> HIDE DEF G, W, B
<1>16. aux' = (aux \ {c}) \cup (K \cap (G \cup W))
  BY <1>1, <1>14
<1>17. DebtOK'
  <2>1. Subtracted' = ((G \cup W) \cup aux) \ {c}
    <3>1. Subtracted' = (G \ K) \cup (W \ K) \cup aux'
      BY <1>1, <1>12 DEF Subtracted
    <3> QED BY <1>1, <1>3, <1>15, <1>16, <3>1
  <2> QED BY <1>1, <1>4, <1>5, <1>6, <1>9, <2>1 DEF DebtOK, EdgesOf
<1>18. ColorsOK'
  BY <1>1, <1>2, <1>11 DEF ColorsOK, Paints
<1>19. ASSUME NEW H \in SUBSET (G \cup W), NEW S \in SUBSET (H \ K), E(S, (H \ S) \cup aux)
       PROVE  E(S, ((H \ K) \ S) \cup aux')
  <2>1. PICK e \in Slots : slot[e] \in S /\ e \in Visible(e[1]) /\ e[1] \in (H \ S) \cup aux
    BY <1>19
  <2>2. e[1] # c
    BY <1>9, <2>1
  <2> QED BY <1>16, <2>1, <2>2
<1>20. ScanOK'
  <2>1. Reached(Painted("grey"), todo \cup work, aux)'
    <3> SUFFICES ASSUME NEW S \in SUBSET (G \ K), S # {}, S \cap (todo \cup work) = {}
                 PROVE  E(S, ((G \ K) \ S) \cup aux')
      BY <1>1, <1>4, <1>5, <1>12 DEF Reached
    <3>1. E(S, (G \ S) \cup aux)
      BY <1>3
    <3> QED BY <1>19, <3>1
  <2>2. Reached(Counting, roots, aux)'
    <3> SUFFICES ASSUME NEW S \in SUBSET ((G \cup W) \ K), S # {}, S \cap roots = {}
                 PROVE  E(S, (((G \cup W) \ K) \ S) \cup aux')
      BY <1>1, <1>4, <1>5, <1>13 DEF Reached
    <3>1. S \in SUBSET (G \cup W) /\ (G \cup W) \in SUBSET (G \cup W)
      OBVIOUS
    <3>2. E(S, ((G \cup W) \ S) \cup aux)
      BY <1>3, <3>1
    <3> HIDE DEF E
    <3> QED BY <1>19, <3>1, <3>2
  <2>3. aux' \subseteq Painted("black")'
    BY <1>3, <1>12, <1>16
  <2>4. \A d \in Counting' \cup aux' : Children(d)' \subseteq Counting' \cup Painted("black")'
    BY <1>3, <1>4, <1>12, <1>13, <1>16
  <2> QED BY <1>1, <1>3, <2>1, <2>2, <2>3, <2>4 DEF ScanOK
<1>21. PaintedOK'
  BY <1>4, <1>5, <1>7, <1>12, <1>13 DEF PaintedOK
<1> QED BY <1>8, <1>17, <1>18, <1>20, <1>21 DEF RoundOK

(* The scan ends: nothing grey is left, for it would have been reached.    *)
LEMMA ScanDoneRound ==
  ASSUME TypeOK, HeapOK, RoundOK, ScanDone
  PROVE  RoundOK'
<1> DEFINE G == Painted("grey")
           W == Painted("white")
<1>1. /\ pc = "scan" /\ pc' = "white" /\ todo = {} /\ work = {} /\ aux = {} /\ todo' = roots
      /\ UNCHANGED heap /\ UNCHANGED <<color, work, aux, dead, debt, roots>>
  BY DEF ScanDone, StayInHeap, buffer
<1>2. /\ DebtOK /\ ColorsOK /\ ScanOK /\ PaintedOK
  BY DEF RoundOK
<1>3. G = {}
  <2>1. SUFFICES ASSUME G # {} PROVE FALSE
    OBVIOUS
  <2>2. \A S \in SUBSET G : S # {} /\ S \cap (todo \cup work) = {} =>
          \E e \in Slots : slot[e] \in S /\ e \in Visible(e[1]) /\ e[1] \in (G \ S) \cup aux
    BY <1>1, <1>2 DEF ScanOK, Reached
  <2> HIDE DEF G
  <2>3. \E e \in Slots : e[1] \in (G \ G) \cup aux
    BY <1>1, <2>1, <2>2
  <2> QED BY <1>1, <2>3
<1>4. Counting = W /\ Painted("dead") = {} /\ dead = {}
  BY <1>1, <1>2, <1>3 DEF Counting, ColorsOK, Paints, Painted, ScanOK
<1>5. /\ Painted("white")' = W /\ Painted("dead")' = {} /\ Counting' = W
  BY <1>1, <1>3, <1>4 DEF Painted, Counting
<1>6. DebtOK'
  <2>1. Subtracted = W
    BY <1>1, <1>3 DEF Subtracted
  <2>2. Subtracted' = W
    BY <1>1, <1>5 DEF Subtracted
  <2> QED BY <1>1, <1>2, <2>1, <2>2, SameView DEF DebtOK, EdgesOf
<1>7. ColorsOK'
  <2>1. \A c \in Cont : color[c] # "grey"
    BY <1>3 DEF Painted
  <2> QED BY <1>1, <1>2, <2>1 DEF ColorsOK, Paints
<1>8. WhiteOK'
  <2>1. \A S \in SUBSET W : S # {} /\ S \cap roots = {} =>
          \E e \in Slots : slot[e] \in S /\ e \in Visible(e[1]) /\ e[1] \in (W \ S) \cup {}
    BY <1>1, <1>2, <1>4 DEF ScanOK, Reached
  <2>2. Reached(Painted("white"), todo \cup work, {})'
    BY <1>1, <1>5, <2>1, SameView DEF Reached, heap
  <2> QED BY <1>1, <1>4, <1>5, <2>2 DEF WhiteOK
<1>9. PaintedOK'
  BY <1>1, <1>2, <1>4, <1>5, SameView DEF PaintedOK, Inner, heap
<1>10. MarkOK' /\ ScanOK' /\ CutOK' /\ TodoOK'
  BY <1>1 DEF MarkOK, ScanOK, CutOK, TodoOK
<1> QED BY <1>6, <1>7, <1>8, <1>9, <1>10 DEF RoundOK

(* The third pass takes its next root.                                     *)
LEMMA WhiteRootRound ==
  ASSUME TypeOK, HeapOK, RoundOK, NEW r \in Cont, WhiteRoot(r)
  PROVE  RoundOK'
<1>1. /\ pc = "white" /\ pc' = "white" /\ work = {} /\ r \in todo
      /\ todo' = todo \ {r} /\ work' = IF Collectable(r) THEN {r} ELSE {}
      /\ UNCHANGED heap /\ UNCHANGED <<color, aux, dead, debt, roots>>
  BY DEF WhiteRoot, StayInHeap, buffer
<1>2. /\ DebtOK /\ ColorsOK /\ WhiteOK /\ PaintedOK /\ TodoOK
  BY DEF RoundOK
<1>3. /\ Painted("white")' = Painted("white") /\ Painted("dead")' = Painted("dead")
      /\ Counting' = Counting
  BY <1>1 DEF Painted, Counting
<1>4. DebtOK'
  <2>1. Subtracted' = Subtracted
    BY <1>1, <1>3 DEF Subtracted
  <2> QED BY <1>1, <1>2, <2>1, SameView DEF DebtOK, EdgesOf
<1>5. ColorsOK'
  BY <1>1, <1>2 DEF ColorsOK, Paints
<1>6. WhiteOK'
  <2>1. Reached(Painted("white"), todo \cup work, {})'
    <3> SUFFICES ASSUME NEW S \in SUBSET Painted("white"), S # {},
                        S \cap (todo' \cup work') = {}
                 PROVE  \E e \in Slots : /\ slot[e] \in S /\ e \in Visible(e[1])
                                         /\ e[1] \in (Painted("white") \ S) \cup {}
      BY <1>1, <1>3, SameView DEF Reached, heap
    <3>1. r \notin Painted("white") \/ Collectable(r)
      BY <1>1, <1>2 DEF PaintedOK, Counting, Inner
    <3>2. S \cap (todo \cup work) = {}
      BY <1>1, <3>1
    <3> QED BY <1>1, <1>2, <3>2 DEF WhiteOK, Reached
  <2> QED BY <1>1, <1>2, <1>3, <2>1 DEF WhiteOK
<1>7. PaintedOK'
  BY <1>1, <1>2, <1>3, SameView DEF PaintedOK, Inner, heap
<1>8. MarkOK' /\ ScanOK' /\ CutOK' /\ TodoOK'
  BY <1>1, <1>2 DEF MarkOK, ScanOK, CutOK, TodoOK
<1> QED BY <1>4, <1>5, <1>6, <1>7, <1>8 DEF RoundOK

(* A white container joins the dead list.                                  *)
LEMMA WhiteVisitRound ==
  ASSUME TypeOK, HeapOK, RoundOK, NEW c \in Cont, WhiteVisit(c)
  PROVE  RoundOK'
<1> DEFINE W == Painted("white")
           D == Painted("dead")
           K == Children(c)
<1>1. /\ pc = "white" /\ pc' = "white" /\ c \in work
      /\ UNCHANGED heap /\ UNCHANGED <<todo, aux, debt, roots>>
  BY DEF WhiteVisit, StayInHeap, buffer
<1>2. /\ DebtOK /\ ColorsOK /\ WhiteOK /\ PaintedOK /\ TodoOK
  BY DEF RoundOK
<1>3. /\ dead = D /\ debt = EdgesOf(W \cup D) /\ Painted("grey") = {}
      /\ \A S \in SUBSET W : S # {} /\ S \cap (todo \cup work) = {} =>
           \E e \in Slots : slot[e] \in S /\ e \in Visible(e[1]) /\ e[1] \in W \ S
  BY <1>1, <1>2 DEF WhiteOK, Reached, DebtOK, Subtracted, ColorsOK, Paints, Painted
<1>4. \A d : Visible(d)' = Visible(d) /\ (Collectable(d)' <=> Collectable(d))
  BY <1>1, SameView
<1>5. slot' = slot /\ status' = status
  BY <1>1 DEF heap
<1>6. \A d \in W \cup D : Collectable(d) /\ status[d] # "free"
  BY <1>1, <1>2 DEF PaintedOK, Inner, Counting
<1>7. MarkOK' /\ ScanOK' /\ CutOK' /\ TodoOK'
  BY <1>1, <1>2 DEF MarkOK, ScanOK, CutOK, TodoOK
<1>8. CASE color[c] # "white"
  <2>1. work' = work \ {c} /\ UNCHANGED <<color, dead>>
    BY <1>8 DEF WhiteVisit
  <2>2. /\ Painted("white")' = W /\ Painted("dead")' = D /\ Counting' = W
    BY <1>3, <2>1 DEF Painted, Counting
  <2>3. c \notin W
    BY <1>8 DEF Painted
  <2> HIDE DEF W, D
  <2>4. DebtOK'
    BY <1>1, <1>3, <1>4, <1>5, <2>2 DEF DebtOK, EdgesOf, Subtracted
  <2>5. ColorsOK'
    BY <1>1, <1>2, <2>1 DEF ColorsOK, Paints
  <2>6. WhiteOK'
    <3>1. Reached(Painted("white"), todo \cup work, {})'
      <4> SUFFICES ASSUME NEW S \in SUBSET W, S # {}, S \cap (todo' \cup work') = {}
                   PROVE  \E e \in Slots : slot[e] \in S /\ e \in Visible(e[1]) /\ e[1] \in W \ S
        BY <1>4, <1>5, <2>2 DEF Reached
      <4>1. S \cap (todo \cup work) = {}
        BY <1>1, <2>1, <2>3
      <4> QED BY <1>3, <4>1
    <3> QED BY <1>3, <2>1, <2>2, <3>1 DEF WhiteOK
  <2>7. PaintedOK'
    BY <1>4, <1>5, <1>6, <2>2 DEF PaintedOK
  <2> QED BY <1>7, <2>4, <2>5, <2>6, <2>7 DEF RoundOK
<1>9. CASE color[c] = "white"
  <2>1. /\ color' = [color EXCEPT ![c] = "dead"] /\ dead' = dead \cup {c}
        /\ work' = (work \ {c}) \cup K
    BY <1>9 DEF WhiteVisit
  <2>2. \A d \in Cont : color'[d] = IF d = c THEN "dead" ELSE color[d]
    BY <2>1 DEF TypeOK
  <2>3. /\ Painted("white")' = W \ {c} /\ Painted("dead")' = D \cup {c}
        /\ Counting' = W \ {c} /\ c \in W
    BY <1>3, <1>9, <2>2 DEF Painted, Counting
  <2>4. \A e \in Visible(c) : slot[e] \in K
    BY DEF Children
  <2> HIDE DEF W, D, K
  <2>5. DebtOK'
    <3>1. Subtracted' = W \cup D
      BY <1>1, <2>3 DEF Subtracted
    <3> QED BY <1>1, <1>3, <1>4, <3>1 DEF DebtOK, EdgesOf
  <2>6. ColorsOK'
    BY <1>1, <1>2, <2>2 DEF ColorsOK, Paints
  <2>7. WhiteOK'
    <3>1. Reached(Painted("white"), todo \cup work, {})'
      <4> SUFFICES ASSUME NEW S \in SUBSET (W \ {c}), S # {}, S \cap (todo' \cup work') = {}
                   PROVE  \E e \in Slots : /\ slot[e] \in S /\ e \in Visible(e[1])
                                           /\ e[1] \in (W \ {c}) \ S
        BY <1>4, <1>5, <2>3 DEF Reached
      <4>1. S \cap (todo \cup work) = {} /\ S \in SUBSET W
        BY <1>1, <2>1
      <4>2. PICK e \in Slots : slot[e] \in S /\ e \in Visible(e[1]) /\ e[1] \in W \ S
        BY <1>3, <4>1
      <4>3. e[1] # c
        BY <2>1, <2>4, <4>2
      <4> QED BY <4>2, <4>3
    <3> QED BY <1>3, <2>1, <2>3, <3>1 DEF WhiteOK
  <2>8. PaintedOK'
    BY <1>4, <1>5, <1>6, <2>3 DEF PaintedOK
  <2> QED BY <1>7, <2>5, <2>6, <2>7, <2>8 DEF RoundOK
<1> QED BY <1>8, <1>9

(* The third pass ends: nothing white is left, the buffer is spent, and    *)
(* what is subtracted are the edges of the dead.                           *)
LEMMA WhiteDoneRound ==
  ASSUME TypeOK, HeapOK, RoundOK, WhiteDone
  PROVE  RoundOK'
<1> DEFINE W == Painted("white")
<1>1. /\ pc = "white" /\ todo = {} /\ work = {} /\ roots' = {}
      /\ color' = [c \in Cont |-> IF c \in roots /\ color[c] # "dead" THEN "black" ELSE color[c]]
      /\ UNCHANGED <<status, slot, named, bound, walked, debt>>
  BY DEF WhiteDone
<1>2. /\ DebtOK /\ ColorsOK /\ WhiteOK /\ PaintedOK
  BY DEF RoundOK
<1>3. W = {}
  <2>1. SUFFICES ASSUME W # {} PROVE FALSE
    OBVIOUS
  <2>2. \A S \in SUBSET W : S # {} /\ S \cap (todo \cup work) = {} =>
          \E e \in Slots : slot[e] \in S /\ e \in Visible(e[1]) /\ e[1] \in (W \ S) \cup {}
    BY <1>1, <1>2 DEF WhiteOK, Reached
  <2> HIDE DEF W
  <2>3. \E e \in Slots : e[1] \in (W \ W) \cup {}
    BY <1>1, <2>1, <2>2
  <2> QED BY <2>3
<1>4. dead = Painted("dead") /\ debt = EdgesOf(dead)
  <2>1. dead = Painted("dead")
    BY <1>1, <1>2 DEF WhiteOK
  <2>2. Subtracted = dead
    BY <1>1, <1>3, <2>1 DEF Subtracted
  <2> QED BY <1>2, <2>1, <2>2 DEF DebtOK
<1>5. \A c \in Cont : color'[c] = IF c \in dead THEN "dead" ELSE "black"
  <2> SUFFICES ASSUME NEW c \in Cont PROVE color'[c] = IF c \in dead THEN "dead" ELSE "black"
    OBVIOUS
  <2>1. color[c] # "white" /\ (c \in dead <=> color[c] = "dead")
    BY <1>3, <1>4 DEF Painted
  <2>2. Paints(c, {"white", "dead", "black"})
    BY <1>1, <1>2 DEF ColorsOK
  <2>3. color'[c] = IF c \in roots /\ color[c] # "dead" THEN "black" ELSE color[c]
    BY <1>1
  <2> QED BY <2>1, <2>2, <2>3 DEF Paints
<1>6. \A d : Visible(d)' = Visible(d) /\ (Collectable(d)' <=> Collectable(d))
  BY <1>1 DEF Visible, SlotOwned, Collectable, CollectableGiven
<1>7. CASE dead = {}
  <2>1. pc' = "idle"
    BY <1>7 DEF WhiteDone, EndRound
  <2>2. DebtOK'
    BY <1>1, <1>4, <1>7, <2>1 DEF DebtOK, EdgesOf, Subtracted
  <2>3. ColorsOK'
    BY <1>1, <1>5, <1>7, <2>1 DEF ColorsOK
  <2>4. MarkOK' /\ ScanOK' /\ WhiteOK' /\ PaintedOK' /\ TodoOK' /\ CutOK'
    BY <2>1 DEF MarkOK, ScanOK, WhiteOK, PaintedOK, TodoOK, CutOK, Inner
  <2> QED BY <2>2, <2>3, <2>4 DEF RoundOK
<1>8. CASE dead # {}
  <2>1. pc' = "restore" /\ todo' = dead /\ dead' = dead
    BY <1>8 DEF WhiteDone
  <2>2. DebtOK'
    <3>1. Subtracted' = dead
      BY <2>1 DEF Subtracted
    <3> QED BY <1>1, <1>4, <1>6, <3>1 DEF DebtOK, EdgesOf
  <2>3. ColorsOK'
    BY <1>1, <1>5, <2>1 DEF ColorsOK
  <2>4. MarkOK' /\ ScanOK' /\ WhiteOK' /\ TodoOK' /\ CutOK'
    BY <2>1 DEF MarkOK, ScanOK, WhiteOK, TodoOK, CutOK
  <2>5. PaintedOK'
    <3>1. Painted("grey")' = {} /\ Painted("white")' = {} /\ Painted("dead")' \subseteq dead
      BY <1>5 DEF Painted
    <3>2. \A d \in dead : Collectable(d) /\ status[d] # "free"
      BY <1>1, <1>2, <1>4 DEF PaintedOK, Inner
    <3> QED BY <1>1, <1>6, <3>1, <3>2 DEF PaintedOK, Counting
  <2> QED BY <2>2, <2>3, <2>4, <2>5 DEF RoundOK
<1> QED BY <1>7, <1>8

(* The counts of the children of the dead are put back.                    *)
LEMMA RestoreRound ==
  ASSUME TypeOK, HeapOK, RoundOK, RestoreDone \/ \E c \in Cont : Restore(c)
  PROVE  RoundOK'
<1>1. /\ DebtOK /\ ColorsOK /\ PaintedOK /\ TodoOK
  BY DEF RoundOK
<1>2. /\ pc = "restore" /\ UNCHANGED heap /\ UNCHANGED <<color, dead, roots>>
  BY DEF Restore, RestoreDone, StayInHeap, buffer
<1>3. \A d : Visible(d)' = Visible(d) /\ (Collectable(d)' <=> Collectable(d))
  BY <1>2, SameView
<1>4. debt = EdgesOf(todo)
  BY <1>1, <1>2 DEF DebtOK, Subtracted
<1>5. ASSUME NEW c \in Cont, Restore(c) PROVE RoundOK'
  <2>1. /\ pc' = "restore" /\ c \in todo /\ todo' = todo \ {c} /\ debt' = debt \ Visible(c)
    BY <1>5 DEF Restore
  <2>2. DebtOK'
    <3>1. \A e \in Visible(c) : e[1] = c
      BY DEF Visible
    <3>2. debt' = EdgesOf(todo')
      BY <1>4, <2>1, <3>1 DEF EdgesOf
    <3> QED BY <1>3, <2>1, <3>2 DEF DebtOK, EdgesOf, Subtracted
  <2>3. ColorsOK'
    BY <1>1, <1>2, <2>1 DEF ColorsOK
  <2>4. PaintedOK'
    <3>1. Counting' = Counting /\ Painted("dead")' = Painted("dead") /\ status' = status
      BY <1>2 DEF Painted, Counting, heap
    <3> QED BY <1>1, <1>2, <1>3, <3>1 DEF PaintedOK, Inner
  <2>5. MarkOK' /\ ScanOK' /\ WhiteOK' /\ TodoOK' /\ CutOK'
    BY <1>1, <1>2, <2>1 DEF MarkOK, ScanOK, WhiteOK, TodoOK, CutOK
  <2> QED BY <2>2, <2>3, <2>4, <2>5 DEF RoundOK
<1>6. CASE RestoreDone
  <2>1. pc' = "dtors" /\ todo = {} /\ todo' = dead /\ debt' = debt
    BY <1>6 DEF RestoreDone
  <2>2. DebtOK'
    BY <1>4, <2>1 DEF DebtOK, EdgesOf, Subtracted
  <2>3. ColorsOK'
    BY <1>1, <1>2, <2>1 DEF ColorsOK
  <2>4. MarkOK' /\ ScanOK' /\ WhiteOK' /\ PaintedOK' /\ TodoOK' /\ CutOK'
    BY <1>2, <2>1 DEF MarkOK, ScanOK, WhiteOK, PaintedOK, TodoOK, CutOK, Inner
  <2> QED BY <2>2, <2>3, <2>4 DEF RoundOK
<1> QED BY <1>5, <1>6

(* The counts prove that only the collection holds the dead: then no edge  *)
(* from outside names a member.                                            *)
LEMMA VerifyRound ==
  ASSUME TypeOK, HeapOK, RoundOK, Verify
  PROVE  RoundOK'
<1>1. /\ pc = "dtors" /\ pc' = "cut" /\ verified' = OnlyHeldByCollector
      /\ UNCHANGED heap /\ UNCHANGED <<color, dead, debt, roots>>
  BY DEF Verify, StayInHeap, buffer
<1>2. /\ DebtOK /\ ColorsOK
  BY DEF RoundOK
<1>3. debt = {} /\ HeldByGc = dead
  BY <1>1, <1>2 DEF DebtOK, EdgesOf, Subtracted, HeldByGc
<1>4. DebtOK'
  BY <1>1, <1>3 DEF DebtOK, EdgesOf, Subtracted
<1>5. ColorsOK'
  BY <1>1, <1>2 DEF ColorsOK
<1>6. ASSUME verified', NEW c \in dead
      PROVE  ext[c] = 0 /\ hold[c] = 1 /\ \A e \in Slots : slot[e] = c => e \in InnerEdges
  <2> DEFINE N == Naming(slot, {}, c)
             I == {e \in InnerEdges : slot[e] = c}
  <2>0. c \in Cont
    BY DEF TypeOK
  <2>1. rc[c] - Cardinality(I) = 1
    BY <1>1, <1>6 DEF OnlyHeldByCollector, Weight
  <2>2. rc[c] = ext[c] + hold[c] + Cardinality(N)
    BY <1>3, <2>0 DEF HeapOK, Sound, Exact
  <2>3. hold[c] > 0
    <3>1. hold \in [Cont -> Int] /\ Pinned(hold, stack, HeldByGc)
      BY DEF HeapOK, Sound, TypeOK
    <3> QED BY <1>3, <2>0, <3>1, PinsNat
  <2>4. I \in SUBSET N /\ N \in SUBSET Slots /\ I \in SUBSET Slots
    BY DEF InnerEdges, Naming
  <2>5. /\ Cardinality(N) \in Nat /\ Cardinality(I) \in Nat
        /\ Cardinality(N \ I) = Cardinality(N) - Cardinality(I)
        /\ N \ I \in SUBSET Slots /\ Cardinality(N \ I) \in Nat
    BY <2>4, SlotsFinite, LessEdges
  <2>6. rc[c] \in Int /\ ext[c] \in Nat /\ hold[c] \in Int
    BY <2>0 DEF TypeOK
  <2>7. Cardinality(N \ I) = 0 => N \ I = {}
    BY <2>5, NoEdges
  <2>8. ext[c] = 0 /\ hold[c] = 1 /\ Cardinality(N \ I) = 0
    <3> HIDE DEF N, I
    <3> QED BY <2>1, <2>2, <2>3, <2>5, <2>6
  <2>9. N \ I = {}
    BY <2>7, <2>8
  <2>10. \A e \in Slots : slot[e] = c => e \in I
    BY <2>9 DEF Naming
  <2> QED BY <2>8, <2>10
<1>7. CutOK'
  <2>1. InnerEdges' = InnerEdges
    BY <1>1, SameView DEF InnerEdges, heap
  <2>2. ext' = ext /\ hold' = hold /\ slot' = slot
    BY <1>1 DEF heap
  <2> QED BY <1>1, <1>6, <2>1, <2>2 DEF CutOK
<1>8. MarkOK' /\ ScanOK' /\ WhiteOK' /\ PaintedOK' /\ TodoOK'
  BY <1>1 DEF MarkOK, ScanOK, WhiteOK, PaintedOK, TodoOK, Inner
<1> QED BY <1>4, <1>5, <1>7, <1>8 DEF RoundOK

(* The child of a cut edge keeps the hold: a cut releases nothing.         *)
LEMMA CutReleasesNothing ==
  ASSUME TypeOK, HeapOK, RoundOK, NEW e \in Slots, Cut(e)
  PROVE  UNCHANGED <<status, dtorCalled, hold, stack, roots, color>>
<1> DEFINE d == slot[e]
<1>1. /\ pc = "cut" /\ verified /\ e \in InnerEdges /\ UnrefGiven(d, rc, hold, stack, walked)
  BY DEF Cut, Unref
<1>2. d \in Cont /\ color[d] = "dead"
  BY <1>1 DEF InnerEdges, Visible, TypeOK
<1>3. d \in dead /\ debt = {}
  BY <1>1, <1>2 DEF RoundOK, ColorsOK, DebtOK, EdgesOf, Subtracted
<1>4. hold[d] = 1
  BY <1>1, <1>3 DEF RoundOK, CutOK
<1>5. rc[d] = ext[d] + hold[d] + Cardinality(Naming(slot, {}, d))
  BY <1>2, <1>3 DEF HeapOK, Sound, Exact
<1>6. Cardinality(Naming(slot, {}, d)) \in Nat /\ Cardinality(Naming(slot, {}, d)) # 0
  <2>1. e \in Naming(slot, {}, d)
    BY DEF Naming
  <2> QED BY <2>1, NamingFinite
<1>7. rc[d] \in Int /\ ext[d] \in Nat
  BY <1>2 DEF TypeOK
<1> HIDE DEF d
<1>8. rc[d] > 1
  BY <1>4, <1>5, <1>6, <1>7
<1>9. ~([rc EXCEPT ![d] = @ - 1][d] < 1)
  BY <1>2, <1>8 DEF TypeOK
<1>10. PossibleRoot(d, walked) /\ UNCHANGED <<status, dtorCalled, hold, stack>>
  BY <1>1, <1>9 DEF UnrefGiven
<1>11. UNCHANGED <<roots, color>>
  BY <1>1, <1>10 DEF PossibleRoot, Running
<1> QED BY <1>10, <1>11

(* A cut leaves the proof standing for the edges not yet cut.              *)
LEMMA CutRound ==
  ASSUME TypeOK, HeapOK, RoundOK, NEW e \in Slots, Cut(e)
  PROVE  RoundOK'
<1>1. UNCHANGED <<status, dtorCalled, hold, stack, roots, color>>
  BY CutReleasesNothing
<1>2. /\ pc = "cut" /\ verified /\ slot' = [slot EXCEPT ![e] = Nil]
      /\ UNCHANGED <<named, bound, ext, walked, round>>
  BY DEF Cut
<1>3. UNCHANGED <<pc, dead, debt, verified, todo>>
  BY <1>2 DEF round
<1>4. /\ DebtOK /\ ColorsOK /\ CutOK
  BY DEF RoundOK
<1>5. DebtOK'
  BY <1>2, <1>3, <1>4 DEF DebtOK, EdgesOf, Subtracted
<1>6. ColorsOK'
  BY <1>1, <1>2, <1>3, <1>4 DEF ColorsOK
<1>7. /\ slot'[e] = Nil
      /\ \A f \in Slots : f # e => slot'[f] = slot[f]
  BY <1>2 DEF TypeOK
<1>8. CutOK'
  <2> SUFFICES ASSUME NEW c \in dead
               PROVE  /\ ext[c] = 0 /\ hold[c] = 1
                      /\ \A f \in Slots : slot'[f] = c => f \in InnerEdges'
    BY <1>1, <1>2, <1>3 DEF CutOK
  <2>1. /\ ext[c] = 0 /\ hold[c] = 1
        /\ \A f \in Slots : slot[f] = c => f \in InnerEdges
    BY <1>2, <1>4 DEF CutOK
  <2>2. c # Nil
    BY NilIsNoContainer DEF TypeOK
  <2>3. ASSUME NEW f \in Slots, slot'[f] = c PROVE f \in InnerEdges'
    <3>1. f # e /\ slot'[f] = slot[f]
      BY <1>7, <2>2, <2>3
    <3>2. f[1] \in dead /\ f \in Visible(f[1]) /\ color[slot[f]] = "dead"
      BY <2>1, <2>3, <3>1 DEF InnerEdges
    <3>3. f \in Visible(f[1])'
      BY <1>1, <1>2, <3>1, <3>2 DEF Visible, SlotOwned, Collectable, CollectableGiven
    <3> QED BY <1>1, <1>3, <3>1, <3>2, <3>3 DEF InnerEdges
  <2> QED BY <2>1, <2>3
<1>9. MarkOK' /\ ScanOK' /\ WhiteOK' /\ PaintedOK' /\ TodoOK'
  BY <1>2, <1>3 DEF MarkOK, ScanOK, WhiteOK, PaintedOK, TodoOK, Inner
<1> QED BY <1>5, <1>6, <1>8, <1>9 DEF RoundOK

(* The destructors, the loops that follow, and the end of the round.       *)
LEMMA LastRound ==
  ASSUME TypeOK, HeapOK, RoundOK,
         CutDone \/ CollectDone \/ \E c \in Cont : Destruct(c) \/ GiveBack(c)
  PROVE  RoundOK'
<1>1. /\ DebtOK /\ ColorsOK /\ TodoOK
  BY DEF RoundOK
<1>2. pc \in {"dtors", "cut", "give"} /\ debt' = debt
  BY DEF CutDone, CollectDone, Destruct, GiveBack
<1>3. debt = {}
  BY <1>1, <1>2 DEF DebtOK, EdgesOf, Subtracted
<1>4. ASSUME pc' \in {"dtors", "give", "idle"} PROVE
        /\ DebtOK' /\ MarkOK' /\ ScanOK' /\ WhiteOK' /\ PaintedOK' /\ CutOK'
  BY <1>2, <1>3, <1>4
     DEF DebtOK, EdgesOf, Subtracted, MarkOK, ScanOK, WhiteOK, PaintedOK, CutOK, Inner
<1>5. ASSUME NEW c \in Cont, Destruct(c) PROVE RoundOK'
  <2>1. pc = "dtors" /\ pc' = "dtors" /\ todo' = todo \ {c} /\ UNCHANGED <<color, roots, dead>>
    BY <1>5 DEF Destruct, buffer
  <2> QED BY <1>1, <1>4, <2>1 DEF RoundOK, ColorsOK, TodoOK
<1>6. ASSUME NEW c \in Cont, GiveBack(c) PROVE RoundOK'
  <2>1. pc = "give" /\ pc' = "give" /\ todo' = todo \ {c} /\ dead' = dead
    BY <1>6 DEF GiveBack
  <2>2. UNCHANGED <<color, roots>>
    BY <1>6, <2>1, UnrefBuffers DEF GiveBack
  <2> QED BY <1>1, <1>4, <2>1, <2>2 DEF RoundOK, ColorsOK, TodoOK
<1>7. CASE CutDone
  <2>1. /\ pc = "cut" /\ pc' = "give" /\ todo' = dead /\ UNCHANGED <<roots, dead>>
        /\ color' = [c \in Cont |-> IF c \in dead /\ color[c] = "dead" THEN "black" ELSE color[c]]
    BY <1>7 DEF CutDone, StayInHeap, buffer
  <2>2. \A c \in Cont : c \notin roots /\ color'[c] = "black"
    BY <1>1, <2>1 DEF ColorsOK
  <2> QED BY <1>4, <2>1, <2>2 DEF RoundOK, ColorsOK, TodoOK
<1>8. CASE CollectDone
  <2>1. pc = "give" /\ pc' = "idle" /\ UNCHANGED <<color, roots>>
    BY <1>8 DEF CollectDone, EndRound
  <2> QED BY <1>1, <1>4, <2>1 DEF RoundOK, ColorsOK, TodoOK
<1> QED BY <1>5, <1>6, <1>7, <1>8

(* Every step of the collection keeps the round sound.                     *)
LEMMA CollectorRound ==
  ASSUME TypeOK, HeapOK, RoundOK, CollectorStep
  PROVE  RoundOK'
BY MarkRootRound, MarkVisitRound, MarkDoneRound, ScanRootRound, ScanVisitRound, BlackVisitRound,
   ScanDoneRound, WhiteRootRound, WhiteVisitRound, WhiteDoneRound, RestoreRound, VerifyRound,
   CutRound, LastRound DEF CollectorStep

(* And keeps the collection on top while it counts or cuts.                *)
LEMMA CollectorControl ==
  ASSUME TypeOK, Control, HeapOK, RoundOK, CollectorStep
  PROVE  Control'
<1>0. Collecting
  BY DEF CollectorStep, MarkRoot, MarkVisit, ScanRoot, ScanVisit, BlackVisit, WhiteRoot,
         WhiteVisit, Restore, Destruct, GiveBack, Cut, MarkDone, ScanDone, WhiteDone,
         RestoreDone, Verify, CutDone, CollectDone
<1>1. /\ stack # << >> /\ stack \in Seq(Frames) /\ Tail(stack) \in Seq(Frames)
      /\ stack[1].kind = "gc" /\ Top = stack[1]
  <2>1. stack # << >> /\ stack \in Seq(Frames)
    BY <1>0, TopFrame DEF Collecting, TypeOK
  <2> QED BY <1>0, <2>1, TopFrame DEF Collecting
<1>2. ASSUME UNCHANGED stack, Inner \/ pc \in {"dtors", "cut"}, Inner' => Inner
      PROVE  Control'
  BY <1>0, <1>2 DEF Control, Collecting, Top
<1>3. ASSUME NEW c \in Cont,
             MarkRoot(c) \/ MarkVisit(c) \/ ScanRoot(c) \/ ScanVisit(c) \/ BlackVisit(c)
               \/ WhiteRoot(c) \/ WhiteVisit(c) \/ Restore(c)
      PROVE  Control'
  <2>1. UNCHANGED stack /\ Inner /\ pc' = pc
    BY <1>3 DEF MarkRoot, MarkVisit, ScanRoot, ScanVisit, BlackVisit, WhiteRoot, WhiteVisit,
                Restore, StayInHeap, Inner
  <2> QED BY <1>2, <2>1
<1>4. CASE MarkDone \/ ScanDone \/ RestoreDone \/ Verify \/ CutDone
  <2>1. UNCHANGED stack /\ (Inner \/ pc \in {"dtors", "cut"}) /\ (Inner' => Inner)
    BY <1>4 DEF MarkDone, ScanDone, RestoreDone, Verify, CutDone, StayInHeap, Inner
  <2> QED BY <1>2, <2>1
<1>5. ASSUME NEW e \in Slots, Cut(e) PROVE Control'
  <2>1. UNCHANGED stack /\ pc = "cut" /\ pc' = pc
    BY <1>5, CutReleasesNothing DEF Cut, round
  <2> QED BY <1>2, <2>1 DEF Inner
<1>6. HasDtor = {} => NoDtors(stack) /\ NoDtors(Tail(stack))
  BY <1>1, TailNoDtors DEF Control, NoDtors
<1>7. CASE WhiteDone
  <2>1. CASE dead = {}
    <3>1. pc' = "idle" /\ stack' = Tail(stack)
      BY <1>7, <2>1 DEF WhiteDone, EndRound
    <3> QED BY <1>6, <3>1 DEF Control, NoDtors, Inner
  <2>2. CASE dead # {}
    <3>1. UNCHANGED stack /\ Inner
      BY <1>7, <2>2 DEF WhiteDone, Inner
    <3> QED BY <1>2, <3>1
  <2> QED BY <2>1, <2>2
<1>8. CASE CollectDone
  <2>1. pc' = "idle" /\ stack' = Tail(stack)
    BY <1>8 DEF CollectDone, EndRound
  <2> QED BY <1>6, <2>1 DEF Control, NoDtors, Inner
<1>9. ASSUME NEW c \in Cont, Destruct(c) PROVE Control'
  <2>1. pc' = "dtors"
    BY <1>9 DEF Destruct
  <2>2. HasDtor = {} => stack' = stack
    BY <1>9 DEF Destruct
  <2> QED BY <1>6, <2>1, <2>2 DEF Control, NoDtors, Inner
<1>10. ASSUME NEW c \in Cont, GiveBack(c) PROVE Control'
  <2>1. pc' = "give" /\ UnrefGiven(c, rc, [hold EXCEPT ![c] = @ - 1], stack, walked)
    BY <1>10 DEF GiveBack
  <2>2. HasDtor = {} => NoDtors(stack')
    BY <1>1, <1>6, <2>1, UnrefNoDtors
  <2> QED BY <2>1, <2>2 DEF Control, NoDtors, Inner
<1> QED BY <1>3, <1>4, <1>5, <1>7, <1>8, <1>9, <1>10 DEF CollectorStep

---------------------------------------------------------------------------
(* The theorems                                                            *)

(* The empty heap is sound.                                                *)
LEMMA InitInv == Init => GcInv
<1> SUFFICES ASSUME Init PROVE GcInv
  OBVIOUS
<1>1. TypeOK /\ WalkHeld
  BY InitTypes
<1>2. pc = "idle" /\ stack = << >> /\ debt = {} /\ roots = {} /\ todo = {}
  BY DEF Init
<1>3. \A i \in DOMAIN stack : FALSE
  BY <1>2
<1>4. \A c \in Cont : \A e \in Slots : slot[e] # c
  BY NilIsNoContainer DEF Init
<1>5. Control
  BY <1>2, <1>3 DEF Control, Inner
<1>6. HeapOK
  <2>1. Exact(slot, ext, rc, hold, debt)
    <3>1. ASSUME NEW c \in Cont PROVE Cardinality(Naming(slot, debt, c)) = 0
      BY <1>4, NamingFinite DEF Naming
    <3>2. \A c \in Cont : rc[c] = 0 /\ ext[c] = 0 /\ hold[c] = 0
      BY DEF Init
    <3> QED BY <3>1, <3>2 DEF Exact
  <2>2. Freed(status, slot, named, ext, hold, roots)
    <3>1. \A c \in Cont : Unnamed(slot, ext, hold, c)
      BY <1>4 DEF Init, Unnamed
    <3>2. \A c \in Cont, k \in Keys : Gone(slot, named, <<c, k>>)
      BY DEF Init, Gone, Slots
    <3> QED BY <1>2, <3>1, <3>2 DEF Freed
  <2>3. Framed(stack, status, slot, named, ext, hold, dtorCalled)
    BY <1>3 DEF Framed, Distinct
  <2>4. Pinned(hold, stack, HeldByGc)
    BY <1>2, <1>3 DEF Pinned, HeldByGc, Destructing, Init
  <2> QED BY <2>1, <2>2, <2>3, <2>4 DEF HeapOK, Sound
<1>7. RoundOK
  <2>1. DebtOK
    BY <1>2 DEF DebtOK, EdgesOf, Subtracted
  <2>2. ColorsOK
    BY <1>2 DEF ColorsOK, Init
  <2>3. MarkOK /\ ScanOK /\ WhiteOK /\ PaintedOK /\ TodoOK /\ CutOK
    BY <1>2 DEF MarkOK, ScanOK, WhiteOK, PaintedOK, TodoOK, CutOK, Inner
  <2> QED BY <2>1, <2>2, <2>3 DEF RoundOK
<1> QED BY <1>1, <1>5, <1>6, <1>7 DEF GcInv

(* A step that changes nothing.                                            *)
LEMMA StutterInv == GcInv /\ UNCHANGED vars => GcInv'
<1> SUFFICES ASSUME GcInv, UNCHANGED vars PROVE GcInv'
  OBVIOUS
<1>1. UNCHANGED <<heap, rc, color, buffer, round, stack>>
  BY DEF vars
<1>2. TypeOK' /\ WalkHeld'
  BY StutterTypes DEF GcInv
<1>3. Control'
  BY <1>1 DEF GcInv, Control, Inner, Collecting, Top, round
<1>4. HeldByGc' = HeldByGc
  BY <1>1 DEF HeldByGc, round
<1>5. HeapOK'
  BY <1>1, <1>4, SameHeap DEF GcInv, buffer, round
<1>6. UNCHANGED <<slot, named, bound, status, ext, hold, walked, color, roots, pc, todo, work, aux,
                  dead, verified, debt>>
  BY <1>1 DEF heap, buffer, round
<1>7. RoundOK
  BY DEF GcInv
<1>8. MarkOK'
  BY <1>6, <1>7 DEF RoundOK, MarkOK, Reached, Painted, Children, Visible, SlotOwned, Collectable,
                    CollectableGiven
<1>9. ScanOK'
  BY <1>6, <1>7 DEF RoundOK, ScanOK, Reached, Counting, Painted, Children, Visible, SlotOwned,
                    Collectable, CollectableGiven
<1>10. WhiteOK'
  BY <1>6, <1>7 DEF RoundOK, WhiteOK, Reached, Painted, Visible, SlotOwned, Collectable,
                    CollectableGiven
<1>11. PaintedOK' /\ TodoOK' /\ ColorsOK'
  BY <1>6, <1>7 DEF RoundOK, PaintedOK, TodoOK, ColorsOK, Paints, Inner, Counting, Painted,
                    Collectable, CollectableGiven
<1>12. CutOK'
  BY <1>6, <1>7 DEF RoundOK, CutOK, InnerEdges, Visible, SlotOwned, Collectable, CollectableGiven
<1>13. DebtOK'
  BY <1>6, <1>7 DEF RoundOK, DebtOK, EdgesOf, Subtracted, Painted, Visible, SlotOwned, Collectable,
                    CollectableGiven
<1> QED BY <1>2, <1>3, <1>5, <1>8, <1>9, <1>10, <1>11, <1>12, <1>13 DEF GcInv, RoundOK

(* The whole invariant holds for every heap that has either no arrays or   *)
(* no destructors.  With both it does not: PH7_HashmapRelease releases the *)
(* elements of an array before it takes the array off the root buffer, so  *)
(* a destructor it runs can have the same array collected.                 *)
THEOREM RoundInvariant ==
  ASSUME Maps = {} \/ HasDtor = {}
  PROVE  Spec => []GcInv
<1>1. GcInv /\ CollectorStep => GcInv'
  <2> SUFFICES ASSUME GcInv, CollectorStep PROVE GcInv'
    OBVIOUS
  <2>1. TypeOK /\ WalkHeld /\ Control /\ HeapOK /\ RoundOK
    BY DEF GcInv
  <2>2. TypeOK' /\ WalkHeld'
    BY <2>1, CollectorTypes
  <2>3. HeapOK'
    BY <2>1, CollectorHeap
  <2>4. RoundOK' /\ Control'
    BY <2>1, CollectorRound, CollectorControl
  <2> QED BY <2>2, <2>3, <2>4 DEF GcInv
<1>2. GcInv /\ [Next]_vars => GcInv'
  BY <1>1, QuietStep, CollectStep, StutterInv DEF Next
<1> QED BY <1>2, InitInv, PTL DEF Spec

(* iRef is exact in every state, the collector's subtractions included: no *)
(* pass subtracts an edge twice, and no edge is put back twice.            *)
THEOREM CountsAlwaysExact ==
  ASSUME Maps = {} \/ HasDtor = {}
  PROVE  Spec => []CountsExact
<1>1. GcInv => CountsExact
  <2>1. \A c : Counted(c) = Naming(slot, debt, c)
    BY DEF Counted, Naming
  <2> QED BY <2>1 DEF GcInv, HeapOK, Sound, Exact, CountsExact
<1> QED BY <1>1, RoundInvariant, PTL

(* Whatever was subtracted is put back before PHP or a release looks.      *)
THEOREM DebtIsSettled ==
  ASSUME Maps = {} \/ HasDtor = {}
  PROVE  Spec => []DebtSettled
<1>1. GcInv => DebtSettled
  BY DEF GcInv, RoundOK, DebtOK, EdgesOf, Subtracted, DebtSettled
<1> QED BY <1>1, RoundInvariant, PTL

(* A collection leaves no colour behind: the next one sees every container. *)
THEOREM ColorsAreClean ==
  ASSUME Maps = {} \/ HasDtor = {}
  PROVE  Spec => []ColorsClean
<1>1. GcInv => ColorsClean
  BY DEF GcInv, RoundOK, ColorsOK, ColorsClean
<1> QED BY <1>1, RoundInvariant, PTL

(* No slot and no row of the buffer names a block given back to the pool.  *)
THEOREM FreedIsUnnamed ==
  ASSUME Maps = {} \/ HasDtor = {}
  PROVE  Spec => []NothingNamesFreed
<1>1. GcInv => NothingNamesFreed
  <2> SUFFICES ASSUME GcInv PROVE NothingNamesFreed
    OBVIOUS
  <2>1. Freed(status, slot, named, ext, hold, roots) /\ TypeOK
    BY DEF GcInv, HeapOK, Sound
  <2>2. ASSUME NEW e \in Slots, slot[e] # Nil PROVE status[slot[e]] # "free"
    BY <2>1, <2>2 DEF TypeOK, Freed, Unnamed
  <2>3. ASSUME NEW c \in roots PROVE status[c] # "free"
    BY <2>1, <2>3 DEF TypeOK, Freed
  <2> QED BY <2>2, <2>3 DEF NothingNamesFreed
<1> QED BY <1>1, RoundInvariant, PTL

(* No container is torn down by two releases at once.  With arrays and     *)
(* destructors together one is, which is what gc_dying_map shows.          *)
THEOREM TornByOne ==
  ASSUME Maps = {} \/ HasDtor = {}
  PROVE  Spec => []TornOnce
<1>1. GcInv => TornOnce
  <2>1. GcInv => Distinct(stack)
    BY DEF GcInv, HeapOK, Sound, Framed
  <2>2. Distinct(stack) => TornOnce
    BY DEF Distinct, TornOnce
  <2> QED BY <2>1, <2>2
<1> QED BY <1>1, RoundInvariant, PTL

(* Cutting the edges inside the dead set releases no member under the walk. *)
THEOREM CutsFreeNothing ==
  ASSUME Maps = {} \/ HasDtor = {}
  PROVE  Spec => []CutFreesNothing
<1>1. GcInv => CutFreesNothing
  BY DEF GcInv, Control, CutFreesNothing
<1> QED BY <1>1, RoundInvariant, PTL

(* A container left out by every name, and by the $this of every           *)
(* destructor, cannot be reached.                                          *)
LEMMA OutsideReach ==
  ASSUME TypeOK, NEW D \in SUBSET Cont,
         \A c \in D : ext[c] = 0,
         \A e \in Slots : slot[e] \in D => e[1] \in D /\ e \notin named,
         \A i \in DOMAIN stack : stack[i].kind = "dtor" => stack[i].obj \notin D
  PROVE  D \cap Reachable = {}
<1> DEFINE S == Cont \ D
<1>1. Closed(S)
  BY DEF Closed, TypeOK
<1>2. Anchors \cap Cont \subseteq S
  <2>1. ASSUME NEW c \in Anchors, c \in D PROVE FALSE
    <3>1. \/ ext[c] > 0
          \/ \E e \in named : slot[e] = c
          \/ \E i \in DOMAIN stack : stack[i].kind = "dtor" /\ stack[i].obj = c
      BY <2>1 DEF Anchors
    <3>2. ~(ext[c] > 0)
      BY <2>1
    <3>3. ~\E e \in named : slot[e] = c
      BY <2>1 DEF TypeOK
    <3> QED BY <2>1, <3>1, <3>2, <3>3
  <2> QED BY <2>1
<1>3. S \in SUBSET Cont
  OBVIOUS
<1>4. ASSUME NEW c \in Reachable PROVE c \in S
  BY <1>1, <1>2, <1>3 DEF Reachable, ReachableFrom
<1> QED BY <1>4

(* Nothing the script can reach is torn down, and no edge of anything it   *)
(* can reach is cut, however destructors rewire the heap between the       *)
(* decision that a cycle is dead and its reclamation.                      *)
THEOREM ReachableAlwaysKept ==
  ASSUME Maps = {} \/ HasDtor = {}
  PROVE  Spec => []ReachableIsKept
<1>1. GcInv => ReachableIsKept
  <2> SUFFICES ASSUME GcInv PROVE ReachableIsKept
    OBVIOUS
  <2>1. /\ TypeOK /\ Pinned(hold, stack, HeldByGc)
        /\ Framed(stack, status, slot, named, ext, hold, dtorCalled)
    BY DEF GcInv, HeapOK, Sound
  <2>2. ASSUME NEW i \in DOMAIN stack, stack[i].kind = "dtor", stack[i].obj \in Cont
        PROVE  hold[stack[i].obj] > 1
    <3>1. Destructing(stack, stack[i].obj)
      BY <2>2 DEF Destructing
    <3> QED BY <2>1, <2>2, <3>1, PinsNat DEF TypeOK
  <2>3. ASSUME NEW c \in Cont, Torn(c) PROVE c \notin Reachable
    <3>1. Unnamed(slot, ext, hold, c)
      BY <2>1, <2>3 DEF Torn, Framed, FrameOK
    <3>2. {c} \cap Reachable = {}
      <4>1. \A d \in {c} : ext[d] = 0
        BY <3>1 DEF Unnamed
      <4>2. \A e \in Slots : slot[e] \notin {c}
        BY <3>1 DEF Unnamed
      <4>3. \A i \in DOMAIN stack : stack[i].kind = "dtor" => stack[i].obj \notin {c}
        BY <2>2, <3>1 DEF Unnamed
      <4> QED BY <2>1, <4>1, <4>2, <4>3, OutsideReach
    <3> QED BY <3>2
  <2>4. ASSUME pc = "cut", verified PROVE dead \cap Reachable = {}
    <3>1. \A c \in dead : ext[c] = 0 /\ hold[c] = 1 /\ \A e \in Slots : slot[e] = c => e \in InnerEdges
      BY <2>4 DEF GcInv, RoundOK, CutOK
    <3>2. dead \in SUBSET Cont
      BY <2>1 DEF TypeOK
    <3>3. \A e \in Slots : slot[e] \in dead => e[1] \in dead /\ e \notin named
      BY <3>1 DEF InnerEdges, Visible, SlotOwned
    <3>4. \A i \in DOMAIN stack : stack[i].kind = "dtor" => stack[i].obj \notin dead
      BY <2>2, <3>1, <3>2
    <3> QED BY <2>1, <3>1, <3>2, <3>3, <3>4, OutsideReach
  <2> QED BY <2>3, <2>4 DEF ReachableIsKept
<1> QED BY <1>1, RoundInvariant, PTL
---------------------------------------------------------------------------
(* The end of a round                                                      *)

(* Nothing but the hold of the collection is left of c.                    *)
Alone(c) == ext[c] = 0 /\ hold[c] = 1 /\ \A e \in Slots : slot[e] # c

(* So it is with every member still ahead, if no WeakReference names it.   *)
GiveOK == pc = "give" /\ verified => \A c \in todo \ Weak : Alone(c)

(* A drop of another container leaves the pins of this one.                *)
LEMMA OtherPins ==
  ASSUME NEW c \in Cont, NEW d, d # c, NEW cnt, NEW pins \in [Cont -> Int], NEW below,
         NEW walks, UnrefGiven(d, cnt, pins, below, walks)
  PROVE  hold'[c] = pins[c]
<1>1. hold' = pins \/ hold' = [pins EXCEPT ![d] = @ + 2]
  BY DEF UnrefGiven, Release, PossibleRoot
<1> QED BY <1>1

(* The script has no way to such a container.                              *)
LEMMA AloneUnheld ==
  ASSUME TypeOK, HeapOK, AtFetchPoint, NEW c \in Cont, Alone(c)
  PROVE  ~Held(c)
<1>1. ext[c] = 0
  BY DEF Alone
<1>2. ASSUME Top.obj = c PROVE FALSE
  <2>1. stack # << >>
    BY <1>2, TopFrame, NilIsNoContainer
  <2>2. stack[1] = Top /\ Top.kind = "dtor" /\ 1 \in DOMAIN stack
    BY <2>1, TopFrame, Pop DEF AtFetchPoint, TypeOK
  <2>3. Destructing(stack, c)
    BY <1>2, <2>2 DEF Destructing
  <2>4. hold[c] > 1
    BY <2>3, PinsNat DEF HeapOK, Sound, TypeOK
  <2> QED BY <2>4 DEF Alone
<1> QED BY <1>1, <1>2 DEF Held

(* A slot of another container that loses its value.                       *)
LEMMA ReleaseSpares ==
  ASSUME TypeOK, NEW c \in Cont, Alone(c), NEW e \in Slots, NEW below, ReleaseSlot(e, below)
  PROVE  Alone(c)'
<1>1. slot[e] # c /\ slot' = [slot EXCEPT ![e] = Nil]
  BY DEF Alone, ReleaseSlot
<1>2. \A s \in Slots : slot'[s] # c
  BY <1>1, NilIsNoContainer DEF Alone, TypeOK
<1>3. ext'[c] = 0
  BY <1>1 DEF ReleaseSlot, Alone, TypeOK
<1>4. hold'[c] = 1
  <2>1. CASE slot[e] # Nil /\ e \notin named
    <3>1. UnrefGiven(slot[e], rc, hold, below, walked)
      BY <2>1 DEF ReleaseSlot, Unref
    <3>2. hold'[c] = hold[c]
      BY <1>1, <3>1, OtherPins DEF TypeOK
    <3> QED BY <3>2 DEF Alone
  <2>2. CASE ~(slot[e] # Nil /\ e \notin named)
    BY <2>2 DEF ReleaseSlot, Alone
  <2> QED BY <2>1, <2>2
<1> QED BY <1>2, <1>3, <1>4 DEF Alone

(* The script leaves it alone.                                             *)
LEMMA PhpSpares ==
  ASSUME TypeOK, WalkHeld, HeapOK, NEW c \in Cont \ Weak, Alone(c), PhpStep
  PROVE  Alone(c)'
<1>1. /\ ext[c] = 0 /\ hold[c] = 1 /\ \A e \in Slots : slot[e] # c
      /\ status[c] # "free" /\ ext \in [Cont -> Nat] /\ hold \in [Cont -> Int]
      /\ slot \in [Slots -> Cont \cup {Nil}] /\ c # Nil
  BY NamedAlive, NilIsNoContainer DEF Alone, TypeOK
<1>2. AtFetchPoint => ~Held(c)
  BY AloneUnheld
<1>3. c \notin walked
  BY <1>1 DEF WalkHeld
<1>4. ASSUME NEW d \in Cont, New(d) PROVE Alone(c)'
  BY <1>1, <1>4 DEF New, Alone
<1>5. ASSUME NEW d \in Cont, Copy(d) \/ WeakGet(d) PROVE Alone(c)'
  <2>1. d # c /\ TakeRef(d)
    BY <1>1, <1>2, <1>5 DEF Copy, WeakGet, PhpRuns
  <2> QED BY <1>1, <2>1 DEF TakeRef, Alone
<1>6. ASSUME NEW d \in Cont, Drop(d) \/ CloseWalk(d) PROVE Alone(c)'
  <2>1. d # c
    BY <1>1, <1>3, <1>6 DEF Drop, CloseWalk
  <2>2. /\ ext' = [ext EXCEPT ![d] = @ - 1] /\ slot' = slot
        /\ \E walks : UnrefGiven(d, rc, hold, stack, walks)
    BY <1>6 DEF Drop, CloseWalk, Unref
  <2>3. hold'[c] = hold[c]
    BY <1>1, <2>1, <2>2, OtherPins
  <2> QED BY <1>1, <2>1, <2>2, <2>3 DEF Alone
<1>7. ASSUME NEW d \in Cont, OpenWalk(d) PROVE Alone(c)'
  <2>1. d # c
    BY <1>2, <1>7 DEF OpenWalk, PhpRuns
  <2> QED BY <1>1, <1>7, <2>1 DEF OpenWalk, Alone
<1>8. ASSUME NEW e \in Slots, NEW d \in Cont \cup {Nil}, Store(e, d) PROVE Alone(c)'
  <2>1. d # c
    BY <1>1, <1>2, <1>8 DEF Store, PhpRuns
  <2>2. slot' = [slot EXCEPT ![e] = d] /\ ext' = ext
    BY <1>8 DEF Store
  <2>3. slot[e] = Nil => hold' = hold
    BY <1>8 DEF Store
  <2>4. slot[e] # Nil => \E cnt : UnrefGiven(slot[e], cnt, hold, stack, walked)
    BY <1>8 DEF Store, Unref
  <2>5. hold'[c] = hold[c]
    BY <1>1, <2>3, <2>4, OtherPins
  <2>6. \A s \in Slots : slot'[s] # c
    BY <1>1, <2>1, <2>2
  <2> QED BY <1>1, <2>2, <2>5, <2>6 DEF Alone
<1>9. ASSUME NEW e \in Slots, Unset(e) PROVE Alone(c)'
  BY <1>9, ReleaseSpares DEF Unset
<1>10. ASSUME NEW e \in Slots, Alias(e) \/ Unalias(e) PROVE Alone(c)'
  BY <1>1, <1>10 DEF Alias, Unalias, Alone
<1>11. ASSUME NEW d \in Maps, NEW n \in Maps, Separate(d, n) PROVE Alone(c)'
  <2>1. /\ slot' = [e \in Slots |-> IF e[1] = n THEN slot[<<d, e[2]>>] ELSE slot[e]]
        /\ ext' = [ext EXCEPT ![d] = @ - 1, ![n] = 1] /\ hold' = hold
        /\ ext[d] > 0 /\ status[n] = "free"
    BY <1>11, <1>1 DEF Separate, Cont
  <2>2. c # n /\ c # d
    BY <1>1, <2>1
  <2>3. \A s \in Slots : slot'[s] # c
    <3> SUFFICES ASSUME NEW s \in Slots PROVE slot'[s] # c
      OBVIOUS
    <3>1. <<d, s[2]>> \in Slots
      BY DEF Slots, Cont
    <3> QED BY <1>1, <2>1, <3>1
  <2> QED BY <1>1, <2>1, <2>2, <2>3 DEF Alone
<1>12. ASSUME Toggle PROVE Alone(c)'
  BY <1>1, <1>12 DEF Toggle, heap, Alone
<1> QED BY <1>4, <1>5, <1>6, <1>7, <1>8, <1>9, <1>10, <1>11, <1>12 DEF PhpStep

(* So do the releases.                                                     *)
LEMMA TearSpares ==
  ASSUME TypeOK, HeapOK, NEW c \in Cont, Alone(c), TearStep \/ DtorReturn
  PROVE  Alone(c)'
<1>1. ASSUME NEW k \in Keys, TearSlot(k) PROVE Alone(c)'
  <2>1. <<Top.obj, k>> \in Slots
    <3>1. stack # << >>
      BY <1>1, TopFrame DEF TearSlot, Tearing
    <3>2. Top.obj \in Cont
      BY <1>1, <3>1, TopFrame DEF TearSlot, Tearing
    <3> QED BY <3>2 DEF Slots
  <2> QED BY <1>1, <2>1, ReleaseSpares DEF TearSlot
<1>2. CASE TearEnd
  BY <1>2 DEF TearEnd, Alone
<1>3. CASE DtorReturn
  <2>1. Top.obj # c
    BY <1>3, AloneUnheld DEF DtorReturn, AtFetchPoint, Held
  <2>2. hold' = [hold EXCEPT ![Top.obj] = @ - 2] /\ UNCHANGED <<slot, ext>>
    BY <1>3 DEF DtorReturn
  <2>3. hold'[c] = hold[c]
    BY <2>1, <2>2 DEF TypeOK
  <2> QED BY <2>2, <2>3 DEF Alone
<1> QED BY <1>1, <1>2, <1>3 DEF TearStep

(* And the collection, until the turn of the container comes.              *)
LEMMA CollectorSpares ==
  ASSUME TypeOK, GiveOK, CutOK, CollectorStep
  PROVE  GiveOK'
<1> SUFFICES ASSUME pc' = "give", verified', NEW c \in todo' \ Weak
             PROVE  Alone(c)'
  BY DEF GiveOK
<1>1. \/ CutDone
      \/ \E d \in Cont : GiveBack(d)
  BY DEF CollectorStep, MarkRoot, MarkVisit, ScanRoot, ScanVisit, BlackVisit, WhiteRoot,
         WhiteVisit, Restore, Destruct, Cut, MarkDone, ScanDone, WhiteDone, EndRound,
         RestoreDone, Verify, CollectDone, round
<1>2. CASE CutDone
  <2>1. /\ pc = "cut" /\ verified /\ InnerEdges = {} /\ todo' = dead
        /\ UNCHANGED <<ext, hold, slot>>
    BY <1>2 DEF CutDone, StayInHeap, heap
  <2>2. ext[c] = 0 /\ hold[c] = 1 /\ \A e \in Slots : slot[e] = c => e \in InnerEdges
    BY <2>1 DEF CutOK
  <2> QED BY <2>1, <2>2 DEF Alone
<1>3. ASSUME NEW d \in Cont, GiveBack(d) PROVE Alone(c)'
  <2>1. /\ pc = "give" /\ verified /\ todo' = todo \ {d} /\ UNCHANGED <<ext, slot>>
        /\ UnrefGiven(d, rc, [hold EXCEPT ![d] = @ - 1], stack, walked)
    BY <1>3 DEF GiveBack
  <2>2. c # d /\ Alone(c) /\ c \in Cont
    BY <2>1 DEF GiveOK, TypeOK
  <2>3. [hold EXCEPT ![d] = @ - 1] \in [Cont -> Int] /\ [hold EXCEPT ![d] = @ - 1][c] = hold[c]
    BY <2>2 DEF TypeOK
  <2>4. hold'[c] = hold[c]
    BY <2>1, <2>2, <2>3, OtherPins
  <2> QED BY <2>1, <2>2, <2>4 DEF Alone
<1> QED BY <1>1, <1>2, <1>3

LEMMA GiveStep == GcInv /\ GiveOK /\ [Next]_vars => GiveOK'
<1> SUFFICES ASSUME GcInv, GiveOK, [Next]_vars PROVE GiveOK'
  OBVIOUS
<1>1. TypeOK /\ WalkHeld /\ Control /\ HeapOK /\ RoundOK /\ DebtOK /\ CutOK
  BY DEF GcInv, RoundOK
<1>2. CASE PhpStep \/ TearStep \/ DtorReturn
  <2>1. UNCHANGED round
    BY <1>1, <1>2, QuietControl
  <2>2. pc' = pc /\ verified' = verified /\ todo' = todo
    BY <2>1 DEF round
  <2>3. ASSUME NEW c \in todo \ Weak, Alone(c) PROVE Alone(c)'
    <3>1. c \in Cont \ Weak
      BY <1>1 DEF TypeOK
    <3> QED BY <1>1, <1>2, <2>3, <3>1, PhpSpares, TearSpares
  <2> QED BY <2>2, <2>3 DEF GiveOK
<1>3. CASE Collect
  <2>1. pc' # "give" \/ UNCHANGED <<heap, round>>
    BY <1>3 DEF Collect
  <2> QED BY <2>1 DEF GiveOK, Alone, heap, round
<1>4. CASE CollectorStep
  BY <1>1, <1>4, CollectorSpares
<1>5. CASE UNCHANGED vars
  BY <1>5 DEF vars, heap, round, GiveOK, Alone
<1> QED BY <1>2, <1>3, <1>4, <1>5 DEF Next

(* The hold is the last reference to a member: giving it back releases it. *)
LEMMA LastHold ==
  ASSUME GcInv, GiveOK, pc = "give", verified, NEW c \in todo \ Weak, GiveBack(c)
  PROVE  status'[c] # "live"
<1>1. /\ TypeOK /\ c \in Cont /\ Exact(slot, ext, rc, hold, debt)
  BY DEF GcInv, HeapOK, Sound, TypeOK
<1>2. ext[c] = 0 /\ hold[c] = 1 /\ \A e \in Slots : slot[e] # c
  BY DEF GiveOK, Alone
<1>3. Naming(slot, debt, c) = {}
  BY <1>2 DEF Naming
<1>4. rc[c] = 1
  BY <1>1, <1>2, <1>3, FS_EmptySet DEF Exact
<1> DEFINE less == [rc EXCEPT ![c] = @ - 1]
<1>5. less[c] < 1
  BY <1>1, <1>4 DEF TypeOK
<1>6. \E pins : Release(c, less, pins, stack)
  BY <1>5 DEF GiveBack, UnrefGiven
<1> HIDE DEF less
<1>7. \/ status' = status /\ status[c] = "dying"
      \/ status' = [status EXCEPT ![c] = "dying"]
  BY <1>6 DEF Release, Marked
<1> QED BY <1>1, <1>7 DEF TypeOK

(* A collection that has proved its cycles dead reclaims every member: the *)
(* destructors that run while the members are given back cannot bring one  *)
(* to life again, except through a WeakReference.                          *)
THEOREM MembersDie ==
  ASSUME Maps = {} \/ HasDtor = {}
  PROVE  Spec => CutMembersDie
<1>1. Init => GiveOK
  BY DEF Init, GiveOK
<1>2. GcInv /\ GiveOK /\ [Next]_vars
        => [pc = "give" /\ verified => \A c \in (todo \ todo') \ Weak : status'[c] # "live"]_vars
  <2> SUFFICES ASSUME GcInv, GiveOK, Next, pc = "give", verified,
                      NEW c \in (todo \ todo') \ Weak
               PROVE  status'[c] # "live"
    OBVIOUS
  <2>1. ASSUME PhpStep \/ TearStep \/ DtorReturn PROVE FALSE
    <3>1. UNCHANGED round
      BY <2>1, QuietControl DEF GcInv, RoundOK
    <3> QED BY <3>1 DEF round
  <2>2. Collect \/ CollectorStep
    BY <2>1 DEF Next
  <2>3. ~Collect
    BY DEF Collect, round, Running
  <2>4. \/ \E d \in Cont : GiveBack(d)
        \/ CollectDone
    BY <2>2, <2>3
       DEF CollectorStep, MarkRoot, MarkVisit, ScanRoot, ScanVisit, BlackVisit, WhiteRoot,
           WhiteVisit, Restore, Destruct, Cut, MarkDone, ScanDone, WhiteDone,
           RestoreDone, Verify, CutDone
  <2>5. ~CollectDone
    BY DEF CollectDone
  <2>6. GiveBack(c)
    BY <2>4, <2>5 DEF GiveBack
  <2> QED BY <2>6, LastHold
<1> QED BY <1>1, <1>2, GiveStep, RoundInvariant, PTL DEF Spec, CutMembersDie
============================================================================
