------------------------ MODULE CycleGcGarbageProofs ------------------------
(***************************************************************************)
(* Trial deletion needs no root set: the theorem that no garbage is lost,  *)
(* for every number of containers and slots.                               *)
(***************************************************************************)
EXTENDS CycleGcProofs

(* The script declares no destructor, takes no reference to a slot and     *)
(* leaves the collector on.  With any of the three garbage can be lost: a  *)
(* destructor drops while a collection runs, or resurrects what it is      *)
(* released with; the pin of a property's slot hides the edge for good;    *)
(* a drop with the collector off buffers nothing.                          *)
Ordinary == HasDtor = {} /\ Aliasable = {} /\ ~MayDisable

---------------------------------------------------------------------------
(* The invariant                                                           *)

Occupied == {c \in Cont : status[c] # "free"}
Dying == {c \in Cont : status[c] = "dying"}
Owned == {c \in Cont : ext[c] > 0}

(* Following the slots sl, all of L is found from A.                       *)
Shut(sl, S) == \A e \in Slots : e[1] \in S /\ sl[e] # Nil => sl[e] \in S
Found(sl, A, L) == \A S \in SUBSET Cont : A \subseteq S /\ Shut(sl, S) => L \subseteq S

(* Where the search for a container may begin, between collections.        *)
Ends == Owned \cup roots \cup Dying

(* What a collection has yet to decide about or has decided against.       *)
OnTrial == IF pc = "give" THEN dead ELSE {c \in Cont : color[c] \in {"grey", "white", "dead"}}

(* Nothing has another name than its slot, and releases are under way for  *)
(* just what is dying.                                                     *)
Unaliased == named = {} /\ bound = {} /\ enabled
Releasing == \A c \in Dying : ~NotTorn(stack, c)

(* The collection is the outermost of the C stack, and alone on it until   *)
(* it gives the members back.                                              *)
Outermost == Running =>
  /\ stack # << >> /\ \A i \in DOMAIN stack : stack[i].kind = "gc" <=> i = Len(stack)
  /\ pc # "give" => Len(stack) = 1

(* Before the counts are compared everything is found from the script, the *)
(* buffer and the releases; from then on what is not on trial is found     *)
(* from the script alone.                                                  *)
BufferFinds == pc \in {"idle", "mark"} => Found(slot, Ends, Occupied)
RootsMarked == pc = "mark" => \A r \in roots \ todo : color[r] = "grey" \/ ~Collectable(r)
ScriptFinds == pc \notin {"idle", "mark"} => Found(slot, Owned, Occupied \ OnTrial)

(* What is on trial has no count left; what is dead is named by the dead   *)
(* only, then by nothing, and dies as its hold is given back.              *)
Countless == pc \in {"scan", "white"} => \A c \in Painted("white") \cup Painted("dead") : rc[c] = 0
Closing == pc \in {"restore", "dtors", "cut", "give"} =>
             \A c \in dead : ext[c] = 0 /\ \A e \in Slots : slot[e] = c => e[1] \in dead
Proved == pc = "cut" => verified
Given == pc = "give" => \A c \in dead : /\ \A e \in Slots : slot[e] # c
                                        /\ c \notin todo => status[c] # "live"

GarbageInv ==
  /\ Unaliased /\ Releasing /\ Outermost
  /\ BufferFinds /\ RootsMarked /\ ScriptFinds
  /\ Countless /\ Closing /\ Proved /\ Given

---------------------------------------------------------------------------
(* Searches                                                                *)

(* A search that begins at A2 and follows sl2 finds what one from A that   *)
(* follows sl did, if it comes by all of A and sl.                         *)
LEMMA FoundStill ==
  ASSUME NEW sl, NEW A, NEW L, NEW sl2, NEW A2, NEW L2, Found(sl, A, L),
         \A S \in SUBSET Cont : A2 \subseteq S /\ Shut(sl2, S) => A \subseteq S /\ Shut(sl, S),
         L2 \subseteq L \cup A2
  PROVE  Found(sl2, A2, L2)
BY DEF Found

(* What nothing outside names, and the script does not hold, is not found. *)
LEMMA Outside ==
  ASSUME TypeOK, NEW D \in SUBSET Cont, NEW L, Found(slot, Owned, L),
         \A c \in D : ext[c] = 0, \A e \in Slots : slot[e] \in D => e[1] \in D
  PROVE  L \cap D = {}
<1> DEFINE S == Cont \ D
<1>1. S \in SUBSET Cont /\ Owned \subseteq S
  BY DEF Owned
<1>2. Shut(slot, S)
  BY DEF Shut, TypeOK
<1>3. L \subseteq S
  BY <1>1, <1>2 DEF Found
<1> QED BY <1>3

(* The slots of a free block are empty, and no slot names it.              *)
LEMMA FreeBlock ==
  ASSUME HeapOK, NEW c \in Cont, status[c] = "free"
  PROVE  /\ ext[c] = 0 /\ hold[c] = 0 /\ c \notin roots
         /\ \A e \in Slots : slot[e] # c /\ (e[1] = c => slot[e] = Nil)
<1>1. Unnamed(slot, ext, hold, c) /\ c \notin roots /\ \A k \in Keys : Gone(slot, named, <<c, k>>)
  BY DEF HeapOK, Sound, Freed
<1>2. ASSUME NEW e \in Slots, e[1] = c PROVE slot[e] = Nil
  <2>1. e[2] \in Keys /\ e = <<c, e[2]>>
    BY <1>2 DEF Slots
  <2> QED BY <1>1, <2>1 DEF Gone
<1> QED BY <1>1, <1>2 DEF Unnamed

(* A push, and a release that goes on, keep the releases on the C stack.   *)
LEMMA PushTorn ==
  ASSUME NEW s \in Seq(Frames), NEW f \in Frames, NEW c
  PROVE  /\ ~NotTorn(s, c) => ~NotTorn(<<f>> \o s, c)
         /\ f.kind = "tear" /\ f.obj = c => ~NotTorn(<<f>> \o s, c)
<1> DEFINE t == <<f>> \o s
<1>1. /\ DOMAIN t = 1 .. (Len(s) + 1) /\ DOMAIN s = 1 .. Len(s) /\ Len(s) \in Nat
      /\ \A i \in 1 .. (Len(s) + 1) : t[i] = IF i = 1 THEN f ELSE s[i - 1]
  BY Push
<1> HIDE DEF t
<1>2. 1 \in DOMAIN t /\ t[1] = f
  BY <1>1
<1>3. ASSUME NEW i \in DOMAIN s PROVE i + 1 \in DOMAIN t /\ t[i + 1] = s[i]
  BY <1>1
<1>4. /\ ~NotTorn(s, c) => ~NotTorn(t, c)
      /\ f.kind = "tear" /\ f.obj = c => ~NotTorn(t, c)
  BY <1>2, <1>3 DEF NotTorn
<1> QED BY <1>4 DEF t

---------------------------------------------------------------------------
(* A drop                                                                  *)

(* What a reference is dropped of is buffered, or being iterated, or       *)
(* begins to die; and nothing else changes.                                *)
Dropped(c, below, walks) ==
  /\ \/ status' = status /\ stack' = below
     \/ status' = [status EXCEPT ![c] = "dying"] /\ stack' = <<Frame("tear", c, Keys)>> \o below
  /\ roots' = roots \/ roots' = roots \cup {c}
  /\ c \in roots' \/ c \in walks \/ status'[c] = "dying"

LEMMA UnrefDrops ==
  ASSUME TypeOK, Ordinary, enabled, pc = "idle", NEW c \in Cont, status[c] = "live",
         NEW cnt, NEW pins, NEW below, NEW walks, UnrefGiven(c, cnt, pins, below, walks)
  PROVE  Dropped(c, below, walks)
<1>1. CASE [cnt EXCEPT ![c] = @ - 1][c] < 1
  <2>1. Release(c, [cnt EXCEPT ![c] = @ - 1], pins, below) /\ roots' = roots
    BY <1>1 DEF UnrefGiven
  <2>2. status' = [status EXCEPT ![c] = "dying"] /\ stack' = <<Frame("tear", c, Keys)>> \o below
    BY <2>1 DEF Release, Marked, Ordinary
  <2> QED BY <2>1, <2>2 DEF Dropped, TypeOK
<1>2. CASE ~([cnt EXCEPT ![c] = @ - 1][c] < 1)
  <2>1. PossibleRoot(c, walks) /\ status' = status /\ stack' = below
    BY <1>2 DEF UnrefGiven
  <2>2. ~CollectableGiven(c, walks) => c \in walks
    BY DEF CollectableGiven
  <2> QED BY <2>1, <2>2 DEF PossibleRoot, Running, Dropped
<1> QED BY <1>1, <1>2

(* The release of it is on the C stack.                                    *)
LEMMA DropReleasing ==
  ASSUME TypeOK, NEW c \in Cont, NEW below \in Seq(Frames), NEW walks, Dropped(c, below, walks),
         \A d \in Dying : ~NotTorn(below, d)
  PROVE  Releasing'
<1> DEFINE f == Frame("tear", c, Keys)
<1>1. f \in Frames /\ f.kind = "tear" /\ f.obj = c
  BY DEF Frame, Frames
<1> HIDE DEF f
<1>2. CASE status' = status /\ stack' = below
  BY <1>2 DEF Releasing, Dying
<1>3. CASE status' = [status EXCEPT ![c] = "dying"] /\ stack' = <<f>> \o below
  <2> SUFFICES ASSUME NEW d \in Dying' PROVE ~NotTorn(stack', d)
    BY DEF Releasing
  <2>1. d \in Cont /\ (d = c \/ d \in Dying)
    BY <1>3 DEF Dying, TypeOK
  <2> QED BY <1>1, <1>3, <2>1, PushTorn
<1> QED BY <1>2, <1>3 DEF Dropped, f

(* What the script holds or a slot names is alive.                         *)
LEMMA NamedLive ==
  ASSUME TypeOK, HeapOK, Releasing, NEW c \in Cont,
         ext[c] > 0 \/ hold[c] > 0 \/ \E e \in Slots : slot[e] = c
  PROVE  status[c] = "live"
<1>1. status[c] # "free" /\ NotTorn(stack, c)
  BY NamedAlive
<1>2. status[c] # "dying"
  BY <1>1 DEF Releasing, Dying
<1> QED BY <1>1, <1>2 DEF TypeOK

(* Everything is still found after a drop of c: from c.                    *)
LEMMA DropFinds ==
  ASSUME TypeOK, Found(slot, Ends, Occupied), NEW c \in Cont, status[c] = "live",
         NEW below, NEW walks, Dropped(c, below, walks),
         \A d \in Cont : ext[d] > 0 /\ d # c => ext'[d] > 0,
         c \in walks => ext'[c] > 0,
         \A e \in Slots : slot'[e] = slot[e] \/ slot[e] \in {c, Nil}
  PROVE  Found(slot', Ends', Occupied')
<1>1. c \in Ends'
  BY DEF Dropped, Ends, Owned, Dying
<1>2. Ends \subseteq Ends'
  <2> SUFFICES ASSUME NEW d \in Ends, d # c PROVE d \in Ends'
    BY <1>1
  <2>1. d \in Owned => d \in Owned'
    BY DEF Owned
  <2>2. d \in roots => d \in roots'
    BY DEF Dropped
  <2>3. d \in Dying => d \in Dying'
    BY DEF Dropped, Dying, TypeOK
  <2> QED BY <2>1, <2>2, <2>3 DEF Ends
<1>3. Occupied' \subseteq Occupied
  BY DEF Dropped, Occupied, TypeOK
<1>4. ASSUME NEW S \in SUBSET Cont, Ends' \subseteq S, Shut(slot', S)
      PROVE  Ends \subseteq S /\ Shut(slot, S)
  BY <1>1, <1>2, <1>4 DEF Shut
<1> QED BY <1>2, <1>3, <1>4, FoundStill

(* And where the search may begin at more, and follow more.                *)
LEMMA MoreFinds ==
  ASSUME Found(slot, Ends, Occupied), Ends \subseteq Ends', Occupied' \subseteq Occupied \cup Ends',
         \A e \in Slots : slot'[e] = slot[e] \/ slot[e] = Nil
  PROVE  Found(slot', Ends', Occupied')
<1>1. ASSUME NEW S \in SUBSET Cont, Ends' \subseteq S, Shut(slot', S)
      PROVE  Ends \subseteq S /\ Shut(slot, S)
  BY <1>1 DEF Shut
<1> QED BY <1>1, FoundStill

---------------------------------------------------------------------------
(* The script                                                              *)

(* Without destructors PHP runs between collections and releases only.     *)
LEMMA FetchPoint ==
  ASSUME TypeOK, Control, Ordinary, Outermost, AtFetchPoint
  PROVE  pc = "idle" /\ stack = << >>
<1>1. ASSUME stack # << >> PROVE FALSE
  <2>1. Top = stack[1] /\ Top.kind = "dtor" /\ 1 \in DOMAIN stack
    BY <1>1, TopFrame, Pop DEF AtFetchPoint, TypeOK
  <2> QED BY <2>1 DEF Control, Ordinary
<1> QED BY <1>1 DEF Outermost, Running

(* What a step of the script or of a release keeps between collections.    *)
Kept == Unaliased' /\ Releasing' /\ Found(slot', Ends', Occupied')

LEMMA SlotKept ==
  ASSUME TypeOK, WalkHeld, HeapOK, Ordinary, Unaliased, Releasing, pc = "idle",
         Found(slot, Ends, Occupied), NEW e \in Slots,
         NEW below \in Seq(Frames), \A d \in Dying : ~NotTorn(below, d),
         ReleaseSlot(e, below), enabled' = enabled
  PROVE  Kept
<1>1. /\ slot' = [slot EXCEPT ![e] = Nil] /\ named' = {} /\ bound' = {} /\ enabled'
      /\ slot \in [Slots -> Cont \cup {Nil}] /\ \A d \in Cont : ext[d] \in Nat
  BY DEF ReleaseSlot, Unaliased, TypeOK
<1>2. CASE slot[e] = Nil
  <2>1. ext' = ext /\ status' = status /\ roots' = roots /\ stack' = below /\ slot' = slot
    BY <1>1, <1>2 DEF ReleaseSlot
  <2>2. Ends' = Ends /\ Occupied' = Occupied
    BY <2>1 DEF Ends, Owned, Dying, Occupied
  <2>3. Releasing'
    BY <2>1 DEF Releasing, Dying
  <2> QED BY <1>1, <2>1, <2>2, <2>3 DEF Kept, Unaliased
<1>3. CASE slot[e] # Nil
  <2>1. PICK c \in Cont : c = slot[e]
    BY <1>1, <1>3
  <2>2. UnrefGiven(c, rc, hold, below, walked) /\ ext' = ext
    BY <1>3, <2>1 DEF ReleaseSlot, Unref, Unaliased
  <2>3. status[c] = "live"
    BY <2>1, NamedLive
  <2>4. Dropped(c, below, walked)
    BY <2>2, <2>3, UnrefDrops DEF Unaliased
  <2>5. Releasing'
    BY <2>4, DropReleasing
  <2>6. Found(slot', Ends', Occupied')
    <3>1. c \in walked => ext'[c] > 0
      BY <2>2 DEF WalkHeld
    <3>2. \A s \in Slots : slot'[s] = slot[s] \/ slot[s] \in {c, Nil}
      BY <1>1, <2>1
    <3>3. \A d \in Cont : ext[d] > 0 /\ d # c => ext'[d] > 0
      BY <2>2
    <3> QED BY <2>3, <2>4, <3>1, <3>2, <3>3, DropFinds
  <2> QED BY <1>1, <2>5, <2>6 DEF Kept, Unaliased
<1> QED BY <1>2, <1>3

(* PH7_HashmapCowSeparate lowers a count in place and buffers nothing.     *)
(* The map it lowers still has a name: one the copy leads to, or one that  *)
(* is found without it.                                                    *)
LEMMA SeparateKept ==
  ASSUME TypeOK, WalkHeld, HeapOK, Unaliased, Releasing, debt = {},
         HeldByGc = {}, NoDtors(stack),
         Found(slot, Ends, Occupied), NEW c \in Maps, NEW n \in Maps, Separate(c, n)
  PROVE  Kept
<1>1. /\ status[n] = "free" /\ ext[c] > 0 /\ c # n /\ c \in Cont /\ n \in Cont
      /\ status' = [status EXCEPT ![n] = "live"]
      /\ slot' = [e \in Slots |-> IF e[1] = n THEN slot[<<c, e[2]>>] ELSE slot[e]]
      /\ ext' = [ext EXCEPT ![c] = @ - 1, ![n] = 1]
      /\ UNCHANGED <<named, bound, roots, enabled, stack>>
  <2>1. ext[n] = 0 /\ \A d \in Cont : ext[d] \in Nat
    BY FreeBlock DEF Separate, Cont, TypeOK
  <2>2. ext[c] > 0
    BY <2>1 DEF Separate, Cont
  <2> QED BY <2>1, <2>2 DEF Separate, Cont, buffer
<1>2. slot \in [Slots -> Cont \cup {Nil}] /\ ext \in [Cont -> Nat] /\ \A k \in Keys : <<c, k>> \in Slots
  BY <1>1 DEF TypeOK, Slots
<1>3. \A e \in Slots : slot[e] # n /\ (e[1] = n => slot[e] = Nil)
  BY <1>1, FreeBlock
<1>4. ext'[c] > 0 \/ \E e \in Slots : slot[e] = c
  <2>1. rc[c] > 1
    <3>1. rc[c] \in Int
      BY <1>1 DEF TypeOK
    <3> QED BY <3>1 DEF Separate, SoleOwner
  <2>2. rc[c] = ext[c] + hold[c] + Cardinality(Naming(slot, {}, c)) /\ hold[c] = 0
    <3>1. ~Destructing(stack, c)
      BY DEF Destructing, NoDtors
    <3> QED BY <1>1, <3>1 DEF HeapOK, Sound, Exact, Pinned
  <2>3. ext[c] > 1 \/ Cardinality(Naming(slot, {}, c)) # 0
    BY <1>1, <1>2, <2>1, <2>2
  <2>4. CASE ext[c] > 1
    BY <1>1, <1>2, <2>4
  <2>5. CASE Cardinality(Naming(slot, {}, c)) # 0
    <3>1. Naming(slot, {}, c) # {}
      BY <2>5, NamingFinite
    <3> QED BY <3>1 DEF Naming
  <2> QED BY <2>3, <2>4, <2>5
<1>5. Releasing' /\ Unaliased'
  <2>1. Dying' = Dying
    BY <1>1 DEF Dying, TypeOK
  <2> QED BY <1>1, <2>1 DEF Releasing, Unaliased
<1>6. n \in Ends' /\ \A d \in Ends : d # c => d \in Ends'
  <2>1. n \in Owned'
    BY <1>1, <1>2 DEF Owned
  <2>2. \A d \in Owned : d # c => d \in Owned'
    <3>1. n \notin Owned
      BY <1>1, FreeBlock DEF Owned
    <3> QED BY <1>1, <1>2, <3>1 DEF Owned
  <2>3. Dying' = Dying /\ roots' = roots
    BY <1>1 DEF Dying, TypeOK
  <2> QED BY <2>1, <2>2, <2>3 DEF Ends
<1>7. Occupied' \subseteq Occupied \cup {n}
  BY <1>1 DEF Occupied, TypeOK
<1>8. ASSUME NEW S \in SUBSET Cont, Ends' \subseteq S, Shut(slot', S)
      PROVE  Occupied' \subseteq S
  <2>1. n \in S
    BY <1>6, <1>8
  <2>2. ASSUME NEW e \in Slots, e[1] = c, slot[e] # Nil PROVE slot[e] \in S
    <3>1. e[2] \in Keys /\ <<n, e[2]>> \in Slots /\ e = <<c, e[2]>>
      BY <1>1, <2>2 DEF Slots
    <3>2. slot'[<<n, e[2]>>] = slot[e]
      BY <1>1, <3>1
    <3> QED BY <1>8, <2>1, <2>2, <3>1, <3>2 DEF Shut
  <2>3. ASSUME NEW e \in Slots, e[1] \in S, slot[e] # Nil PROVE slot[e] \in S
    <3>1. e[1] # n
      BY <1>3, <2>3
    <3>2. slot'[e] = slot[e]
      BY <1>1, <3>1
    <3> QED BY <1>8, <2>3, <3>2 DEF Shut
  <2>4. Occupied \subseteq S \cup {c}
    <3>1. Shut(slot, S \cup {c})
      BY <2>2, <2>3 DEF Shut
    <3>2. Ends \subseteq S \cup {c}
      BY <1>6, <1>8
    <3>3. S \cup {c} \in SUBSET Cont
      BY <1>1
    <3> QED BY <3>1, <3>2, <3>3 DEF Found
  <2>5. c \in S
    <3>1. CASE ext'[c] > 0
      BY <1>1, <1>8, <3>1 DEF Ends, Owned
    <3>2. ASSUME NEW e \in Slots, slot[e] = c PROVE c \in S
      <4>1. slot[e] # Nil
        BY <1>1, <3>2, NilIsNoContainer
      <4>2. e[1] \in Occupied
        <5>1. e[1] \in Cont
          BY DEF Slots
        <5> QED BY <4>1, <5>1, FreeBlock DEF Occupied
      <4>3. e[1] \in S \/ e[1] = c
        BY <2>4, <4>2
      <4> QED BY <2>2, <2>3, <3>2, <4>1, <4>3
    <3> QED BY <1>4, <3>1, <3>2
  <2> QED BY <1>7, <2>1, <2>4, <2>5
<1> QED BY <1>5, <1>8 DEF Kept, Found

(* The script loses nothing.                                               *)
LEMMA PhpKept ==
  ASSUME GcInv, GarbageInv, Ordinary, PhpStep
  PROVE  pc = "idle" /\ Kept
<1>1. /\ TypeOK /\ WalkHeld /\ HeapOK /\ Control /\ DebtOK /\ Unaliased /\ Releasing /\ Outermost
      /\ BufferFinds
  BY DEF GcInv, RoundOK, GarbageInv
<1>2. PhpRuns
  BY DEF PhpStep, New, Copy, WeakGet, Drop, OpenWalk, CloseWalk, Store, Unset, Alias, Unalias,
         Separate, Toggle
<1>3. pc = "idle" /\ stack = << >>
  BY <1>1, <1>2, FetchPoint DEF PhpRuns
<1>4. Found(slot, Ends, Occupied)
  BY <1>1, <1>3 DEF BufferFinds
<1>5. /\ stack \in Seq(Frames) /\ \A d \in Dying : ~NotTorn(stack, d)
      /\ \A d \in Cont : ext[d] \in Nat /\ ext \in [Cont -> Nat]
      /\ \A e \in Slots : slot[e] \in Cont \cup {Nil} /\ slot \in [Slots -> Cont \cup {Nil}]
  BY <1>1 DEF TypeOK, Releasing
<1>6. ASSUME NEW c \in Cont, New(c) PROVE Kept
  <2>1. /\ status' = [status EXCEPT ![c] = "live"] /\ ext' = [ext EXCEPT ![c] = 1]
        /\ UNCHANGED <<slot, named, bound, roots, enabled, stack>> /\ status[c] = "free"
    BY <1>6 DEF New, buffer
  <2>2. Dying' = Dying /\ Owned' = Owned \cup {c} /\ Occupied' = Occupied \cup {c}
    BY <1>1, <1>5, <2>1 DEF Dying, Owned, Occupied, TypeOK
  <2>3. Found(slot', Ends', Occupied')
    BY <1>4, <2>1, <2>2, MoreFinds DEF Ends
  <2> QED BY <1>1, <2>1, <2>2, <2>3 DEF Kept, Unaliased, Releasing
<1>7. ASSUME NEW c \in Cont, Copy(c) \/ WeakGet(c) \/ OpenWalk(c) PROVE Kept
  <2>1. /\ ext' = [ext EXCEPT ![c] = @ + 1]
        /\ UNCHANGED <<status, slot, named, bound, roots, enabled, stack>>
    BY <1>7 DEF Copy, WeakGet, TakeRef, OpenWalk, buffer
  <2>2. Dying' = Dying /\ Owned' = Owned \cup {c} /\ Occupied' = Occupied
    BY <1>5, <2>1 DEF Dying, Owned, Occupied
  <2>3. Found(slot', Ends', Occupied')
    BY <1>4, <2>1, <2>2, MoreFinds DEF Ends
  <2> QED BY <1>1, <2>1, <2>2, <2>3 DEF Kept, Unaliased, Releasing
<1>8. ASSUME NEW c \in Cont, Drop(c) \/ CloseWalk(c) PROVE Kept
  <2>1. PICK walks : /\ UnrefGiven(c, rc, hold, stack, walks)
                     /\ c \in walks => ext[c] > 1
                     /\ ext[c] > 0
    <3>1. CASE Drop(c)
      BY <1>5, <3>1 DEF Drop, Unref
    <3>2. CASE CloseWalk(c)
      BY <1>1, <3>2 DEF CloseWalk, WalkHeld
    <3> QED BY <1>8, <3>1, <3>2
  <2>2. ext' = [ext EXCEPT ![c] = @ - 1] /\ UNCHANGED <<slot, named, bound, enabled>>
    BY <1>8 DEF Drop, CloseWalk
  <2>3. status[c] = "live"
    BY <1>1, <2>1, NamedLive
  <2>4. Dropped(c, stack, walks)
    BY <1>1, <1>3, <2>1, <2>3, UnrefDrops DEF Unaliased
  <2>5. Releasing'
    BY <1>1, <1>5, <2>4, DropReleasing
  <2>6. c \in walks => ext'[c] > 0
    BY <1>5, <2>1, <2>2
  <2>7. \A d \in Cont : ext[d] > 0 /\ d # c => ext'[d] > 0
    BY <1>5, <2>2
  <2>8. Found(slot', Ends', Occupied')
    BY <1>1, <1>4, <2>2, <2>3, <2>4, <2>6, <2>7, DropFinds
  <2> QED BY <1>1, <2>2, <2>5, <2>8 DEF Kept, Unaliased
<1>9. ASSUME NEW e \in Slots, NEW d \in Cont \cup {Nil}, Store(e, d) PROVE Kept
  <2>1. slot' = [slot EXCEPT ![e] = d] /\ UNCHANGED <<named, bound, ext, enabled>>
    BY <1>9 DEF Store
  <2>2. CASE slot[e] = Nil
    <3>1. UNCHANGED <<status, stack, roots>>
      BY <1>9, <2>2 DEF Store
    <3>2. Ends' = Ends /\ Occupied' = Occupied /\ Dying' = Dying
      BY <2>1, <3>1 DEF Ends, Owned, Dying, Occupied
    <3>3. \A s \in Slots : slot'[s] = slot[s] \/ slot[s] = Nil
      BY <1>5, <2>1, <2>2
    <3>4. Found(slot', Ends', Occupied')
      BY <1>4, <3>2, <3>3, MoreFinds
    <3> QED BY <1>1, <2>1, <3>1, <3>2, <3>4 DEF Kept, Unaliased, Releasing
  <2>3. CASE slot[e] # Nil
    <3>1. PICK c \in Cont : c = slot[e]
      BY <1>5, <2>3
    <3>2. PICK cnt : UnrefGiven(c, cnt, hold, stack, walked)
      BY <1>9, <2>3, <3>1 DEF Store, Unref
    <3>3. status[c] = "live"
      BY <1>1, <3>1, NamedLive
    <3>4. Dropped(c, stack, walked)
      BY <1>1, <1>3, <3>2, <3>3, UnrefDrops DEF Unaliased
    <3>5. Releasing'
      BY <1>1, <1>5, <3>4, DropReleasing
    <3>6. c \in walked => ext'[c] > 0
      BY <1>1, <2>1 DEF WalkHeld
    <3>7. \A s \in Slots : slot'[s] = slot[s] \/ slot[s] \in {c, Nil}
      BY <1>5, <2>1, <3>1
    <3>8. Found(slot', Ends', Occupied')
      BY <1>1, <1>4, <2>1, <3>3, <3>4, <3>6, <3>7, DropFinds
    <3> QED BY <1>1, <2>1, <3>5, <3>8 DEF Kept, Unaliased
  <2> QED BY <2>2, <2>3
<1>10. ASSUME NEW e \in Slots, Unset(e) PROVE Kept
  BY <1>1, <1>3, <1>4, <1>5, <1>10, SlotKept DEF Unset
<1>11. ASSUME NEW e \in Slots, Alias(e) \/ Unalias(e) PROVE FALSE
  BY <1>1, <1>11 DEF Alias, Unalias, Ordinary, Unaliased
<1>12. ASSUME NEW c \in Maps, NEW n \in Maps, Separate(c, n) PROVE Kept
  <2>1. debt = {}
    BY <1>1, <1>3, TopFrame, Quiet
  <2>2. HeldByGc = {} /\ NoDtors(stack)
    BY <1>3 DEF HeldByGc, NoDtors
  <2> QED BY <1>1, <1>4, <1>12, <2>1, <2>2, SeparateKept
<1>13. ~Toggle
  BY DEF Toggle, Ordinary
<1> QED BY <1>3, <1>6, <1>7, <1>8, <1>9, <1>10, <1>11, <1>12, <1>13 DEF PhpStep

---------------------------------------------------------------------------
(* The releases                                                            *)

(* A release that goes on is still on the C stack, where it was.           *)
LEMMA GoesOn ==
  ASSUME TypeOK, Tearing, NEW k \in Keys
  PROVE  LET below == <<[Top EXCEPT !.left = @ \ {k}]>> \o Tail(stack)
         IN /\ below \in Seq(Frames) /\ Len(below) = Len(stack) /\ DOMAIN below = DOMAIN stack
            /\ \A i \in DOMAIN stack : below[i].kind = stack[i].kind
            /\ \A d : ~NotTorn(stack, d) => ~NotTorn(below, d)
<1> DEFINE g == [Top EXCEPT !.left = @ \ {k}]
           below == <<g>> \o Tail(stack)
<1>1. stack # << >> /\ Top.kind = "tear"
  BY TopFrame DEF Tearing
<1>2. Top \in Frames /\ Top = stack[1] /\ Top.obj \in Cont /\ Top.left \subseteq Keys
  BY <1>1, TopFrame
<1>3. g \in Frames /\ g.kind = "tear" /\ g.obj = Top.obj
  BY <1>1, <1>2 DEF Frames, Frame
<1> HIDE DEF g
<1>4. /\ below \in Seq(Frames) /\ DOMAIN below = DOMAIN stack /\ below[1] = g
      /\ \A i \in DOMAIN stack : i # 1 => below[i] = stack[i]
  BY <1>1, <1>3, Replace DEF TypeOK
<1>5. Len(below) = Len(stack)
  <2>1. Tail(stack) \in Seq(Frames) /\ Len(Tail(stack)) = Len(stack) - 1 /\ Len(stack) \in Nat \ {0}
    BY <1>1, Pop DEF TypeOK
  <2>2. Len(below) = Len(Tail(stack)) + 1
    BY <1>3, <2>1, Push
  <2> QED BY <2>1, <2>2
<1> HIDE DEF below
<1>6. \A i \in DOMAIN stack : below[i].kind = stack[i].kind /\ (stack[i].kind = "tear" => below[i].obj = stack[i].obj)
  BY <1>1, <1>2, <1>3, <1>4
<1>7. \A d : ~NotTorn(stack, d) => ~NotTorn(below, d)
  BY <1>4, <1>6 DEF NotTorn
<1> QED BY <1>4, <1>5, <1>6, <1>7 DEF below, g

(* What a release is tearing down is marked, empty where it has been, and  *)
(* named by nothing.                                                       *)
LEMMA TornTop ==
  ASSUME TypeOK, HeapOK, Tearing
  PROVE  /\ stack # << >> /\ Top.obj \in Cont /\ status[Top.obj] = "dying"
         /\ ext[Top.obj] = 0 /\ \A e \in Slots : slot[e] # Top.obj
         /\ \A k \in Keys \ Top.left : slot[<<Top.obj, k>>] = Nil
<1>1. stack # << >> /\ Top = stack[1] /\ 1 \in DOMAIN stack /\ Top.obj \in Cont
  BY TopFrame, Pop DEF Tearing, TypeOK
<1>2. FrameOK(stack[1], status, slot, named, ext, hold, dtorCalled)
  BY <1>1 DEF HeapOK, Sound, Framed
<1> QED BY <1>1, <1>2 DEF FrameOK, Tearing, Unnamed, Gone

(* Its memory goes back to the pool: the other releases go on.             *)
LEMMA PopReleasing ==
  ASSUME TypeOK, Tearing, Releasing, stack' = Tail(stack),
         status' = [status EXCEPT ![Top.obj] = "free"]
  PROVE  Releasing'
<1>1. /\ stack # << >> /\ Top = stack[1] /\ Top.obj \in Cont /\ stack \in Seq(Frames)
  BY TopFrame DEF Tearing, TypeOK
<1>2. /\ DOMAIN stack = 1 .. Len(stack) /\ Len(stack) \in Nat \ {0}
      /\ DOMAIN Tail(stack) = 1 .. (Len(stack) - 1)
      /\ \A i \in 1 .. (Len(stack) - 1) : Tail(stack)[i] = stack[i + 1]
  BY <1>1, Pop
<1> SUFFICES ASSUME NEW d \in Dying' PROVE ~NotTorn(Tail(stack), d)
  BY DEF Releasing
<1>3. d # Top.obj /\ d \in Dying
  BY <1>1 DEF Dying, TypeOK
<1>4. PICK i \in DOMAIN stack : stack[i].kind = "tear" /\ stack[i].obj = d
  BY <1>3 DEF Releasing, NotTorn
<1>5. i # 1
  BY <1>1, <1>3, <1>4
<1>6. i - 1 \in DOMAIN Tail(stack) /\ Tail(stack)[i - 1] = stack[i]
  BY <1>2, <1>4, <1>5
<1> QED BY <1>4, <1>6 DEF NotTorn

(* Between collections a release loses nothing.                            *)
LEMMA TearKept ==
  ASSUME GcInv, GarbageInv, Ordinary, pc = "idle", TearStep
  PROVE  Kept
<1>1. /\ TypeOK /\ WalkHeld /\ HeapOK /\ Unaliased /\ Releasing /\ Found(slot, Ends, Occupied)
  BY DEF GcInv, RoundOK, GarbageInv, BufferFinds
<1>2. ASSUME NEW k \in Keys, TearSlot(k) PROVE Kept
  <2> DEFINE below == <<[Top EXCEPT !.left = @ \ {k}]>> \o Tail(stack)
  <2>1. Tearing /\ ReleaseSlot(<<Top.obj, k>>, below) /\ enabled' = enabled
    BY <1>2 DEF TearSlot
  <2>2. <<Top.obj, k>> \in Slots
    BY <1>1, <2>1, TornTop DEF Slots
  <2>3. below \in Seq(Frames) /\ \A d \in Dying : ~NotTorn(below, d)
    BY <1>1, <2>1, GoesOn DEF Releasing
  <2> HIDE DEF below
  <2> QED BY <1>1, <2>1, <2>2, <2>3, SlotKept
<1>3. CASE TearEnd
  <2>1. PICK c \in Cont : c = Top.obj
    BY <1>1, <1>3, TornTop DEF TearEnd
  <2>2. /\ Tearing /\ Top.left = {} /\ status' = [status EXCEPT ![c] = "free"]
        /\ roots' = roots \ {c} /\ stack' = Tail(stack)
        /\ UNCHANGED <<slot, named, bound, ext, enabled>>
    BY <1>3, <2>1 DEF TearEnd, Forget
  <2>3. /\ status[c] = "dying" /\ ext[c] = 0 /\ \A e \in Slots : slot[e] # c
        /\ \A k \in Keys : slot[<<c, k>>] = Nil
    BY <1>1, <2>1, <2>2, TornTop
  <2>4. \A e \in Slots : e[1] = c => slot[e] = Nil
    BY <2>3 DEF Slots
  <2>5. Releasing'
    BY <1>1, <2>1, <2>2, PopReleasing
  <2>6. Ends \subseteq Ends' \cup {c}
    BY <2>2 DEF Ends, Owned, Dying
  <2>7. Occupied' = Occupied \ {c}
    BY <1>1, <2>2 DEF Occupied, TypeOK
  <2>8. ASSUME NEW S \in SUBSET Cont, Ends' \subseteq S, Shut(slot', S)
        PROVE  Occupied' \subseteq S
    <3>1. Shut(slot, S \cup {c})
      BY <2>2, <2>4, <2>8 DEF Shut
    <3>2. Occupied \subseteq S \cup {c}
      <4>1. S \cup {c} \in SUBSET Cont /\ Ends \subseteq S \cup {c}
        BY <2>6, <2>8
      <4> QED BY <1>1, <3>1, <4>1 DEF Found
    <3> QED BY <2>7, <3>2
  <2> QED BY <1>1, <2>2, <2>5, <2>8 DEF Kept, Unaliased, Found
<1> QED BY <1>2, <1>3 DEF TearStep

(* While a collection gives its members back, they are all that dies; what *)
(* they let go has another name and stays.                                 *)
LEMMA TearGiven ==
  ASSUME GcInv, GarbageInv, pc = "give", TearStep
  PROVE  /\ Unaliased' /\ Releasing' /\ Outermost'
         /\ Found(slot', Owned', Occupied' \ dead) /\ \A c \in dead : ext'[c] = 0
         /\ \A c \in dead : (\A e \in Slots : slot'[e] # c) /\ (c \notin todo => status'[c] # "live")
<1>1. /\ TypeOK /\ HeapOK /\ Control /\ DebtOK /\ Unaliased /\ Releasing /\ Outermost /\ Running
      /\ Found(slot, Owned, Occupied \ dead) /\ dead \in SUBSET Cont
  BY DEF GcInv, RoundOK, GarbageInv, ScriptFinds, OnTrial, TypeOK, Running
<1>2. \A c \in dead : /\ ext[c] = 0 /\ \A e \in Slots : slot[e] # c
                      /\ c \notin todo => status[c] # "live"
  BY DEF GarbageInv, Closing, Given
<1>3. Tearing
  BY DEF TearStep, TearSlot, TearEnd
<1>4. PICK c \in Cont : c = Top.obj
  BY <1>1, <1>3, TornTop
<1>5. /\ stack # << >> /\ status[c] = "dying" /\ ext[c] = 0 /\ \A e \in Slots : slot[e] # c
  BY <1>1, <1>3, <1>4, TornTop
<1>6. c \in dead
  <2>1. (Occupied \ dead) \cap (dead \cup {c}) = {}
    <3>1. dead \cup {c} \in SUBSET Cont
      BY <1>1
    <3> QED BY <1>1, <1>2, <1>5, <3>1, Outside
  <2>2. c \in Occupied
    BY <1>5 DEF Occupied
  <2> QED BY <2>1, <2>2
<1>7. ASSUME NEW k \in Keys, TearSlot(k)
      PROVE  /\ UNCHANGED <<ext, status, roots, enabled>> /\ Unaliased'
             /\ slot' = [slot EXCEPT ![<<c, k>>] = Nil]
             /\ stack' = <<[Top EXCEPT !.left = @ \ {k}]>> \o Tail(stack)
  <2> DEFINE below == <<[Top EXCEPT !.left = @ \ {k}]>> \o Tail(stack)
  <2>1. PICK e \in Slots : e = <<c, k>>
    BY DEF Slots
  <2>2. ReleaseSlot(e, below) /\ enabled' = enabled
    BY <1>4, <1>7, <2>1 DEF TearSlot
  <2> HIDE DEF below
  <2>3. slot' = [slot EXCEPT ![e] = Nil] /\ Unaliased'
    BY <1>1, <2>2 DEF ReleaseSlot, Unaliased
  <2>4. CASE slot[e] = Nil
    BY <2>1, <2>2, <2>3, <2>4 DEF ReleaseSlot, below
  <2>5. CASE slot[e] # Nil
    <3>1. PICK d \in Cont : d = slot[e]
      BY <1>1, <2>5 DEF TypeOK
    <3>2. UnrefGiven(d, rc, hold, below, walked) /\ ext' = ext
      BY <1>1, <2>2, <2>5, <3>1 DEF ReleaseSlot, Unref, Unaliased
    <3>3. debt = {}
      BY <1>1, <1>3, Quiet DEF Tearing
    <3>4. ext[d] > 0 \/ \E s \in Slots : slot[s] = d /\ s # e
      <4>1. SUFFICES ASSUME ~(ext[d] > 0), \A s \in Slots : slot[s] = d => s = e PROVE FALSE
        OBVIOUS
      <4>2. ext[d] = 0
        BY <1>1, <4>1 DEF TypeOK
      <4>3. (Occupied \ dead) \cap (dead \cup {d}) = {}
        <5>1. dead \cup {d} \in SUBSET Cont
          BY <1>1
        <5>2. \A s \in Slots : slot[s] \in dead \cup {d} => s[1] \in dead \cup {d}
          BY <1>2, <1>6, <2>1, <4>1
        <5>3. \A x \in dead \cup {d} : ext[x] = 0
          BY <1>2, <4>2
        <5> QED BY <1>1, <5>1, <5>2, <5>3, Outside
      <4>4. d \in Occupied /\ d \notin dead
        BY <1>1, <1>2, <3>1, NamedLive DEF Occupied
      <4> QED BY <4>3, <4>4
    <3>5. rc[d] > 1
      <4>1. rc[d] = ext[d] + hold[d] + Cardinality(Naming(slot, {}, d))
        BY <1>1, <3>3 DEF HeapOK, Sound, Exact
      <4>2. hold[d] \in Nat /\ ext[d] \in Nat /\ Cardinality(Naming(slot, {}, d)) \in Nat
        BY <1>1, PinsNat, NamingFinite DEF HeapOK, Sound, TypeOK
      <4>3. e \in Naming(slot, {}, d) /\ Naming(slot, {}, d) \in SUBSET Slots
        BY <3>1 DEF Naming
      <4>4. Cardinality(Naming(slot, {}, d) \ {e}) = Cardinality(Naming(slot, {}, d)) - 1
        <5>1. Cardinality({e}) = 1 /\ {e} \in SUBSET Naming(slot, {}, d)
          BY <4>3, FS_Singleton
        <5> QED BY <4>3, <5>1, LessEdges
      <4>5. CASE ext[d] > 0
        <5>1. Cardinality(Naming(slot, {}, d)) # 0
          BY <4>3, NamingFinite
        <5> QED BY <4>1, <4>2, <4>5, <5>1
      <4>6. ASSUME NEW x \in Slots, slot[x] = d, x # e PROVE rc[d] > 1
        <5>1. x \in Naming(slot, {}, d) \ {e}
          BY <4>6 DEF Naming
        <5>2. /\ Naming(slot, {}, d) \ {e} \in SUBSET Slots
              /\ Cardinality(Naming(slot, {}, d) \ {e}) # 0
          BY <4>3, <5>1, NoEdges
        <5>3. Cardinality(Naming(slot, {}, d) \ {e}) \in Nat
          BY <5>2, SlotsFinite
        <5> QED BY <4>1, <4>2, <4>4, <5>2, <5>3
      <4> QED BY <3>4, <4>5, <4>6
    <3>6. ~([rc EXCEPT ![d] = @ - 1][d] < 1)
      BY <1>1, <3>5 DEF TypeOK
    <3>7. status' = status /\ stack' = below /\ roots' = roots
      BY <1>1, <3>2, <3>6 DEF UnrefGiven, PossibleRoot
    <3> QED BY <2>1, <2>2, <2>3, <3>2, <3>7 DEF below
  <2> QED BY <2>4, <2>5
<1>8. ASSUME NEW k \in Keys, TearSlot(k)
      PROVE  /\ Unaliased' /\ Releasing' /\ Outermost'
             /\ Found(slot', Owned', Occupied' \ dead) /\ \A d \in dead : ext'[d] = 0
             /\ \A d \in dead : (\A e \in Slots : slot'[e] # d) /\ (d \notin todo => status'[d] # "live")
  <2>1. /\ UNCHANGED <<ext, status, roots, enabled>> /\ Unaliased'
        /\ slot' = [slot EXCEPT ![<<c, k>>] = Nil]
        /\ stack' = <<[Top EXCEPT !.left = @ \ {k}]>> \o Tail(stack)
    BY <1>7, <1>8
  <2>2. /\ stack' \in Seq(Frames) /\ Len(stack') = Len(stack) /\ DOMAIN stack' = DOMAIN stack
        /\ \A i \in DOMAIN stack : stack'[i].kind = stack[i].kind
        /\ \A d : ~NotTorn(stack, d) => ~NotTorn(stack', d)
    BY <1>1, <1>3, <2>1, GoesOn
  <2>3. Releasing'
    BY <1>1, <2>1, <2>2 DEF Releasing, Dying
  <2>4. pc' = pc
    BY <1>8 DEF TearSlot, round
  <2>5. stack' # << >>
    <3>1. 1 \in DOMAIN stack
      BY <1>1, <1>5, Pop DEF TypeOK
    <3>2. \A i \in DOMAIN << >> : FALSE
      OBVIOUS
    <3> QED BY <2>2, <3>1, <3>2
  <2>6. Outermost'
    BY <1>1, <2>2, <2>4, <2>5 DEF Outermost, Running
  <2>7. ASSUME NEW s \in Slots
        PROVE  slot'[s] = slot[s] \/ (s[1] = c /\ slot'[s] = Nil)
    BY <1>1, <2>1 DEF TypeOK
  <2>8. \A d \in dead, s \in Slots : slot'[s] # d
    BY <1>1, <1>2, <2>7, NilIsNoContainer
  <2>9. Found(slot', Owned', Occupied' \ dead)
    <3> SUFFICES ASSUME NEW S \in SUBSET Cont, Owned' \subseteq S, Shut(slot', S)
                 PROVE  Occupied' \ dead \subseteq S
      BY DEF Found
    <3>1. Owned \subseteq S \ dead
      BY <1>2, <2>1 DEF Owned
    <3>2. Shut(slot, S \ dead)
      BY <1>2, <1>6, <2>7 DEF Shut
    <3>3. Occupied \ dead \subseteq S \ dead
      <4>1. S \ dead \in SUBSET Cont
        OBVIOUS
      <4> QED BY <1>1, <3>1, <3>2, <4>1 DEF Found
    <3> QED BY <2>1, <3>3 DEF Occupied
  <2> QED BY <1>2, <2>1, <2>3, <2>6, <2>8, <2>9
<1>9. CASE TearEnd
  <2>1. /\ status' = [status EXCEPT ![c] = "free"] /\ stack' = Tail(stack)
        /\ UNCHANGED <<slot, named, bound, ext, enabled, pc>>
    BY <1>4, <1>9 DEF TearEnd, round
  <2>2. Releasing'
    BY <1>1, <1>3, <1>4, <2>1, PopReleasing
  <2>3. Outermost'
    <3>1. /\ DOMAIN stack = 1 .. Len(stack) /\ Len(stack) \in Nat \ {0} /\ Top = stack[1]
          /\ DOMAIN Tail(stack) = 1 .. (Len(stack) - 1) /\ Len(Tail(stack)) = Len(stack) - 1
          /\ \A i \in 1 .. (Len(stack) - 1) : Tail(stack)[i] = stack[i + 1]
      BY <1>1, <1>5, Pop, TopFrame DEF TypeOK
    <3>2. Len(stack) # 1
      BY <1>1, <1>3, <3>1 DEF Outermost, Tearing
    <3>3. Tail(stack) # << >>
      <4>1. 1 \in DOMAIN Tail(stack)
        BY <3>1, <3>2
      <4>2. \A i \in DOMAIN << >> : FALSE
        OBVIOUS
      <4> QED BY <4>1, <4>2
    <3>4. \A i \in DOMAIN Tail(stack) : Tail(stack)[i].kind = "gc" <=> i = Len(Tail(stack))
      <4> TAKE i \in DOMAIN Tail(stack)
      <4>1. i + 1 \in DOMAIN stack /\ Tail(stack)[i] = stack[i + 1]
        BY <3>1
      <4>2. stack[i + 1].kind = "gc" <=> i + 1 = Len(stack)
        BY <1>1, <4>1 DEF Outermost
      <4> QED BY <3>1, <4>1, <4>2
    <3> QED BY <2>1, <3>3, <3>4 DEF Outermost
  <2>4. Owned' = Owned /\ Occupied' \subseteq Occupied
    BY <1>1, <2>1 DEF Owned, Occupied, TypeOK
  <2>5. Found(slot', Owned', Occupied' \ dead)
    BY <1>1, <2>1, <2>4 DEF Found
  <2>6. \A d \in dead : d \notin todo => status'[d] # "live"
    BY <1>1, <1>2, <2>1 DEF TypeOK
  <2> QED BY <1>1, <1>2, <2>1, <2>2, <2>3, <2>5, <2>6 DEF Unaliased
<1> QED BY <1>8, <1>9 DEF TearStep

(* The script and the releases lose nothing.                               *)
LEMMA QuietGarbage ==
  ASSUME GcInv, GarbageInv, Ordinary, PhpStep \/ TearStep \/ DtorReturn
  PROVE  GarbageInv'
<1>1. TypeOK /\ WalkHeld /\ HeapOK /\ Control /\ DebtOK /\ RoundOK /\ Outermost
  BY DEF GcInv, RoundOK, GarbageInv
<1>2. UNCHANGED <<pc, todo, dead, verified>> /\ Top.kind # "gc"
  BY <1>1, QuietControl DEF round
<1>3. ASSUME pc = "idle", Kept PROVE GarbageInv'
  BY <1>2, <1>3
     DEF Kept, GarbageInv, Outermost, Running, BufferFinds, RootsMarked, ScriptFinds, Countless,
         Closing, Proved, Given
<1>4. CASE PhpStep
  BY <1>3, <1>4, PhpKept
<1>5. ASSUME DtorReturn PROVE FALSE
  <2>1. AtFetchPoint
    BY <1>5 DEF DtorReturn, AtFetchPoint
  <2>2. stack = << >>
    BY <1>1, <2>1, FetchPoint
  <2> QED BY <1>1, <1>5, <2>2, TopFrame DEF DtorReturn
<1>6. CASE TearStep
  <2>1. pc \in {"idle", "dtors", "give"}
    BY <1>1, <1>2, Quiet
  <2>2. pc # "dtors"
    <3>1. SUFFICES ASSUME pc = "dtors" PROVE FALSE
      OBVIOUS
    <3>2. stack # << >> /\ Len(stack) = 1 /\ \A i \in DOMAIN stack : stack[i].kind = "gc" <=> i = Len(stack)
      BY <1>1, <3>1 DEF Outermost, Running
    <3>3. Top = stack[1] /\ 1 \in DOMAIN stack
      BY <1>1, <3>2, TopFrame, Pop DEF TypeOK
    <3> QED BY <1>2, <3>2, <3>3
  <2>3. CASE pc = "idle"
    BY <1>3, <1>6, <2>3, TearKept
  <2>4. CASE pc = "give"
    <3>1. /\ Unaliased' /\ Releasing' /\ Outermost'
          /\ Found(slot', Owned', Occupied' \ dead) /\ \A c \in dead : ext'[c] = 0
          /\ \A c \in dead : (\A e \in Slots : slot'[e] # c) /\ (c \notin todo => status'[c] # "live")
      BY <1>6, <2>4, TearGiven
    <3>2. OnTrial' = dead
      BY <1>2, <2>4 DEF OnTrial
    <3>3. ScriptFinds' /\ Closing' /\ Given'
      BY <1>2, <2>4, <3>1, <3>2 DEF ScriptFinds, Closing, Given
    <3> QED BY <1>2, <2>4, <3>1, <3>3
            DEF GarbageInv, BufferFinds, RootsMarked, Countless, Proved
  <2> QED BY <2>1, <2>2, <2>3, <2>4
<1> QED BY <1>4, <1>5, <1>6

---------------------------------------------------------------------------
(* The collection                                                          *)

(* Between two steps of it nothing else is on the C stack and nothing is   *)
(* dying.                                                                  *)
LEMMA AloneOnStack ==
  ASSUME TypeOK, Outermost, Releasing, Collecting, Running
  PROVE  Len(stack) = 1 /\ stack # << >> /\ Dying = {} /\ Tail(stack) = << >>
<1>1. stack # << >>
  BY DEF Outermost
<1>2. /\ DOMAIN stack = 1 .. Len(stack) /\ Len(stack) \in Nat \ {0} /\ Top = stack[1]
      /\ Len(Tail(stack)) = Len(stack) - 1 /\ Tail(stack) \in Seq(Frames)
  BY <1>1, TopFrame, Pop DEF TypeOK
<1>3. Len(stack) = 1
  BY <1>2 DEF Outermost, Collecting
<1>4. \A c : NotTorn(stack, c)
  BY <1>2, <1>3 DEF NotTorn, Collecting
<1>5. Dying = {}
  BY <1>4 DEF Releasing
<1>6. Tail(stack) = << >>
  <2>1. Len(Tail(stack)) = 0 /\ Tail(stack) \in Seq(Frames)
    BY <1>2, <1>3
  <2> QED BY <2>1, EmptySeq
<1> QED BY <1>1, <1>3, <1>5, <1>6

(* What stays of the invariant in a pass that leaves the heap alone.       *)
LEMMA PassKept ==
  ASSUME TypeOK, GarbageInv, Collecting, Running, Running', StayInHeap
  PROVE  /\ Unaliased' /\ Releasing' /\ Outermost' /\ Owned' = Owned /\ Occupied' = Occupied
         /\ slot' = slot /\ ext' = ext /\ status' = status /\ roots' = roots /\ Ends' = Ends
<1>1. /\ UNCHANGED <<status, slot, named, bound, ext, hold, walked, roots, enabled, stack>>
  BY DEF StayInHeap, heap, buffer
<1>2. Unaliased /\ Releasing /\ Outermost
  BY DEF GarbageInv
<1>3. Dying' = Dying /\ Owned' = Owned /\ Occupied' = Occupied
  BY <1>1 DEF Dying, Owned, Occupied
<1>4. Unaliased' /\ Releasing'
  BY <1>1, <1>2, <1>3 DEF Unaliased, Releasing
<1>5. Outermost'
  <2>1. Len(stack) = 1
    BY <1>2, AloneOnStack
  <2> QED BY <1>1, <1>2, <2>1 DEF Outermost
<1>6. Ends' = Ends
  BY <1>1, <1>3 DEF Ends
<1> QED BY <1>1, <1>3, <1>4, <1>5, <1>6

(* A collection begins; or a wanted one is put off.                        *)
LEMMA CollectGarbage ==
  ASSUME GcInv, GarbageInv, Ordinary, Collect
  PROVE  GarbageInv'
<1>1. TypeOK /\ WalkHeld /\ HeapOK /\ Control /\ DebtOK /\ RoundOK /\ Outermost /\ Unaliased /\ Releasing
      /\ BufferFinds
  BY DEF GcInv, RoundOK, GarbageInv
<1>2. pc = "idle" /\ stack = << >>
  BY <1>1, FetchPoint DEF Collect
<1>3. UNCHANGED <<status, slot, named, bound, ext, roots, enabled>>
  BY DEF Collect, heap
<1>4. Ends' = Ends /\ Occupied' = Occupied /\ Dying' = Dying
  BY <1>3 DEF Ends, Owned, Dying, Occupied
<1>5. Unaliased' /\ Found(slot', Ends', Occupied')
  BY <1>1, <1>2, <1>3, <1>4 DEF Unaliased, BufferFinds
<1>6. Dying = {}
  <2>1. \A i \in DOMAIN << >> : FALSE
    OBVIOUS
  <2> QED BY <1>1, <1>2, <2>1 DEF Releasing, NotTorn
<1>7. CASE rows = 0
  <2>1. pc' = "idle"
    BY <1>2, <1>7 DEF Collect, round
  <2>2. Releasing' /\ Outermost'
    BY <1>4, <1>6, <2>1 DEF Releasing, Outermost, Running
  <2> QED BY <1>5, <2>1, <2>2
          DEF GarbageInv, BufferFinds, RootsMarked, ScriptFinds, Countless, Closing, Proved, Given
<1>8. CASE rows # 0
  <2>1. pc' = "mark" /\ todo' = roots /\ stack' = <<Frame("gc", Nil, {})>> \o stack
    BY <1>2, <1>8 DEF Collect, Running
  <2>2. Releasing'
    BY <1>4, <1>6 DEF Releasing
  <2>3. Outermost'
    <3>1. stack' = <<Frame("gc", Nil, {})>>
      BY <1>2, <2>1
    <3>2. Len(stack') = 1 /\ DOMAIN stack' = {1} /\ stack'[1].kind = "gc" /\ stack' # << >>
      BY <3>1 DEF Frame
    <3> QED BY <3>2 DEF Outermost
  <2>4. RootsMarked'
    BY <1>3, <2>1 DEF RootsMarked
  <2> QED BY <1>5, <2>1, <2>2, <2>3, <2>4
          DEF GarbageInv, BufferFinds, ScriptFinds, Countless, Closing, Proved, Given
<1> QED BY <1>7, <1>8

(* The first pass.                                                         *)
LEMMA MarkGarbage ==
  ASSUME GcInv, GarbageInv, NEW c \in Cont, MarkRoot(c) \/ MarkVisit(c)
  PROVE  GarbageInv'
<1>1. /\ Collecting /\ pc = "mark" /\ pc' = "mark" /\ StayInHeap /\ TypeOK
      /\ BufferFinds /\ RootsMarked
  BY DEF MarkRoot, MarkVisit, GcInv, GarbageInv
<1>2. /\ Unaliased' /\ Releasing' /\ Outermost' /\ Ends' = Ends /\ Occupied' = Occupied
      /\ slot' = slot /\ roots' = roots /\ status' = status
  BY <1>1, PassKept DEF Running
<1>3. BufferFinds'
  BY <1>1, <1>2 DEF BufferFinds
<1>4. \A r \in Cont : color[r] = "grey" => color'[r] = "grey"
  BY <1>1 DEF MarkRoot, MarkVisit, TypeOK
<1>5. \A r \in Cont : Collectable(r)' = Collectable(r)
  BY <1>1 DEF StayInHeap, heap, Collectable, CollectableGiven
<1>6. \A r \in todo \ todo' : color'[r] = "grey" \/ ~Collectable(r)
  BY <1>1 DEF MarkRoot, MarkVisit, TypeOK
<1>7. RootsMarked'
  <2> SUFFICES ASSUME NEW r \in roots \ todo' PROVE color'[r] = "grey" \/ ~Collectable(r)'
    BY <1>2 DEF RootsMarked
  <2>1. r \in Cont
    BY <1>1 DEF TypeOK
  <2>2. CASE r \in todo
    BY <1>5, <1>6, <2>1, <2>2
  <2>3. CASE r \notin todo
    BY <1>1, <1>4, <1>5, <2>1, <2>3 DEF RootsMarked
  <2> QED BY <2>2, <2>3
<1> QED BY <1>1, <1>2, <1>3, <1>7
        DEF GarbageInv, ScriptFinds, Countless, Closing, Proved, Given

(* It ends: whatever is not grey the script reaches without the grey, for  *)
(* the grey are closed but for what is being iterated.                     *)
LEMMA MarkDoneGarbage ==
  ASSUME GcInv, GarbageInv, MarkDone
  PROVE  GarbageInv'
<1>1. /\ Collecting /\ pc = "mark" /\ pc' = "scan" /\ todo = {} /\ work = {} /\ color' = color
      /\ StayInHeap /\ TypeOK /\ WalkHeld /\ HeapOK /\ RoundOK /\ Unaliased /\ Releasing /\ Outermost
      /\ Found(slot, Ends, Occupied) /\ RootsMarked
  BY DEF MarkDone, GcInv, GarbageInv, BufferFinds
<1>2. /\ Unaliased' /\ Releasing' /\ Outermost' /\ Owned' = Owned /\ Occupied' = Occupied
      /\ slot' = slot
  BY <1>1, PassKept DEF Running
<1>3. Dying = {}
  BY <1>1, AloneOnStack DEF Running
<1>4. \A r \in Cont : Collectable(r) \/ r \in Owned
  BY <1>1, <1>3 DEF Collectable, CollectableGiven, WalkHeld, Owned, Dying
<1>5. Ends \subseteq Owned \cup Painted("grey")
  BY <1>1, <1>3, <1>4 DEF Ends, RootsMarked, Painted, TypeOK
<1>6. \A c \in Painted("grey") : Children(c) \subseteq Painted("grey")
  BY <1>1 DEF RoundOK, MarkOK
<1>7. ASSUME NEW S \in SUBSET Cont, Owned \subseteq S, Shut(slot, S)
      PROVE  Occupied \ Painted("grey") \subseteq S
  <2> DEFINE T == S \cup Painted("grey")
  <2>1. T \in SUBSET Cont /\ Ends \subseteq T
    BY <1>5, <1>7 DEF Painted
  <2>2. ASSUME NEW e \in Slots, e[1] \in Painted("grey"), slot[e] # Nil PROVE slot[e] \in T
    <3>1. slot[e] \in Cont
      BY <1>1, <2>2 DEF TypeOK
    <3>2. CASE slot[e] \in Owned
      BY <1>7, <3>2
    <3>3. CASE Collectable(slot[e])
      <4>1. e \in Visible(e[1])
        BY <1>1, <2>2, <3>3 DEF Visible, SlotOwned, Unaliased, Slots
      <4>2. slot[e] \in Children(e[1])
        BY <4>1 DEF Children
      <4> QED BY <1>6, <2>2, <4>2
    <3> QED BY <1>4, <3>1, <3>2, <3>3
  <2>3. Shut(slot, T)
    BY <1>7, <2>2 DEF Shut
  <2>4. Occupied \subseteq T
    BY <1>1, <2>1, <2>3 DEF Found
  <2> QED BY <2>4
<1>8. \A c \in Cont : color[c] \notin {"white", "dead"}
  BY <1>1 DEF RoundOK, ColorsOK, Paints
<1>9. ScriptFinds'
  <2>1. OnTrial' = Painted("grey")
    BY <1>1, <1>8 DEF OnTrial, Painted
  <2> QED BY <1>1, <1>2, <1>7, <2>1 DEF ScriptFinds, Found
<1>10. Countless'
  BY <1>1, <1>8 DEF Countless, Painted
<1> QED BY <1>1, <1>2, <1>9, <1>10
        DEF GarbageInv, BufferFinds, RootsMarked, Closing, Proved, Given

(* The scan: what has a count left is reached by the script, for the names *)
(* that are not subtracted are its own and those of what it reaches.       *)
LEMMA ScanGarbage ==
  ASSUME GcInv, GarbageInv, NEW c \in Cont, ScanRoot(c) \/ ScanVisit(c)
  PROVE  GarbageInv'
<1>1. /\ Collecting /\ pc = "scan" /\ pc' = "scan" /\ StayInHeap /\ TypeOK /\ WalkHeld /\ HeapOK
      /\ RoundOK /\ Found(slot, Owned, Occupied \ OnTrial) /\ Countless /\ rc' = rc
      /\ Releasing /\ Outermost /\ Unaliased
  BY DEF ScanRoot, ScanVisit, GcInv, GarbageInv, ScriptFinds
<1>2. /\ Unaliased' /\ Releasing' /\ Outermost' /\ Owned' = Owned /\ Occupied' = Occupied
      /\ slot' = slot
  BY <1>1, PassKept DEF Running
<1>3. CASE color' = color
  BY <1>1, <1>2, <1>3
     DEF GarbageInv, BufferFinds, RootsMarked, ScriptFinds, OnTrial, Countless, Painted, Closing,
         Proved, Given
<1>4. ASSUME color' # color
      PROVE  /\ c \in work /\ color[c] = "grey"
             /\ \/ (rc[c] > 0 \/ ~Collectable(c)) /\ color' = [color EXCEPT ![c] = "black"]
                \/ ~(rc[c] > 0) /\ color' = [color EXCEPT ![c] = "white"]
  BY <1>4 DEF ScanRoot, ScanVisit
<1>5. rc[c] = ext[c] + hold[c] + Cardinality(Naming(slot, debt, c)) /\ hold[c] = 0
      /\ Cardinality(Naming(slot, debt, c)) \in Nat /\ ext[c] \in Nat
  <2>1. HeldByGc = {} /\ hold[c] = 0
    <3>1. \A i \in DOMAIN stack : stack[i].kind # "dtor"
      <4>1. Len(stack) = 1 /\ stack # << >>
        BY <1>1, AloneOnStack DEF Running
      <4> QED BY <1>1, <4>1, Pop, TopFrame DEF Outermost, Running, TypeOK
    <3>2. ~Destructing(stack, c)
      BY <3>1 DEF Destructing
    <3> QED BY <1>1, <3>2 DEF HeldByGc, HeapOK, Sound, Pinned
  <2> QED BY <1>1, <2>1, NamingFinite DEF HeapOK, Sound, Exact, TypeOK
<1>6. ASSUME color' # color, color' = [color EXCEPT ![c] = "white"], ~(rc[c] > 0) PROVE GarbageInv'
  <2>1. rc[c] = 0
    BY <1>5, <1>6
  <2>2. Countless'
    BY <1>1, <1>6, <2>1 DEF Countless, Painted, TypeOK
  <2>3. OnTrial' = OnTrial
    BY <1>1, <1>4, <1>6 DEF OnTrial, TypeOK
  <2> QED BY <1>1, <1>2, <2>2, <2>3
          DEF GarbageInv, BufferFinds, RootsMarked, ScriptFinds, Closing, Proved, Given
<1>7. ASSUME color' # color, color' = [color EXCEPT ![c] = "black"], rc[c] > 0 \/ ~Collectable(c)
      PROVE  GarbageInv'
  <2>1. Countless'
    BY <1>1, <1>7 DEF Countless, Painted, TypeOK
  <2>2. OnTrial' = OnTrial \ {c}
    BY <1>1, <1>4, <1>7 DEF OnTrial, TypeOK
  <2>3. Collectable(c)
    BY <1>1, <1>4, <1>7 DEF RoundOK, PaintedOK, Inner, Counting, Painted
  <2>4. ext[c] > 0 \/ \E e \in Slots : slot[e] = c /\ e \notin debt
    <3>1. rc[c] > 0
      BY <1>7, <2>3
    <3>2. ext[c] > 0 \/ Cardinality(Naming(slot, debt, c)) # 0
      BY <1>5, <3>1
    <3>3. Naming(slot, debt, c) # {} => \E e \in Slots : slot[e] = c /\ e \notin debt
      BY DEF Naming
    <3> QED BY <3>2, <3>3, NamingFinite
  <2>5. ASSUME NEW S \in SUBSET Cont, Owned \subseteq S, Shut(slot, S)
        PROVE  c \in S
    <3>1. CASE ext[c] > 0
      BY <2>5, <3>1 DEF Owned
    <3>2. ASSUME NEW e \in Slots, slot[e] = c, e \notin debt PROVE c \in S
      <4>1. slot[e] # Nil /\ e[1] \in Cont
        BY <3>2, NilIsNoContainer DEF Slots
      <4>2. e \in Visible(e[1])
        BY <1>1, <2>3, <3>2, <4>1 DEF Visible, SlotOwned, Unaliased, Slots
      <4>3. e[1] \notin Subtracted
        BY <1>1, <3>2, <4>2 DEF RoundOK, DebtOK, EdgesOf
      <4>4. color[e[1]] \notin {"grey", "white"}
        BY <1>1, <4>1, <4>3 DEF Subtracted, Painted
      <4>5. color[e[1]] # "dead"
        BY <1>1, <4>1 DEF RoundOK, ColorsOK, Paints
      <4>6. e[1] \in Occupied
        BY <1>1, <4>1, FreeBlock DEF Occupied
      <4>7. e[1] \in Occupied \ OnTrial
        BY <1>1, <4>4, <4>5, <4>6 DEF OnTrial
      <4> QED BY <1>1, <2>5, <3>2, <4>1, <4>7 DEF Found, Shut
    <3> QED BY <2>4, <3>1, <3>2
  <2>6. ScriptFinds'
    BY <1>1, <1>2, <2>2, <2>5 DEF ScriptFinds, Found
  <2> QED BY <1>1, <1>2, <2>1, <2>6
          DEF GarbageInv, BufferFinds, RootsMarked, Closing, Proved, Given
<1> QED BY <1>3, <1>4, <1>6, <1>7

(* The children of what the script reaches are reached.                    *)
LEMMA BlackGarbage ==
  ASSUME GcInv, GarbageInv, NEW c \in Cont, BlackVisit(c)
  PROVE  GarbageInv'
<1>1. /\ Collecting /\ pc = "scan" /\ pc' = "scan" /\ StayInHeap /\ TypeOK /\ HeapOK /\ RoundOK
      /\ Found(slot, Owned, Occupied \ OnTrial) /\ Countless /\ c \in aux
      /\ rc' = [d \in Cont |-> rc[d] + Weight(Visible(c), d)]
      /\ color' = [d \in Cont |-> IF d \in Children(c) THEN "black" ELSE color[d]]
  BY DEF BlackVisit, GcInv, GarbageInv, ScriptFinds
<1>2. /\ Unaliased' /\ Releasing' /\ Outermost' /\ Owned' = Owned /\ Occupied' = Occupied
      /\ slot' = slot
  BY <1>1, PassKept DEF Running
<1>3. Countless'
  <2> SUFFICES ASSUME NEW d \in Cont, color'[d] \in {"white", "dead"} PROVE rc'[d] = 0
    BY DEF Countless, Painted
  <2>1. d \notin Children(c) /\ color'[d] = color[d]
    BY <1>1
  <2>2. {e \in Visible(c) : slot[e] = d} = {}
    BY <2>1 DEF Children
  <2>3. Weight(Visible(c), d) = 0
    BY <2>2, FS_EmptySet DEF Weight
  <2>4. rc[d] = 0
    BY <1>1, <2>1 DEF Countless, Painted
  <2> QED BY <1>1, <2>3, <2>4
<1>4. OnTrial' = OnTrial \ Children(c)
  BY <1>1 DEF OnTrial
<1>5. ASSUME NEW S \in SUBSET Cont, Owned \subseteq S, Shut(slot, S)
      PROVE  Occupied \ OnTrial' \subseteq S
  <2>1. Occupied \ OnTrial \subseteq S
    BY <1>1, <1>5 DEF Found
  <2>2. ASSUME NEW d \in Children(c) PROVE d \in S
    <3>1. PICK e \in Visible(c) : d = slot[e]
      BY DEF Children
    <3>2. e \in Slots /\ e[1] = c /\ slot[e] # Nil
      BY <3>1 DEF Visible, Slots
    <3>3. c \in Occupied
      BY <1>1, <3>2, FreeBlock DEF Occupied
    <3>4. color[c] = "black"
      BY <1>1 DEF RoundOK, ScanOK, Painted
    <3>5. c \in S
      BY <1>1, <2>1, <3>3, <3>4 DEF OnTrial
    <3> QED BY <1>5, <3>1, <3>2, <3>5 DEF Shut
  <2> QED BY <1>4, <2>1, <2>2
<1>6. ScriptFinds'
  BY <1>1, <1>2, <1>5 DEF ScriptFinds, Found
<1> QED BY <1>1, <1>2, <1>3, <1>6
        DEF GarbageInv, BufferFinds, RootsMarked, Closing, Proved, Given

(* The steps that only move what is on trial from one colour to the next,  *)
(* or from one pass to the next.                                           *)
LEMMA TrialGarbage ==
  ASSUME GcInv, GarbageInv,
         \/ ScanDone \/ RestoreDone
         \/ \E c \in Cont : WhiteRoot(c) \/ WhiteVisit(c) \/ Restore(c)
  PROVE  GarbageInv'
<1>1. /\ Collecting /\ pc \in {"scan", "white", "restore"} /\ pc' \in {"white", "restore", "dtors"}
      /\ StayInHeap /\ TypeOK
      /\ Found(slot, Owned, Occupied \ OnTrial) /\ Countless /\ Closing
      /\ (pc' = "white" => pc \in {"scan", "white"} /\ rc' = rc)
      /\ (pc' # "white" => pc = "restore" /\ dead' = dead)
  BY DEF ScanDone, RestoreDone, WhiteRoot, WhiteVisit, Restore, GcInv, GarbageInv, ScriptFinds
<1>2. /\ Unaliased' /\ Releasing' /\ Outermost' /\ Owned' = Owned /\ Occupied' = Occupied
      /\ slot' = slot /\ ext' = ext
  BY <1>1, PassKept DEF Running
<1>3. color' = color \/ \E c \in Cont : color[c] = "white" /\ color' = [color EXCEPT ![c] = "dead"]
  BY DEF ScanDone, RestoreDone, WhiteRoot, WhiteVisit, Restore
<1>4. OnTrial' = OnTrial /\ Painted("white")' \cup Painted("dead")' = Painted("white") \cup Painted("dead")
  BY <1>1, <1>3 DEF OnTrial, Painted, TypeOK
<1>5. ScriptFinds'
  BY <1>1, <1>2, <1>4 DEF ScriptFinds
<1>6. Countless'
  BY <1>1, <1>4 DEF Countless
<1>7. Closing'
  BY <1>1, <1>2 DEF Closing
<1> QED BY <1>1, <1>2, <1>5, <1>6, <1>7 DEF GarbageInv, BufferFinds, RootsMarked, Proved, Given

(* The buffer is spent: what is not dead the script reaches, and only the  *)
(* dead name the dead, since nothing is left of their counts.              *)
LEMMA WhiteDoneGarbage ==
  ASSUME GcInv, GarbageInv, WhiteDone
  PROVE  GarbageInv'
<1>1. /\ Collecting /\ pc = "white" /\ todo = {} /\ work = {} /\ TypeOK /\ HeapOK /\ RoundOK
      /\ Found(slot, Owned, Occupied \ OnTrial) /\ Countless /\ Unaliased /\ Releasing /\ Outermost
      /\ UNCHANGED <<status, slot, named, bound, ext, enabled>>
  BY DEF WhiteDone, GcInv, GarbageInv, ScriptFinds
<1>2. Dying = {} /\ Len(stack) = 1
  BY <1>1, AloneOnStack DEF Running
<1>3. Painted("white") = {}
  <2>1. SUFFICES ASSUME Painted("white") # {} PROVE FALSE
    OBVIOUS
  <2>2. Reached(Painted("white"), {}, {})
    BY <1>1 DEF RoundOK, WhiteOK
  <2>3. \E e \in Slots : e[1] \in (Painted("white") \ Painted("white")) \cup {}
    BY <2>1, <2>2 DEF Reached
  <2> QED BY <2>3
<1>4. OnTrial = dead /\ dead \in SUBSET Cont
  <2>1. dead = Painted("dead")
    BY <1>1 DEF RoundOK, WhiteOK
  <2>2. \A c \in Cont : color[c] \notin {"grey", "white"}
    BY <1>1, <1>3 DEF RoundOK, ColorsOK, Paints, Painted
  <2> QED BY <1>1, <2>1, <2>2 DEF OnTrial, Painted
<1>5. Unaliased' /\ Releasing' /\ Owned' = Owned /\ Occupied' = Occupied /\ Dying' = {}
  BY <1>1, <1>2 DEF Unaliased, Releasing, Dying, Owned, Occupied
<1>6. CASE dead = {}
  <2>1. pc' = "idle" /\ roots' = {}
    BY <1>6 DEF WhiteDone, EndRound
  <2>2. Ends' = Owned
    BY <1>5, <2>1 DEF Ends
  <2>3. Found(slot', Ends', Occupied')
    BY <1>1, <1>4, <1>5, <1>6, <2>2
  <2> QED BY <1>5, <2>1, <2>3
          DEF GarbageInv, Outermost, Running, BufferFinds, RootsMarked, ScriptFinds, Countless,
              Closing, Proved, Given
<1>7. CASE dead # {}
  <2>1. /\ pc' = "restore" /\ dead' = dead /\ stack' = stack
        /\ color' = [c \in Cont |-> IF c \in roots /\ color[c] # "dead" THEN "black" ELSE color[c]]
    BY <1>7 DEF WhiteDone
  <2>2. Outermost'
    BY <1>1, <1>2, <2>1 DEF Outermost, Running
  <2>3. OnTrial' = OnTrial
    <3>1. \A c \in Cont : color[c] \notin {"grey", "white"}
      BY <1>1, <1>3 DEF RoundOK, ColorsOK, Paints, Painted
    <3> QED BY <1>1, <2>1, <3>1 DEF OnTrial
  <2>4. ScriptFinds'
    BY <1>1, <1>5, <2>1, <2>3 DEF ScriptFinds
  <2>5. Closing'
    <3> SUFFICES ASSUME NEW c \in dead
                 PROVE  ext[c] = 0 /\ \A e \in Slots : slot[e] = c => e[1] \in dead
      BY <1>1, <2>1 DEF Closing
    <3>1. c \in Cont /\ rc[c] = 0
      BY <1>1, <1>4 DEF Countless, RoundOK, WhiteOK
    <3>2. rc[c] = ext[c] + hold[c] + Cardinality(Naming(slot, debt, c))
      BY <1>1, <3>1 DEF HeapOK, Sound, Exact
    <3>3. ext[c] \in Nat /\ hold[c] \in Nat /\ Cardinality(Naming(slot, debt, c)) \in Nat
      BY <1>1, <3>1, PinsNat, NamingFinite DEF HeapOK, Sound, TypeOK
    <3>4. ext[c] = 0 /\ Cardinality(Naming(slot, debt, c)) = 0
      BY <3>1, <3>2, <3>3
    <3>5. Naming(slot, debt, c) = {}
      BY <3>4, NamingFinite
    <3>6. debt = EdgesOf(dead)
      BY <1>1, <1>3 DEF RoundOK, DebtOK, Subtracted, WhiteOK
    <3> QED BY <3>4, <3>5, <3>6 DEF Naming, EdgesOf
  <2> QED BY <1>5, <2>1, <2>2, <2>4, <2>5
          DEF GarbageInv, BufferFinds, RootsMarked, Countless, Proved, Given
<1> QED BY <1>6, <1>7

(* No destructor runs, so the counts still prove what they proved.         *)
LEMMA ProofGarbage ==
  ASSUME GcInv, GarbageInv, Ordinary, Verify \/ \E c \in Cont : Destruct(c)
  PROVE  GarbageInv'
<1>1. /\ Collecting /\ pc = "dtors" /\ TypeOK /\ HeapOK /\ RoundOK /\ Control
      /\ Found(slot, Owned, Occupied \ OnTrial) /\ Closing /\ Unaliased /\ Releasing /\ Outermost
  BY DEF Verify, Destruct, GcInv, GarbageInv, ScriptFinds
<1>2. UNCHANGED <<status, slot, named, bound, ext, enabled, stack, color, dead>>
      /\ pc' \in {"dtors", "cut"}
  BY <1>1 DEF Verify, Destruct, Ordinary, StayInHeap, heap, buffer
<1>3. /\ Unaliased' /\ Releasing' /\ Outermost' /\ ScriptFinds' /\ Closing'
  <2>1. Dying' = Dying /\ Owned' = Owned /\ Occupied' = Occupied /\ OnTrial' = OnTrial
    BY <1>1, <1>2 DEF Dying, Owned, Occupied, OnTrial
  <2> QED BY <1>1, <1>2, <2>1 DEF Unaliased, Releasing, Outermost, Running, ScriptFinds, Closing
<1>4. Proved'
  <2> SUFFICES ASSUME Verify, NEW c \in dead PROVE rc[c] - Weight(InnerEdges, c) = 1
    BY <1>1 DEF Proved, Verify, OnlyHeldByCollector, Destruct
  <2>1. c \in Cont /\ ext[c] = 0 /\ \A e \in Slots : slot[e] = c => e[1] \in dead
    BY <1>1 DEF Closing, TypeOK
  <2>2. Dying = {}
    BY <1>1, AloneOnStack DEF Running
  <2>3. Collectable(c)
    <3>1. c \notin walked
      BY <2>1 DEF GcInv, WalkHeld
    <3> QED BY <2>1, <2>2, <3>1 DEF Collectable, CollectableGiven, Dying
  <2>4. color[c] = "dead" /\ debt = {}
    BY <1>1, <2>1 DEF RoundOK, ColorsOK, DebtOK, EdgesOf, Subtracted
  <2>5. {e \in InnerEdges : slot[e] = c} = Naming(slot, debt, c)
    <3>1. ASSUME NEW e \in Slots, slot[e] = c PROVE e \in InnerEdges
      <4>1. e[1] \in dead /\ slot[e] # Nil
        BY <2>1, <3>1, NilIsNoContainer
      <4>2. e \in Visible(e[1])
        BY <1>1, <2>3, <3>1, <4>1 DEF Visible, SlotOwned, Unaliased, Slots
      <4> QED BY <2>4, <3>1, <4>1, <4>2 DEF InnerEdges
    <3> QED BY <2>4, <3>1 DEF Naming, InnerEdges
  <2>6. rc[c] = ext[c] + hold[c] + Cardinality(Naming(slot, debt, c))
    BY <1>1, <2>1 DEF HeapOK, Sound, Exact
  <2>7. hold[c] = 1
    <3>1. Len(stack) = 1 /\ stack # << >> /\ Top = stack[1]
      BY <1>1, AloneOnStack, TopFrame DEF Running
    <3>2. \A i \in DOMAIN stack : stack[i].kind # "dtor"
      BY <1>1, <3>1, Pop DEF Collecting, TypeOK
    <3>3. ~Destructing(stack, c)
      BY <3>2 DEF Destructing
    <3>4. c \in HeldByGc
      BY <1>1 DEF HeldByGc
    <3> QED BY <1>1, <2>1, <3>3, <3>4 DEF HeapOK, Sound, Pinned
  <2>8. Cardinality(Naming(slot, debt, c)) \in Nat
    BY NamingFinite
  <2>9. Weight(InnerEdges, c) = Cardinality(Naming(slot, debt, c))
    BY <2>5 DEF Weight
  <2> QED BY <2>1, <2>6, <2>7, <2>8, <2>9
<1> QED BY <1>2, <1>3, <1>4 DEF GarbageInv, BufferFinds, RootsMarked, Countless, Given

(* The edges among the dead are cut: nothing found led through them.       *)
LEMMA CutGarbage ==
  ASSUME GcInv, GarbageInv, NEW e \in Slots, Cut(e)
  PROVE  GarbageInv'
<1>1. /\ Collecting /\ pc = "cut" /\ pc' = "cut" /\ verified /\ verified' = verified /\ dead' = dead
      /\ TypeOK /\ HeapOK /\ RoundOK /\ slot' = [slot EXCEPT ![e] = Nil]
      /\ UNCHANGED <<named, bound, ext, enabled>>
      /\ Found(slot, Owned, Occupied \ OnTrial) /\ Closing /\ Unaliased /\ Releasing /\ Outermost
  BY DEF Cut, round, GcInv, GarbageInv, ScriptFinds
<1>2. UNCHANGED <<status, stack, roots, color>>
  BY <1>1, CutReleasesNothing
<1>3. /\ Owned' = Owned /\ Occupied' = Occupied /\ Dying' = Dying /\ OnTrial' = OnTrial
      /\ OnTrial = dead /\ dead \in SUBSET Cont /\ e[1] \in dead
  <2>1. OnTrial = dead
    BY <1>1 DEF OnTrial, RoundOK, ColorsOK, TypeOK
  <2> QED BY <1>1, <1>2, <2>1 DEF Owned, Occupied, Dying, OnTrial, Cut, InnerEdges, TypeOK
<1>4. Unaliased' /\ Releasing' /\ Outermost'
  BY <1>1, <1>2, <1>3 DEF Unaliased, Releasing, Outermost, Running
<1>5. \A s \in Slots : slot'[s] = slot[s] \/ (s = e /\ slot'[s] = Nil)
  BY <1>1 DEF TypeOK
<1>6. Closing'
  BY <1>1, <1>3, <1>5, NilIsNoContainer DEF Closing
<1>7. ScriptFinds'
  <2> SUFFICES ASSUME NEW S \in SUBSET Cont, Owned \subseteq S, Shut(slot', S)
               PROVE  Occupied \ dead \subseteq S
    BY <1>3 DEF ScriptFinds, Found
  <2>1. Owned \subseteq S \ dead
    BY <1>1 DEF Owned, Closing
  <2>2. Shut(slot, S \ dead)
    BY <1>1, <1>3, <1>5 DEF Shut, Closing
  <2>3. S \ dead \in SUBSET Cont
    OBVIOUS
  <2> QED BY <1>1, <1>3, <2>1, <2>2, <2>3 DEF Found
<1> QED BY <1>1, <1>4, <1>6, <1>7
        DEF GarbageInv, BufferFinds, RootsMarked, Countless, Proved, Given

LEMMA CutDoneGarbage ==
  ASSUME GcInv, GarbageInv, CutDone
  PROVE  GarbageInv'
<1>1. /\ Collecting /\ pc = "cut" /\ pc' = "give" /\ verified /\ InnerEdges = {}
      /\ todo' = dead /\ dead' = dead /\ StayInHeap /\ TypeOK /\ RoundOK
      /\ Found(slot, Owned, Occupied \ OnTrial) /\ Closing
  BY DEF CutDone, GcInv, GarbageInv, ScriptFinds, Proved
<1>2. /\ Unaliased' /\ Releasing' /\ Outermost' /\ Owned' = Owned /\ Occupied' = Occupied
      /\ slot' = slot /\ ext' = ext
  BY <1>1, PassKept DEF Running
<1>3. OnTrial = dead /\ OnTrial' = dead
  BY <1>1 DEF OnTrial, RoundOK, ColorsOK, TypeOK
<1>4. ScriptFinds' /\ Closing'
  BY <1>1, <1>2, <1>3 DEF ScriptFinds, Closing
<1>5. Given'
  BY <1>1, <1>2 DEF Given, RoundOK, CutOK
<1> QED BY <1>1, <1>2, <1>4, <1>5 DEF GarbageInv, BufferFinds, RootsMarked, Countless, Proved

(* The hold is all that is left of a member: it dies.                      *)
LEMMA GiveBackGarbage ==
  ASSUME GcInv, GarbageInv, Ordinary, NEW c \in Cont, GiveBack(c)
  PROVE  GarbageInv'
<1>1. /\ Collecting /\ pc = "give" /\ pc' = "give" /\ c \in todo /\ todo' = todo \ {c} /\ dead' = dead
      /\ TypeOK /\ HeapOK /\ RoundOK /\ DebtOK /\ UNCHANGED <<slot, named, bound, ext, enabled>>
      /\ UnrefGiven(c, rc, [hold EXCEPT ![c] = @ - 1], stack, walked)
      /\ Found(slot, Owned, Occupied \ OnTrial) /\ Closing /\ Given
      /\ Unaliased /\ Releasing /\ Outermost
  BY DEF GiveBack, GcInv, RoundOK, GarbageInv, ScriptFinds
<1>2. c \in dead /\ ext[c] = 0 /\ \A e \in Slots : slot[e] # c
  BY <1>1 DEF RoundOK, TodoOK, Closing, Given
<1>3. Len(stack) = 1 /\ stack # << >> /\ Dying = {} /\ stack \in Seq(Frames)
  BY <1>1, AloneOnStack DEF Running, TypeOK
<1>4. hold[c] = 1
  <2>1. \A i \in DOMAIN stack : stack[i].kind # "dtor"
    BY <1>1, <1>3, Pop, TopFrame DEF Collecting
  <2>2. ~Destructing(stack, c) /\ c \in HeldByGc
    BY <1>1, <2>1 DEF Destructing, HeldByGc
  <2> QED BY <1>1, <2>2 DEF HeapOK, Sound, Pinned
<1>5. rc[c] = 1
  <2>1. Naming(slot, debt, c) = {}
    BY <1>2 DEF Naming
  <2>2. rc[c] = ext[c] + hold[c] + Cardinality(Naming(slot, debt, c))
    BY <1>1 DEF HeapOK, Sound, Exact
  <2> QED BY <1>2, <1>4, <2>1, <2>2, FS_EmptySet
<1>6. [rc EXCEPT ![c] = @ - 1][c] < 1
  BY <1>1, <1>5 DEF TypeOK
<1>7. status[c] # "free" /\ status[c] # "dying"
  BY <1>1, <1>3, <1>4, NamedAlive DEF Dying
<1>8. /\ status' = [status EXCEPT ![c] = "dying"]
      /\ stack' = <<Frame("tear", c, Keys)>> \o stack
  BY <1>1, <1>6, <1>7 DEF UnrefGiven, Release, Marked, Ordinary
<1>9. Releasing' /\ Outermost'
  <2> DEFINE f == Frame("tear", c, Keys)
  <2>1. f \in Frames /\ f.kind = "tear" /\ f.obj = c
    BY DEF Frame, Frames
  <2> HIDE DEF f
  <2>2. stack' = <<f>> \o stack
    BY <1>8 DEF f
  <2>3. Dying' = {c}
    BY <1>1, <1>3, <1>8 DEF Dying, TypeOK
  <2>4. Releasing'
    BY <1>3, <2>1, <2>2, <2>3, PushTorn DEF Releasing
  <2>5. /\ DOMAIN stack' = 1 .. 2 /\ Len(stack') = 2 /\ stack' # << >>
        /\ stack'[1] = f /\ stack'[2] = stack[1]
    BY <1>3, <2>1, <2>2, Push
  <2>6. stack[1].kind = "gc"
    BY <1>1, <1>3, TopFrame DEF Collecting
  <2>7. \A i \in DOMAIN stack' : stack'[i].kind = "gc" <=> i = Len(stack')
    BY <2>1, <2>5, <2>6
  <2>8. Outermost'
    BY <1>1, <2>5, <2>7 DEF Outermost
  <2> QED BY <2>4, <2>8
<1>10. /\ Owned' = Owned /\ Occupied' = Occupied /\ OnTrial' = OnTrial /\ Unaliased'
  BY <1>1, <1>7, <1>8 DEF Owned, Occupied, OnTrial, Unaliased, TypeOK
<1>11. ScriptFinds' /\ Closing' /\ Given'
  <2>1. \A d \in dead : d \notin todo \ {c} => status'[d] # "live"
    BY <1>1, <1>8 DEF Given, TypeOK
  <2> QED BY <1>1, <1>10, <2>1 DEF ScriptFinds, Closing, Given
<1> QED BY <1>1, <1>9, <1>10, <1>11
        DEF GarbageInv, BufferFinds, RootsMarked, Countless, Proved

(* The round is over: of its members nothing is left.                      *)
LEMMA CollectDoneGarbage ==
  ASSUME GcInv, GarbageInv, CollectDone
  PROVE  GarbageInv'
<1>1. /\ Collecting /\ pc = "give" /\ pc' = "idle" /\ todo = {}
      /\ TypeOK /\ UNCHANGED <<status, slot, named, bound, ext, enabled, roots>>
      /\ Found(slot, Owned, Occupied \ OnTrial) /\ Given
      /\ Unaliased /\ Releasing /\ Outermost
  BY DEF CollectDone, EndRound, heap, GcInv, GarbageInv, ScriptFinds
<1>2. Dying = {}
  BY <1>1, AloneOnStack DEF Running
<1>3. Occupied = Occupied \ OnTrial
  BY <1>1, <1>2 DEF OnTrial, Given, Occupied, Dying, TypeOK
<1>4. Unaliased' /\ Releasing' /\ Owned' = Owned /\ Occupied' = Occupied
  BY <1>1, <1>2 DEF Unaliased, Releasing, Dying, Owned, Occupied
<1>5. Found(slot', Ends', Occupied')
  BY <1>1, <1>3, <1>4 DEF Found, Ends
<1> QED BY <1>1, <1>4, <1>5
        DEF GarbageInv, Outermost, Running, BufferFinds, RootsMarked, ScriptFinds, Countless,
            Closing, Proved, Given

---------------------------------------------------------------------------
(* The theorem                                                             *)

LEMMA GarbageInit == Init => GarbageInv
<1> SUFFICES ASSUME Init PROVE GarbageInv
  OBVIOUS
<1>1. /\ pc = "idle" /\ Unaliased /\ Dying = {} /\ Occupied = {}
  BY DEF Init, Unaliased, Dying, Occupied
<1> QED BY <1>1
        DEF GarbageInv, Releasing, Outermost, Running, BufferFinds, Found, RootsMarked, ScriptFinds,
            Countless, Closing, Proved, Given

LEMMA GarbageStutter ==
  ASSUME GarbageInv, UNCHANGED vars
  PROVE  GarbageInv'
<1>1. UNCHANGED <<status, slot, named, bound, ext, hold, walked, rc, color, roots, enabled, pc, todo,
                  dead, verified, stack>>
  BY DEF vars, heap, buffer, round
<1>2. /\ Dying' = Dying /\ Owned' = Owned /\ Occupied' = Occupied /\ OnTrial' = OnTrial
      /\ \A c : Collectable(c)' = Collectable(c)
  BY <1>1 DEF Dying, Owned, Occupied, OnTrial, Collectable, CollectableGiven
<1>3. Ends' = Ends
  BY <1>1, <1>2 DEF Ends
<1>4. Unaliased' /\ Releasing' /\ Outermost'
  BY <1>1, <1>2 DEF GarbageInv, Unaliased, Releasing, Outermost, Running
<1>5. BufferFinds' /\ RootsMarked' /\ ScriptFinds'
  BY <1>1, <1>2, <1>3 DEF GarbageInv, BufferFinds, RootsMarked, ScriptFinds
<1>6. Countless' /\ Closing' /\ Proved' /\ Given'
  BY <1>1 DEF GarbageInv, Countless, Painted, Closing, Proved, Given
<1> QED BY <1>4, <1>5, <1>6 DEF GarbageInv

LEMMA GarbageNext ==
  ASSUME Ordinary
  PROVE  GcInv /\ GarbageInv /\ [Next]_vars => GarbageInv'
<1> SUFFICES ASSUME GcInv, GarbageInv, [Next]_vars PROVE GarbageInv'
  OBVIOUS
<1>1. CASE CollectorStep
  BY <1>1, MarkGarbage, MarkDoneGarbage, ScanGarbage, BlackGarbage, TrialGarbage, WhiteDoneGarbage,
     ProofGarbage, CutGarbage, CutDoneGarbage, GiveBackGarbage, CollectDoneGarbage
     DEF CollectorStep
<1> QED BY <1>1, QuietGarbage, CollectGarbage, GarbageStutter DEF Next

(* What is followed from no row is outside what the rows and the script    *)
(* lead to: an edge the collector does not follow is to what is iterated.  *)
LEMMA NothingLost ==
  ASSUME GcInv, GarbageInv
  PROVE  NoGarbageLost
<1> SUFFICES ASSUME stack = << >>, NEW c \in Cont, status[c] = "live", c \notin Reachable,
                    \A r \in roots : c \notin FollowedFrom(r)
             PROVE  FALSE
  BY DEF NoGarbageLost
<1>1. TypeOK /\ WalkHeld /\ Unaliased /\ Releasing /\ roots \subseteq Cont
  BY DEF GcInv, GarbageInv, TypeOK
<1>2. Found(slot, Ends, Occupied)
  BY DEF GarbageInv, Outermost, Running, BufferFinds
<1>3. Dying = {}
  <2>1. \A i \in DOMAIN << >> : FALSE
    OBVIOUS
  <2> QED BY <1>1, <2>1 DEF Releasing, NotTorn
<1>4. PICK S \in SUBSET Cont : Anchors \cap Cont \subseteq S /\ Closed(S) /\ c \notin S
  BY DEF Reachable, ReachableFrom
<1> DEFINE U == S \cup UNION {T \in SUBSET Cont : (\A s \in T : Children(s) \subseteq T) /\ c \notin T}
<1>5. U \in SUBSET Cont /\ c \notin U
  BY <1>4
<1>6. Owned \subseteq S
  BY <1>4 DEF Owned, Anchors
<1>7. Ends \subseteq U
  <2>1. ASSUME NEW r \in roots PROVE r \in U
    <3>1. c \notin FollowedFrom(r)
      OBVIOUS
    <3>2. PICK T \in SUBSET Cont : r \in T /\ (\A s \in T : Children(s) \subseteq T) /\ c \notin T
      BY <3>1 DEF FollowedFrom
    <3> QED BY <3>2
  <2> QED BY <1>3, <1>6, <2>1 DEF Ends
<1>8. ASSUME NEW e \in Slots, e[1] \in U, slot[e] # Nil PROVE slot[e] \in U
  <2>1. CASE e[1] \in S
    BY <1>4, <1>8, <2>1 DEF Closed
  <2>2. ASSUME NEW T \in SUBSET Cont, \A s \in T : Children(s) \subseteq T, c \notin T, e[1] \in T
        PROVE  slot[e] \in U
    <3>1. slot[e] \in Cont
      BY <1>1, <1>8 DEF TypeOK
    <3>2. CASE slot[e] \in walked
      BY <1>1, <1>6, <3>1, <3>2 DEF WalkHeld, Owned
    <3>3. CASE slot[e] \notin walked
      <4>1. Collectable(slot[e])
        BY <1>3, <3>1, <3>3 DEF Collectable, CollectableGiven, Dying
      <4>2. slot[e] \in Children(e[1])
        BY <1>1, <1>8, <4>1 DEF Children, Visible, SlotOwned, Unaliased, Slots
      <4> QED BY <2>2, <4>2
    <3> QED BY <3>2, <3>3
  <2> QED BY <1>8, <2>1, <2>2
<1> HIDE DEF U
<1>9. Shut(slot, U)
  BY <1>8 DEF Shut
<1>10. c \in Occupied
  BY DEF Occupied
<1> QED BY <1>2, <1>5, <1>7, <1>9, <1>10 DEF Found

(* Trial deletion needs no root set: whatever is allocated and the script  *)
(* cannot reach is followed from a row of the root buffer, when no release *)
(* is under way.  So a drop that buffers nothing strands nothing, be it    *)
(* the count PH7_HashmapCowSeparate lowers in place or one of the drops    *)
(* made while a collection gives its members back.                         *)
THEOREM GarbageIsFound ==
  ASSUME Ordinary
  PROVE  Spec => []NoGarbageLost
<1>1. Maps = {} \/ HasDtor = {}
  BY DEF Ordinary
<1>2. Spec => []GcInv
  BY <1>1, RoundInvariant
<1> QED BY <1>2, GarbageInit, GarbageNext, NothingLost, PTL DEF Spec
=============================================================================
