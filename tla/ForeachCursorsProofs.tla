------------------------ MODULE ForeachCursorsProofs ------------------------
(***************************************************************************)
(* Theorems about ForeachCursors, for every program, any number of arrays, *)
(* steps and frames.                                                       *)
(***************************************************************************)
EXTENDS ForeachCursors, FiniteSetTheorems, SequenceTheorems, TLAPS

---------------------------------------------------------------------------
(* Lists                                                                   *)

Distinct(s) == \A i, j \in DOMAIN s : s[i] = s[j] => i = j
Rising(s) == \A i, j \in DOMAIN s : i < j => s[i] < s[j]

LEMMA RangeIs ==
  ASSUME NEW s, NEW x
  PROVE  x \in Range(s) <=> \E i \in DOMAIN s : s[i] = x
  BY DEF Range

LEMMA SeqIs ==
  ASSUME NEW T, NEW s \in Seq(T)
  PROVE  /\ Len(s) \in Nat /\ DOMAIN s = 1 .. Len(s)
         /\ \A i \in DOMAIN s : s[i] \in T
         /\ Range(s) \subseteq T
         /\ s = << >> <=> Len(s) = 0
<1>1. /\ Len(s) \in Nat /\ DOMAIN s = 1 .. Len(s)
      /\ \A i \in DOMAIN s : s[i] \in T
      /\ s = << >> <=> Len(s) = 0
  OBVIOUS
<1> QED BY <1>1 DEF Range

LEMMA EmptyIs == Range(<< >>) = {} /\ Distinct(<< >>) /\ Rising(<< >>)
  BY DEF Range, Distinct, Rising

LEMMA RisingDistinct ==
  ASSUME NEW s \in Seq(Nat), Rising(s)
  PROVE  Distinct(s)
<1> SUFFICES ASSUME NEW i \in DOMAIN s, NEW j \in DOMAIN s, s[i] = s[j], i < j
             PROVE  FALSE
  BY SeqIs DEF Distinct
<1> QED BY SeqIs DEF Rising

LEMMA PositionIs ==
  ASSUME NEW s, NEW x \in Range(s)
  PROVE  Position(s, x) \in DOMAIN s /\ s[Position(s, x)] = x
<1>1. \E i \in DOMAIN s : s[i] = x
  BY RangeIs
<1> QED BY <1>1 DEF Position

(* Taking one occurrence off a list: where the others end up.              *)
LEMMA WithoutParts ==
  ASSUME NEW T, NEW s \in Seq(T), NEW x \in Range(s)
  PROVE  LET p == Position(s, x)
             w == Without(s, x)
         IN /\ p \in 1 .. Len(s) /\ s[p] = x
            /\ w \in Seq(T) /\ Len(w) = Len(s) - 1 /\ DOMAIN w = 1 .. Len(s) - 1
            /\ \A i \in DOMAIN w : w[i] = s[IF i < p THEN i ELSE i + 1]
<1> DEFINE p == Position(s, x)
           w == Without(s, x)
<1>1. p \in 1 .. Len(s) /\ s[p] = x /\ Len(s) \in Nat
  BY PositionIs, SeqIs
<1>2. w = [i \in 1 .. Len(s) - 1 |-> s[IF i < p THEN i ELSE i + 1]]
  BY DEF Without
<1> HIDE DEF p, w
<1>3. \A i \in 1 .. Len(s) - 1 : s[IF i < p THEN i ELSE i + 1] \in T
  BY <1>1
<1>4. w \in Seq(T) /\ Len(w) = Len(s) - 1 /\ DOMAIN w = 1 .. Len(s) - 1
  BY <1>1, <1>2, <1>3
<1>5. \A i \in DOMAIN w : w[i] = s[IF i < p THEN i ELSE i + 1]
  BY <1>2, <1>4
<1> QED BY <1>1, <1>4, <1>5 DEF p, w

LEMMA WithoutIs ==
  ASSUME NEW T, NEW s \in Seq(T), NEW x, Distinct(s)
  PROVE  /\ Without(s, x) \in Seq(T)
         /\ Distinct(Without(s, x))
         /\ \A y : y \in Range(Without(s, x)) <=> y \in Range(s) /\ y # x
<1>1. CASE x \notin Range(s)
  BY <1>1 DEF Without
<1>2. CASE x \in Range(s)
  <2> DEFINE p == Position(s, x)
             w == Without(s, x)
  <2>1. /\ p \in 1 .. Len(s) /\ s[p] = x
        /\ w \in Seq(T) /\ DOMAIN w = 1 .. Len(s) - 1
        /\ \A i \in DOMAIN w : w[i] = s[IF i < p THEN i ELSE i + 1]
    BY <1>2, WithoutParts
  <2>2. Len(s) \in Nat /\ DOMAIN s = 1 .. Len(s)
    BY SeqIs
  <2>3. \A i, j \in 1 .. Len(s) : s[i] = s[j] => i = j
    BY <2>2 DEF Distinct
  <2> HIDE DEF p, w
  <2>4. Distinct(w)
    <3> SUFFICES ASSUME NEW i \in DOMAIN w, NEW j \in DOMAIN w, w[i] = w[j]
                 PROVE  i = j
      BY DEF Distinct
    <3> DEFINE a == IF i < p THEN i ELSE i + 1
               b == IF j < p THEN j ELSE j + 1
    <3>1. a \in 1 .. Len(s) /\ b \in 1 .. Len(s)
      BY <2>1, <2>2
    <3>2. s[a] = s[b]
      BY <2>1
    <3>3. a = b
      BY <3>1, <3>2, <2>3
    <3> QED BY <3>3, <2>1, <2>2
  <2>5. ASSUME NEW y, y \in Range(w) PROVE y \in Range(s) /\ y # x
    <3>1. PICK i \in DOMAIN w : w[i] = y
      BY <2>5, RangeIs
    <3>2. PICK j \in DOMAIN s : j # p /\ s[j] = y
      BY <3>1, <2>1, <2>2
    <3> QED BY <3>2, <2>1, <2>2, <2>3, RangeIs
  <2>6. ASSUME NEW y, y \in Range(s), y # x PROVE y \in Range(w)
    <3>1. PICK j \in 1 .. Len(s) : s[j] = y
      BY <2>6, <2>2, RangeIs
    <3>2. j # p
      BY <3>1, <2>1, <2>6
    <3>3. \E i \in DOMAIN w : w[i] = y
      <4>1. CASE j < p
        <5>1. j \in DOMAIN w /\ w[j] = y
          BY <4>1, <3>1, <2>1, <2>2
        <5> QED BY <5>1
      <4>2. CASE ~(j < p)
        <5>1. j - 1 \in DOMAIN w /\ w[j - 1] = s[j]
          BY <4>2, <3>1, <3>2, <2>1, <2>2
        <5> QED BY <5>1, <3>1
      <4> QED BY <4>1, <4>2
    <3> QED BY <3>3, RangeIs
  <2> QED BY <2>1, <2>4, <2>5, <2>6 DEF w
<1> QED BY <1>1, <1>2

LEMMA ConsIs ==
  ASSUME NEW T, NEW s \in Seq(T), NEW x \in T
  PROVE  /\ <<x>> \o s \in Seq(T)
         /\ \A y : y \in Range(<<x>> \o s) <=> y \in Range(s) \/ y = x
         /\ Distinct(s) /\ x \notin Range(s) => Distinct(<<x>> \o s)
<1> DEFINE c == <<x>> \o s
<1>1. /\ c \in Seq(T) /\ Len(c) = Len(s) + 1 /\ Len(s) \in Nat
      /\ DOMAIN c = 1 .. Len(s) + 1 /\ DOMAIN s = 1 .. Len(s)
      /\ c[1] = x /\ \A i \in DOMAIN s : c[i + 1] = s[i]
  OBVIOUS
<1> HIDE DEF c
<1>2. ASSUME NEW y, y \in Range(c) PROVE y \in Range(s) \/ y = x
  <2>1. PICK i \in DOMAIN c : c[i] = y
    BY <1>2, RangeIs
  <2>2. CASE i = 1
    BY <2>1, <2>2, <1>1
  <2>3. CASE i # 1
    <3>1. i - 1 \in DOMAIN s /\ c[(i - 1) + 1] = s[i - 1] /\ (i - 1) + 1 = i
      BY <2>3, <1>1
    <3> QED BY <3>1, <2>1, RangeIs
  <2> QED BY <2>2, <2>3
<1>3. ASSUME NEW y, y \in Range(s) \/ y = x PROVE y \in Range(c)
  <2>1. CASE y = x
    <3>1. 1 \in DOMAIN c
      BY <1>1
    <3> QED BY <3>1, <2>1, <1>1, RangeIs
  <2>2. CASE y \in Range(s)
    <3>1. PICK i \in DOMAIN s : s[i] = y
      BY <2>2, RangeIs
    <3>2. i + 1 \in DOMAIN c /\ c[i + 1] = y
      BY <3>1, <1>1
    <3> QED BY <3>2, RangeIs
  <2> QED BY <1>3, <2>1, <2>2
<1>4. ASSUME Distinct(s), x \notin Range(s) PROVE Distinct(c)
  <2>1. \A i \in DOMAIN s : s[i] # x
    BY <1>4, RangeIs
  <2>2. \A i \in DOMAIN c : i # 1 => i - 1 \in DOMAIN s /\ c[i] = s[i - 1]
    <3> SUFFICES ASSUME NEW i \in DOMAIN c, i # 1
                 PROVE  i - 1 \in DOMAIN s /\ c[i] = s[i - 1]
      OBVIOUS
    <3>1. i - 1 \in DOMAIN s /\ c[(i - 1) + 1] = s[i - 1] /\ (i - 1) + 1 = i
      BY <1>1
    <3> QED BY <3>1
  <2> QED BY <1>1, <1>4, <2>1, <2>2 DEF Distinct
<1> QED BY <1>1, <1>2, <1>3, <1>4 DEF c

LEMMA SnocIs ==
  ASSUME NEW T, NEW s \in Seq(T), NEW x \in T
  PROVE  /\ Append(s, x) \in Seq(T)
         /\ Len(Append(s, x)) = Len(s) + 1
         /\ \A i \in DOMAIN s : Append(s, x)[i] = s[i]
         /\ Append(s, x)[Len(s) + 1] = x
         /\ \A y : y \in Range(Append(s, x)) <=> y \in Range(s) \/ y = x
         /\ Distinct(s) /\ x \notin Range(s) => Distinct(Append(s, x))
<1> DEFINE c == Append(s, x)
<1>1. /\ c \in Seq(T) /\ Len(c) = Len(s) + 1 /\ Len(s) \in Nat
      /\ DOMAIN c = 1 .. Len(s) + 1 /\ DOMAIN s = 1 .. Len(s)
      /\ c[Len(s) + 1] = x /\ \A i \in DOMAIN s : c[i] = s[i]
  OBVIOUS
<1> HIDE DEF c
<1>2. ASSUME NEW y, y \in Range(c) PROVE y \in Range(s) \/ y = x
  <2>1. PICK i \in DOMAIN c : c[i] = y
    BY <1>2, RangeIs
  <2>2. i = Len(s) + 1 \/ i \in DOMAIN s
    BY <1>1
  <2> QED BY <2>1, <2>2, <1>1, RangeIs
<1>3. ASSUME NEW y, y \in Range(s) \/ y = x PROVE y \in Range(c)
  <2>1. CASE y = x
    <3>1. Len(s) + 1 \in DOMAIN c
      BY <1>1
    <3> QED BY <3>1, <2>1, <1>1, RangeIs
  <2>2. CASE y \in Range(s)
    <3>1. PICK i \in DOMAIN s : s[i] = y
      BY <2>2, RangeIs
    <3>2. i \in DOMAIN c /\ c[i] = y
      BY <3>1, <1>1
    <3> QED BY <3>2, RangeIs
  <2> QED BY <1>3, <2>1, <2>2
<1>4. ASSUME Distinct(s), x \notin Range(s) PROVE Distinct(c)
  <2>1. \A i \in DOMAIN s : s[i] # x
    BY <1>4, RangeIs
  <2> QED BY <1>1, <1>4, <2>1 DEF Distinct
<1> QED BY <1>1, <1>2, <1>3, <1>4 DEF c

---------------------------------------------------------------------------
(* Keys in the order of their insertion                                    *)

LEMMA RisingWithout ==
  ASSUME NEW s \in Seq(Nat), Rising(s), NEW x
  PROVE  Rising(Without(s, x))
<1>1. CASE x \notin Range(s)
  BY <1>1 DEF Without
<1>2. CASE x \in Range(s)
  <2> DEFINE p == Position(s, x)
             w == Without(s, x)
  <2>1. /\ p \in 1 .. Len(s) /\ s[p] = x
        /\ w \in Seq(Nat) /\ DOMAIN w = 1 .. Len(s) - 1
        /\ \A i \in DOMAIN w : w[i] = s[IF i < p THEN i ELSE i + 1]
    BY <1>2, WithoutParts
  <2>2. Len(s) \in Nat /\ DOMAIN s = 1 .. Len(s)
    BY SeqIs
  <2>3. \A i, j \in 1 .. Len(s) : i < j => s[i] < s[j]
    BY <2>2 DEF Rising
  <2> HIDE DEF p, w
  <2> SUFFICES ASSUME NEW i \in DOMAIN w, NEW j \in DOMAIN w, i < j
               PROVE  w[i] < w[j]
    BY DEF Rising, w
  <2> DEFINE a == IF i < p THEN i ELSE i + 1
             b == IF j < p THEN j ELSE j + 1
  <2> i \in 1 .. Len(s) - 1 /\ j \in 1 .. Len(s) - 1 /\ p \in Nat
    BY <2>1, <2>2
  <2>4. a \in 1 .. Len(s) /\ b \in 1 .. Len(s) /\ a < b
    BY <2>2, SMTT(40)
  <2>5. w[i] = s[a] /\ w[j] = s[b]
    BY <2>1
  <2> HIDE DEF a, b
  <2> QED BY <2>3, <2>4, <2>5
<1> QED BY <1>1, <1>2

LEMMA RisingAppend ==
  ASSUME NEW s \in Seq(Nat), Rising(s), NEW x \in Nat, \A k \in Range(s) : k < x
  PROVE  Rising(Append(s, x))
<1> DEFINE c == Append(s, x)
<1>1. /\ Len(s) \in Nat /\ DOMAIN s = 1 .. Len(s) /\ DOMAIN c = 1 .. Len(s) + 1
      /\ c[Len(s) + 1] = x /\ \A i \in DOMAIN s : c[i] = s[i]
  OBVIOUS
<1>2. \A i \in DOMAIN s : s[i] < x
  BY DEF Range
<1> HIDE DEF c
<1> SUFFICES ASSUME NEW i \in DOMAIN c, NEW j \in DOMAIN c, i < j
             PROVE  c[i] < c[j]
  BY DEF Rising, c
<1>3. i \in DOMAIN s /\ (j \in DOMAIN s \/ j = Len(s) + 1)
  BY <1>1
<1> QED BY <1>1, <1>2, <1>3 DEF Rising

(* The cursor's two moves: to the first key, and to the next one.          *)
LEMMA FirstIs ==
  ASSUME NEW s \in Seq(Nat), Rising(s)
  PROVE  /\ s = << >> => First(s) = 0 /\ Range(s) = {}
         /\ s # << >> => /\ First(s) \in Range(s)
                         /\ \A k \in Range(s) : First(s) <= k
<1>1. CASE s = << >>
  BY <1>1, EmptyIs DEF First
<1>2. CASE s # << >>
  <2>1. 1 \in DOMAIN s /\ First(s) = s[1] /\ DOMAIN s = 1 .. Len(s) /\ Len(s) \in Nat
    BY <1>2 DEF First
  <2>2. First(s) \in Range(s)
    BY <2>1, RangeIs
  <2>3. ASSUME NEW k \in Range(s) PROVE First(s) <= k
    <3>1. PICK i \in DOMAIN s : s[i] = k
      BY <2>3, RangeIs
    <3>2. s[1] \in Nat /\ s[i] \in Nat
      BY <2>1, <3>1, SeqIs
    <3> QED BY <2>1, <3>1, <3>2 DEF Rising
  <2> QED BY <1>2, <2>2, <2>3
<1> QED BY <1>1, <1>2

LEMMA AfterIs ==
  ASSUME NEW s \in Seq(Nat), Rising(s), NEW k \in Range(s)
  PROVE  \/ After(s, k) = 0 /\ \A n \in Range(s) : n <= k
         \/ /\ After(s, k) \in Range(s) /\ k < After(s, k)
            /\ \A n \in Range(s) : k < n => After(s, k) <= n
<1> DEFINE p == Position(s, k)
<1>1. p \in DOMAIN s /\ s[p] = k
  BY PositionIs
<1>2. /\ DOMAIN s = 1 .. Len(s) /\ Len(s) \in Nat
      /\ \A i \in DOMAIN s : s[i] \in Nat
  BY SeqIs
<1>3. After(s, k) = IF p = Len(s) THEN 0 ELSE s[p + 1]
  BY DEF After
<1> HIDE DEF p
<1>4. CASE p = Len(s)
  <2>1. ASSUME NEW n \in Range(s) PROVE n <= k
    <3>1. PICK i \in DOMAIN s : s[i] = n
      BY <2>1, RangeIs
    <3> QED BY <1>1, <1>2, <1>4, <3>1 DEF Rising
  <2> QED BY <1>3, <1>4, <2>1
<1>5. CASE p # Len(s)
  <2>1. p + 1 \in DOMAIN s /\ After(s, k) = s[p + 1] /\ s[p] < s[p + 1]
    BY <1>1, <1>2, <1>3, <1>5 DEF Rising
  <2>2. ASSUME NEW n \in Range(s), k < n PROVE After(s, k) <= n
    <3>1. PICK i \in DOMAIN s : s[i] = n
      BY <2>2, RangeIs
    <3>2. p < i
      BY <1>1, <1>2, <2>2, <3>1 DEF Rising
    <3>3. i = p + 1 \/ p + 1 < i
      BY <1>1, <1>2, <3>1, <3>2
    <3> QED BY <1>2, <2>1, <3>1, <3>3 DEF Rising
  <2>3. After(s, k) \in Range(s)
    BY <2>1, RangeIs
  <2> QED BY <1>1, <2>1, <2>2, <2>3
<1> QED BY <1>4, <1>5

---------------------------------------------------------------------------
(* Counting                                                                *)

LEMMA CountIs ==
  ASSUME NEW T, NEW s \in Seq(T), Distinct(s)
  PROVE  IsFiniteSet(Range(s)) /\ Cardinality(Range(s)) = Len(s)
<1>1. DOMAIN s = 1 .. Len(s) /\ Len(s) \in Nat
  BY SeqIs
<1>2. s \in [1 .. Len(s) -> Range(s)]
  BY <1>1 DEF Range
<1>3. \A i, j \in 1 .. Len(s) : s[i] = s[j] => i = j
  BY <1>1 DEF Distinct
<1>4. \A x \in Range(s) : \E i \in 1 .. Len(s) : s[i] = x
  BY <1>1, RangeIs
<1>5. s \in Bijection(1 .. Len(s), Range(s))
  BY <1>2, <1>3, <1>4 DEF Bijection, Injection, Surjection, IsInjective
<1>6. ExistsBijection(1 .. Len(s), Range(s))
  BY <1>5 DEF ExistsBijection
<1>7. IsFiniteSet(1 .. Len(s)) /\ Cardinality(1 .. Len(s)) = Len(s)
  <2>1. 1 \in Int /\ Len(s) \in Int
    BY <1>1
  <2>2. Cardinality(1 .. Len(s)) = IF 1 > Len(s) THEN 0 ELSE Len(s) - 1 + 1
    BY <2>1, FS_Interval
  <2> QED BY <1>1, <2>1, <2>2, FS_Interval
<1> QED BY <1>6, <1>7, FS_Bijection

LEMMA StepsFinite == IsFiniteSet(Steps) /\ IsFiniteSet(Vars)
  BY FS_Interval, SizesAssumption, VarsAssumption DEF Steps

(* The variables, and the steps, that hold map m.                          *)
VarsOn(v, m) == {x \in Vars : v[x] = m}
StepsOn(st, m) == {i \in Steps : st[i].map = m}
Count(v, st, m) == Cardinality(VarsOn(v, m)) + Cardinality(StepsOn(st, m))

LEMMA CountsAre ==
  ASSUME NEW v, NEW st, NEW m
  PROVE  /\ IsFiniteSet(VarsOn(v, m)) /\ Cardinality(VarsOn(v, m)) \in Nat
         /\ IsFiniteSet(StepsOn(st, m)) /\ Cardinality(StepsOn(st, m)) \in Nat
         /\ Count(v, st, m) \in Nat
<1>1. IsFiniteSet(VarsOn(v, m))
  BY StepsFinite, FS_Subset DEF VarsOn
<1>2. IsFiniteSet(StepsOn(st, m))
  BY StepsFinite, FS_Subset DEF StepsOn
<1> QED BY <1>1, <1>2, FS_CardinalityType DEF Count

(* Counts of sets that gain or lose one member.                            *)
LEMMA OneMore ==
  ASSUME NEW S, NEW T, IsFiniteSet(S), NEW x, x \notin S,
         \A y : y \in T <=> y \in S \/ y = x
  PROVE  Cardinality(T) = Cardinality(S) + 1
<1>1. T = S \cup {x}
  OBVIOUS
<1> QED BY <1>1, FS_AddElement

LEMMA OneLess ==
  ASSUME NEW S, NEW T, IsFiniteSet(S), NEW x, x \in S,
         \A y : y \in T <=> y \in S /\ y # x
  PROVE  Cardinality(T) = Cardinality(S) - 1
<1>1. T = S \ {x}
  OBVIOUS
<1> QED BY <1>1, FS_RemoveElement

LEMMA Unnoticed ==
  ASSUME NEW S, NEW T, \A y : y \in T <=> y \in S
  PROVE  Cardinality(T) = Cardinality(S)
<1>1. T = S
  OBVIOUS
<1> QED BY <1>1

LEMMA NoneCounted ==
  ASSUME NEW S, IsFiniteSet(S)
  PROVE  Cardinality(S) = 0 <=> \A y : y \notin S
  BY FS_EmptySet

---------------------------------------------------------------------------
(* The invariant, over a heap, since a handler makes several calls.        *)

MapType == [ref: Nat, keys: Seq(Key), active: Seq(Steps)]
StepType == [map: {0} \cup Maps, cursor: {0} \cup Key, byRef: BOOLEAN,
             frame: Frames \cup {None}, over: Vars \cup {None},
             visited: {0} \cup Key]
HeapType ==
  [var: [Vars -> {0} \cup Maps], map: [Maps -> MapType], step: [Steps -> StepType],
   aStep: [Stmts -> Seq(Steps)],
   owned: [Frames -> Seq(Steps)]]

(* What is in the pools carries nothing.                                   *)
Pools(h) ==
  /\ \A m \in Maps : h.map[m].ref = 0 => h.map[m] = FreeMap
  /\ \A i \in Steps : h.step[i].map = 0 => h.step[i] = FreeStep

Counted(h) == \A m \in Maps : h.map[m].ref = Count(h.var, h.step, m)

(* The lists of steps of the maps, the frames and the statements.          *)
MapLists(h) == \A m \in Maps :
  /\ Distinct(h.map[m].active)
  /\ \A i \in Steps : i \in Range(h.map[m].active) <=> h.step[i].map = m

FrameLists(h) == \A f \in Frames :
  /\ Distinct(h.owned[f])
  /\ \A i \in Steps : i \in Range(h.owned[f]) <=>
                      h.step[i].map # 0 /\ h.step[i].frame = f

On(h, s, i) == i \in Range(h.aStep[s])
StmtLists(h) ==
  /\ \A s \in Stmts : Distinct(h.aStep[s])
  /\ \A s \in Stmts : \A i \in Steps : On(h, s, i) => h.step[i].map # 0
  /\ \A i \in Steps : h.step[i].map # 0 => \E s \in Stmts : On(h, s, i)
  /\ \A i \in Steps : \A s, t \in Stmts : On(h, s, i) /\ On(h, t, i) => s = t

(* A frame has one step at most on a statement.                            *)
Single(h) == \A s \in Stmts : \A i, j \in Steps :
  On(h, s, i) /\ On(h, s, j) /\ h.step[i].frame = h.step[j].frame => i = j

Sound(h) ==
  /\ h \in HeapType
  /\ Pools(h) /\ Counted(h) /\ MapLists(h) /\ FrameLists(h) /\ StmtLists(h) /\ Single(h)

(* A cursor is on the first key of its map above the last one visited.     *)
Aimed(keys, cursor, visited) ==
  /\ cursor = 0 => \A k \in Range(keys) : k <= visited
  /\ cursor # 0 => /\ cursor \in Range(keys) /\ visited < cursor
                   /\ \A k \in Range(keys) : visited < k => cursor <= k

(* Keys are listed in the order of their insertion, n the last.            *)
Ordered(h, n) ==
  /\ \A m \in Maps : Rising(h.map[m].keys) /\ \A k \in Range(h.map[m].keys) : k <= n
  /\ \A i \in Steps : h.step[i].map # 0 =>
       /\ h.step[i].visited <= n
       /\ Aimed(h.map[h.step[i].map].keys, h.step[i].cursor, h.step[i].visited)

(* Steps belong to live frames, and a frame in a loop has its step.        *)
Alive(h, lv) == \A i \in Steps : h.step[i].map # 0 => h.step[i].frame \in lv
Walking(h, ins) == \A f \in Frames, s \in Stmts : <<f, s>> \in ins =>
  \E i \in Steps : On(h, s, i) /\ h.step[i].frame = f

CursorInv ==
  /\ code \in Codes /\ live \subseteq Frames /\ inside \subseteq live \X Stmts
  /\ nKeys \in 0 .. MaxKeys
  /\ Sound(Heap) /\ Ordered(Heap, nKeys)
  /\ Alive(Heap, live) /\ Walking(Heap, inside)

LEMMA HeapParts ==
  ASSUME NEW h, h \in HeapType
  PROVE  /\ h.var \in [Vars -> {0} \cup Maps] /\ h.map \in [Maps -> MapType]
         /\ h.step \in [Steps -> StepType]
         /\ h.aStep \in [Stmts -> Seq(Steps)] /\ h.owned \in [Frames -> Seq(Steps)]
         /\ \A m \in Maps : /\ h.map[m].ref \in Nat /\ h.map[m].keys \in Seq(Key)
                            /\ h.map[m].active \in Seq(Steps)
  BY DEF HeapType, MapType

LEMMA ZeroIs == 0 \notin Maps /\ 0 \notin Steps /\ 0 \notin Key /\ Maps \subseteq Nat
                /\ Steps \subseteq Nat /\ Key \subseteq Nat
  BY SizesAssumption DEF Maps, Steps, Key

LEMMA FreeIs == FreeMap \in MapType /\ FreeStep \in StepType
  BY DEF FreeMap, FreeStep, MapType, StepType

LEMMA KeysAre ==
  ASSUME NEW s \in Seq(Key)
  PROVE  s \in Seq(Nat)
<1>1. Key \subseteq Nat
  BY ZeroIs
<1>2. Len(s) \in Nat /\ s \in [1 .. Len(s) -> Key]
  OBVIOUS
<1>3. s \in [1 .. Len(s) -> Nat]
  BY <1>1, <1>2
<1> QED BY <1>2, <1>3

LEMMA WithoutType ==
  ASSUME NEW T, NEW s \in Seq(T), NEW x
  PROVE  Without(s, x) \in Seq(T)
<1>1. CASE x \notin Range(s)
  BY <1>1 DEF Without
<1>2. CASE x \in Range(s)
  BY <1>2, WithoutParts
<1> QED BY <1>1, <1>2

(* What each call leaves, field by field.                                  *)
LEMMA HeapIs ==
  ASSUME NEW h, h \in HeapType
  PROVE  h = [var |-> h.var, map |-> h.map, step |-> h.step,
              aStep |-> h.aStep, owned |-> h.owned]
  BY DEF HeapType

LEMMA UnrefIs ==
  ASSUME NEW h, h \in HeapType, NEW m \in Maps, h.map[m].ref > 0
  PROVE  LET r == Unref(h, m)
         IN /\ r \in HeapType
            /\ r.var = h.var /\ r.step = h.step /\ r.aStep = h.aStep /\ r.owned = h.owned
            /\ \A n \in Maps : n # m => r.map[n] = h.map[n]
            /\ h.map[m].ref = 1 => r.map[m] = FreeMap
            /\ h.map[m].ref # 1 => /\ r.map[m].ref = h.map[m].ref - 1
                                   /\ r.map[m].keys = h.map[m].keys
                                   /\ r.map[m].active = h.map[m].active
<1> DEFINE u == h.map[m]
           l == IF u.ref = 1 THEN FreeMap ELSE [u EXCEPT !.ref = u.ref - 1]
           e == [h.map EXCEPT ![m] = l]
<1>1. h.map \in [Maps -> MapType] /\ u \in MapType /\ u.ref \in Nat /\ u.ref > 0
  BY HeapParts
<1>2. Unref(h, m) = [h EXCEPT !.map = e]
  BY DEF Unref, UnrefOnly
<1>3. l \in MapType
  <2>1. u.ref # 1 => u.ref - 1 \in Nat
    BY <1>1
  <2>2. u.ref # 1 => [u EXCEPT !.ref = u.ref - 1] \in MapType
    BY <1>1, <2>1 DEF MapType
  <2> QED BY <2>2, FreeIs
<1>4. u.ref # 1 => l.ref = u.ref - 1 /\ l.keys = u.keys /\ l.active = u.active
  BY <1>1 DEF MapType
<1>5. u.ref = 1 => l = FreeMap
  OBVIOUS
<1> HIDE DEF l
<1>6. e \in [Maps -> MapType] /\ e[m] = l /\ \A n \in Maps : n # m => e[n] = h.map[n]
  BY <1>1, <1>3
<1> HIDE DEF e
<1>7. [h EXCEPT !.map = e] \in HeapType
  BY <1>6 DEF HeapType
<1>8. /\ Unref(h, m).var = h.var /\ Unref(h, m).step = h.step
      /\ Unref(h, m).aStep = h.aStep /\ Unref(h, m).owned = h.owned
      /\ Unref(h, m).map = e
  BY <1>2 DEF HeapType
<1> QED BY <1>2, <1>4, <1>5, <1>6, <1>7, <1>8

LEMMA UnregisterIs ==
  ASSUME NEW h, h \in HeapType, NEW i \in Steps, h.step[i].map \in Maps
  PROVE  LET r == Unregister(h, i)
             m == h.step[i].map
         IN /\ r \in HeapType
            /\ r.var = h.var /\ r.step = h.step /\ r.aStep = h.aStep /\ r.owned = h.owned
            /\ \A n \in Maps : n # m => r.map[n] = h.map[n]
            /\ r.map[m].ref = h.map[m].ref
            /\ r.map[m].keys = h.map[m].keys
            /\ r.map[m].active = Without(h.map[m].active, i)
<1> DEFINE m == h.step[i].map
           u == h.map[m]
           wo == Without(u.active, i)
           l == [u EXCEPT !.active = wo]
           e == [h.map EXCEPT ![m] = l]
<1>1. h.map \in [Maps -> MapType] /\ u \in MapType /\ u.active \in Seq(Steps)
  BY HeapParts
<1>2. Unregister(h, i) = [h EXCEPT !.map = e]
  BY <1>1, HeapIs DEF Unregister
<1>3. wo \in Seq(Steps)
  BY <1>1, WithoutType
<1> HIDE DEF wo
<1>4. l \in MapType /\ l.ref = u.ref /\ l.keys = u.keys /\ l.active = wo
  BY <1>1, <1>3 DEF MapType
<1> HIDE DEF l
<1>6. e \in [Maps -> MapType] /\ e[m] = l /\ \A n \in Maps : n # m => e[n] = h.map[n]
  BY <1>1, <1>4
<1> HIDE DEF e
<1>7. [h EXCEPT !.map = e] \in HeapType
  BY <1>6 DEF HeapType
<1>8. /\ Unregister(h, i).var = h.var /\ Unregister(h, i).step = h.step
      /\ Unregister(h, i).aStep = h.aStep /\ Unregister(h, i).owned = h.owned
      /\ Unregister(h, i).map = e
  BY <1>2 DEF HeapType
<1> QED BY <1>2, <1>4, <1>6, <1>7, <1>8 DEF wo

LEMMA StepUnlinkIs ==
  ASSUME NEW h, h \in HeapType, NEW i \in Steps
  PROVE  LET r == StepUnlink(h, i)
         IN /\ r \in HeapType
            /\ r.var = h.var /\ r.step = h.step /\ r.map = h.map
            /\ \A s \in Stmts : r.aStep[s] = Without(h.aStep[s], i)
            /\ \A f \in Frames : r.owned[f] = Without(h.owned[f], i)
<1> DEFINE a == [s \in Stmts |-> Without(h.aStep[s], i)]
           o == [f \in Frames |-> Without(h.owned[f], i)]
<1>1. StepUnlink(h, i) = [h EXCEPT !.aStep = a, !.owned = o]
  BY DEF StepUnlink
<1>2. a \in [Stmts -> Seq(Steps)] /\ o \in [Frames -> Seq(Steps)]
  BY WithoutType, HeapParts
<1>3. (\A s \in Stmts : a[s] = Without(h.aStep[s], i))
      /\ (\A f \in Frames : o[f] = Without(h.owned[f], i))
  OBVIOUS
<1> HIDE DEF a, o
<1>4. StepUnlink(h, i) \in HeapType
  BY <1>1, <1>2 DEF HeapType
<1>5. /\ StepUnlink(h, i).var = h.var /\ StepUnlink(h, i).step = h.step
      /\ StepUnlink(h, i).map = h.map
      /\ StepUnlink(h, i).aStep = a /\ StepUnlink(h, i).owned = o
  BY <1>1 DEF HeapType
<1> QED BY <1>3, <1>4, <1>5

LEMMA StepSetIs ==
  ASSUME NEW h, h \in HeapType, NEW i \in Steps, NEW x \in StepType
  PROVE  LET r == [h EXCEPT !.step[i] = x]
         IN /\ r \in HeapType
            /\ r.var = h.var /\ r.map = h.map /\ r.aStep = h.aStep /\ r.owned = h.owned
            /\ r.step[i] = x /\ \A j \in Steps : j # i => r.step[j] = h.step[j]
<1>1. [h EXCEPT !.step[i] = x] = [h EXCEPT !.step = [h.step EXCEPT ![i] = x]]
  BY HeapIs
<1> DEFINE e == [h.step EXCEPT ![i] = x]
<1>2. e \in [Steps -> StepType] /\ e[i] = x /\ \A j \in Steps : j # i => e[j] = h.step[j]
  BY HeapParts
<1> HIDE DEF e
<1> QED BY <1>1, <1>2 DEF HeapType, e

(* A step that ends: its fields are cleared, it leaves its lists, and its  *)
(* map loses a reference.                                                  *)
Released(h, i, r) ==
  LET m == h.step[i].map
  IN /\ r.var = h.var
     /\ r.step[i] = FreeStep /\ \A j \in Steps : j # i => r.step[j] = h.step[j]
     /\ \A s \in Stmts : r.aStep[s] = Without(h.aStep[s], i)
     /\ \A f \in Frames : r.owned[f] = Without(h.owned[f], i)
     /\ \A n \in Maps : n # m => r.map[n] = h.map[n]
     /\ h.map[m].ref = 1 => r.map[m] = FreeMap
     /\ h.map[m].ref # 1 => /\ r.map[m].ref = h.map[m].ref - 1
                            /\ r.map[m].keys = h.map[m].keys
                            /\ r.map[m].active = Without(h.map[m].active, i)

LEMMA StepReleaseIs ==
  ASSUME NEW h, h \in HeapType, NEW i \in Steps, h.step[i].map \in Maps,
         h.map[h.step[i].map].ref > 0
  PROVE  StepRelease(h, i) \in HeapType /\ Released(h, i, StepRelease(h, i))
<1> DEFINE m == h.step[i].map
           u == Unregister(h, i)
           v == StepUnlink(u, i)
           w == [v EXCEPT !.step[i] = FreeStep]
           r == Unref(w, m)
<1>1. /\ u \in HeapType
      /\ u.var = h.var /\ u.step = h.step /\ u.aStep = h.aStep /\ u.owned = h.owned
      /\ \A n \in Maps : n # m => u.map[n] = h.map[n]
      /\ u.map[m].ref = h.map[m].ref
      /\ u.map[m].keys = h.map[m].keys
      /\ u.map[m].active = Without(h.map[m].active, i)
  BY UnregisterIs
<1> HIDE DEF u
<1>2. /\ v \in HeapType
      /\ v.var = u.var /\ v.step = u.step /\ v.map = u.map
      /\ \A s \in Stmts : v.aStep[s] = Without(u.aStep[s], i)
      /\ \A f \in Frames : v.owned[f] = Without(u.owned[f], i)
  BY <1>1, StepUnlinkIs
<1> HIDE DEF v
<1>3. /\ w \in HeapType
      /\ w.var = v.var /\ w.map = v.map /\ w.aStep = v.aStep /\ w.owned = v.owned
      /\ w.step[i] = FreeStep /\ \A j \in Steps : j # i => w.step[j] = v.step[j]
  BY <1>2, StepSetIs, FreeIs
<1> HIDE DEF w
<1>4. m \in Maps /\ w.map[m].ref > 0
  BY <1>1, <1>2, <1>3
<1> HIDE DEF m
<1>5. /\ r \in HeapType
      /\ r.var = w.var /\ r.step = w.step /\ r.aStep = w.aStep /\ r.owned = w.owned
      /\ \A n \in Maps : n # m => r.map[n] = w.map[n]
      /\ w.map[m].ref = 1 => r.map[m] = FreeMap
      /\ w.map[m].ref # 1 => /\ r.map[m].ref = w.map[m].ref - 1
                             /\ r.map[m].keys = w.map[m].keys
                             /\ r.map[m].active = w.map[m].active
  BY <1>3, <1>4, UnrefIs
<1>6. StepRelease(h, i) = r
  BY DEF StepRelease, m, u, v, w
<1> HIDE DEF r
<1>7. Released(h, i, r)
  BY <1>1, <1>2, <1>3, <1>5, SMTT(40) DEF Released, m
<1> QED BY <1>5, <1>6, <1>7

---------------------------------------------------------------------------
(* A released step leaves a sound heap.                                    *)

LEMMA StepsAre ==
  ASSUME NEW h, h \in HeapType, NEW i \in Steps
  PROVE  /\ h.step[i].map \in {0} \cup Maps /\ h.step[i] \in StepType
         /\ h.step[i].map # 0 <=> h.step[i].map \in Maps
         /\ h.step[i].frame \in Frames \cup {None}
<1>1. h.step[i] \in StepType
  BY HeapParts
<1> QED BY <1>1, ZeroIs DEF StepType

LEMMA FreeStepIs ==
  /\ FreeStep.map = 0 /\ FreeStep.cursor = 0 /\ FreeStep.byRef = FALSE
  /\ FreeStep.frame = None /\ FreeStep.visited = 0 /\ FreeStep.over = None
  BY DEF FreeStep

LEMMA FreeMapIs ==
  FreeMap.ref = 0 /\ FreeMap.keys = << >> /\ FreeMap.active = << >>
  BY DEF FreeMap

LEMMA HeldIs ==
  ASSUME NEW h, h \in HeapType, Counted(h), NEW m \in Maps
  PROVE  /\ \A v \in Vars : h.var[v] = m => h.map[m].ref > 0
         /\ \A i \in Steps : h.step[i].map = m => h.map[m].ref > 0
         /\ h.map[m].ref = Count(h.var, h.step, m) /\ h.map[m].ref \in Nat
<1> DEFINE V == VarsOn(h.var, m)
           S == StepsOn(h.step, m)
<1>1. /\ IsFiniteSet(V) /\ Cardinality(V) \in Nat
      /\ IsFiniteSet(S) /\ Cardinality(S) \in Nat
      /\ h.map[m].ref = Cardinality(V) + Cardinality(S)
  BY CountsAre DEF Counted, Count
<1>2. ASSUME NEW v \in Vars, h.var[v] = m PROVE h.map[m].ref > 0
  <2>1. v \in V
    BY <1>2 DEF VarsOn
  <2> HIDE DEF V, S
  <2>2. Cardinality(V) # 0
    BY <1>1, <2>1, NoneCounted
  <2> QED BY <1>1, <2>2
<1>3. ASSUME NEW i \in Steps, h.step[i].map = m PROVE h.map[m].ref > 0
  <2>1. i \in S
    BY <1>3 DEF StepsOn
  <2> HIDE DEF V, S
  <2>2. Cardinality(S) # 0
    BY <1>1, <2>1, NoneCounted
  <2> QED BY <1>1, <2>2
<1>4. h.map[m].ref \in Nat
  BY HeapParts
<1> QED BY <1>2, <1>3, <1>4 DEF Counted

LEMMA ReleasedCounted ==
  ASSUME NEW h, NEW r, h \in HeapType, r \in HeapType, Counted(h),
         NEW i \in Steps, h.step[i].map # 0, Released(h, i, r)
  PROVE  Counted(r)
<1> SUFFICES ASSUME NEW n \in Maps PROVE r.map[n].ref = Count(r.var, r.step, n)
  BY DEF Counted
<1> DEFINE m == h.step[i].map
           V == VarsOn(h.var, n)
           S == StepsOn(h.step, n)
           U == StepsOn(r.step, n)
<1>1. m \in Maps
  BY StepsAre
<1>2. /\ IsFiniteSet(V) /\ Cardinality(V) \in Nat
      /\ IsFiniteSet(S) /\ Cardinality(S) \in Nat
      /\ h.map[n].ref = Cardinality(V) + Cardinality(S)
  BY CountsAre DEF Counted, Count
<1>3. r.var = h.var /\ r.step[i] = FreeStep /\ \A j \in Steps : j # i => r.step[j] = h.step[j]
  BY DEF Released
<1>4. \A j : j \in U <=> j \in S /\ j # i
  BY <1>3, FreeStepIs, ZeroIs DEF StepsOn
<1>5. Count(r.var, r.step, n) = Cardinality(V) + Cardinality(U)
  BY <1>3 DEF Count
<1>6. CASE n # m
  <2>1. i \notin S
    BY <1>6 DEF StepsOn
  <2>2. r.map[n] = h.map[n]
    BY <1>6 DEF Released
  <2> HIDE DEF V, S, U, m
  <2>3. Cardinality(U) = Cardinality(S)
    BY <1>4, <2>1, Unnoticed
  <2> QED BY <1>2, <1>5, <2>2, <2>3
<1>7. CASE n = m
  <2>1. i \in S
    BY <1>7 DEF StepsOn
  <2>2. /\ h.map[n].ref = 1 => r.map[n] = FreeMap
        /\ h.map[n].ref # 1 => r.map[n].ref = h.map[n].ref - 1
    BY <1>7 DEF Released
  <2> HIDE DEF V, S, U, m
  <2>3. Cardinality(U) = Cardinality(S) - 1
    BY <1>2, <1>4, <2>1, OneLess
  <2> QED BY <1>2, <1>5, <2>2, <2>3, FreeMapIs
<1> QED BY <1>6, <1>7

(* A map that goes with its last reference is on no list and in no variable. *)
LEMMA LastReference ==
  ASSUME NEW h, h \in HeapType, Counted(h), NEW m \in Maps, h.map[m].ref = 1
  PROVE  /\ \A i, j \in Steps : h.step[i].map = m /\ h.step[j].map = m => i = j
         /\ \A i \in Steps, v \in Vars : ~(h.step[i].map = m /\ h.var[v] = m)
         /\ \A v, w \in Vars : h.var[v] = m /\ h.var[w] = m => v = w
<1> DEFINE V == VarsOn(h.var, m)
           S == StepsOn(h.step, m)
<1>1. /\ IsFiniteSet(V) /\ Cardinality(V) \in Nat
      /\ IsFiniteSet(S) /\ Cardinality(S) \in Nat
      /\ 1 = Cardinality(V) + Cardinality(S)
  BY CountsAre DEF Counted, Count
<1>2. (\A v \in Vars : h.var[v] = m <=> v \in V) /\ (\A i \in Steps : h.step[i].map = m <=> i \in S)
  BY DEF VarsOn, StepsOn
<1> HIDE DEF V, S
<1>3. CASE Cardinality(V) = 0 /\ Cardinality(S) = 1
  <2>1. (\A v : v \notin V) /\ \E x : S = {x}
    BY <1>1, <1>3, NoneCounted, FS_Singleton
  <2> QED BY <1>2, <2>1
<1>4. CASE Cardinality(V) = 1 /\ Cardinality(S) = 0
  <2>1. (\A v : v \notin S) /\ \E x : V = {x}
    BY <1>1, <1>4, NoneCounted, FS_Singleton
  <2> QED BY <1>2, <2>1
<1> QED BY <1>1, <1>3, <1>4

LEMMA ReleasedLists ==
  ASSUME NEW h, NEW r, h \in HeapType, r \in HeapType, Sound(h),
         NEW i \in Steps, h.step[i].map # 0, Released(h, i, r)
  PROVE  /\ MapLists(r) /\ FrameLists(r) /\ StmtLists(r) /\ Single(r) /\ Pools(r)
<1> DEFINE m == h.step[i].map
<1>0. m \in Maps
  BY StepsAre
<1>1. r.var = h.var /\ r.step[i] = FreeStep /\ \A j \in Steps : j # i => r.step[j] = h.step[j]
  BY DEF Released
<1>2. \A j \in Steps : r.step[j].map # 0 => j # i /\ h.step[j].map # 0
  BY <1>1, FreeStepIs
<1>3. MapLists(r)
  <2> SUFFICES ASSUME NEW n \in Maps
               PROVE  /\ Distinct(r.map[n].active)
                      /\ \A j \in Steps : j \in Range(r.map[n].active) <=> r.step[j].map = n
    BY DEF MapLists
  <2>0. /\ h.map[n].active \in Seq(Steps) /\ Distinct(h.map[n].active)
        /\ \A j \in Steps : j \in Range(h.map[n].active) <=> h.step[j].map = n
    BY HeapParts DEF Sound, MapLists
  <2>1. CASE n # m
    <3>1. r.map[n] = h.map[n]
      BY <2>1 DEF Released
    <3> QED BY <2>0, <2>1, <3>1, <1>1, FreeStepIs, ZeroIs
  <2>2. CASE n = m /\ h.map[n].ref = 1
    <3>1. r.map[n] = FreeMap
      BY <2>2 DEF Released
    <3>2. \A j \in Steps : r.step[j].map # n
      BY <2>2, <1>1, FreeStepIs, ZeroIs, LastReference DEF Sound
    <3> QED BY <3>1, <3>2, FreeMapIs, EmptyIs
  <2>3. CASE n = m /\ h.map[n].ref # 1
    <3>1. r.map[n].active = Without(h.map[n].active, i)
      BY <2>3 DEF Released
    <3>2. /\ Distinct(Without(h.map[n].active, i))
          /\ \A j : j \in Range(Without(h.map[n].active, i)) <=>
                    j \in Range(h.map[n].active) /\ j # i
      BY <2>0, WithoutIs
    <3> QED BY <2>0, <3>1, <3>2, <1>1, FreeStepIs, ZeroIs
  <2> QED BY <2>1, <2>2, <2>3
<1>4. FrameLists(r)
  <2> SUFFICES ASSUME NEW f \in Frames
               PROVE  /\ Distinct(r.owned[f])
                      /\ \A j \in Steps : j \in Range(r.owned[f]) <=>
                                          r.step[j].map # 0 /\ r.step[j].frame = f
    BY DEF FrameLists
  <2>0. /\ h.owned[f] \in Seq(Steps) /\ Distinct(h.owned[f])
        /\ \A j \in Steps : j \in Range(h.owned[f]) <=>
                            h.step[j].map # 0 /\ h.step[j].frame = f
    BY HeapParts DEF Sound, FrameLists
  <2>1. r.owned[f] = Without(h.owned[f], i)
    BY DEF Released
  <2>2. /\ Distinct(Without(h.owned[f], i))
        /\ \A j : j \in Range(Without(h.owned[f], i)) <=> j \in Range(h.owned[f]) /\ j # i
    BY <2>0, WithoutIs
  <2> QED BY <2>0, <2>1, <2>2, <1>1, FreeStepIs
<1>5. \A s \in Stmts : /\ Distinct(r.aStep[s])
                       /\ \A j \in Steps : On(r, s, j) <=> On(h, s, j) /\ j # i
  <2> TAKE s \in Stmts
  <2>0. h.aStep[s] \in Seq(Steps) /\ Distinct(h.aStep[s])
    BY HeapParts DEF Sound, StmtLists
  <2>1. r.aStep[s] = Without(h.aStep[s], i)
    BY DEF Released
  <2>2. /\ Distinct(Without(h.aStep[s], i))
        /\ \A j : j \in Range(Without(h.aStep[s], i)) <=> j \in Range(h.aStep[s]) /\ j # i
    BY <2>0, WithoutIs
  <2> QED BY <2>1, <2>2 DEF On
<1>6. StmtLists(r)
  <2>1. /\ \A s \in Stmts : \A j \in Steps : On(h, s, j) => h.step[j].map # 0
        /\ \A j \in Steps : h.step[j].map # 0 => \E s \in Stmts : On(h, s, j)
        /\ \A j \in Steps : \A s, t \in Stmts : On(h, s, j) /\ On(h, t, j) => s = t
    BY DEF Sound, StmtLists
  <2>2. /\ \A s \in Stmts : \A j \in Steps : On(r, s, j) => r.step[j].map # 0
        /\ \A j \in Steps : r.step[j].map # 0 => \E s \in Stmts : On(r, s, j)
        /\ \A j \in Steps : \A s, t \in Stmts : On(r, s, j) /\ On(r, t, j) => s = t
    BY <2>1, <1>1, <1>2, <1>5
  <2> QED BY <2>2, <1>5 DEF StmtLists
<1>7. Single(r)
  BY <1>1, <1>5 DEF Sound, Single
<1>8. Pools(r)
  <2>1. \A j \in Steps : r.step[j].map = 0 => r.step[j] = FreeStep
    BY <1>1 DEF Sound, Pools
  <2>2. ASSUME NEW n \in Maps, r.map[n].ref = 0 PROVE r.map[n] = FreeMap
    <3>1. CASE n # m
      BY <2>2, <3>1 DEF Sound, Pools, Released
    <3>2. CASE n = m /\ h.map[n].ref = 1
      BY <3>2 DEF Released
    <3>3. CASE n = m /\ h.map[n].ref # 1
      <4>1. r.map[n].ref = h.map[n].ref - 1 /\ h.map[n].ref \in Nat
        BY <3>3, HeapParts DEF Released
      <4> QED BY <4>1, <3>3, <2>2
    <3> QED BY <3>1, <3>2, <3>3
  <2> QED BY <2>1, <2>2 DEF Pools
<1> QED BY <1>3, <1>4, <1>6, <1>7, <1>8

LEMMA ReleaseSound ==
  ASSUME NEW h, Sound(h), NEW i \in Steps, h.step[i].map # 0
  PROVE  Sound(StepRelease(h, i)) /\ Released(h, i, StepRelease(h, i))
<1> DEFINE r == StepRelease(h, i)
<1>1. h \in HeapType /\ Counted(h) /\ h.step[i].map \in Maps
  BY StepsAre DEF Sound
<1>2. h.map[h.step[i].map].ref > 0
  BY <1>1, HeldIs
<1>3. r \in HeapType /\ Released(h, i, r)
  BY <1>1, <1>2, StepReleaseIs
<1> HIDE DEF r
<1>4. Counted(r)
  BY <1>1, <1>3, ReleasedCounted
<1>5. MapLists(r) /\ FrameLists(r) /\ StmtLists(r) /\ Single(r) /\ Pools(r)
  BY <1>1, <1>3, ReleasedLists
<1>6. Sound(r)
  BY <1>3, <1>4, <1>5 DEF Sound
<1> QED BY <1>3, <1>6 DEF r

---------------------------------------------------------------------------
(* What a heap keeps when the steps of a set end, one after another.       *)

Spared(h, r, gone) ==
  /\ r.var = h.var
  /\ \A j \in Steps : r.step[j] = IF j \in gone THEN FreeStep ELSE h.step[j]
  /\ \A m \in Maps : r.map[m].ref > 0 => h.map[m].ref > 0 /\ r.map[m].keys = h.map[m].keys
  /\ \A s \in Stmts : \A j \in Steps : On(r, s, j) <=> On(h, s, j) /\ j \notin gone

LEMMA SparedNone == ASSUME NEW h PROVE Spared(h, h, {})
  BY DEF Spared

LEMMA ReleasedSpares ==
  ASSUME NEW h, Sound(h), NEW i \in Steps, NEW r, r \in HeapType, Released(h, i, r)
  PROVE  Spared(h, r, {i})
<1> DEFINE m == h.step[i].map
<1>1. r.var = h.var /\ \A j \in Steps : r.step[j] = IF j \in {i} THEN FreeStep ELSE h.step[j]
  BY DEF Released
<1>2. ASSUME NEW n \in Maps, r.map[n].ref > 0
      PROVE  h.map[n].ref > 0 /\ r.map[n].keys = h.map[n].keys
  <2>1. CASE n # m
    <3>1. r.map[n] = h.map[n]
      BY <2>1 DEF Released
    <3> QED BY <1>2, <3>1
  <2>2. CASE n = m /\ h.map[n].ref = 1
    <3>1. r.map[n] = FreeMap
      BY <2>2 DEF Released
    <3> QED BY <1>2, <3>1, FreeMapIs
  <2>3. CASE n = m /\ h.map[n].ref # 1
    <3>1. r.map[n].ref = h.map[n].ref - 1 /\ r.map[n].keys = h.map[n].keys
      BY <2>3 DEF Released
    <3>2. h.map[n].ref \in Nat
      BY HeapParts DEF Sound
    <3> QED BY <1>2, <3>1, <3>2
  <2> QED BY <2>1, <2>2, <2>3
<1>3. ASSUME NEW s \in Stmts PROVE \A j \in Steps : On(r, s, j) <=> On(h, s, j) /\ j \notin {i}
  <2>0. h.aStep[s] \in Seq(Steps) /\ Distinct(h.aStep[s])
    BY HeapParts DEF Sound, StmtLists
  <2>1. r.aStep[s] = Without(h.aStep[s], i)
    BY DEF Released
  <2>2. \A j : j \in Range(Without(h.aStep[s], i)) <=> j \in Range(h.aStep[s]) /\ j # i
    BY <2>0, WithoutIs
  <2> QED BY <2>1, <2>2 DEF On
<1> QED BY <1>1, <1>2, <1>3 DEF Spared

LEMMA SparedTwice ==
  ASSUME NEW h, NEW r, NEW q, NEW A, NEW B, Spared(h, r, A), Spared(r, q, B)
  PROVE  Spared(h, q, A \cup B)
<1>1. q.var = h.var
  BY DEF Spared
<1>2. \A j \in Steps : q.step[j] = IF j \in A \cup B THEN FreeStep ELSE h.step[j]
  <2> TAKE j \in Steps
  <2>1. /\ r.step[j] = IF j \in A THEN FreeStep ELSE h.step[j]
        /\ q.step[j] = IF j \in B THEN FreeStep ELSE r.step[j]
    BY DEF Spared
  <2> QED BY <2>1
<1>3. \A m \in Maps : q.map[m].ref > 0 => h.map[m].ref > 0 /\ q.map[m].keys = h.map[m].keys
  BY DEF Spared
<1>4. \A s \in Stmts : \A j \in Steps : On(q, s, j) <=> On(h, s, j) /\ j \notin A \cup B
  BY DEF Spared
<1> QED BY <1>1, <1>2, <1>3, <1>4 DEF Spared

LEMMA SparedOrdered ==
  ASSUME NEW h, NEW r, NEW gone, NEW n \in Nat, Sound(r), Ordered(h, n), Spared(h, r, gone)
  PROVE  Ordered(r, n)
<1>0. r \in HeapType /\ Counted(r) /\ Pools(r)
  BY DEF Sound
<1>1. ASSUME NEW m \in Maps
      PROVE  Rising(r.map[m].keys) /\ \A k \in Range(r.map[m].keys) : k <= n
  <2>0. r.map[m].ref \in Nat
    BY <1>0, HeapParts
  <2>1. CASE r.map[m].ref = 0
    <3>1. r.map[m].keys = << >>
      BY <1>0, <2>1, FreeMapIs DEF Pools
    <3> QED BY <3>1, EmptyIs
  <2>2. CASE r.map[m].ref > 0
    <3>1. r.map[m].keys = h.map[m].keys
      BY <2>2 DEF Spared
    <3> QED BY <3>1 DEF Ordered
  <2> QED BY <2>0, <2>1, <2>2
<1>2. ASSUME NEW j \in Steps, r.step[j].map # 0
      PROVE  /\ r.step[j].visited <= n
             /\ Aimed(r.map[r.step[j].map].keys, r.step[j].cursor, r.step[j].visited)
  <2>1. r.step[j] = h.step[j]
    BY <1>2, FreeStepIs DEF Spared
  <2>2. r.step[j].map \in Maps
    BY <1>0, <1>2, StepsAre
  <2>3. r.map[r.step[j].map].ref > 0
    BY <1>0, <2>2, HeldIs
  <2>4. r.map[r.step[j].map].keys = h.map[r.step[j].map].keys
    BY <2>2, <2>3 DEF Spared
  <2> QED BY <1>2, <2>1, <2>4 DEF Ordered
<1> QED BY <1>1, <1>2 DEF Ordered

LEMMA NatMin ==
  ASSUME NEW S \in SUBSET Nat, S # {}
  PROVE  \E x \in S : \A y \in S : x <= y
<1>1. PICK x \in S : \A y \in S : ~(<<y, x>> \in OpToRel(<, Nat))
  <2>1. IsWellFoundedOn(OpToRel(<, Nat), Nat)
    BY NatLessThanWellFounded
  <2> HIDE DEF OpToRel
  <2> QED BY <2>1, WFMin
<1>2. \A y \in S : ~(y < x)
  BY <1>1 DEF OpToRel
<1>3. x \in Nat /\ \A y \in S : y \in Nat
  OBVIOUS
<1> QED BY <1>2, <1>3

(* The heaps on the way through a list of steps.                           *)
Chain(h, list, g, n) ==
  g = [m \in 0 .. n |-> IF m = 0 THEN h ELSE StepRelease(g[m - 1], list[m])]

LEMMA ChainExists ==
  ASSUME NEW h, NEW list, NEW n \in Nat
  PROVE  \E g : Chain(h, list, g, n)
<1> DEFINE Bad == {m \in Nat : ~ \E g : Chain(h, list, g, m)}
<1> SUFFICES ASSUME Bad # {} PROVE FALSE
  OBVIOUS
<1>1. PICK m \in Bad : \A k \in Bad : m <= k
  <2> HIDE DEF Bad
  <2>1. Bad \in SUBSET Nat
    BY DEF Bad
  <2> QED BY <2>1, NatMin
<1>2. CASE m = 0
  <2> DEFINE g == [k \in 0 .. 0 |-> h]
  <2>1. g = [k \in 0 .. 0 |-> IF k = 0 THEN h ELSE StepRelease(g[k - 1], list[k])]
    OBVIOUS
  <2> HIDE DEF g
  <2> QED BY <1>1, <1>2, <2>1 DEF Chain
<1>3. CASE m # 0
  <2>1. m - 1 \in Nat /\ m - 1 \notin Bad
    BY <1>1, <1>3
  <2>2. PICK g : Chain(h, list, g, m - 1)
    BY <2>1
  <2> DEFINE e == [k \in 0 .. m |-> IF k = m THEN StepRelease(g[m - 1], list[m]) ELSE g[k]]
  <2>3. /\ g = [k \in 0 .. m - 1 |-> IF k = 0 THEN h ELSE StepRelease(g[k - 1], list[k])]
        /\ \A k \in 0 .. m - 1 : e[k] = g[k]
    BY <1>1, <2>2 DEF Chain
  <2>4. \A k \in 0 .. m : e[k] = IF k = 0 THEN h ELSE StepRelease(e[k - 1], list[k])
    <3> TAKE k \in 0 .. m
    <3>1. CASE k = m
      <4>1. e[k] = StepRelease(g[m - 1], list[m]) /\ m - 1 \in 0 .. m - 1
        BY <3>1, <1>1, <1>3
      <4> QED BY <4>1, <3>1, <1>3, <2>3
    <3>2. CASE k # m
      <4>1. k \in 0 .. m - 1 /\ k # 0 => k - 1 \in 0 .. m - 1
        BY <3>2, <1>1
      <4>2. k \in 0 .. m - 1
        BY <3>2, <1>1
      <4>3. g[k] = IF k = 0 THEN h ELSE StepRelease(g[k - 1], list[k])
        BY <4>2, <2>3
      <4> HIDE DEF e
      <4> QED BY <4>1, <4>2, <4>3, <2>3
    <3> QED BY <3>1, <3>2
  <2>5. e = [k \in 0 .. m |-> e[k]]
    OBVIOUS
  <2> HIDE DEF e
  <2>6. Chain(h, list, e, m)
    BY <2>4, <2>5 DEF Chain
  <2> QED BY <1>1, <2>6
<1> QED BY <1>2, <1>3

LEMMA ReleaseAllIs ==
  ASSUME NEW h, NEW list \in Seq(Steps)
  PROVE  \E g : Chain(h, list, g, Len(list)) /\ ReleaseAll(h, list) = g[Len(list)]
<1>1. Len(list) \in Nat
  OBVIOUS
<1>2. \E g : Chain(h, list, g, Len(list))
  BY <1>1, ChainExists
<1>3. \E g : g = [m \in 0 .. Len(list) |-> IF m = 0 THEN h ELSE StepRelease(g[m - 1], list[m])]
  BY <1>2 DEF Chain
<1> QED BY <1>3, Zenon DEF ReleaseAll, Chain

LEMMA ReleaseAllSound ==
  ASSUME NEW h, Sound(h), NEW list \in Seq(Steps), Distinct(list),
         \A i \in Range(list) : h.step[i].map # 0
  PROVE  Sound(ReleaseAll(h, list)) /\ Spared(h, ReleaseAll(h, list), Range(list))
<1>1. PICK g : Chain(h, list, g, Len(list)) /\ ReleaseAll(h, list) = g[Len(list)]
  BY ReleaseAllIs
<1>2. Len(list) \in Nat /\ DOMAIN list = 1 .. Len(list) /\ \A i \in DOMAIN list : list[i] \in Steps
  BY SeqIs
<1>3. /\ g[0] = h
      /\ \A m \in 1 .. Len(list) : g[m] = StepRelease(g[m - 1], list[m])
  BY <1>1, <1>2 DEF Chain
<1> DEFINE Gone(m) == {list[j] : j \in 1 .. m}
           Good(m) == Sound(g[m]) /\ Spared(h, g[m], Gone(m))
           Bad == {m \in 0 .. Len(list) : ~Good(m)}
<1>4. Good(0)
  <2>1. Gone(0) = {}
    OBVIOUS
  <2> QED BY <1>3, <2>1, SparedNone
<1>5. ASSUME NEW m \in 1 .. Len(list), Good(m - 1) PROVE Good(m)
  <2> DEFINE p == g[m - 1]
             i == list[m]
             A == Gone(m - 1)
  <2>1. i \in Steps /\ i \in Range(list)
    BY <1>2, RangeIs
  <2>2. i \notin A
    BY <1>2 DEF Distinct
  <2>3. Gone(m) = A \cup {i}
    <3>1. \A j \in 1 .. m : j = m \/ j \in 1 .. m - 1
      BY <1>2
    <3>2. m \in 1 .. m /\ \A j \in 1 .. m - 1 : j \in 1 .. m
      BY <1>2
    <3> QED BY <3>1, <3>2
  <2>4. Sound(p) /\ Spared(h, p, A)
    BY <1>5
  <2>5. g[m] = StepRelease(p, i)
    BY <1>3
  <2>6. Gone(m) = A \cup {i} => (Good(m) <=> Sound(g[m]) /\ Spared(h, g[m], A \cup {i}))
    OBVIOUS
  <2> HIDE DEF p, i, A, Good, Gone
  <2>7. p.step[i].map # 0
    <3>1. p.step[i] = h.step[i]
      BY <2>1, <2>2, <2>4 DEF Spared
    <3> QED BY <2>1, <3>1
  <2>8. Sound(g[m]) /\ Released(p, i, g[m])
    BY <2>1, <2>4, <2>5, <2>7, ReleaseSound
  <2>9. g[m] \in HeapType
    BY <2>8 DEF Sound
  <2>10. Spared(p, g[m], {i})
    BY <2>1, <2>4, <2>8, <2>9, ReleasedSpares
  <2>11. Spared(h, g[m], A \cup {i})
    BY <2>4, <2>10, SparedTwice
  <2> QED BY <2>3, <2>6, <2>8, <2>11
<1>6. Good(Len(list))
  <2> SUFFICES ASSUME ~Good(Len(list)) PROVE FALSE
    OBVIOUS
  <2>1. Len(list) \in Bad
    BY <1>2
  <2>2. Bad \in SUBSET Nat /\ Bad # {}
    <3> HIDE DEF Good
    <3> QED BY <1>2, <2>1
  <2>3. PICK m \in Bad : \A k \in Bad : m <= k
    <3> HIDE DEF Bad
    <3> QED BY <2>2, NatMin
  <2>4. m \in 0 .. Len(list) /\ ~Good(m)
    BY <2>3
  <2>5. m \in 1 .. Len(list)
    <3> HIDE DEF Good
    <3> QED BY <1>2, <1>4, <2>4
  <2>6. m - 1 \notin Bad /\ m - 1 \in 0 .. Len(list)
    <3>1. m - 1 < m /\ m - 1 \in 0 .. Len(list) /\ m \in Nat
      BY <1>2, <2>5
    <3>2. m - 1 \in Bad => m <= m - 1
      BY <2>3
    <3> HIDE DEF Bad
    <3> QED BY <3>1, <3>2
  <2>7. Good(m - 1)
    BY <2>6
  <2> HIDE DEF Good
  <2> QED BY <1>5, <2>4, <2>5, <2>7
<1>7. Gone(Len(list)) = Range(list)
  BY <1>2 DEF Range
<1>8. Sound(g[Len(list)]) /\ Spared(h, g[Len(list)], Gone(Len(list)))
  BY <1>6
<1> HIDE DEF Gone
<1> QED BY <1>1, <1>7, <1>8

(* A frame leaves at most one step behind on a statement, which the next   *)
(* loop of the frame there reclaims.                                       *)
LEMMA LeftoverIs ==
  ASSUME NEW h, Sound(h), NEW f \in Frames, NEW s \in Stmts
  PROVE  LET list == Leftover(h, f, s)
         IN /\ list \in Seq(Steps) /\ Distinct(list)
            /\ Range(list) = {i \in Steps : On(h, s, i) /\ h.step[i].frame = f}
<1> DEFINE a == h.aStep[s]
           mine == {j \in DOMAIN a : h.step[a[j]].frame = f}
           down == CHOOSE d \in [1 .. Cardinality(mine) -> mine] :
                     \A i, j \in DOMAIN d : i < j => d[i] > d[j]
           list == [n \in DOMAIN down |-> a[down[n]]]
           G == {i \in Steps : On(h, s, i) /\ h.step[i].frame = f}
<1>1. a \in Seq(Steps) /\ Distinct(a)
  BY HeapParts DEF Sound, StmtLists
<1>2. /\ DOMAIN a = 1 .. Len(a) /\ Len(a) \in Nat
      /\ \A j \in DOMAIN a : a[j] \in Steps
  BY <1>1, SeqIs
<1>3. \A i : i \in G <=> \E j \in mine : a[j] = i
  <2>1. \A i \in Steps : On(h, s, i) <=> \E j \in DOMAIN a : a[j] = i
    BY RangeIs DEF On
  <2> QED BY <1>2, <2>1
<1>4. \A i, j \in mine : i = j
  <2> TAKE i, j \in mine
  <2>1. /\ a[i] \in Steps /\ On(h, s, a[i]) /\ h.step[a[i]].frame = f
        /\ a[j] \in Steps /\ On(h, s, a[j]) /\ h.step[a[j]].frame = f
    BY <1>2, RangeIs DEF On
  <2>2. a[i] = a[j]
    BY <2>1 DEF Sound, Single
  <2> QED BY <1>1, <2>2 DEF Distinct
<1>5. Leftover(h, f, s) = list
  BY DEF Leftover
<1>6. CASE mine = {}
  <2>1. Cardinality(mine) = 0
    BY <1>6, FS_EmptySet
  <2> HIDE DEF mine
  <2> DEFINE nil == [n \in 1 .. 0 |-> 0]
  <2>2. nil \in [1 .. Cardinality(mine) -> mine] /\ DOMAIN nil = {}
    BY <2>1
  <2>3. \A d \in [1 .. Cardinality(mine) -> mine] : d = nil
    BY <2>1
  <2>4. down = nil
    BY <2>2, <2>3
  <2> HIDE DEF down
  <2>5. list = << >>
    <3>1. DOMAIN list = 1 .. 0 /\ list = [n \in 1 .. 0 |-> a[down[n]]]
      BY <2>4
    <3> HIDE DEF list
    <3>2. list \in Seq(Steps) /\ Len(list) = 0
      BY <3>1
    <3> QED BY <3>2
  <2>6. G = {}
    BY <1>3, <1>6
  <2> HIDE DEF list, G
  <2> QED BY <1>5, <2>5, <2>6, EmptyIs DEF G
<1>7. CASE mine # {}
  <2>1. PICK j : j \in mine
    BY <1>7
  <2>2. mine = {j}
    BY <1>4, <2>1
  <2>3. Cardinality(mine) = 1 /\ a[j] \in Steps
    BY <1>2, <2>1, <2>2, FS_Singleton
  <2> HIDE DEF mine
  <2> DEFINE one == [n \in 1 .. 1 |-> j]
  <2>4. one \in [1 .. Cardinality(mine) -> mine] /\ DOMAIN one = {1}
    BY <2>2, <2>3
  <2>5. \A d \in [1 .. Cardinality(mine) -> mine] : d = one
    BY <2>2, <2>3
  <2>6. \A i, k \in DOMAIN one : i < k => one[i] > one[k]
    BY <2>4
  <2>7. down = one
    BY <2>4, <2>5, <2>6
  <2> HIDE DEF down
  <2>8. list = <<a[j]>>
    BY <2>7
  <2>9. G = {a[j]}
    BY <1>3, <2>2
  <2>10. /\ <<a[j]>> \in Seq(Steps) /\ Distinct(<<a[j]>>)
         /\ Range(<<a[j]>>) = {a[j]}
    BY <2>3 DEF Distinct, Range
  <2> HIDE DEF list, G
  <2> QED BY <1>5, <2>8, <2>9, <2>10 DEF G
<1> QED BY <1>6, <1>7

LEMMA ReclaimedIs ==
  ASSUME Sound(Heap), NEW f \in Frames, NEW s \in Stmts
  PROVE  LET r == Reclaimed(f, s)
             gone == {i \in Steps : On(Heap, s, i) /\ Heap.step[i].frame = f}
         IN /\ Sound(r) /\ Spared(Heap, r, gone)
            /\ \A i \in Steps : ~(On(r, s, i) /\ r.step[i].frame = f)
<1> DEFINE r == Reclaimed(f, s)
           gone == {i \in Steps : On(Heap, s, i) /\ Heap.step[i].frame = f}
           list == Leftover(Heap, f, s)
<1>1. list \in Seq(Steps) /\ Distinct(list) /\ Range(list) = gone
  BY LeftoverIs
<1> HIDE DEF list
<1>2. \A i \in Range(list) : Heap.step[i].map # 0
  BY <1>1 DEF Sound, StmtLists
<1>3. Sound(ReleaseAll(Heap, list)) /\ Spared(Heap, ReleaseAll(Heap, list), Range(list))
  <2> DEFINE h == Heap
  <2>1. Sound(h) /\ \A i \in Range(list) : h.step[i].map # 0
    BY <1>2
  <2> HIDE DEF h
  <2>2. Sound(ReleaseAll(h, list)) /\ Spared(h, ReleaseAll(h, list), Range(list))
    BY <1>1, <2>1, ReleaseAllSound
  <2> QED BY <2>2 DEF h
<1>4. r = ReleaseAll(Heap, list)
  BY DEF Reclaimed, list
<1> HIDE DEF r
<1>5. \A i \in Steps : ~(On(r, s, i) /\ r.step[i].frame = f)
  <2> SUFFICES ASSUME NEW i \in Steps, On(r, s, i), r.step[i].frame = f PROVE FALSE
    OBVIOUS
  <2>1. On(Heap, s, i) /\ i \notin gone
    BY <1>1, <1>3, <1>4 DEF Spared
  <2>2. r.step[i] = Heap.step[i]
    BY <1>1, <1>3, <1>4, <2>1 DEF Spared
  <2> QED BY <2>1, <2>2
<1> QED BY <1>1, <1>3, <1>4, <1>5 DEF r

---------------------------------------------------------------------------
(* A loop that begins: step i, of frame f on statement s, walks map m and  *)
(* has a reference of its own.                                             *)
Begun(h, i, f, s, m, r) ==
  /\ h.step[i].map = 0 /\ r.step[i].map = m /\ r.step[i].frame = f
  /\ \A j \in Steps : j # i => r.step[j] = h.step[j]
  /\ r.var = h.var
  /\ \A n \in Maps : n # m => r.map[n] = h.map[n]
  /\ r.map[m].ref = h.map[m].ref + 1
  /\ r.map[m].active = <<i>> \o h.map[m].active
  /\ r.aStep[s] = Append(h.aStep[s], i)
  /\ \A t \in Stmts : t # s => r.aStep[t] = h.aStep[t]
  /\ r.owned[f] = <<i>> \o h.owned[f]
  /\ \A g \in Frames : g # f => r.owned[g] = h.owned[g]

LEMMA BegunCounted ==
  ASSUME NEW h, NEW r, h \in HeapType, r \in HeapType, Counted(h),
         NEW i \in Steps, NEW f \in Frames, NEW s \in Stmts, NEW m \in Maps,
         Begun(h, i, f, s, m, r)
  PROVE  Counted(r)
<1> SUFFICES ASSUME NEW n \in Maps PROVE r.map[n].ref = Count(r.var, r.step, n)
  BY DEF Counted
<1> DEFINE V == VarsOn(h.var, n)
           S == StepsOn(h.step, n)
           U == StepsOn(r.step, n)
<1>1. /\ IsFiniteSet(V) /\ Cardinality(V) \in Nat
      /\ IsFiniteSet(S) /\ Cardinality(S) \in Nat
      /\ h.map[n].ref = Cardinality(V) + Cardinality(S)
  BY CountsAre DEF Counted, Count
<1>2. i \notin S
  BY ZeroIs DEF Begun, StepsOn
<1>3. Count(r.var, r.step, n) = Cardinality(V) + Cardinality(U)
  BY DEF Count, Begun
<1>4. CASE n # m
  <2>1. \A j : j \in U <=> j \in S
    BY <1>4, ZeroIs DEF StepsOn, Begun
  <2>2. r.map[n] = h.map[n]
    BY <1>4 DEF Begun
  <2> HIDE DEF V, S, U
  <2>3. Cardinality(U) = Cardinality(S)
    BY <2>1, Unnoticed
  <2> QED BY <1>1, <1>3, <2>2, <2>3
<1>5. CASE n = m
  <2>1. \A j : j \in U <=> j \in S \/ j = i
    BY <1>5, ZeroIs DEF StepsOn, Begun
  <2>2. r.map[n].ref = h.map[n].ref + 1
    BY <1>5 DEF Begun
  <2> HIDE DEF V, S, U
  <2>3. Cardinality(U) = Cardinality(S) + 1
    BY <1>1, <1>2, <2>1, OneMore
  <2> QED BY <1>1, <1>3, <2>2, <2>3
<1> QED BY <1>4, <1>5

LEMMA BegunSound ==
  ASSUME NEW h, NEW r, Sound(h), r \in HeapType,
         NEW i \in Steps, NEW f \in Frames, NEW s \in Stmts, NEW m \in Maps,
         Begun(h, i, f, s, m, r),
         \A j \in Steps : ~(On(h, s, j) /\ h.step[j].frame = f)
  PROVE  /\ Sound(r)
         /\ \A t \in Stmts : \A j \in Steps :
              On(r, t, j) <=> On(h, t, j) \/ (t = s /\ j = i)
<1>0. h \in HeapType /\ Counted(h)
  BY DEF Sound
<1>1. Counted(r)
  BY <1>0, BegunCounted
<1>2. /\ h.step[i].map = 0 /\ r.step[i].map = m /\ m # 0 /\ r.step[i].frame = f
      /\ \A j \in Steps : j # i => r.step[j] = h.step[j]
  BY ZeroIs DEF Begun
<1>3. MapLists(r)
  <2> SUFFICES ASSUME NEW n \in Maps
               PROVE  /\ Distinct(r.map[n].active)
                      /\ \A j \in Steps : j \in Range(r.map[n].active) <=> r.step[j].map = n
    BY DEF MapLists
  <2>0. /\ h.map[n].active \in Seq(Steps) /\ Distinct(h.map[n].active)
        /\ \A j \in Steps : j \in Range(h.map[n].active) <=> h.step[j].map = n
    BY HeapParts DEF Sound, MapLists
  <2>1. CASE n # m
    <3>1. r.map[n] = h.map[n]
      BY <2>1 DEF Begun
    <3> QED BY <2>0, <2>1, <3>1, <1>2, ZeroIs
  <2>2. CASE n = m
    <3>1. r.map[n].active = <<i>> \o h.map[n].active
      BY <2>2 DEF Begun
    <3>2. i \notin Range(h.map[n].active)
      BY <2>0, <1>2, ZeroIs
    <3>3. /\ Distinct(<<i>> \o h.map[n].active)
          /\ \A j : j \in Range(<<i>> \o h.map[n].active) <=>
                    j \in Range(h.map[n].active) \/ j = i
      BY <2>0, <3>2, ConsIs
    <3> QED BY <2>0, <2>2, <3>1, <3>3, <1>2
  <2> QED BY <2>1, <2>2
<1>4. FrameLists(r)
  <2> SUFFICES ASSUME NEW g \in Frames
               PROVE  /\ Distinct(r.owned[g])
                      /\ \A j \in Steps : j \in Range(r.owned[g]) <=>
                                          r.step[j].map # 0 /\ r.step[j].frame = g
    BY DEF FrameLists
  <2>0. /\ h.owned[g] \in Seq(Steps) /\ Distinct(h.owned[g])
        /\ \A j \in Steps : j \in Range(h.owned[g]) <=>
                            h.step[j].map # 0 /\ h.step[j].frame = g
    BY HeapParts DEF Sound, FrameLists
  <2>1. CASE g # f
    <3>1. r.owned[g] = h.owned[g]
      BY <2>1 DEF Begun
    <3> QED BY <2>0, <2>1, <3>1, <1>2
  <2>2. CASE g = f
    <3>1. r.owned[g] = <<i>> \o h.owned[g]
      BY <2>2 DEF Begun
    <3>2. i \notin Range(h.owned[g])
      BY <2>0, <1>2
    <3>3. /\ Distinct(<<i>> \o h.owned[g])
          /\ \A j : j \in Range(<<i>> \o h.owned[g]) <=> j \in Range(h.owned[g]) \/ j = i
      BY <2>0, <3>2, ConsIs
    <3> QED BY <2>0, <2>2, <3>1, <3>3, <1>2
  <2> QED BY <2>1, <2>2
<1>5. ASSUME NEW t \in Stmts
      PROVE  /\ Distinct(r.aStep[t])
             /\ \A j \in Steps : On(r, t, j) <=> On(h, t, j) \/ (t = s /\ j = i)
  <2>0. /\ h.aStep[t] \in Seq(Steps) /\ Distinct(h.aStep[t])
        /\ \A j \in Steps : On(h, t, j) => h.step[j].map # 0
    BY HeapParts DEF Sound, StmtLists
  <2>1. CASE t # s
    <3>1. r.aStep[t] = h.aStep[t]
      BY <2>1 DEF Begun
    <3> QED BY <2>0, <2>1, <3>1 DEF On
  <2>2. CASE t = s
    <3>1. r.aStep[t] = Append(h.aStep[t], i)
      BY <2>2 DEF Begun
    <3>2. i \notin Range(h.aStep[t])
      BY <2>0, <1>2 DEF On
    <3>3. /\ Distinct(Append(h.aStep[t], i))
          /\ \A j : j \in Range(Append(h.aStep[t], i)) <=> j \in Range(h.aStep[t]) \/ j = i
      BY <2>0, <3>2, SnocIs
    <3> QED BY <2>2, <3>1, <3>3 DEF On
  <2> QED BY <2>1, <2>2
<1>6. StmtLists(r)
  <2>1. /\ \A t \in Stmts : \A j \in Steps : On(h, t, j) => h.step[j].map # 0
        /\ \A j \in Steps : h.step[j].map # 0 => \E t \in Stmts : On(h, t, j)
        /\ \A j \in Steps : \A t, u \in Stmts : On(h, t, j) /\ On(h, u, j) => t = u
    BY DEF Sound, StmtLists
  <2>2. \A t \in Stmts : \A j \in Steps : On(r, t, j) => r.step[j].map # 0
    BY <2>1, <1>2, <1>5
  <2>3. \A j \in Steps : r.step[j].map # 0 => \E t \in Stmts : On(r, t, j)
    BY <2>1, <1>2, <1>5
  <2>4. \A j \in Steps : \A t, u \in Stmts : On(r, t, j) /\ On(r, u, j) => t = u
    BY <2>1, <1>2, <1>5
  <2> QED BY <2>2, <2>3, <2>4, <1>5 DEF StmtLists
<1>7. Single(r)
  <2> SUFFICES ASSUME NEW t \in Stmts, NEW j \in Steps, NEW k \in Steps,
                      On(r, t, j), On(r, t, k), r.step[j].frame = r.step[k].frame
               PROVE  j = k
    BY DEF Single
  <2>1. CASE On(h, t, j) /\ On(h, t, k)
    <3>1. j # i /\ k # i
      BY <2>1, <1>2 DEF Sound, StmtLists
    <3> QED BY <2>1, <3>1, <1>2 DEF Sound, Single
  <2>2. CASE ~(On(h, t, j) /\ On(h, t, k))
    <3>1. t = s /\ (j = i \/ k = i)
      BY <2>2, <1>5
    <3>2. ASSUME NEW l \in Steps, On(r, s, l), r.step[l].frame = f, l # i PROVE FALSE
      <4>1. On(h, s, l) /\ h.step[l].frame = f
        BY <3>2, <1>2, <1>5
      <4> QED BY <4>1
    <3> QED BY <3>1, <3>2, <1>2
  <2> QED BY <2>1, <2>2
<1>8. Pools(r)
  <2>1. \A j \in Steps : r.step[j].map = 0 => r.step[j] = FreeStep
    BY <1>2 DEF Sound, Pools
  <2>2. ASSUME NEW n \in Maps, r.map[n].ref = 0 PROVE r.map[n] = FreeMap
    <3>1. CASE n # m
      BY <2>2, <3>1 DEF Sound, Pools, Begun
    <3>2. CASE n = m
      <4>1. r.map[n].ref = h.map[n].ref + 1 /\ h.map[n].ref \in Nat
        BY <1>0, <3>2, HeapParts DEF Begun
      <4> QED BY <4>1, <2>2
    <3> QED BY <3>1, <3>2
  <2> QED BY <2>1, <2>2 DEF Pools
<1> QED BY <1>1, <1>3, <1>4, <1>5, <1>6, <1>7, <1>8 DEF Sound

---------------------------------------------------------------------------
(* A variable that comes to hold another map, or none.                     *)
Rebound(h, v, to, r) ==
  LET old == h.var[v]
  IN /\ \A x \in Vars : r.var[x] = IF x = v THEN to ELSE h.var[x]
     /\ r.aStep = h.aStep /\ r.owned = h.owned
     /\ \A i \in Steps : /\ r.step[i].map = h.step[i].map
                         /\ r.step[i].frame = h.step[i].frame
                         /\ r.step[i].cursor = h.step[i].cursor
                         /\ r.step[i].visited = h.step[i].visited
                         /\ r.step[i].byRef = h.step[i].byRef
                         /\ h.step[i].map = 0 => r.step[i] = h.step[i]
     /\ \A n \in Maps : n # to /\ n # old => r.map[n] = h.map[n]
     /\ to # 0 => r.map[to].ref = h.map[to].ref + 1 /\ r.map[to].active = h.map[to].active
     /\ old # 0 => /\ h.map[old].ref = 1 => r.map[old] = FreeMap
                   /\ h.map[old].ref # 1 => /\ r.map[old].ref = h.map[old].ref - 1
                                            /\ r.map[old].keys = h.map[old].keys
                                            /\ r.map[old].active = h.map[old].active

LEMMA ReboundCounted ==
  ASSUME NEW h, NEW r, h \in HeapType, r \in HeapType, Counted(h),
         NEW v \in Vars, NEW to \in {0} \cup Maps, to # h.var[v], Rebound(h, v, to, r)
  PROVE  Counted(r)
<1> SUFFICES ASSUME NEW n \in Maps PROVE r.map[n].ref = Count(r.var, r.step, n)
  BY DEF Counted
<1> DEFINE V == VarsOn(h.var, n)
           W == VarsOn(r.var, n)
           S == StepsOn(h.step, n)
           old == h.var[v]
<1>1. /\ IsFiniteSet(V) /\ Cardinality(V) \in Nat
      /\ IsFiniteSet(S) /\ Cardinality(S) \in Nat
      /\ h.map[n].ref = Cardinality(V) + Cardinality(S)
  BY CountsAre DEF Counted, Count
<1>2. n # 0
  BY ZeroIs
<1>3. StepsOn(r.step, n) = S
  BY DEF Rebound, StepsOn
<1>4. Count(r.var, r.step, n) = Cardinality(W) + Cardinality(S)
  BY <1>3 DEF Count
<1>5. \A x \in Vars : r.var[x] = IF x = v THEN to ELSE h.var[x]
  BY DEF Rebound
<1>6. CASE n # to /\ n # old
  <2>1. \A x : x \in W <=> x \in V
    BY <1>5, <1>6 DEF VarsOn
  <2>2. r.map[n] = h.map[n]
    BY <1>6 DEF Rebound
  <2> HIDE DEF V, S, W
  <2>3. Cardinality(W) = Cardinality(V)
    BY <2>1, Unnoticed
  <2> QED BY <1>1, <1>4, <2>2, <2>3
<1>7. CASE n = to
  <2>1. (\A x : x \in W <=> x \in V \/ x = v) /\ v \notin V
    BY <1>5, <1>7 DEF VarsOn
  <2>2. r.map[n].ref = h.map[n].ref + 1
    BY <1>2, <1>7 DEF Rebound
  <2> HIDE DEF V, S, W
  <2>3. Cardinality(W) = Cardinality(V) + 1
    BY <1>1, <2>1, OneMore
  <2> QED BY <1>1, <1>4, <2>2, <2>3
<1>8. CASE n = old
  <2>1. (\A x : x \in W <=> x \in V /\ x # v) /\ v \in V
    BY <1>5, <1>8 DEF VarsOn
  <2>2. /\ h.map[n].ref = 1 => r.map[n] = FreeMap
        /\ h.map[n].ref # 1 => r.map[n].ref = h.map[n].ref - 1
    BY <1>2, <1>8 DEF Rebound
  <2> HIDE DEF V, S, W
  <2>3. Cardinality(W) = Cardinality(V) - 1
    BY <1>1, <2>1, OneLess
  <2> QED BY <1>1, <1>4, <2>2, <2>3, FreeMapIs
<1> QED BY <1>6, <1>7, <1>8

LEMMA ReboundSound ==
  ASSUME NEW h, NEW r, Sound(h), r \in HeapType,
         NEW v \in Vars, NEW to \in {0} \cup Maps, to # h.var[v], Rebound(h, v, to, r)
  PROVE  Sound(r)
<1> DEFINE old == h.var[v]
<1>0. h \in HeapType /\ Counted(h) /\ (old # 0 => old \in Maps)
  <2>1. h \in HeapType
    BY DEF Sound
  <2>2. h.var[v] \in {0} \cup Maps
    BY <2>1, HeapParts
  <2> QED BY <2>1, <2>2 DEF Sound
<1>1. Counted(r)
  BY <1>0, ReboundCounted
<1>2. /\ r.aStep = h.aStep /\ r.owned = h.owned
      /\ \A i \in Steps : /\ r.step[i].map = h.step[i].map
                          /\ r.step[i].frame = h.step[i].frame
                          /\ h.step[i].map = 0 => r.step[i] = h.step[i]
  BY DEF Rebound
<1>3. MapLists(r)
  <2> SUFFICES ASSUME NEW n \in Maps
               PROVE  /\ Distinct(r.map[n].active)
                      /\ \A j \in Steps : j \in Range(r.map[n].active) <=> h.step[j].map = n
    BY <1>2 DEF MapLists
  <2>0. /\ Distinct(h.map[n].active) /\ n # 0
        /\ \A j \in Steps : j \in Range(h.map[n].active) <=> h.step[j].map = n
    BY ZeroIs DEF Sound, MapLists
  <2>1. CASE n = old /\ h.map[n].ref = 1
    <3>1. r.map[n] = FreeMap
      BY <2>0, <2>1 DEF Rebound
    <3>2. \A j \in Steps : h.step[j].map # n
      BY <1>0, <2>1, LastReference
    <3> QED BY <3>1, <3>2, FreeMapIs, EmptyIs
  <2>2. CASE ~(n = old /\ h.map[n].ref = 1)
    <3>1. r.map[n].active = h.map[n].active
      BY <2>0, <2>2 DEF Rebound
    <3> QED BY <2>0, <3>1
  <2> QED BY <2>1, <2>2
<1>4. FrameLists(r)
  BY <1>2 DEF Sound, FrameLists
<1>5. StmtLists(r)
  <2>1. StmtLists(h) /\ \A s \in Stmts : \A j \in Steps : On(r, s, j) <=> On(h, s, j)
    BY <1>2 DEF Sound, On
  <2> QED BY <1>2, <2>1 DEF StmtLists
<1>6. Single(r)
  <2>1. Single(h) /\ \A s \in Stmts : \A j \in Steps : On(r, s, j) <=> On(h, s, j)
    BY <1>2 DEF Sound, On
  <2> QED BY <1>2, <2>1 DEF Single
<1>7. Pools(r)
  <2>1. \A j \in Steps : r.step[j].map = 0 => r.step[j] = FreeStep
    BY <1>2 DEF Sound, Pools
  <2>2. ASSUME NEW n \in Maps, r.map[n].ref = 0 PROVE r.map[n] = FreeMap
    <3>0. n # 0 /\ h.map[n].ref \in Nat
      BY <1>0, ZeroIs, HeapParts
    <3>1. CASE n # to /\ n # old
      BY <2>2, <3>1 DEF Sound, Pools, Rebound
    <3>2. CASE n = to
      <4>1. r.map[n].ref = h.map[n].ref + 1
        BY <3>0, <3>2 DEF Rebound
      <4> QED BY <4>1, <3>0, <2>2
    <3>3. CASE n = old /\ h.map[n].ref = 1
      BY <3>0, <3>3 DEF Rebound
    <3>4. CASE n = old /\ h.map[n].ref # 1
      <4>1. r.map[n].ref = h.map[n].ref - 1
        BY <3>0, <3>4 DEF Rebound
      <4> QED BY <4>1, <3>0, <3>4, <2>2
    <3> QED BY <3>1, <3>2, <3>3, <3>4
  <2> QED BY <2>1, <2>2 DEF Pools
<1> QED BY <1>1, <1>3, <1>4, <1>5, <1>6, <1>7 DEF Sound

---------------------------------------------------------------------------
(* Keys that come and go in map m, and the cursors on it that follow.      *)
Moved(h, m, r) ==
  /\ r.var = h.var /\ r.aStep = h.aStep /\ r.owned = h.owned
  /\ \A n \in Maps : n # m => r.map[n] = h.map[n]
  /\ r.map[m].ref = h.map[m].ref /\ r.map[m].active = h.map[m].active
  /\ \A i \in Steps : /\ r.step[i].map = h.step[i].map
                      /\ r.step[i].frame = h.step[i].frame
                      /\ r.step[i].byRef = h.step[i].byRef
                      /\ h.step[i].map # m => r.step[i] = h.step[i]

LEMMA MovedSound ==
  ASSUME NEW h, NEW r, Sound(h), r \in HeapType, NEW m \in Maps, h.map[m].ref # 0,
         Moved(h, m, r)
  PROVE  Sound(r)
<1>1. /\ r.var = h.var /\ r.aStep = h.aStep /\ r.owned = h.owned /\ m # 0
      /\ \A n \in Maps : r.map[n].ref = h.map[n].ref /\ r.map[n].active = h.map[n].active
      /\ \A i \in Steps : /\ r.step[i].map = h.step[i].map
                          /\ r.step[i].frame = h.step[i].frame
                          /\ h.step[i].map # m => r.step[i] = h.step[i]
  BY ZeroIs DEF Moved
<1>2. Counted(r)
  <2>1. \A n \in Maps : Count(r.var, r.step, n) = Count(h.var, h.step, n)
    <3> TAKE n \in Maps
    <3>1. StepsOn(r.step, n) = StepsOn(h.step, n)
      BY <1>1 DEF StepsOn
    <3> QED BY <1>1, <3>1 DEF Count
  <2> QED BY <1>1, <2>1 DEF Sound, Counted
<1>3. MapLists(r)
  BY <1>1 DEF Sound, MapLists
<1>4. FrameLists(r)
  BY <1>1 DEF Sound, FrameLists
<1>5. \A s \in Stmts : \A j \in Steps : On(r, s, j) <=> On(h, s, j)
  BY <1>1 DEF On
<1>6. StmtLists(r)
  BY <1>1, <1>5 DEF Sound, StmtLists
<1>7. Single(r)
  BY <1>1, <1>5 DEF Sound, Single
<1>8. Pools(r)
  <2>1. \A j \in Steps : r.step[j].map = 0 => r.step[j] = FreeStep
    BY <1>1 DEF Sound, Pools
  <2>2. \A n \in Maps : r.map[n].ref = 0 => r.map[n] = FreeMap
    BY <1>1 DEF Sound, Pools, Moved
  <2> QED BY <2>1, <2>2 DEF Pools
<1> QED BY <1>2, <1>3, <1>4, <1>6, <1>7, <1>8 DEF Sound

---------------------------------------------------------------------------
(* What the operations do, in these terms.                                 *)

LEMMA ProgramIs ==
  ASSUME code \in Codes
  PROVE  /\ DOMAIN code.loops \subseteq Stmts
         /\ \A s \in DOMAIN code.loops : code.loops[s].over \in Vars \cup {None}
                                         /\ code.loops[s].byRef \in BOOLEAN
         /\ code.frames \subseteq Frames /\ code.writes \subseteq Vars
         /\ code.keys \in 1 .. MaxKeys
<1>1. code \in Program
  BY CodesAssumption
<1>2. PICK S \in SUBSET Stmts : code.loops \in [S -> Foreach]
  BY <1>1 DEF Program
<1>3. \A s \in S : code.loops[s] \in Foreach
  BY <1>2
<1> QED BY <1>1, <1>2, <1>3 DEF Program, Foreach

LEMMA LeastIs ==
  ASSUME NEW S \in SUBSET Nat, S # {}
  PROVE  Least(S) \in S
  BY NatMin DEF Least

LEMMA FreeStepsIs ==
  ASSUME NEW h, FreeSteps(h) # {}
  PROVE  Least(FreeSteps(h)) \in Steps /\ h.step[Least(FreeSteps(h))].map = 0
<1>1. FreeSteps(h) \in SUBSET Nat
  BY ZeroIs DEF FreeSteps
<1>2. Least(FreeSteps(h)) \in FreeSteps(h)
  BY <1>1, LeastIs
<1> QED BY <1>2 DEF FreeSteps

LEMMA FreeMapsIs ==
  ASSUME NEW h, FreeMaps(h) # {}
  PROVE  Least(FreeMaps(h)) \in Maps /\ h.map[Least(FreeMaps(h))].ref = 0
<1>1. FreeMaps(h) \in SUBSET Nat
  BY ZeroIs DEF FreeMaps
<1>2. Least(FreeMaps(h)) \in FreeMaps(h)
  BY <1>1, LeastIs
<1> QED BY <1>2 DEF FreeMaps

LEMMA FirstType ==
  ASSUME NEW s \in Seq(Key)
  PROVE  First(s) \in {0} \cup Key
  BY DEF First

LEMMA MapSetIs ==
  ASSUME NEW h, h \in HeapType, NEW m \in Maps, NEW x \in MapType
  PROVE  LET r == [h EXCEPT !.map[m] = x]
         IN /\ r \in HeapType
            /\ r.var = h.var /\ r.step = h.step /\ r.aStep = h.aStep /\ r.owned = h.owned
            /\ r.map[m] = x /\ \A n \in Maps : n # m => r.map[n] = h.map[n]
<1>1. [h EXCEPT !.map[m] = x] = [h EXCEPT !.map = [h.map EXCEPT ![m] = x]]
  OBVIOUS
<1> DEFINE e == [h.map EXCEPT ![m] = x]
<1>2. e \in [Maps -> MapType] /\ e[m] = x /\ \A n \in Maps : n # m => e[n] = h.map[n]
  BY HeapParts
<1> HIDE DEF e
<1> QED BY <1>1, <1>2 DEF HeapType, e

LEMMA RetainIs ==
  ASSUME NEW h, h \in HeapType, NEW m \in Maps
  PROVE  LET r == Retain(h, m)
         IN /\ r \in HeapType
            /\ r.var = h.var /\ r.step = h.step /\ r.aStep = h.aStep /\ r.owned = h.owned
            /\ \A n \in Maps : n # m => r.map[n] = h.map[n]
            /\ r.map[m].ref = h.map[m].ref + 1
            /\ r.map[m].keys = h.map[m].keys /\ r.map[m].active = h.map[m].active
<1> DEFINE x == [h.map[m] EXCEPT !.ref = h.map[m].ref + 1]
<1>1. h.map[m] \in MapType /\ h.map[m].ref \in Nat
  BY HeapParts
<1>2. /\ x \in MapType /\ x.ref = h.map[m].ref + 1
      /\ x.keys = h.map[m].keys /\ x.active = h.map[m].active
  BY <1>1 DEF MapType
<1>3. Retain(h, m) = [h EXCEPT !.map[m] = x]
  BY DEF Retain
<1> HIDE DEF x
<1> QED BY <1>2, <1>3, MapSetIs

LEMMA NewMapIs ==
  ASSUME NEW h, h \in HeapType, NEW m \in Maps, NEW keys \in Seq(Key)
  PROVE  LET r == NewMap(h, m, keys)
         IN /\ r \in HeapType
            /\ r.var = h.var /\ r.step = h.step /\ r.aStep = h.aStep /\ r.owned = h.owned
            /\ \A n \in Maps : n # m => r.map[n] = h.map[n]
            /\ r.map[m].ref = 1 /\ r.map[m].keys = keys /\ r.map[m].active = << >>
<1> DEFINE x == [FreeMap EXCEPT !.ref = 1, !.keys = keys]
<1>2. x \in MapType /\ x.ref = 1 /\ x.keys = keys /\ x.active = << >>
  BY FreeIs, FreeMapIs DEF MapType
<1>3. NewMap(h, m, keys) = [h EXCEPT !.map[m] = x]
  BY DEF NewMap
<1> HIDE DEF x
<1> QED BY <1>2, <1>3, MapSetIs

LEMMA RegisterIs ==
  ASSUME NEW h, h \in HeapType, NEW m \in Maps, NEW i \in Steps
  PROVE  LET r == Register(h, m, i)
         IN /\ r \in HeapType
            /\ r.var = h.var /\ r.aStep = h.aStep /\ r.owned = h.owned
            /\ \A n \in Maps : n # m => r.map[n] = h.map[n]
            /\ r.map[m].ref = h.map[m].ref /\ r.map[m].keys = h.map[m].keys
            /\ r.map[m].active = <<i>> \o h.map[m].active
            /\ \A j \in Steps : j # i => r.step[j] = h.step[j]
            /\ r.step[i].cursor = First(h.map[m].keys)
            /\ r.step[i].map = h.step[i].map /\ r.step[i].frame = h.step[i].frame
            /\ r.step[i].byRef = h.step[i].byRef /\ r.step[i].over = h.step[i].over
            /\ r.step[i].visited = h.step[i].visited
<1> DEFINE c == First(h.map[m].keys)
           a == <<i>> \o h.map[m].active
           x == [h.map[m] EXCEPT !.active = a]
           y == [h.step[i] EXCEPT !.cursor = c]
           e == [h.map EXCEPT ![m] = x]
           st == [h.step EXCEPT ![i] = y]
<1>1. /\ h.map[m] \in MapType /\ h.step[i] \in StepType
      /\ h.map[m].keys \in Seq(Key) /\ h.map[m].active \in Seq(Steps)
      /\ h.map \in [Maps -> MapType] /\ h.step \in [Steps -> StepType]
  BY HeapParts, StepsAre
<1>2. Register(h, m, i) = [h EXCEPT !.step = st, !.map = e]
  BY DEF Register
<1>3. c \in {0} \cup Key
  BY <1>1, FirstType
<1>4. a \in Seq(Steps)
  BY <1>1, ConsIs
<1> HIDE DEF c, a
<1>5. x \in MapType /\ x.ref = h.map[m].ref /\ x.keys = h.map[m].keys /\ x.active = a
  BY <1>1, <1>4 DEF MapType
<1>6. /\ y \in StepType /\ y.cursor = c /\ y.map = h.step[i].map
      /\ y.frame = h.step[i].frame /\ y.byRef = h.step[i].byRef
      /\ y.over = h.step[i].over /\ y.visited = h.step[i].visited
  BY <1>1, <1>3 DEF StepType
<1> HIDE DEF x, y
<1>7. e \in [Maps -> MapType] /\ e[m] = x /\ \A n \in Maps : n # m => e[n] = h.map[n]
  BY <1>1, <1>5
<1>8. st \in [Steps -> StepType] /\ st[i] = y /\ \A j \in Steps : j # i => st[j] = h.step[j]
  BY <1>1, <1>6
<1> HIDE DEF e, st
<1>9. /\ Register(h, m, i) \in HeapType
      /\ Register(h, m, i).var = h.var /\ Register(h, m, i).aStep = h.aStep
      /\ Register(h, m, i).owned = h.owned
      /\ Register(h, m, i).map = e /\ Register(h, m, i).step = st
  BY <1>2, <1>7, <1>8 DEF HeapType
<1> QED BY <1>5, <1>6, <1>7, <1>8, <1>9 DEF c, a

(* r is h with a new step i, of frame f on statement s, over map m.        *)
Made(h, f, s, m, i, r) ==
  /\ r \in HeapType /\ i \in Steps /\ h.step[i].map = 0
  /\ r.step[i].map = m /\ r.step[i].frame = f
  /\ r.step[i].cursor = First(h.map[m].keys) /\ r.step[i].visited = 0
  /\ r.step[i].byRef = code.loops[s].byRef
  /\ \A j \in Steps : j # i => r.step[j] = h.step[j]
  /\ r.var = h.var
  /\ \A n \in Maps : n # m => r.map[n] = h.map[n]
  /\ r.map[m].ref = h.map[m].ref /\ r.map[m].keys = h.map[m].keys
  /\ r.map[m].active = <<i>> \o h.map[m].active
  /\ r.aStep[s] = Append(h.aStep[s], i)
  /\ \A t \in Stmts : t # s => r.aStep[t] = h.aStep[t]
  /\ r.owned[f] = <<i>> \o h.owned[f]
  /\ \A g \in Frames : g # f => r.owned[g] = h.owned[g]

LEMMA NewStepIs ==
  ASSUME NEW h, h \in HeapType, code \in Codes, FreeSteps(h) # {},
         NEW f \in Frames, NEW s \in DOMAIN code.loops, NEW m \in Maps
  PROVE  Made(h, f, s, m, Least(FreeSteps(h)), NewStep(h, f, s, m))
<1> DEFINE r == NewStep(h, f, s, m)
           i == Least(FreeSteps(h))
           made == [FreeStep EXCEPT !.map = m, !.byRef = code.loops[s].byRef, !.frame = f,
                                    !.over = code.loops[s].over]
           u == [h EXCEPT !.step[i] = made]
           w == Register(u, m, i)
<1>1. i \in Steps /\ h.step[i].map = 0
  BY FreeStepsIs
<1>2. s \in Stmts /\ code.loops[s].byRef \in BOOLEAN /\ code.loops[s].over \in Vars \cup {None}
  BY ProgramIs
<1>4. /\ made \in StepType /\ made.map = m /\ made.frame = f /\ made.visited = 0
      /\ made.byRef = code.loops[s].byRef
  BY <1>2, FreeIs, FreeStepIs DEF StepType
<1>5. r = [w EXCEPT !.aStep[s] = Append(@, i), !.owned[f] = <<i>> \o @]
  BY DEF NewStep
<1> HIDE DEF i, made
<1>6. /\ u \in HeapType
      /\ u.var = h.var /\ u.map = h.map /\ u.aStep = h.aStep /\ u.owned = h.owned
      /\ u.step[i] = made /\ \A j \in Steps : j # i => u.step[j] = h.step[j]
  BY <1>1, <1>4, StepSetIs
<1> HIDE DEF u
<1>7. /\ w \in HeapType
      /\ w.var = u.var /\ w.aStep = u.aStep /\ w.owned = u.owned
      /\ \A n \in Maps : n # m => w.map[n] = u.map[n]
      /\ w.map[m].ref = u.map[m].ref /\ w.map[m].keys = u.map[m].keys
      /\ w.map[m].active = <<i>> \o u.map[m].active
      /\ \A j \in Steps : j # i => w.step[j] = u.step[j]
      /\ w.step[i].cursor = First(u.map[m].keys)
      /\ w.step[i].map = u.step[i].map /\ w.step[i].frame = u.step[i].frame
      /\ w.step[i].byRef = u.step[i].byRef /\ w.step[i].over = u.step[i].over
      /\ w.step[i].visited = u.step[i].visited
  BY <1>1, <1>6, RegisterIs, ZenonT(40)
<1> HIDE DEF w, r
<1> DEFINE a == [w.aStep EXCEPT ![s] = Append(w.aStep[s], i)]
           o == [w.owned EXCEPT ![f] = <<i>> \o w.owned[f]]
<1>8. r = [w EXCEPT !.aStep = a, !.owned = o]
  BY <1>5
<1>9. w.aStep \in [Stmts -> Seq(Steps)] /\ w.owned \in [Frames -> Seq(Steps)]
  BY <1>7, HeapParts
<1>10. Append(w.aStep[s], i) \in Seq(Steps) /\ <<i>> \o w.owned[f] \in Seq(Steps)
  BY <1>1, <1>2, <1>9
<1>11. /\ a \in [Stmts -> Seq(Steps)] /\ o \in [Frames -> Seq(Steps)]
       /\ a[s] = Append(w.aStep[s], i) /\ \A t \in Stmts : t # s => a[t] = w.aStep[t]
  BY <1>2, <1>9, <1>10
<1>12. o[f] = <<i>> \o w.owned[f] /\ \A g \in Frames : g # f => o[g] = w.owned[g]
  BY <1>9
<1> HIDE DEF a, o
<1>13. /\ r \in HeapType /\ r.var = w.var /\ r.map = w.map /\ r.step = w.step
       /\ r.aStep = a /\ r.owned = o
  BY <1>7, <1>8, <1>11 DEF HeapType
<1>14. Made(h, f, s, m, i, r)
  BY <1>1, <1>4, <1>6, <1>7, <1>11, <1>12, <1>13, SMTT(40) DEF Made
<1> QED BY <1>14 DEF r, i

LEMMA VarSetIs ==
  ASSUME NEW h, h \in HeapType, NEW v \in Vars, NEW x \in {0} \cup Maps
  PROVE  LET r == [h EXCEPT !.var[v] = x]
         IN /\ r \in HeapType
            /\ r.map = h.map /\ r.step = h.step /\ r.aStep = h.aStep /\ r.owned = h.owned
            /\ \A y \in Vars : r.var[y] = IF y = v THEN x ELSE h.var[y]
<1>1. [h EXCEPT !.var[v] = x] = [h EXCEPT !.var = [h.var EXCEPT ![v] = x]]
  OBVIOUS
<1> DEFINE e == [h.var EXCEPT ![v] = x]
<1>2. e \in [Vars -> {0} \cup Maps] /\ \A y \in Vars : e[y] = IF y = v THEN x ELSE h.var[y]
  BY HeapParts
<1> HIDE DEF e
<1> QED BY <1>1, <1>2 DEF HeapType, e

(* A variable that gets an array of its own, with the same keys.           *)
Apart(h, v, r) ==
  /\ r.var[v] \in Maps /\ \A x \in Vars : x # v => r.var[x] = h.var[x]
  /\ r.step = h.step /\ r.aStep = h.aStep /\ r.owned = h.owned
  /\ r.map[r.var[v]].keys = h.map[h.var[v]].keys
  /\ \A n \in Maps : h.map[n].ref # 0 => r.map[n].ref # 0 /\ r.map[n].keys = h.map[n].keys
  /\ \A n \in Maps : r.map[n].ref # 0 => h.map[n].ref # 0 \/ n = r.var[v]
  /\ r.var[v] # h.var[v] => h.map[r.var[v]].ref = 0

LEMMA SeparateIs ==
  ASSUME NEW h, Sound(h), NEW v \in Vars, h.var[v] # 0, FreeMaps(h) # {}, NEW d \in Nat
  PROVE  LET r == SeparateFrom(h, v, d)
         IN /\ Sound(r) /\ Apart(h, v, r)
            /\ r.var[v] = h.var[v] => h.map[h.var[v]].ref < 2 + d
<1> DEFINE m == h.var[v]
           c == Least(FreeMaps(h))
           a == NewMap(h, c, h.map[m].keys)
           b == Unref(a, m)
           r == [b EXCEPT !.var[v] = c]
<1>1. h \in HeapType /\ Counted(h) /\ m \in Maps
  <2>1. h \in HeapType /\ Counted(h)
    BY DEF Sound
  <2> QED BY <2>1, HeapParts
<1>2. h.map[m].ref \in Nat /\ h.map[m].ref > 0 /\ h.map[m].keys \in Seq(Key)
  BY <1>1, HeldIs, HeapParts
<1>3. CASE h.map[m].ref - d < 2
  <2>1. SeparateFrom(h, v, d) = h
    BY <1>3 DEF SeparateFrom
  <2>2. Apart(h, v, h)
    BY <1>1 DEF Apart
  <2>3. h.map[m].ref < 2 + d
    BY <1>2, <1>3
  <2> QED BY <2>1, <2>2, <2>3
<1>4. CASE ~(h.map[m].ref - d < 2)
  <2>1. SeparateFrom(h, v, d) = r
    BY <1>4 DEF SeparateFrom
  <2>2. h.map[m].ref >= 2
    BY <1>2, <1>4
  <2>3. c \in Maps /\ h.map[c].ref = 0
    BY FreeMapsIs
  <2>4. c # m
    BY <2>2, <2>3
  <2> HIDE DEF c, m
  <2>5. /\ a \in HeapType
        /\ a.var = h.var /\ a.step = h.step /\ a.aStep = h.aStep /\ a.owned = h.owned
        /\ \A n \in Maps : n # c => a.map[n] = h.map[n]
        /\ a.map[c].ref = 1 /\ a.map[c].keys = h.map[m].keys /\ a.map[c].active = << >>
    BY <1>1, <1>2, <2>3, NewMapIs
  <2> HIDE DEF a
  <2>6. a.map[m] = h.map[m] /\ a.map[m].ref > 0 /\ a.map[m].ref # 1
    <3>1. a.map[m] = h.map[m]
      BY <1>1, <2>4, <2>5
    <3>2. h.map[m].ref > 0 /\ h.map[m].ref # 1
      BY <1>2, <2>2
    <3> QED BY <3>1, <3>2
  <2>7. /\ b \in HeapType
        /\ b.var = a.var /\ b.step = a.step /\ b.aStep = a.aStep /\ b.owned = a.owned
        /\ \A n \in Maps : n # m => b.map[n] = a.map[n]
        /\ b.map[m].ref = a.map[m].ref - 1
        /\ b.map[m].keys = a.map[m].keys
        /\ b.map[m].active = a.map[m].active
    BY <1>1, <2>5, <2>6, UnrefIs
  <2> HIDE DEF b
  <2>8. /\ r \in HeapType
        /\ r.map = b.map /\ r.step = b.step /\ r.aStep = b.aStep /\ r.owned = b.owned
        /\ \A y \in Vars : r.var[y] = IF y = v THEN c ELSE b.var[y]
    BY <2>3, <2>7, VarSetIs
  <2> HIDE DEF r
  <2>9. h.map[c] = FreeMap
    BY <2>3 DEF Sound, Pools
  <2>10. Rebound(h, v, c, r)
    <3>1. /\ r.map[c].ref = h.map[c].ref + 1 /\ r.map[c].active = h.map[c].active
          /\ \A n \in Maps : n # c /\ n # m => r.map[n] = h.map[n]
          /\ h.map[m].ref # 1 /\ r.map[m].ref = h.map[m].ref - 1
          /\ r.map[m].keys = h.map[m].keys
          /\ r.map[m].active = h.map[m].active
      BY <2>2, <2>3, <2>4, <2>5, <2>6, <2>7, <2>8, <2>9, FreeMapIs
    <3>2. /\ \A x \in Vars : r.var[x] = IF x = v THEN c ELSE h.var[x]
          /\ r.aStep = h.aStep /\ r.owned = h.owned /\ r.step = h.step
      BY <2>5, <2>7, <2>8
    <3> QED BY <3>1, <3>2 DEF Rebound, m
  <2>11. Sound(r)
    BY <2>3, <2>4, <2>8, <2>10, ReboundSound DEF m
  <2>12. Apart(h, v, r)
    <3>1. r.var[v] = c /\ \A x \in Vars : x # v => r.var[x] = h.var[x]
      BY <2>5, <2>7, <2>8
    <3>2. r.map[c].keys = h.map[m].keys /\ r.map[m].ref # 0 /\ r.map[m].keys = h.map[m].keys
      BY <1>2, <2>2, <2>3, <2>4, <2>5, <2>6, <2>7, <2>8
    <3>3. \A n \in Maps : n # c /\ n # m => r.map[n] = h.map[n]
      BY <2>10 DEF Rebound, m
    <3>4. r.step = h.step /\ r.aStep = h.aStep /\ r.owned = h.owned
      BY <2>5, <2>7, <2>8
    <3> QED BY <2>2, <2>3, <3>1, <3>2, <3>3, <3>4 DEF Apart, m
  <2>13. r.var[v] # m
    BY <2>4, <2>8
  <2> QED BY <2>1, <2>11, <2>12, <2>13 DEF m
<1> QED BY <1>3, <1>4

LEMMA ApartOrdered ==
  ASSUME NEW h, NEW r, NEW n \in Nat, NEW v \in Vars, Sound(h), Sound(r), h.var[v] # 0,
         Ordered(h, n), Apart(h, v, r)
  PROVE  Ordered(r, n)
<1>0. h \in HeapType /\ Counted(h) /\ r \in HeapType /\ Pools(r)
  BY DEF Sound
<1>1. h.var[v] \in Maps
  BY <1>0, HeapParts
<1>2. ASSUME NEW m \in Maps
      PROVE  Rising(r.map[m].keys) /\ \A k \in Range(r.map[m].keys) : k <= n
  <2>1. CASE r.map[m].ref = 0
    <3>1. r.map[m].keys = << >>
      BY <1>0, <2>1, FreeMapIs DEF Pools
    <3> QED BY <3>1, EmptyIs
  <2>2. CASE r.map[m].ref # 0
    <3>1. r.map[m].keys = h.map[m].keys \/ r.map[m].keys = h.map[h.var[v]].keys
      BY <2>2 DEF Apart
    <3> QED BY <1>1, <3>1 DEF Ordered
  <2> QED BY <2>1, <2>2
<1>3. ASSUME NEW j \in Steps, r.step[j].map # 0
      PROVE  /\ r.step[j].visited <= n
             /\ Aimed(r.map[r.step[j].map].keys, r.step[j].cursor, r.step[j].visited)
  <2>1. r.step = h.step
    BY DEF Apart
  <2>2. h.step[j].map \in Maps
    BY <1>0, <1>3, <2>1, StepsAre
  <2>3. h.map[h.step[j].map].ref # 0
    BY <1>0, <2>2, HeldIs
  <2>4. r.map[h.step[j].map].keys = h.map[h.step[j].map].keys
    BY <2>2, <2>3 DEF Apart
  <2> QED BY <1>3, <2>1, <2>4 DEF Ordered
<1> QED BY <1>2, <1>3 DEF Ordered

LEMMA DiscountIs ==
  ASSUME NEW h, h \in HeapType, NEW m \in Maps
  PROVE  ByRefStepRefs(h, m) \in Nat
<1> DEFINE D == DOMAIN h.map[m].active
           B == {j \in D : h.step[h.map[m].active[j]].byRef}
<1>1. h.map[m].active \in Seq(Steps)
  BY HeapParts
<1>2. D = 1 .. Len(h.map[m].active) /\ Len(h.map[m].active) \in Nat
  BY <1>1, SeqIs
<1>3. IsFiniteSet(D)
  BY <1>2, FS_Interval
<1>4. IsFiniteSet(B)
  BY <1>3, FS_Subset
<1> QED BY <1>4, FS_CardinalityType DEF ByRefStepRefs

LEMMA SeparateSound ==
  ASSUME NEW h, Sound(h), NEW v \in Vars, h.var[v] # 0, FreeMaps(h) # {}
  PROVE  /\ Sound(Separate(h, v)) /\ Apart(h, v, Separate(h, v))
         /\ Separate(h, v).var[v] = h.var[v] =>
              h.map[h.var[v]].ref < 2 + ByRefStepRefs(h, h.var[v])
<1>1. h \in HeapType /\ h.var[v] \in Maps
  <2>1. h \in HeapType
    BY DEF Sound
  <2> QED BY <2>1, HeapParts
<1>2. ByRefStepRefs(h, h.var[v]) \in Nat
  BY <1>1, DiscountIs
<1> QED BY <1>2, SeparateIs DEF Separate

(* Keys and cursors that change together.                                  *)
KeysSet(h, m, ks, st) == [[h EXCEPT !.map[m].keys = ks] EXCEPT !.step = st]

LEMMA KeysSetIs ==
  ASSUME NEW h, h \in HeapType, NEW m \in Maps, NEW ks \in Seq(Key),
         NEW st \in [Steps -> StepType]
  PROVE  LET r == KeysSet(h, m, ks, st)
         IN /\ r \in HeapType
            /\ r.var = h.var /\ r.step = st /\ r.aStep = h.aStep /\ r.owned = h.owned
            /\ \A n \in Maps : n # m => r.map[n] = h.map[n]
            /\ r.map[m].ref = h.map[m].ref /\ r.map[m].active = h.map[m].active
            /\ r.map[m].keys = ks
<1> DEFINE r == KeysSet(h, m, ks, st)
           x == [h.map[m] EXCEPT !.keys = ks]
           u == [h EXCEPT !.map[m] = x]
<1>1. h.map[m] \in MapType
  BY HeapParts
<1>2. x \in MapType /\ x.ref = h.map[m].ref /\ x.active = h.map[m].active /\ x.keys = ks
  BY <1>1 DEF MapType
<1>3. [h EXCEPT !.map[m].keys = ks] = u
  OBVIOUS
<1> HIDE DEF x
<1>4. /\ u \in HeapType
      /\ u.var = h.var /\ u.step = h.step /\ u.aStep = h.aStep /\ u.owned = h.owned
      /\ u.map[m] = x /\ \A n \in Maps : n # m => u.map[n] = h.map[n]
  BY <1>2, MapSetIs
<1> HIDE DEF u
<1>5. r = [u EXCEPT !.step = st]
  BY <1>3 DEF KeysSet
<1> HIDE DEF r
<1>6. /\ r \in HeapType /\ r.var = u.var /\ r.map = u.map /\ r.step = st
      /\ r.aStep = u.aStep /\ r.owned = u.owned
  BY <1>4, <1>5 DEF HeapType
<1> QED BY <1>2, <1>4, <1>6 DEF r

(* The steps on map m whose cursor is at c move it to d.                   *)
Steered(h, m, c, d) == [i \in Steps |->
  IF i \in Range(h.map[m].active) /\ h.step[i].cursor = c
  THEN [h.step[i] EXCEPT !.cursor = d] ELSE h.step[i]]

LEMMA SteeredIs ==
  ASSUME NEW h, Sound(h), NEW m \in Maps, NEW c, NEW d \in {0} \cup Key
  PROVE  LET st == Steered(h, m, c, d)
         IN /\ st \in [Steps -> StepType]
            /\ \A i \in Steps :
                 /\ st[i].map = h.step[i].map /\ st[i].frame = h.step[i].frame
                 /\ st[i].byRef = h.step[i].byRef /\ st[i].visited = h.step[i].visited
                 /\ h.step[i].map # m => st[i] = h.step[i]
                 /\ h.step[i].map = m =>
                      st[i].cursor = IF h.step[i].cursor = c THEN d ELSE h.step[i].cursor
<1> DEFINE st == Steered(h, m, c, d)
<1>1. \A i \in Steps : i \in Range(h.map[m].active) <=> h.step[i].map = m
  BY DEF Sound, MapLists
<1>2. ASSUME NEW i \in Steps
      PROVE  /\ st[i] \in StepType
             /\ st[i].map = h.step[i].map /\ st[i].frame = h.step[i].frame
             /\ st[i].byRef = h.step[i].byRef /\ st[i].visited = h.step[i].visited
             /\ h.step[i].map # m => st[i] = h.step[i]
             /\ h.step[i].map = m =>
                  st[i].cursor = IF h.step[i].cursor = c THEN d ELSE h.step[i].cursor
  <2> DEFINE x == h.step[i]
             y == [x EXCEPT !.cursor = d]
  <2>1. x \in StepType
    BY StepsAre DEF Sound
  <2>2. st[i] = IF x.map = m /\ x.cursor = c THEN y ELSE x
    BY <1>1 DEF Steered
  <2>3. /\ y \in StepType /\ y.map = x.map /\ y.frame = x.frame
        /\ y.byRef = x.byRef /\ y.visited = x.visited /\ y.cursor = d
    BY <2>1 DEF StepType
  <2> HIDE DEF x, y, st
  <2> QED BY <2>1, <2>2, <2>3 DEF x
<1>3. st \in [Steps -> StepType]
  BY <1>2 DEF Steered
<1> HIDE DEF st
<1> QED BY <1>2, <1>3 DEF st

LEMMA KeysMove ==
  ASSUME NEW h, Sound(h), NEW m \in Maps, h.map[m].ref # 0, NEW ks \in Seq(Key),
         NEW c, NEW d \in {0} \cup Key
  PROVE  LET r == KeysSet(h, m, ks, Steered(h, m, c, d))
         IN /\ Sound(r) /\ Moved(h, m, r) /\ r.map[m].keys = ks
            /\ \A i \in Steps :
                 /\ r.step[i].visited = h.step[i].visited
                 /\ h.step[i].map = m =>
                      r.step[i].cursor = IF h.step[i].cursor = c THEN d ELSE h.step[i].cursor
<1> DEFINE r == KeysSet(h, m, ks, Steered(h, m, c, d))
           st == Steered(h, m, c, d)
<1>1. /\ st \in [Steps -> StepType]
      /\ \A i \in Steps :
           /\ st[i].map = h.step[i].map /\ st[i].frame = h.step[i].frame
           /\ st[i].byRef = h.step[i].byRef /\ st[i].visited = h.step[i].visited
           /\ h.step[i].map # m => st[i] = h.step[i]
           /\ h.step[i].map = m =>
                st[i].cursor = IF h.step[i].cursor = c THEN d ELSE h.step[i].cursor
  BY SteeredIs
<1>2. r = KeysSet(h, m, ks, st)
  OBVIOUS
<1> HIDE DEF st, r
<1>3. h \in HeapType
  BY DEF Sound
<1>4. /\ r \in HeapType
      /\ r.var = h.var /\ r.step = st /\ r.aStep = h.aStep /\ r.owned = h.owned
      /\ \A n \in Maps : n # m => r.map[n] = h.map[n]
      /\ r.map[m].ref = h.map[m].ref /\ r.map[m].active = h.map[m].active
      /\ r.map[m].keys = ks
  BY <1>1, <1>2, <1>3, KeysSetIs
<1>5. Moved(h, m, r)
  BY <1>1, <1>4 DEF Moved
<1>6. Sound(r)
  BY <1>4, <1>5, MovedSound
<1> QED BY <1>1, <1>4, <1>5, <1>6 DEF r

(* What must hold of map m and of the cursors on it for order to be kept.  *)
LEMMA MovedOrdered ==
  ASSUME NEW h, NEW r, NEW n \in Nat, NEW l \in Nat, NEW m \in Maps, n <= l, Sound(h),
         Ordered(h, n), Moved(h, m, r), Rising(r.map[m].keys),
         \A k \in Range(r.map[m].keys) : k <= l,
         \A i \in Steps : h.step[i].map = m =>
           /\ r.step[i].visited <= l
           /\ Aimed(r.map[m].keys, r.step[i].cursor, r.step[i].visited)
  PROVE  Ordered(r, l)
<1>1. ASSUME NEW p \in Maps
      PROVE  Rising(r.map[p].keys) /\ \A k \in Range(r.map[p].keys) : k <= l
  <2>1. CASE p = m
    BY <2>1
  <2>2. CASE p # m
    <3>1. r.map[p] = h.map[p]
      BY <2>2 DEF Moved
    <3>2. h.map[p].keys \in Seq(Nat)
      BY HeapParts, KeysAre DEF Sound
    <3>3. Range(h.map[p].keys) \subseteq Nat
      BY <3>2, SeqIs
    <3>4. Rising(h.map[p].keys) /\ \A k \in Range(h.map[p].keys) : k <= n
      BY DEF Ordered
    <3>5. \A k \in Range(h.map[p].keys) : k <= l
      BY <3>3, <3>4
    <3> QED BY <3>1, <3>4, <3>5
  <2> QED BY <2>1, <2>2
<1>2. ASSUME NEW j \in Steps, r.step[j].map # 0
      PROVE  /\ r.step[j].visited <= l
             /\ Aimed(r.map[r.step[j].map].keys, r.step[j].cursor, r.step[j].visited)
  <2>1. r.step[j].map = h.step[j].map
    BY DEF Moved
  <2>2. CASE h.step[j].map = m
    BY <2>1, <2>2
  <2>3. CASE h.step[j].map # m
    <3>1. r.step[j] = h.step[j] /\ h.step[j].map \in Maps
      BY <1>2, <2>1, <2>3, StepsAre DEF Moved, Sound
    <3>2. r.map[h.step[j].map] = h.map[h.step[j].map]
      BY <2>3, <3>1 DEF Moved
    <3>3. h.step[j].visited \in Nat
      <4>1. h.step[j] \in StepType
        BY StepsAre DEF Sound
      <4>2. h.step[j].visited \in {0} \cup Key
        BY <4>1 DEF StepType
      <4>3. {0} \cup Key \subseteq Nat
        BY SizesAssumption DEF Key
      <4> QED BY <4>2, <4>3
    <3>4. /\ h.step[j].visited <= n
          /\ Aimed(h.map[h.step[j].map].keys, h.step[j].cursor, h.step[j].visited)
      BY <1>2, <2>1 DEF Ordered
    <3>5. h.step[j].visited <= l
      BY <3>3, <3>4
    <3> QED BY <3>1, <3>2, <3>4, <3>5
  <2> QED BY <2>2, <2>3
<1> QED BY <1>1, <1>2 DEF Ordered

LEMMA AimIs ==
  ASSUME NEW h, NEW n \in Nat, NEW m \in Maps, NEW i \in Steps, Sound(h), Ordered(h, n),
         h.step[i].map = m
  PROVE  /\ h.step[i].visited \in Nat /\ h.step[i].visited <= n
         /\ h.step[i].cursor \in Nat
         /\ Aimed(h.map[m].keys, h.step[i].cursor, h.step[i].visited)
         /\ Rising(h.map[m].keys) /\ h.map[m].keys \in Seq(Nat)
         /\ Range(h.map[m].keys) \subseteq Key
         /\ \A k \in Range(h.map[m].keys) : k <= n
<1>1. h.step[i].visited \in Nat /\ h.step[i].cursor \in Nat
  <2>1. h.step[i] \in StepType
    BY StepsAre DEF Sound
  <2>2. h.step[i].visited \in {0} \cup Key /\ h.step[i].cursor \in {0} \cup Key
    BY <2>1 DEF StepType
  <2>3. {0} \cup Key \subseteq Nat
    BY SizesAssumption DEF Key
  <2> QED BY <2>2, <2>3
<1>2. h.map[m].keys \in Seq(Key)
  BY HeapParts DEF Sound
<1>3. h.map[m].keys \in Seq(Nat) /\ Range(h.map[m].keys) \subseteq Key
  BY <1>2, KeysAre, SeqIs
<1> QED BY <1>1, <1>3, ZeroIs DEF Ordered

LEMMA LinkKeeps ==
  ASSUME NEW h, NEW n \in Nat, Sound(h), Ordered(h, n), n + 1 \in Key,
         NEW m \in Maps, h.map[m].ref # 0
  PROVE  LET r == Link(h, m, n + 1)
         IN /\ Sound(r) /\ Moved(h, m, r) /\ Ordered(r, n + 1)
            /\ \A i \in Steps : r.step[i].visited = h.step[i].visited
<1> DEFINE k == n + 1
           s == h.map[m].keys
           ks == Append(s, k)
           r == Link(h, m, k)
<1>1. s \in Seq(Key) /\ s \in Seq(Nat) /\ Range(s) \subseteq Nat
  BY HeapParts, KeysAre, SeqIs DEF Sound
<1>2. ks \in Seq(Key) /\ \A y : y \in Range(ks) <=> y \in Range(s) \/ y = k
  BY <1>1, SnocIs
<1>3. k \in {0} \cup Key /\ k \in Nat /\ k # 0 /\ n <= k
  OBVIOUS
<1>4. r = KeysSet(h, m, ks, Steered(h, m, 0, k))
  BY DEF Link, LinkOnly, Steered, KeysSet
<1>5. Rising(s) /\ \A y \in Range(s) : y <= n
  BY DEF Ordered
<1>6. Rising(ks)
  <2>1. \A y \in Range(s) : y < k
    BY <1>1, <1>5
  <2> HIDE DEF s, k
  <2> QED BY <1>1, <1>3, <1>5, <2>1, RisingAppend
<1> HIDE DEF ks, r
<1>7. /\ Sound(r) /\ Moved(h, m, r) /\ r.map[m].keys = ks
      /\ \A i \in Steps :
           /\ r.step[i].visited = h.step[i].visited
           /\ h.step[i].map = m =>
                r.step[i].cursor = IF h.step[i].cursor = 0 THEN k ELSE h.step[i].cursor
  <2> HIDE DEF k
  <2> QED BY <1>2, <1>3, <1>4, KeysMove
<1>8. \A y \in Range(ks) : y <= k
  BY <1>1, <1>2, <1>5
<1>9. ASSUME NEW i \in Steps, h.step[i].map = m
      PROVE  r.step[i].visited <= k /\ Aimed(ks, r.step[i].cursor, r.step[i].visited)
  <2> DEFINE c == h.step[i].cursor
             v == h.step[i].visited
  <2>1. v \in Nat /\ v <= n /\ c \in Nat /\ Aimed(s, c, v)
    BY <1>9, AimIs
  <2>2. r.step[i].visited = v /\ r.step[i].cursor = IF c = 0 THEN k ELSE c
    BY <1>7, <1>9
  <2> HIDE DEF c, v, s
  <2>3. v <= k
    BY <2>1
  <2>4. CASE c = 0
    <3>1. \A y \in Range(s) : y <= v
      BY <2>1, <2>4 DEF Aimed
    <3>2. \A y \in Range(ks) : v < y => k <= y
      BY <1>1, <1>2, <2>1, <3>1
    <3>3. k \in Range(ks) /\ v < k
      BY <1>2, <2>1
    <3>4. Aimed(ks, k, v)
      BY <1>3, <3>2, <3>3 DEF Aimed
    <3> QED BY <2>2, <2>3, <2>4, <3>4
  <2>5. CASE c # 0
    <3>1. c \in Range(s) /\ v < c /\ \A y \in Range(s) : v < y => c <= y
      BY <2>1, <2>5 DEF Aimed
    <3>2. c <= k
      BY <1>5, <3>1, <2>1
    <3>3. \A y \in Range(ks) : v < y => c <= y
      BY <1>2, <3>1, <3>2
    <3>4. c \in Range(ks)
      BY <1>2, <3>1
    <3>5. Aimed(ks, c, v)
      BY <2>5, <3>1, <3>3, <3>4 DEF Aimed
    <3> QED BY <2>2, <2>3, <2>5, <3>5
  <2> QED BY <2>4, <2>5
<1> HIDE DEF k
<1>10. Ordered(r, k)
  BY <1>3, <1>6, <1>7, <1>8, <1>9, MovedOrdered
<1> QED BY <1>7, <1>10 DEF r, k

LEMMA UnlinkKeeps ==
  ASSUME NEW h, NEW n \in Nat, Sound(h), Ordered(h, n),
         NEW m \in Maps, h.map[m].ref # 0, NEW k \in Range(h.map[m].keys)
  PROVE  LET r == Unlink(h, m, k)
         IN Sound(r) /\ Moved(h, m, r) /\ Ordered(r, n)
<1> DEFINE s == h.map[m].keys
           ks == Without(s, k)
           a == After(s, k)
           r == Unlink(h, m, k)
<1>1. s \in Seq(Key) /\ s \in Seq(Nat) /\ Range(s) \subseteq Key /\ Range(s) \subseteq Nat
  BY HeapParts, KeysAre, SeqIs DEF Sound
<1>2. Rising(s) /\ Distinct(s) /\ \A y \in Range(s) : y <= n
  BY <1>1, RisingDistinct DEF Ordered
<1>3. ks \in Seq(Key) /\ Rising(ks) /\ \A y : y \in Range(ks) <=> y \in Range(s) /\ y # k
  BY <1>1, <1>2, WithoutIs, RisingWithout
<1>4. k \in Range(s) /\ k \in Nat
  BY <1>1
<1>5. \/ a = 0 /\ \A y \in Range(s) : y <= k
      \/ a \in Range(s) /\ k < a /\ \A y \in Range(s) : k < y => a <= y
  <2> HIDE DEF s
  <2> QED BY <1>1, <1>2, <1>4, AfterIs
<1>6. r = KeysSet(h, m, ks, Steered(h, m, k, a))
  BY DEF Unlink, UnlinkOnly, Steered, KeysSet
<1> HIDE DEF ks, a, r
<1>7. a \in {0} \cup Key /\ a \in Nat
  BY <1>1, <1>5
<1>8. /\ Sound(r) /\ Moved(h, m, r) /\ r.map[m].keys = ks
      /\ \A i \in Steps :
           /\ r.step[i].visited = h.step[i].visited
           /\ h.step[i].map = m =>
                r.step[i].cursor = IF h.step[i].cursor = k THEN a ELSE h.step[i].cursor
  BY <1>3, <1>6, <1>7, KeysMove
<1>9. ASSUME NEW i \in Steps, h.step[i].map = m
      PROVE  r.step[i].visited <= n /\ Aimed(ks, r.step[i].cursor, r.step[i].visited)
  <2> DEFINE c == h.step[i].cursor
             v == h.step[i].visited
  <2>1. v \in Nat /\ v <= n /\ c \in Nat /\ Aimed(s, c, v)
    BY <1>9, AimIs
  <2>2. r.step[i].visited = v /\ r.step[i].cursor = IF c = k THEN a ELSE c
    BY <1>8, <1>9
  <2> HIDE DEF c, v, s
  <2>3. CASE c # k
    <3>1. c = 0 => \A y \in Range(ks) : y <= v
      BY <1>3, <2>1 DEF Aimed
    <3>2. c # 0 => c \in Range(ks) /\ v < c /\ \A y \in Range(ks) : v < y => c <= y
      BY <1>3, <2>1, <2>3 DEF Aimed
    <3>3. Aimed(ks, c, v)
      BY <3>1, <3>2 DEF Aimed
    <3> QED BY <2>1, <2>2, <2>3, <3>3
  <2>4. CASE c = k
    <3>1. c # 0
      BY <1>1, <1>4, <2>4, ZeroIs
    <3>2. v < k /\ \A y \in Range(s) : v < y => k <= y
      BY <2>1, <2>4, <3>1 DEF Aimed
    <3>3. CASE a = 0 /\ \A y \in Range(s) : y <= k
      <4>1. \A y \in Range(ks) : y <= v
        <5> TAKE y \in Range(ks)
        <5>1. y \in Nat /\ y <= k /\ y # k /\ (v < y => k <= y)
          BY <1>1, <1>3, <3>2, <3>3
        <5> QED BY <5>1, <1>4, <2>1
      <4>2. Aimed(ks, a, v)
        BY <4>1, <3>3 DEF Aimed
      <4> QED BY <2>1, <2>2, <2>4, <4>2
    <3>4. CASE a \in Range(s) /\ k < a /\ \A y \in Range(s) : k < y => a <= y
      <4>1. a \in Range(ks) /\ v < a /\ a # 0
        BY <1>3, <1>4, <1>7, <2>1, <3>2, <3>4
      <4>2. \A y \in Range(ks) : v < y => a <= y
        <5> TAKE y \in Range(ks)
        <5>1. y \in Nat /\ y # k /\ (v < y => k <= y) /\ (k < y => a <= y)
          BY <1>1, <1>3, <3>2, <3>4
        <5> QED BY <5>1, <1>4
      <4>3. Aimed(ks, a, v)
        BY <4>1, <4>2 DEF Aimed
      <4> QED BY <2>1, <2>2, <2>4, <4>3
    <3> QED BY <1>5, <3>3, <3>4
  <2> QED BY <2>3, <2>4
<1>10. \A y \in Range(ks) : y <= n
  BY <1>2, <1>3
<1> HIDE DEF s
<1>11. Ordered(r, n)
  <2>1. n <= n
    OBVIOUS
  <2> QED BY <1>3, <1>8, <1>9, <1>10, <2>1, MovedOrdered
<1> QED BY <1>8, <1>11 DEF r

LEMMA EmptyKeeps ==
  ASSUME NEW h, NEW n \in Nat, Sound(h), Ordered(h, n), NEW m \in Maps, h.map[m].ref # 0
  PROVE  LET r == Empty(h, m)
         IN Sound(r) /\ Moved(h, m, r) /\ Ordered(r, n)
<1> DEFINE r == Empty(h, m)
           st == [i \in Steps |-> IF i \in Range(h.map[m].active)
                                  THEN [h.step[i] EXCEPT !.cursor = 0] ELSE h.step[i]]
<1>1. h \in HeapType
  BY DEF Sound
<1>2. \A i \in Steps : i \in Range(h.map[m].active) <=> h.step[i].map = m
  BY DEF Sound, MapLists
<1>3. ASSUME NEW i \in Steps
      PROVE  /\ st[i] \in StepType
             /\ st[i].map = h.step[i].map /\ st[i].frame = h.step[i].frame
             /\ st[i].byRef = h.step[i].byRef /\ st[i].visited = h.step[i].visited
             /\ h.step[i].map # m => st[i] = h.step[i]
             /\ h.step[i].map = m => st[i].cursor = 0
  <2> DEFINE x == h.step[i]
             y == [x EXCEPT !.cursor = 0]
  <2>1. x \in StepType
    BY <1>1, StepsAre
  <2>2. st[i] = IF x.map = m THEN y ELSE x
    BY <1>2
  <2>3. /\ y \in StepType /\ y.map = x.map /\ y.frame = x.frame
        /\ y.byRef = x.byRef /\ y.visited = x.visited /\ y.cursor = 0
    BY <2>1 DEF StepType
  <2> HIDE DEF x, y, st
  <2> QED BY <2>1, <2>2, <2>3 DEF x
<1>4. st \in [Steps -> StepType]
  BY <1>3
<1>6. PICK none \in Seq(Key) : none = << >>
  <2>1. << >> \in Seq(Key)
    OBVIOUS
  <2> QED BY <2>1
<1>5. r = KeysSet(h, m, none, st)
  BY <1>6 DEF Empty, EmptyOnly, KeysSet
<1> HIDE DEF st, r
<1>7. /\ r \in HeapType
      /\ r.var = h.var /\ r.step = st /\ r.aStep = h.aStep /\ r.owned = h.owned
      /\ \A p \in Maps : p # m => r.map[p] = h.map[p]
      /\ r.map[m].ref = h.map[m].ref /\ r.map[m].active = h.map[m].active
      /\ r.map[m].keys = none
  BY <1>1, <1>4, <1>5, KeysSetIs
<1>8. Moved(h, m, r)
  BY <1>3, <1>7 DEF Moved
<1>9. Sound(r)
  BY <1>7, <1>8, MovedSound
<1>10. ASSUME NEW i \in Steps, h.step[i].map = m
       PROVE  r.step[i].visited <= n /\ Aimed(r.map[m].keys, r.step[i].cursor, r.step[i].visited)
  BY <1>3, <1>6, <1>7, <1>10, AimIs, EmptyIs DEF Aimed
<1>11. Rising(r.map[m].keys) /\ \A k \in Range(r.map[m].keys) : k <= n
  BY <1>6, <1>7, EmptyIs
<1>12. Ordered(r, n)
  <2>1. n <= n
    OBVIOUS
  <2> QED BY <1>8, <1>10, <1>11, <2>1, MovedOrdered
<1> QED BY <1>8, <1>9, <1>12 DEF r

---------------------------------------------------------------------------
(* Variables that are assigned and unset.                                  *)

LEMMA AssignedIs ==
  ASSUME NEW h, Sound(h), NEW v \in Vars
  PROVE  LET r == Assigned(h, v)
         IN /\ r \in HeapType
            /\ r.var = h.var /\ r.map = h.map /\ r.aStep = h.aStep /\ r.owned = h.owned
            /\ \A i \in Steps : /\ r.step[i].map = h.step[i].map
                                /\ r.step[i].frame = h.step[i].frame
                                /\ r.step[i].cursor = h.step[i].cursor
                                /\ r.step[i].visited = h.step[i].visited
                                /\ r.step[i].byRef = h.step[i].byRef
                                /\ h.step[i].map = 0 => r.step[i] = h.step[i]
<1> DEFINE r == Assigned(h, v)
           st == [i \in Steps |-> IF h.step[i].over = v
                                  THEN [h.step[i] EXCEPT !.over = None] ELSE h.step[i]]
<1>1. h \in HeapType
  BY DEF Sound
<1>2. r = [h EXCEPT !.step = st]
  BY DEF Assigned
<1>3. ASSUME NEW i \in Steps
      PROVE  /\ st[i] \in StepType
             /\ st[i].map = h.step[i].map /\ st[i].frame = h.step[i].frame
             /\ st[i].cursor = h.step[i].cursor /\ st[i].visited = h.step[i].visited
             /\ st[i].byRef = h.step[i].byRef
             /\ h.step[i].map = 0 => st[i] = h.step[i]
  <2> DEFINE x == h.step[i]
             y == [x EXCEPT !.over = None]
  <2>1. x \in StepType
    BY <1>1, StepsAre
  <2>2. st[i] = IF x.over = v THEN y ELSE x
    OBVIOUS
  <2>3. /\ y \in StepType /\ y.map = x.map /\ y.frame = x.frame
        /\ y.byRef = x.byRef /\ y.visited = x.visited /\ y.cursor = x.cursor
    BY <2>1 DEF StepType
  <2>4. x.map = 0 => x.over # v
    BY FreeStepIs, NoneAssumption DEF Sound, Pools
  <2> HIDE DEF x, y, st
  <2> QED BY <2>1, <2>2, <2>3, <2>4 DEF x
<1>4. st \in [Steps -> StepType]
  BY <1>3
<1> HIDE DEF st, r
<1>5. /\ r \in HeapType /\ r.var = h.var /\ r.map = h.map /\ r.step = st
      /\ r.aStep = h.aStep /\ r.owned = h.owned
  BY <1>1, <1>2, <1>4 DEF HeapType
<1> QED BY <1>3, <1>5 DEF r

LEMMA DropIs ==
  ASSUME NEW h, h \in HeapType, NEW v \in Vars, h.var[v] # 0 => h.map[h.var[v]].ref > 0
  PROVE  LET r == Drop(h, v)
             m == h.var[v]
         IN /\ r \in HeapType
            /\ r.step = h.step /\ r.aStep = h.aStep /\ r.owned = h.owned
            /\ \A x \in Vars : r.var[x] = IF x = v THEN 0 ELSE h.var[x]
            /\ \A n \in Maps : n # m => r.map[n] = h.map[n]
            /\ m # 0 => /\ h.map[m].ref = 1 => r.map[m] = FreeMap
                        /\ h.map[m].ref # 1 => /\ r.map[m].ref = h.map[m].ref - 1
                                               /\ r.map[m].keys = h.map[m].keys
                                               /\ r.map[m].active = h.map[m].active
<1> DEFINE r == Drop(h, v)
           m == h.var[v]
           u == Unref(h, m)
           w == [u EXCEPT !.var[v] = 0]
<1>1. m \in {0} \cup Maps
  BY HeapParts
<1>2. CASE m = 0
  <2>1. r = h
    BY <1>2 DEF Drop
  <2> HIDE DEF r
  <2> QED BY <1>2, <2>1, ZeroIs DEF r
<1>3. CASE m # 0
  <2>1. m \in Maps /\ h.map[m].ref > 0
    BY <1>1, <1>3
  <2>2. r = w
    BY <1>3 DEF Drop
  <2> HIDE DEF m
  <2>3. /\ u \in HeapType
        /\ u.var = h.var /\ u.step = h.step /\ u.aStep = h.aStep /\ u.owned = h.owned
        /\ \A n \in Maps : n # m => u.map[n] = h.map[n]
        /\ h.map[m].ref = 1 => u.map[m] = FreeMap
        /\ h.map[m].ref # 1 => /\ u.map[m].ref = h.map[m].ref - 1
                               /\ u.map[m].keys = h.map[m].keys
                               /\ u.map[m].active = h.map[m].active
    BY <2>1, UnrefIs
  <2> HIDE DEF u, r
  <2>4. /\ w \in HeapType
        /\ w.map = u.map /\ w.step = u.step /\ w.aStep = u.aStep /\ w.owned = u.owned
        /\ \A y \in Vars : w.var[y] = IF y = v THEN 0 ELSE u.var[y]
    BY <2>3, VarSetIs
  <2> HIDE DEF w
  <2> QED BY <2>2, <2>3, <2>4 DEF r, m
<1> QED BY <1>2, <1>3

Forgotten(h, v) == Drop(Assigned(h, v), v)
Shared(h, v, m) == [Drop(Retain(Assigned(h, v), m), v) EXCEPT !.var[v] = m]

LEMMA ForgetKeeps ==
  ASSUME NEW h, Sound(h), NEW v \in Vars, h.var[v] # 0
  PROVE  Sound(Forgotten(h, v)) /\ Rebound(h, v, 0, Forgotten(h, v))
<1> DEFINE u == Assigned(h, v)
           r == Drop(u, v)
<1>1. /\ u \in HeapType
      /\ u.var = h.var /\ u.map = h.map /\ u.aStep = h.aStep /\ u.owned = h.owned
      /\ \A i \in Steps : /\ u.step[i].map = h.step[i].map
                          /\ u.step[i].frame = h.step[i].frame
                          /\ u.step[i].cursor = h.step[i].cursor
                          /\ u.step[i].visited = h.step[i].visited
                          /\ u.step[i].byRef = h.step[i].byRef
                          /\ h.step[i].map = 0 => u.step[i] = h.step[i]
  BY AssignedIs
<1> HIDE DEF u
<1>2. h.var[v] \in Maps /\ h.map[h.var[v]].ref > 0
  BY HeapParts, HeldIs DEF Sound
<1>3. u.var[v] # 0 /\ u.map[u.var[v]].ref > 0
  BY <1>1, <1>2
<1>4. /\ r \in HeapType
      /\ r.step = u.step /\ r.aStep = u.aStep /\ r.owned = u.owned
      /\ \A x \in Vars : r.var[x] = IF x = v THEN 0 ELSE u.var[x]
      /\ \A n \in Maps : n # u.var[v] => r.map[n] = u.map[n]
      /\ u.map[u.var[v]].ref = 1 => r.map[u.var[v]] = FreeMap
      /\ u.map[u.var[v]].ref # 1 => /\ r.map[u.var[v]].ref = u.map[u.var[v]].ref - 1
                                    /\ r.map[u.var[v]].keys = u.map[u.var[v]].keys
                                    /\ r.map[u.var[v]].active = u.map[u.var[v]].active
  <2>1. u \in HeapType /\ (u.var[v] # 0 => u.map[u.var[v]].ref > 0)
    BY <1>1, <1>3
  <2> HIDE DEF r
  <2>2. u.var[v] # 0 =>
           /\ u.map[u.var[v]].ref = 1 => r.map[u.var[v]] = FreeMap
           /\ u.map[u.var[v]].ref # 1 => /\ r.map[u.var[v]].ref = u.map[u.var[v]].ref - 1
                                         /\ r.map[u.var[v]].keys = u.map[u.var[v]].keys
                                         /\ r.map[u.var[v]].active = u.map[u.var[v]].active
    BY <2>1, DropIs DEF r
  <2>3. /\ r \in HeapType
        /\ r.step = u.step /\ r.aStep = u.aStep /\ r.owned = u.owned
        /\ \A x \in Vars : r.var[x] = IF x = v THEN 0 ELSE u.var[x]
        /\ \A n \in Maps : n # u.var[v] => r.map[n] = u.map[n]
    BY <2>1, DropIs DEF r
  <2> QED BY <1>3, <2>2, <2>3
<1> HIDE DEF r
<1>5. Rebound(h, v, 0, r)
  BY <1>1, <1>4 DEF Rebound
<1>6. Sound(r)
  BY <1>4, <1>5, ReboundSound
<1> QED BY <1>5, <1>6 DEF r, u, Forgotten

LEMMA AssignKeeps ==
  ASSUME NEW h, Sound(h), NEW v \in Vars, NEW m \in Maps, m # h.var[v]
  PROVE  /\ Sound(Shared(h, v, m)) /\ Rebound(h, v, m, Shared(h, v, m))
         /\ Shared(h, v, m).map[m].keys = h.map[m].keys
<1> DEFINE u == Assigned(h, v)
           w == Retain(u, m)
           x == Drop(w, v)
           r == [x EXCEPT !.var[v] = m]
           o == h.var[v]
<1>1. /\ u \in HeapType
      /\ u.var = h.var /\ u.map = h.map /\ u.aStep = h.aStep /\ u.owned = h.owned
      /\ \A i \in Steps : /\ u.step[i].map = h.step[i].map
                          /\ u.step[i].frame = h.step[i].frame
                          /\ u.step[i].cursor = h.step[i].cursor
                          /\ u.step[i].visited = h.step[i].visited
                          /\ u.step[i].byRef = h.step[i].byRef
                          /\ h.step[i].map = 0 => u.step[i] = h.step[i]
  BY AssignedIs
<1> HIDE DEF u
<1>2. o \in {0} \cup Maps /\ (o # 0 => h.map[o].ref > 0)
  <2>1. o \in {0} \cup Maps
    BY HeapParts DEF Sound
  <2>2. o \in Maps => h.map[o].ref > 0
    BY HeldIs DEF Sound
  <2> QED BY <2>1, <2>2
<1>3. /\ w \in HeapType
      /\ w.var = u.var /\ w.step = u.step /\ w.aStep = u.aStep /\ w.owned = u.owned
      /\ \A n \in Maps : n # m => w.map[n] = u.map[n]
      /\ w.map[m].ref = u.map[m].ref + 1
      /\ w.map[m].keys = u.map[m].keys /\ w.map[m].active = u.map[m].active
  BY <1>1, RetainIs
<1> HIDE DEF w
<1>4. w.var[v] = o /\ (o # 0 => w.map[o] = h.map[o])
  BY <1>1, <1>2, <1>3
<1>5. w.var[v] # 0 => w.map[w.var[v]].ref > 0
  BY <1>2, <1>4
<1>6. /\ x \in HeapType
      /\ x.step = w.step /\ x.aStep = w.aStep /\ x.owned = w.owned
      /\ \A y \in Vars : x.var[y] = IF y = v THEN 0 ELSE w.var[y]
      /\ \A n \in Maps : n # w.var[v] => x.map[n] = w.map[n]
      /\ w.var[v] # 0 =>
           /\ w.map[w.var[v]].ref = 1 => x.map[w.var[v]] = FreeMap
           /\ w.map[w.var[v]].ref # 1 => /\ x.map[w.var[v]].ref = w.map[w.var[v]].ref - 1
                                         /\ x.map[w.var[v]].keys = w.map[w.var[v]].keys
                                         /\ x.map[w.var[v]].active = w.map[w.var[v]].active
  BY <1>3, <1>5, DropIs, SMTT(40)
<1> HIDE DEF x
<1>7. /\ r \in HeapType
      /\ r.map = x.map /\ r.step = x.step /\ r.aStep = x.aStep /\ r.owned = x.owned
      /\ \A y \in Vars : r.var[y] = IF y = v THEN m ELSE x.var[y]
  BY <1>6, VarSetIs
<1> HIDE DEF r
<1>8. /\ \A y \in Vars : r.var[y] = IF y = v THEN m ELSE h.var[y]
      /\ r.aStep = h.aStep /\ r.owned = h.owned /\ r.step = u.step
  BY <1>1, <1>3, <1>6, <1>7
<1>9. /\ \A n \in Maps : n # m /\ n # o => r.map[n] = h.map[n]
      /\ r.map[m] = w.map[m] /\ r.map[m].keys = h.map[m].keys
  BY <1>1, <1>3, <1>4, <1>6, <1>7
<1>10. o # 0 => /\ h.map[o].ref = 1 => r.map[o] = FreeMap
                /\ h.map[o].ref # 1 => /\ r.map[o].ref = h.map[o].ref - 1
                                       /\ r.map[o].keys = h.map[o].keys
                                       /\ r.map[o].active = h.map[o].active
  BY <1>4, <1>6, <1>7
<1>11. Rebound(h, v, m, r)
  BY <1>1, <1>3, <1>8, <1>9, <1>10 DEF Rebound
<1> HIDE DEF o
<1>12. Sound(r)
  BY <1>7, <1>11, ReboundSound
<1> QED BY <1>9, <1>11, <1>12 DEF r, x, w, u, Shared

LEMMA ReboundOrdered ==
  ASSUME NEW h, NEW r, NEW n \in Nat, Sound(h), Sound(r), Ordered(h, n),
         NEW v \in Vars, NEW to \in {0} \cup Maps, Rebound(h, v, to, r), to # h.var[v],
         to # 0 => r.map[to].keys = h.map[to].keys
  PROVE  /\ Ordered(r, n)
         /\ \A m \in Maps : r.map[m].ref > 0 => r.map[m].keys = h.map[m].keys
<1>1. ASSUME NEW p \in Maps
      PROVE  r.map[p].keys = h.map[p].keys \/ r.map[p] = FreeMap
  <2>1. CASE p # to /\ p # h.var[v]
    BY <2>1 DEF Rebound
  <2>2. CASE p = to
    BY <2>2, ZeroIs DEF Rebound
  <2>3. CASE p = h.var[v]
    BY <2>3, ZeroIs DEF Rebound
  <2> QED BY <2>1, <2>2, <2>3
<1>2. ASSUME NEW p \in Maps
      PROVE  Rising(r.map[p].keys) /\ \A k \in Range(r.map[p].keys) : k <= n
  <2>1. CASE r.map[p].keys = h.map[p].keys
    BY <2>1 DEF Ordered
  <2>2. CASE r.map[p] = FreeMap
    BY <2>2, FreeMapIs, EmptyIs
  <2> QED BY <1>1, <2>1, <2>2
<1>3. ASSUME NEW p \in Maps, r.map[p].ref > 0
      PROVE  r.map[p].keys = h.map[p].keys
  BY <1>1, <1>3, FreeMapIs
<1>4. ASSUME NEW j \in Steps, r.step[j].map # 0
      PROVE  /\ r.step[j].visited <= n
             /\ Aimed(r.map[r.step[j].map].keys, r.step[j].cursor, r.step[j].visited)
  <2>1. /\ r.step[j].map = h.step[j].map /\ r.step[j].visited = h.step[j].visited
        /\ r.step[j].cursor = h.step[j].cursor
    BY DEF Rebound
  <2>2. r.step[j].map \in Maps
    BY <1>4, StepsAre DEF Sound
  <2>3. r.map[r.step[j].map].ref > 0
    BY <2>2, HeldIs DEF Sound
  <2>4. r.map[r.step[j].map].keys = h.map[r.step[j].map].keys
    BY <1>3, <2>2, <2>3
  <2> QED BY <1>4, <2>1, <2>4 DEF Ordered
<1> QED BY <1>2, <1>3, <1>4 DEF Ordered

---------------------------------------------------------------------------
(* A walk that goes on.                                                    *)

Advanced(h, i, r) ==
  /\ r.var = h.var /\ r.map = h.map /\ r.aStep = h.aStep /\ r.owned = h.owned
  /\ \A j \in Steps : j # i => r.step[j] = h.step[j]
  /\ r.step[i].map = h.step[i].map /\ r.step[i].frame = h.step[i].frame
  /\ r.step[i].byRef = h.step[i].byRef
  /\ r.step[i].cursor = After(h.map[h.step[i].map].keys, h.step[i].cursor)
  /\ r.step[i].visited = h.step[i].cursor

LEMMA AdvanceKeeps ==
  ASSUME NEW h, NEW r, NEW n \in Nat, Sound(h), Ordered(h, n), r \in HeapType,
         NEW i \in Steps, h.step[i].map # 0, h.step[i].cursor # 0, Advanced(h, i, r)
  PROVE  /\ Sound(r) /\ Ordered(r, n) /\ Moved(h, h.step[i].map, r)
         /\ h.step[i].cursor \in Range(h.map[h.step[i].map].keys)
<1> DEFINE m == h.step[i].map
           s == h.map[m].keys
           c == h.step[i].cursor
           a == After(s, c)
<1>1. m \in Maps /\ h.map[m].ref > 0
  BY StepsAre, HeldIs DEF Sound
<1>2. /\ h.step[i].visited \in Nat /\ c \in Nat /\ Aimed(s, c, h.step[i].visited)
      /\ Rising(s) /\ s \in Seq(Nat) /\ \A k \in Range(s) : k <= n
  BY <1>1, AimIs
<1>3. c \in Range(s)
  BY <1>2 DEF Aimed
<1>4. \/ a = 0 /\ \A y \in Range(s) : y <= c
      \/ a \in Range(s) /\ c < a /\ \A y \in Range(s) : c < y => a <= y
  <2> HIDE DEF s, c
  <2> QED BY <1>2, <1>3, AfterIs
<1>5. Moved(h, m, r)
  BY DEF Advanced, Moved
<1>6. Range(s) \subseteq Nat /\ 0 \notin Range(s)
  <2>1. Range(s) \subseteq Key
    BY <1>1, AimIs
  <2> HIDE DEF s
  <2> QED BY <2>1, ZeroIs
<1> HIDE DEF a
<1>7. Aimed(s, a, c)
  BY <1>4, <1>6 DEF Aimed
<1>8. ASSUME NEW j \in Steps, h.step[j].map = m
      PROVE  /\ r.step[j].visited <= n
             /\ Aimed(r.map[m].keys, r.step[j].cursor, r.step[j].visited)
  <2>1. r.map[m].keys = s
    BY DEF Advanced
  <2>2. CASE j = i
    BY <1>2, <1>3, <1>7, <2>1, <2>2 DEF Advanced, a
  <2>3. CASE j # i
    <3>1. r.step[j] = h.step[j]
      BY <2>3 DEF Advanced
    <3> QED BY <1>1, <1>8, <2>1, <3>1, AimIs
  <2> QED BY <2>2, <2>3
<1>9. Rising(r.map[m].keys) /\ \A k \in Range(r.map[m].keys) : k <= n
  BY <1>2 DEF Advanced
<1>10. Sound(r)
  <2> HIDE DEF m
  <2> QED BY <1>1, <1>5, MovedSound
<1>11. Ordered(r, n)
  <2>1. n <= n
    OBVIOUS
  <2> HIDE DEF m
  <2> QED BY <1>1, <1>5, <1>8, <1>9, <2>1, MovedOrdered
<1> QED BY <1>3, <1>5, <1>10, <1>11

---------------------------------------------------------------------------
(* A loop that begins.                                                     *)

LEMMA BegunOrdered ==
  ASSUME NEW h, NEW r, NEW n \in Nat, NEW l \in Nat, n <= l, Sound(h), Sound(r),
         Ordered(h, n), NEW i \in Steps, NEW f \in Frames, NEW s \in Stmts, NEW m \in Maps,
         Begun(h, i, f, s, m, r),
         r.step[i].visited = 0, r.step[i].cursor = First(r.map[m].keys),
         r.map[m].keys = h.map[m].keys \/ h.map[m].ref = 0,
         Rising(r.map[m].keys), \A k \in Range(r.map[m].keys) : k <= l
  PROVE  Ordered(r, l)
<1>1. ASSUME NEW p \in Maps
      PROVE  Rising(r.map[p].keys) /\ \A k \in Range(r.map[p].keys) : k <= l
  <2>1. CASE p = m
    BY <2>1
  <2>2. CASE p # m
    <3>1. r.map[p] = h.map[p]
      BY <2>2 DEF Begun
    <3>2. Range(h.map[p].keys) \subseteq Nat
      BY HeapParts, KeysAre, SeqIs DEF Sound
    <3>3. Rising(h.map[p].keys) /\ \A k \in Range(h.map[p].keys) : k <= n
      BY DEF Ordered
    <3> QED BY <3>1, <3>2, <3>3
  <2> QED BY <2>1, <2>2
<1>2. ASSUME NEW j \in Steps, r.step[j].map # 0
      PROVE  /\ r.step[j].visited <= l
             /\ Aimed(r.map[r.step[j].map].keys, r.step[j].cursor, r.step[j].visited)
  <2>1. CASE j = i
    <3> DEFINE ks == r.map[m].keys
    <3>1. r.step[j].map = m
      BY <2>1 DEF Begun
    <3>2. ks \in Seq(Nat) /\ Range(ks) \subseteq Key
      BY HeapParts, KeysAre, SeqIs DEF Sound
    <3> HIDE DEF ks
    <3>3. /\ ks = << >> => First(ks) = 0 /\ Range(ks) = {}
          /\ ks # << >> => First(ks) \in Range(ks) /\ \A k \in Range(ks) : First(ks) <= k
      BY <3>2, FirstIs DEF ks
    <3>4. \A k \in Range(ks) : k \in Nat /\ 0 < k
      BY <3>2, SizesAssumption DEF Key
    <3>5. First(ks) = 0 => Range(ks) = {}
      BY <3>3, <3>4
    <3>6. First(ks) # 0 => ks # << >>
      BY <3>3
    <3>7. Aimed(ks, First(ks), 0)
      BY <3>3, <3>4, <3>5, <3>6 DEF Aimed
    <3> QED BY <2>1, <3>1, <3>7 DEF ks
  <2>2. CASE j # i
    <3>1. r.step[j] = h.step[j]
      BY <2>2 DEF Begun
    <3>2. h.step[j].map \in Maps
      BY <1>2, <3>1, StepsAre DEF Sound
    <3>3. h.map[h.step[j].map].ref > 0
      BY <3>2, HeldIs DEF Sound
    <3>4. r.map[h.step[j].map].keys = h.map[h.step[j].map].keys
      BY <3>2, <3>3 DEF Begun
    <3>5. /\ h.step[j].visited \in Nat /\ h.step[j].visited <= n
          /\ Aimed(h.map[h.step[j].map].keys, h.step[j].cursor, h.step[j].visited)
      BY <3>2, AimIs
    <3>6. h.step[j].visited <= l
      BY <3>5
    <3> QED BY <3>1, <3>4, <3>5, <3>6
  <2> QED BY <2>1, <2>2
<1> QED BY <1>1, <1>2 DEF Ordered

(* No step of statement s is frame f's.                                    *)
Vacant(h, f, s) == \A i \in Steps : ~(On(h, s, i) /\ h.step[i].frame = f)

(* Frame f has step i on statement s, over map m, before the first key.    *)
Opened(h, f, s, i, m, r) ==
  /\ r.var = h.var
  /\ \A n \in Maps : h.map[n].ref # 0 => r.map[n].ref # 0 /\ r.map[n].keys = h.map[n].keys
  /\ \A n \in Maps : r.map[n].ref # 0 => h.map[n].ref # 0 \/ n = m
  /\ h.step[i].map = 0 /\ r.step[i].map = m /\ r.step[i].frame = f
  /\ r.step[i].byRef = code.loops[s].byRef
  /\ r.step[i].cursor = First(r.map[m].keys)
  /\ \A j \in Steps : j # i => r.step[j] = h.step[j]
  /\ \A t \in Stmts : \A j \in Steps : On(r, t, j) <=> On(h, t, j) \/ (t = s /\ j = i)

LEMMA OpenKeeps ==
  ASSUME NEW h, NEW n \in Nat, Sound(h), Ordered(h, n), code \in Codes,
         FreeSteps(h) # {}, NEW f \in Frames, NEW s \in DOMAIN code.loops,
         NEW m \in Maps, h.map[m].ref # 0, Vacant(h, f, s)
  PROVE  LET r == NewStep(Retain(h, m), f, s, m)
         IN /\ Sound(r) /\ Ordered(r, n)
            /\ \E i \in Steps : Opened(h, f, s, i, m, r)
<1> DEFINE u == Retain(h, m)
           r == NewStep(u, f, s, m)
           i == Least(FreeSteps(u))
<1>1. s \in Stmts
  BY ProgramIs
<1>2. /\ u \in HeapType
      /\ u.var = h.var /\ u.step = h.step /\ u.aStep = h.aStep /\ u.owned = h.owned
      /\ \A p \in Maps : p # m => u.map[p] = h.map[p]
      /\ u.map[m].ref = h.map[m].ref + 1
      /\ u.map[m].keys = h.map[m].keys /\ u.map[m].active = h.map[m].active
  BY RetainIs DEF Sound
<1> HIDE DEF u
<1>3. FreeSteps(u) # {}
  BY <1>2 DEF FreeSteps
<1> HIDE DEF r, i
<1>4. /\ r \in HeapType /\ i \in Steps /\ u.step[i].map = 0
      /\ r.step[i].map = m /\ r.step[i].frame = f
      /\ r.step[i].cursor = First(u.map[m].keys) /\ r.step[i].visited = 0
      /\ r.step[i].byRef = code.loops[s].byRef
      /\ \A j \in Steps : j # i => r.step[j] = u.step[j]
      /\ r.var = u.var
      /\ \A p \in Maps : p # m => r.map[p] = u.map[p]
      /\ r.map[m].ref = u.map[m].ref /\ r.map[m].keys = u.map[m].keys
      /\ r.map[m].active = <<i>> \o u.map[m].active
      /\ r.aStep[s] = Append(u.aStep[s], i)
      /\ \A t \in Stmts : t # s => r.aStep[t] = u.aStep[t]
      /\ r.owned[f] = <<i>> \o u.owned[f]
      /\ \A g \in Frames : g # f => r.owned[g] = u.owned[g]
  <2>1. Made(u, f, s, m, i, r)
    BY <1>2, <1>3, NewStepIs DEF r, i
  <2> QED BY <2>1 DEF Made
<1>5. Begun(h, i, f, s, m, r)
  BY <1>2, <1>4 DEF Begun
<1>6. \A j \in Steps : ~(On(h, s, j) /\ h.step[j].frame = f)
  BY DEF Vacant
<1>7. /\ Sound(r)
      /\ \A t \in Stmts : \A j \in Steps :
           On(r, t, j) <=> On(h, t, j) \/ (t = s /\ j = i)
  BY <1>1, <1>4, <1>5, <1>6, BegunSound
<1>8. /\ r.map[m].keys = h.map[m].keys
      /\ Rising(r.map[m].keys) /\ \A k \in Range(r.map[m].keys) : k <= n
  BY <1>2, <1>4 DEF Ordered
<1>9. Ordered(r, n)
  <2>1. n <= n /\ r.step[i].cursor = First(r.map[m].keys)
    BY <1>2, <1>4
  <2> QED BY <1>1, <1>4, <1>5, <1>7, <1>8, <2>1, BegunOrdered
<1>10. h.map[m].ref \in Nat
  BY HeapParts DEF Sound
<1>11. Opened(h, f, s, i, m, r)
  <2>1. \A p \in Maps : p # m => r.map[p] = h.map[p]
    BY <1>2, <1>4
  <2>2. r.map[m].ref = h.map[m].ref + 1
    BY <1>2, <1>4
  <2>3. r.map[m].ref # 0
    BY <1>10, <2>2
  <2>4. \A p \in Maps : h.map[p].ref # 0 => r.map[p].ref # 0 /\ r.map[p].keys = h.map[p].keys
    BY <1>8, <2>1, <2>3
  <2>5. r.var = h.var /\ h.step[i].map = 0 /\ r.step[i].cursor = First(r.map[m].keys)
    BY <1>2, <1>4
  <2>6. \A j \in Steps : j # i => r.step[j] = h.step[j]
    BY <1>2, <1>4
  <2> QED BY <1>4, <1>7, <2>1, <2>4, <2>5, <2>6 DEF Opened
<1> QED BY <1>4, <1>7, <1>9, <1>11 DEF r, u

LEMMA TemporaryKeeps ==
  ASSUME NEW h, NEW n \in Nat, Sound(h), Ordered(h, n), code \in Codes, n + 1 \in Key,
         FreeSteps(h) # {}, NEW f \in Frames, NEW s \in DOMAIN code.loops,
         NEW m \in Maps, h.map[m].ref = 0, Vacant(h, f, s)
  PROVE  LET r == NewStep(NewMap(h, m, <<n + 1>>), f, s, m)
         IN /\ Sound(r) /\ Ordered(r, n + 1)
            /\ \E i \in Steps : Opened(h, f, s, i, m, r)
            /\ r.map[m].keys = <<n + 1>>
<1> DEFINE k == n + 1
           ks == <<k>>
           u == NewMap(h, m, ks)
           r == NewStep(u, f, s, m)
           i == Least(FreeSteps(u))
<1>1. s \in Stmts
  BY ProgramIs
<1>2. /\ ks \in Seq(Key) /\ Rising(ks) /\ \A y \in Range(ks) : y <= k
  <2>1. ks \in Seq(Key) /\ DOMAIN ks = 1 .. 1 /\ ks[1] = k
    OBVIOUS
  <2>2. \A y \in Range(ks) : y = k
    BY <2>1, RangeIs
  <2>3. Rising(ks)
    BY <2>1 DEF Rising
  <2>4. k <= k
    OBVIOUS
  <2> QED BY <2>1, <2>2, <2>3, <2>4
<1>3. h.map[m] = FreeMap
  BY DEF Sound, Pools
<1> HIDE DEF ks
<1>4. /\ u \in HeapType
      /\ u.var = h.var /\ u.step = h.step /\ u.aStep = h.aStep /\ u.owned = h.owned
      /\ \A p \in Maps : p # m => u.map[p] = h.map[p]
      /\ u.map[m].ref = 1 /\ u.map[m].keys = ks /\ u.map[m].active = << >>
  BY <1>2, NewMapIs DEF Sound
<1> HIDE DEF u
<1>5. FreeSteps(u) # {}
  BY <1>4 DEF FreeSteps
<1> HIDE DEF r, i
<1>6. /\ r \in HeapType /\ i \in Steps /\ u.step[i].map = 0
      /\ r.step[i].map = m /\ r.step[i].frame = f
      /\ r.step[i].cursor = First(u.map[m].keys) /\ r.step[i].visited = 0
      /\ r.step[i].byRef = code.loops[s].byRef
      /\ \A j \in Steps : j # i => r.step[j] = u.step[j]
      /\ r.var = u.var
      /\ \A p \in Maps : p # m => r.map[p] = u.map[p]
      /\ r.map[m].ref = u.map[m].ref /\ r.map[m].keys = u.map[m].keys
      /\ r.map[m].active = <<i>> \o u.map[m].active
      /\ r.aStep[s] = Append(u.aStep[s], i)
      /\ \A t \in Stmts : t # s => r.aStep[t] = u.aStep[t]
      /\ r.owned[f] = <<i>> \o u.owned[f]
      /\ \A g \in Frames : g # f => r.owned[g] = u.owned[g]
  <2>1. Made(u, f, s, m, i, r)
    BY <1>4, <1>5, NewStepIs DEF r, i
  <2> QED BY <2>1 DEF Made
<1>7. r.map[m].ref = h.map[m].ref + 1 /\ r.map[m].active = <<i>> \o h.map[m].active
  BY <1>3, <1>4, <1>6, FreeMapIs
<1>8. Begun(h, i, f, s, m, r)
  BY <1>4, <1>6, <1>7, ZenonT(40) DEF Begun
<1>9. \A j \in Steps : ~(On(h, s, j) /\ h.step[j].frame = f)
  BY DEF Vacant
<1>10. /\ Sound(r)
       /\ \A t \in Stmts : \A j \in Steps :
            On(r, t, j) <=> On(h, t, j) \/ (t = s /\ j = i)
  BY <1>1, <1>6, <1>8, <1>9, BegunSound
<1>11. r.map[m].keys = ks
  BY <1>4, <1>6
<1>12. Ordered(r, k)
  <2>1. n <= k /\ k \in Nat
    OBVIOUS
  <2>2. r.step[i].cursor = First(r.map[m].keys)
    BY <1>4, <1>6
  <2> HIDE DEF k
  <2> QED BY <1>1, <1>2, <1>6, <1>8, <1>10, <1>11, <2>1, <2>2, BegunOrdered
<1>13. Opened(h, f, s, i, m, r)
  <2>1. \A p \in Maps : p # m => r.map[p] = h.map[p]
    BY <1>4, <1>6
  <2>2. \A p \in Maps : h.map[p].ref # 0 => r.map[p].ref # 0 /\ r.map[p].keys = h.map[p].keys
    BY <2>1
  <2>3. r.var = h.var /\ h.step[i].map = 0 /\ r.step[i].cursor = First(r.map[m].keys)
    BY <1>4, <1>6
  <2>4. \A j \in Steps : j # i => r.step[j] = h.step[j]
    BY <1>4, <1>6
  <2> QED BY <1>6, <1>10, <2>1, <2>2, <2>3, <2>4 DEF Opened
<1> QED BY <1>6, <1>10, <1>11, <1>12, <1>13 DEF r, u, ks, k

---------------------------------------------------------------------------
(* The actions.                                                            *)

LEMMA InvParts ==
  ASSUME CursorInv
  PROVE  /\ Sound(Heap) /\ Heap \in HeapType /\ Ordered(Heap, nKeys)
         /\ nKeys \in 0 .. MaxKeys /\ nKeys \in Nat
         /\ code \in Codes /\ live \subseteq Frames /\ inside \subseteq live \X Stmts
         /\ Alive(Heap, live) /\ Walking(Heap, inside)
  BY SizesAssumption DEF CursorInv, Sound

LEMMA HeapIsState ==
  Heap.var = var /\ Heap.map = map /\ Heap.step = step /\ Heap.aStep = aStep
  /\ Heap.owned = owned
  BY DEF Heap

LEMMA BecomesIs ==
  ASSUME NEW r, r \in HeapType, HeapBecomes(r)
  PROVE  Heap' = r
<1>1. r = [var |-> r.var, map |-> r.map, step |-> r.step, aStep |-> r.aStep,
           owned |-> r.owned]
  BY HeapIs
<1> QED BY <1>1 DEF Heap, HeapBecomes

(* What an action has to leave for the invariant to hold.                  *)
LEMMA Becomes ==
  ASSUME NEW r, HeapBecomes(r), Sound(r), Ordered(r, nKeys'), Alive(r, live'),
         Walking(r, inside'), code' \in Codes, live' \subseteq Frames,
         inside' \subseteq live' \X Stmts, nKeys' \in 0 .. MaxKeys
  PROVE  CursorInv'
<1>1. Heap' = r
  BY BecomesIs DEF Sound
<1>2. Sound(Heap') /\ Ordered(Heap', nKeys') /\ Alive(Heap', live') /\ Walking(Heap', inside')
  BY <1>1
<1> QED BY <1>2 DEF CursorInv

LEMMA SameHeap ==
  ASSUME UNCHANGED <<var, map, step, aStep, owned>>
  PROVE  HeapBecomes(Heap)
  BY DEF Heap, HeapBecomes

(* Order and life of a heap whose frames, steps and lists stay.            *)
LEMMA MovedAlive ==
  ASSUME NEW h, NEW r, NEW lv, NEW ins, Sound(h), NEW m, Moved(h, m, r), Alive(h, lv),
         Walking(h, ins)
  PROVE  Alive(r, lv) /\ Walking(r, ins)
  BY DEF Moved, Alive, Walking, On

LEMMA SparedAlive ==
  ASSUME NEW h, NEW r, NEW lv, NEW gone, Spared(h, r, gone), Alive(h, lv)
  PROVE  Alive(r, lv)
<1> SUFFICES ASSUME NEW i \in Steps, r.step[i].map # 0 PROVE r.step[i].frame \in lv
  BY DEF Alive
<1>1. r.step[i] = h.step[i]
  BY FreeStepIs DEF Spared
<1> QED BY <1>1 DEF Alive

LEMMA ReboundAlive ==
  ASSUME NEW h, NEW r, NEW lv, NEW ins, NEW v, NEW to, Rebound(h, v, to, r), Alive(h, lv),
         Walking(h, ins)
  PROVE  Alive(r, lv) /\ Walking(r, ins)
<1>1. \A i \in Steps : r.step[i].map = h.step[i].map /\ r.step[i].frame = h.step[i].frame
  BY DEF Rebound
<1>2. r.aStep = h.aStep
  BY DEF Rebound
<1> QED BY <1>1, <1>2 DEF Alive, Walking, On

LEMMA ApartAlive ==
  ASSUME NEW h, NEW r, NEW lv, NEW ins, NEW v, Apart(h, v, r), Alive(h, lv), Walking(h, ins)
  PROVE  Alive(r, lv) /\ Walking(r, ins) /\ \A f, s : Vacant(h, f, s) => Vacant(r, f, s)
  BY DEF Apart, Alive, Walking, On, Vacant

LEMMA OpenedAlive ==
  ASSUME NEW h, NEW r, NEW lv, NEW ins, NEW f \in lv, NEW s \in Stmts, NEW i \in Steps,
         NEW m, Opened(h, f, s, i, m, r), Alive(h, lv), Sound(h),
         Walking(h, ins)
  PROVE  Alive(r, lv) /\ Walking(r, ins \cup {<<f, s>>})
<1>1. Alive(r, lv)
  <2> SUFFICES ASSUME NEW j \in Steps, r.step[j].map # 0 PROVE r.step[j].frame \in lv
    BY DEF Alive
  <2>1. CASE j = i
    BY <2>1 DEF Opened
  <2>2. CASE j # i
    <3>1. r.step[j] = h.step[j]
      BY <2>2 DEF Opened
    <3> QED BY <3>1 DEF Alive
  <2> QED BY <2>1, <2>2
<1>2. ASSUME NEW g \in Frames, NEW t \in Stmts, <<g, t>> \in ins \cup {<<f, s>>}
      PROVE  \E j \in Steps : On(r, t, j) /\ r.step[j].frame = g
  <2>1. CASE g = f /\ t = s
    BY <2>1 DEF Opened
  <2>2. CASE ~(g = f /\ t = s)
    <3>1. <<g, t>> \in ins
      BY <1>2, <2>2
    <3>2. PICK j \in Steps : On(h, t, j) /\ h.step[j].frame = g
      BY <3>1 DEF Walking
    <3>3. h.step[j].map # 0
      BY <3>2 DEF Sound, StmtLists
    <3>4. j # i
      BY <3>3 DEF Opened
    <3>5. On(r, t, j) /\ r.step[j] = h.step[j]
      BY <3>2, <3>4 DEF Opened
    <3> QED BY <3>2, <3>5
  <2> QED BY <2>1, <2>2
<1> QED BY <1>1, <1>2 DEF Walking

(* The steps that go are all of frames or loops that are left.             *)
LEMMA SparedWalking ==
  ASSUME NEW h, NEW r, NEW gone, NEW ins, NEW rest, Spared(h, r, gone), Walking(h, ins),
         rest \subseteq ins,
         \A f \in Frames, s \in Stmts : <<f, s>> \in rest =>
           \A i \in Steps : On(h, s, i) /\ h.step[i].frame = f => i \notin gone
  PROVE  Walking(r, rest)
<1> SUFFICES ASSUME NEW f \in Frames, NEW s \in Stmts, <<f, s>> \in rest
             PROVE  \E i \in Steps : On(r, s, i) /\ r.step[i].frame = f
  BY DEF Walking
<1>1. PICK i \in Steps : On(h, s, i) /\ h.step[i].frame = f
  BY DEF Walking
<1>2. i \notin gone
  BY <1>1
<1>3. On(r, s, i) /\ r.step[i] = h.step[i]
  BY <1>1, <1>2 DEF Spared
<1> QED BY <1>1, <1>3

LEMMA EnterInv ==
  ASSUME CursorInv, NEW f \in Frames, Enter(f)
  PROVE  CursorInv'
<1>1. HeapBecomes(Heap) /\ code' = code /\ nKeys' = nKeys /\ inside' = inside
  BY SameHeap DEF Enter
<1>2. live' = live \cup {f}
  BY DEF Enter
<1>3. Alive(Heap, live')
  BY <1>2, InvParts DEF Alive
<1>4. inside' \subseteq live' \X Stmts /\ live' \subseteq Frames
  BY <1>1, <1>2, InvParts
<1> QED BY <1>1, <1>3, <1>4, InvParts, Becomes

LEMMA LeaveInv ==
  ASSUME CursorInv, NEW f \in Frames, Leave(f)
  PROVE  CursorInv'
<1> DEFINE r == ReleaseAll(Heap, owned[f])
           gone == Range(owned[f])
<1>1. /\ HeapBecomes(r) /\ code' = code /\ nKeys' = nKeys
      /\ live' = live \ {f} /\ inside' = {l \in inside : l[1] # f}
  BY DEF Leave
<1>2. owned[f] \in Seq(Steps) /\ Distinct(owned[f])
  BY InvParts, HeapParts, HeapIsState DEF Sound, FrameLists
<1>3. gone \subseteq Steps
  BY <1>2, SeqIs
<1>4. \A i \in Steps : i \in gone <=> Heap.step[i].map # 0 /\ Heap.step[i].frame = f
  BY InvParts, HeapIsState DEF Sound, FrameLists
<1>5. Sound(r) /\ Spared(Heap, r, gone)
  <2>1. \A i \in Range(owned[f]) : Heap.step[i].map # 0
    BY <1>3, <1>4
  <2> QED BY <1>2, <2>1, InvParts, ReleaseAllSound
<1> HIDE DEF r, gone
<1>6. Ordered(r, nKeys')
  BY <1>1, <1>5, InvParts, SparedOrdered
<1>7. Alive(r, live')
  <2> SUFFICES ASSUME NEW i \in Steps, r.step[i].map # 0 PROVE r.step[i].frame \in live'
    BY DEF Alive
  <2>1. i \notin gone /\ r.step[i] = Heap.step[i]
    BY <1>5, FreeStepIs DEF Spared
  <2>2. Heap.step[i].frame # f /\ Heap.step[i].frame \in live
    BY <1>4, <2>1, InvParts DEF Alive
  <2> QED BY <1>1, <2>1, <2>2
<1>8. Walking(r, inside')
  <2>1. ASSUME NEW g \in Frames, NEW s \in Stmts, <<g, s>> \in inside',
               NEW i \in Steps, On(Heap, s, i), Heap.step[i].frame = g
        PROVE  i \notin gone
    <3>1. g # f
      BY <1>1, <2>1
    <3> QED BY <1>4, <2>1, <3>1
  <2>2. inside' \subseteq inside
    BY <1>1
  <2> QED BY <1>5, <2>1, <2>2, InvParts, SparedWalking
<1>9. live' \subseteq Frames /\ inside' \subseteq live' \X Stmts
  BY <1>1, InvParts
<1>10. code' \in Codes /\ nKeys' \in 0 .. MaxKeys
  BY <1>1, InvParts
<1> QED BY <1>1, <1>5, <1>6, <1>7, <1>8, <1>9, <1>10, Becomes

(* The heap a loop begins in                                               *)
LEMMA ReclaimedKeeps ==
  ASSUME CursorInv, NEW f \in Frames, NEW s \in Stmts, <<f, s>> \notin inside
  PROVE  LET r == Reclaimed(f, s)
         IN /\ Sound(r) /\ Ordered(r, nKeys) /\ Alive(r, live) /\ Walking(r, inside)
            /\ Vacant(r, f, s)
<1> DEFINE r == Reclaimed(f, s)
           gone == {i \in Steps : On(Heap, s, i) /\ Heap.step[i].frame = f}
<1>1. /\ Sound(r) /\ Spared(Heap, r, gone)
      /\ \A i \in Steps : ~(On(r, s, i) /\ r.step[i].frame = f)
  BY InvParts, ReclaimedIs
<1>2. \A i \in Steps : i \in gone => On(Heap, s, i) /\ Heap.step[i].frame = f
  OBVIOUS
<1> HIDE DEF r, gone
<1>3. Ordered(r, nKeys) /\ Alive(r, live)
  BY <1>1, InvParts, SparedOrdered, SparedAlive
<1>4. ASSUME NEW g \in Frames, NEW t \in Stmts, <<g, t>> \in inside,
             NEW i \in Steps, On(Heap, t, i), Heap.step[i].frame = g
      PROVE  i \notin gone
  <2>1. i \in gone => g = f /\ t = s
    BY <1>2, <1>4, InvParts DEF Sound, StmtLists
  <2> QED BY <1>4, <2>1
<1>5. Walking(r, inside)
  BY <1>1, <1>4, InvParts, SparedWalking
<1> QED BY <1>1, <1>3, <1>5 DEF Vacant, r

LEMMA OpenInv ==
  ASSUME CursorInv, NEW f \in Frames, NEW s \in DOMAIN code.loops, Open(f, s)
  PROVE  CursorInv'
<1> DEFINE v == code.loops[s].over
           h == Reclaimed(f, s)
           own == IF code.loops[s].byRef THEN Separate(h, v) ELSE h
           m == own.var[v]
           r == NewStep(Retain(own, m), f, s, m)
<1>1. /\ f \in live /\ <<f, s>> \notin inside /\ inside' = inside \cup {<<f, s>>}
      /\ code' = code /\ live' = live /\ nKeys' = nKeys
      /\ v # None /\ var[v] # 0 /\ FreeSteps(h) # {} /\ FreeMaps(h) # {} /\ HeapBecomes(r)
  BY DEF Open, CanOpen
<1>2. s \in Stmts /\ v \in Vars
  BY <1>1, InvParts, ProgramIs
<1>3. /\ Sound(h) /\ Ordered(h, nKeys) /\ Alive(h, live) /\ Walking(h, inside)
      /\ Vacant(h, f, s)
  BY <1>1, <1>2, ReclaimedKeeps
<1>4. h.var[v] # 0
  <2>1. h.var = Heap.var
    BY <1>2, InvParts, ReclaimedIs DEF Spared
  <2> QED BY <1>1, <2>1, HeapIsState
<1> HIDE DEF h, v
<1>5. /\ Sound(own) /\ Ordered(own, nKeys) /\ Alive(own, live) /\ Walking(own, inside)
      /\ Vacant(own, f, s) /\ own.var[v] # 0 /\ own.step = h.step
  <2>1. CASE code.loops[s].byRef
    <3> DEFINE q == Separate(h, v)
    <3>1. own = q
      BY <2>1
    <3>2. Sound(q) /\ Apart(h, v, q)
      BY <1>1, <1>2, <1>3, <1>4, SeparateSound
    <3> HIDE DEF q, own
    <3>3. Ordered(q, nKeys)
      BY <1>2, <1>3, <1>4, <3>2, InvParts, ApartOrdered
    <3>4. Alive(q, live) /\ Walking(q, inside) /\ Vacant(q, f, s)
      BY <1>3, <3>2, ApartAlive
    <3>5. q.var[v] # 0 /\ q.step = h.step
      BY <3>2, ZeroIs DEF Apart
    <3> QED BY <3>1, <3>2, <3>3, <3>4, <3>5
  <2>2. CASE ~code.loops[s].byRef
    BY <1>3, <1>4, <2>2
  <2> QED BY <2>1, <2>2
<1> HIDE DEF own
<1>6. m \in Maps /\ own.map[m].ref # 0
  <2>1. m \in Maps
    BY <1>2, <1>5, HeapParts DEF Sound
  <2> QED BY <1>2, <1>5, <2>1, HeldIs DEF Sound
<1>7. FreeSteps(own) # {}
  BY <1>1, <1>5 DEF FreeSteps
<1> HIDE DEF m
<1>8. Sound(r) /\ Ordered(r, nKeys) /\ \E i \in Steps : Opened(own, f, s, i, m, r)
  BY <1>5, <1>6, <1>7, InvParts, OpenKeeps
<1> HIDE DEF r
<1>9. PICK i \in Steps : Opened(own, f, s, i, m, r)
  BY <1>8
<1>10. Alive(r, live) /\ Walking(r, inside')
  BY <1>1, <1>2, <1>5, <1>9, OpenedAlive
<1>11. inside' \subseteq live' \X Stmts
  BY <1>1, <1>2, InvParts
<1> QED BY <1>1, <1>8, <1>10, <1>11, InvParts, Becomes

LEMMA TemporaryInv ==
  ASSUME CursorInv, NEW f \in Frames, NEW s \in DOMAIN code.loops, OpenTemporary(f, s)
  PROVE  CursorInv'
<1> DEFINE h == Reclaimed(f, s)
           m == Least(FreeMaps(h))
           r == NewStep(NewMap(h, m, <<nKeys + 1>>), f, s, m)
<1>1. /\ f \in live /\ <<f, s>> \notin inside /\ inside' = inside \cup {<<f, s>>}
      /\ code' = code /\ live' = live /\ nKeys' = nKeys + 1 /\ nKeys < code.keys
      /\ FreeSteps(h) # {} /\ FreeMaps(h) # {} /\ HeapBecomes(r)
  BY DEF OpenTemporary, CanOpen
<1>2. s \in Stmts /\ nKeys + 1 \in Key /\ nKeys' \in 0 .. MaxKeys
  BY <1>1, InvParts, ProgramIs, SizesAssumption DEF Key
<1>3. /\ Sound(h) /\ Ordered(h, nKeys) /\ Alive(h, live) /\ Walking(h, inside)
      /\ Vacant(h, f, s)
  BY <1>1, <1>2, ReclaimedKeeps
<1>4. m \in Maps /\ h.map[m].ref = 0
  BY <1>1, FreeMapsIs
<1> HIDE DEF h, m
<1>5. /\ Sound(r) /\ Ordered(r, nKeys + 1)
      /\ \E i \in Steps : Opened(h, f, s, i, m, r)
  BY <1>1, <1>2, <1>3, <1>4, InvParts, TemporaryKeeps
<1> HIDE DEF r
<1>6. PICK i \in Steps : Opened(h, f, s, i, m, r)
  BY <1>5
<1>7. Alive(r, live) /\ Walking(r, inside')
  BY <1>1, <1>2, <1>3, <1>6, OpenedAlive
<1>8. inside' \subseteq live' \X Stmts
  BY <1>1, <1>2, InvParts
<1> QED BY <1>1, <1>2, <1>5, <1>7, <1>8, InvParts, Becomes

LEMMA NatMax ==
  ASSUME NEW l \in Nat, NEW S \in SUBSET (1 .. l), S # {}
  PROVE  \E x \in S : \A y \in S : y <= x
<1> DEFINE T == {l - x : x \in S}
<1>1. T \in SUBSET Nat /\ T # {}
  <2>1. \A x \in S : l - x \in Nat
    OBVIOUS
  <2>2. T \subseteq Nat
    BY <2>1
  <2>3. T # {}
    OBVIOUS
  <2> QED BY <2>2, <2>3
<1>2. PICK a \in T : \A b \in T : a <= b
  BY <1>1, NatMin
<1>3. PICK x \in S : a = l - x
  OBVIOUS
<1>4. \A y \in S : a <= l - y
  BY <1>2
<1> HIDE DEF T
<1>5. \A y \in S : y <= x
  BY <1>3, <1>4
<1> QED BY <1>5

(* OP_FOREACH_STEP finds the step of the frame that is in the loop.        *)
LEMMA SelectedIs ==
  ASSUME CursorInv, NEW f \in Frames, NEW s \in Stmts, <<f, s>> \in inside
  PROVE  /\ Selected(f, s) \in Steps /\ On(Heap, s, Selected(f, s))
         /\ step[Selected(f, s)].frame = f
<1> DEFINE list == aStep[s]
           mine == {j \in DOMAIN list : step[list[j]].frame = f}
           last == CHOOSE j \in mine : \A k \in mine : k <= j
<1>1. list \in Seq(Steps)
  BY InvParts, HeapParts, HeapIsState
<1>2. Len(list) \in Nat /\ DOMAIN list = 1 .. Len(list) /\ \A j \in DOMAIN list : list[j] \in Steps
  BY <1>1, SeqIs
<1>3. PICK i \in Steps : On(Heap, s, i) /\ Heap.step[i].frame = f
  BY InvParts DEF Walking
<1>4. PICK j \in DOMAIN list : list[j] = i
  BY <1>3, HeapIsState, RangeIs DEF On
<1>5. j \in mine
  BY <1>3, <1>4, HeapIsState
<1>6. mine \in SUBSET (1 .. Len(list)) /\ mine # {}
  BY <1>2, <1>5
<1>7. \E x \in mine : \A k \in mine : k <= x
  BY <1>2, <1>6, NatMax
<1>8. last \in mine
  BY <1>7
<1>9. Selected(f, s) = list[last]
  BY <1>6 DEF Selected
<1>10. last \in DOMAIN list /\ step[list[last]].frame = f
  BY <1>8
<1> HIDE DEF last
<1>11. list[last] \in Range(list)
  BY <1>10, RangeIs
<1> QED BY <1>2, <1>9, <1>10, <1>11, HeapIsState DEF On

LEMMA StepOnInv ==
  ASSUME CursorInv, NEW f \in Frames, NEW s \in Stmts, StepOn(f, s)
  PROVE  CursorInv'
<1> DEFINE i == Selected(f, s)
           k == step[i].cursor
<1>1. <<f, s>> \in inside /\ code' = code /\ live' = live /\ nKeys' = nKeys
  BY DEF StepOn
<1>2. i \in Steps /\ On(Heap, s, i) /\ Heap.step[i].frame = f
  BY <1>1, SelectedIs, HeapIsState
<1>3. Heap.step[i].map # 0
  BY <1>2, InvParts DEF Sound, StmtLists
<1>4. CASE k = 0
  <2> DEFINE r == StepRelease(Heap, i)
  <2>1. HeapBecomes(r) /\ inside' = inside \ {<<f, s>>}
    BY <1>4 DEF StepOn
  <2> HIDE DEF i
  <2>2. Sound(r) /\ Released(Heap, i, r)
    BY <1>2, <1>3, InvParts, ReleaseSound
  <2> HIDE DEF r
  <2>3. Spared(Heap, r, {i})
    BY <1>2, <2>2, InvParts, ReleasedSpares DEF Sound
  <2>4. Ordered(r, nKeys) /\ Alive(r, live)
    BY <2>2, <2>3, InvParts, SparedOrdered, SparedAlive
  <2>5. ASSUME NEW g \in Frames, NEW t \in Stmts, <<g, t>> \in inside',
               NEW j \in Steps, On(Heap, t, j), Heap.step[j].frame = g
        PROVE  j \notin {i}
    <3>1. j = i => g = f /\ t = s
      BY <1>2, <2>5, InvParts DEF Sound, StmtLists
    <3> QED BY <2>1, <2>5, <3>1
  <2>6. Walking(r, inside')
    <3>1. inside' \subseteq inside
      BY <2>1
    <3> QED BY <2>3, <2>5, <3>1, InvParts, SparedWalking
  <2>7. inside' \subseteq live' \X Stmts
    BY <1>1, <2>1, InvParts
  <2> QED BY <1>1, <2>1, <2>2, <2>4, <2>6, <2>7, InvParts, Becomes
<1>5. CASE k # 0
  <2> DEFINE x == [step[i] EXCEPT !.cursor = After(map[step[i].map].keys, k), !.visited = k]
             r == [Heap EXCEPT !.step[i] = x]
  <2>1. /\ step' = [step EXCEPT ![i].cursor = After(map[step[i].map].keys, k),
                                ![i].visited = k]
        /\ UNCHANGED <<var, map, aStep, owned, inside>>
    BY <1>5 DEF StepOn
  <2> HIDE DEF i
  <2>2. step \in [Steps -> StepType] /\ step[i] \in StepType /\ step[i].map \in Maps
    BY <1>2, <1>3, InvParts, HeapParts, HeapIsState, StepsAre
  <2>3. step' = [step EXCEPT ![i] = x]
    BY <1>2, <2>1, <2>2 DEF StepType
  <2>4. k \in Range(map[step[i].map].keys) /\ k \in Key
    <3> DEFINE m == step[i].map
    <3>1. Aimed(map[m].keys, k, step[i].visited) /\ Range(map[m].keys) \subseteq Key
      BY <1>2, <2>2, InvParts, AimIs, HeapIsState
    <3> QED BY <1>5, <3>1 DEF Aimed
  <2>5. After(map[step[i].map].keys, k) \in {0} \cup Key
    <3> DEFINE s1 == map[step[i].map].keys
    <3>1. s1 \in Seq(Nat) /\ Rising(s1) /\ Range(s1) \subseteq Key
      BY <1>2, <2>2, InvParts, AimIs, HeapIsState
    <3> HIDE DEF s1, k
    <3> QED BY <2>4, <3>1, AfterIs DEF s1
  <2> HIDE DEF k
  <2>6. /\ x \in StepType /\ x.map = step[i].map /\ x.frame = step[i].frame
        /\ x.byRef = step[i].byRef /\ x.cursor = After(map[step[i].map].keys, k)
        /\ x.visited = k
    BY <2>2, <2>4, <2>5 DEF StepType
  <2> HIDE DEF x
  <2>7. /\ r \in HeapType
        /\ r.var = Heap.var /\ r.map = Heap.map /\ r.aStep = Heap.aStep
        /\ r.owned = Heap.owned
        /\ r.step[i] = x /\ \A j \in Steps : j # i => r.step[j] = Heap.step[j]
    BY <1>2, <2>6, InvParts, StepSetIs
  <2>8. r.step = step'
    BY <2>3, HeapIsState DEF Heap
  <2> HIDE DEF r
  <2>9. Advanced(Heap, i, r)
    <3>1. k = Heap.step[i].cursor
      BY HeapIsState DEF k
    <3> QED BY <2>6, <2>7, <3>1, HeapIsState DEF Advanced
  <2>10. Heap.step[i].cursor # 0
    BY <1>5, HeapIsState DEF k
  <2>11. Sound(r) /\ Ordered(r, nKeys) /\ Moved(Heap, Heap.step[i].map, r)
    BY <1>2, <1>3, <2>7, <2>9, <2>10, InvParts, AdvanceKeeps
  <2>12. Alive(r, live) /\ Walking(r, inside)
    BY <2>11, InvParts, MovedAlive
  <2>13. HeapBecomes(r)
    BY <2>1, <2>7, <2>8, HeapIsState DEF HeapBecomes
  <2>14. inside' = inside
    BY <2>1
  <2> QED BY <1>1, <2>11, <2>12, <2>13, <2>14, InvParts, Becomes
<1> QED BY <1>4, <1>5

LEMMA BreakInv ==
  ASSUME CursorInv, NEW f \in Frames, NEW s \in Stmts, Break(f, s)
  PROVE  CursorInv'
<1>1. /\ HeapBecomes(Heap) /\ code' = code /\ nKeys' = nKeys /\ live' = live
      /\ inside' \subseteq inside
  BY SameHeap DEF Break
<1>2. Walking(Heap, inside')
  BY <1>1, InvParts DEF Walking
<1>3. inside' \subseteq live' \X Stmts
  BY <1>1, InvParts
<1> QED BY <1>1, <1>2, <1>3, InvParts, Becomes

(* The heap a write happens in                                             *)
LEMMA SeparateKeeps ==
  ASSUME CursorInv, NEW v \in Vars, CanWrite(v)
  PROVE  LET h == Separate(Heap, v)
         IN /\ Sound(h) /\ Ordered(h, nKeys) /\ Alive(h, live) /\ Walking(h, inside)
            /\ Apart(Heap, v, h) /\ h.var[v] \in Maps /\ h.map[h.var[v]].ref # 0
            /\ h.map[h.var[v]].keys = map[var[v]].keys
<1> DEFINE h == Separate(Heap, v)
<1>1. Heap.var[v] # 0 /\ FreeMaps(Heap) # {}
  BY HeapIsState DEF CanWrite
<1>2. Sound(h) /\ Apart(Heap, v, h)
  BY <1>1, InvParts, SeparateSound
<1> HIDE DEF h
<1>3. Ordered(h, nKeys)
  BY <1>1, <1>2, InvParts, ApartOrdered
<1>4. Alive(h, live) /\ Walking(h, inside)
  BY <1>2, InvParts, ApartAlive
<1>5. h.var[v] \in Maps /\ h.map[h.var[v]].keys = map[var[v]].keys
  BY <1>2, HeapIsState DEF Apart
<1>6. h.map[h.var[v]].ref # 0
  BY <1>2, <1>5, HeldIs DEF Sound
<1> QED BY <1>2, <1>3, <1>4, <1>5, <1>6 DEF h

LEMMA AppendInv ==
  ASSUME CursorInv, NEW v \in Vars, AppendTo(v)
  PROVE  CursorInv'
<1> DEFINE h == Separate(Heap, v)
           m == h.var[v]
           r == Link(h, m, nKeys + 1)
<1>1. /\ CanWrite(v) /\ nKeys < code.keys /\ nKeys' = nKeys + 1 /\ HeapBecomes(r)
      /\ code' = code /\ live' = live /\ inside' = inside
  BY DEF AppendTo
<1>2. nKeys + 1 \in Key /\ nKeys' \in 0 .. MaxKeys
  BY <1>1, InvParts, ProgramIs, SizesAssumption DEF Key
<1>3. /\ Sound(h) /\ Ordered(h, nKeys) /\ Alive(h, live) /\ Walking(h, inside)
      /\ m \in Maps /\ h.map[m].ref # 0
  BY <1>1, SeparateKeeps
<1> HIDE DEF h, m
<1>4. Sound(r) /\ Moved(h, m, r) /\ Ordered(r, nKeys + 1)
  BY <1>2, <1>3, InvParts, LinkKeeps
<1> HIDE DEF r
<1>5. Alive(r, live) /\ Walking(r, inside)
  BY <1>3, <1>4, MovedAlive
<1> QED BY <1>1, <1>2, <1>4, <1>5, InvParts, Becomes

LEMMA UnsetInv ==
  ASSUME CursorInv, NEW v \in Vars, NEW k \in Key, UnsetKey(v, k)
  PROVE  CursorInv'
<1> DEFINE h == Separate(Heap, v)
           m == h.var[v]
           r == Unlink(h, m, k)
<1>1. /\ CanWrite(v) /\ k \in Range(map[var[v]].keys) /\ HeapBecomes(r)
      /\ code' = code /\ live' = live /\ inside' = inside /\ nKeys' = nKeys
  BY DEF UnsetKey
<1>2. /\ Sound(h) /\ Ordered(h, nKeys) /\ Alive(h, live) /\ Walking(h, inside)
      /\ m \in Maps /\ h.map[m].ref # 0 /\ h.map[m].keys = map[var[v]].keys
  BY <1>1, SeparateKeeps
<1> HIDE DEF h, m
<1>3. Sound(r) /\ Moved(h, m, r) /\ Ordered(r, nKeys)
  BY <1>1, <1>2, InvParts, UnlinkKeeps
<1> HIDE DEF r
<1>4. Alive(r, live) /\ Walking(r, inside)
  BY <1>2, <1>3, MovedAlive
<1> QED BY <1>1, <1>3, <1>4, InvParts, Becomes

LEMMA EraseInv ==
  ASSUME CursorInv, NEW v \in Vars, Erase(v)
  PROVE  CursorInv'
<1> DEFINE h == Separate(Heap, v)
           m == h.var[v]
           r == Empty(h, m)
<1>1. /\ CanWrite(v) /\ HeapBecomes(r)
      /\ code' = code /\ live' = live /\ inside' = inside /\ nKeys' = nKeys
  BY DEF Erase
<1>2. /\ Sound(h) /\ Ordered(h, nKeys) /\ Alive(h, live) /\ Walking(h, inside)
      /\ m \in Maps /\ h.map[m].ref # 0
  BY <1>1, SeparateKeeps
<1> HIDE DEF h, m
<1>3. Sound(r) /\ Moved(h, m, r) /\ Ordered(r, nKeys)
  BY <1>2, InvParts, EmptyKeeps
<1> HIDE DEF r
<1>4. Alive(r, live) /\ Walking(r, inside)
  BY <1>2, <1>3, MovedAlive
<1> QED BY <1>1, <1>3, <1>4, InvParts, Becomes

LEMMA AssignInv ==
  ASSUME CursorInv, NEW v \in Vars, NEW w \in Vars, Assign(v, w)
  PROVE  CursorInv'
<1> DEFINE m == var[w]
           r == Shared(Heap, v, m)
<1>1. /\ m # 0 /\ m # Heap.var[v] /\ HeapBecomes(r)
      /\ code' = code /\ live' = live /\ inside' = inside /\ nKeys' = nKeys
  BY HeapIsState DEF Assign, Shared
<1>2. m \in Maps
  BY <1>1, InvParts, HeapParts, HeapIsState
<1> HIDE DEF m
<1>3. /\ Sound(r) /\ Rebound(Heap, v, m, r) /\ r.map[m].keys = Heap.map[m].keys
  BY <1>1, <1>2, InvParts, AssignKeeps
<1> HIDE DEF r
<1>4. Ordered(r, nKeys)
  BY <1>1, <1>2, <1>3, InvParts, ReboundOrdered
<1>5. Alive(r, live) /\ Walking(r, inside)
  BY <1>3, InvParts, ReboundAlive
<1> QED BY <1>1, <1>3, <1>4, <1>5, InvParts, Becomes

LEMMA ForgetInv ==
  ASSUME CursorInv, NEW v \in Vars, Forget(v)
  PROVE  CursorInv'
<1> DEFINE r == Forgotten(Heap, v)
<1>1. /\ Heap.var[v] # 0 /\ HeapBecomes(r)
      /\ code' = code /\ live' = live /\ inside' = inside /\ nKeys' = nKeys
  BY HeapIsState DEF Forget, Forgotten
<1>2. Sound(r) /\ Rebound(Heap, v, 0, r)
  BY <1>1, InvParts, ForgetKeeps
<1> HIDE DEF r
<1>3. Ordered(r, nKeys)
  BY <1>1, <1>2, InvParts, ReboundOrdered
<1>4. Alive(r, live) /\ Walking(r, inside)
  BY <1>2, InvParts, ReboundAlive
<1> QED BY <1>1, <1>2, <1>3, <1>4, InvParts, Becomes

LEMMA InitInv == Init => CursorInv
<1> SUFFICES ASSUME Init PROVE CursorInv
  OBVIOUS
<1> DEFINE h == Heap
<1>1. PICK v \in code.writes : var = [w \in Vars |-> IF w = v THEN 1 ELSE 0]
  BY DEF Init
<1>2. code \in Codes /\ v \in Vars /\ live = {} /\ inside = {} /\ nKeys = 1
  BY ProgramIs DEF Init
<1>3. 1 \in Maps /\ 1 \in Key /\ nKeys \in 0 .. MaxKeys
  BY <1>2, SizesAssumption, StartAssumption DEF Maps, Key
<1> DEFINE one == [FreeMap EXCEPT !.ref = 1, !.keys = <<1>>]
           ks == <<1>>
<1>4. ks \in Seq(Key) /\ Rising(ks) /\ \A k \in Range(ks) : k <= 1
  <2>1. ks \in Seq(Key) /\ DOMAIN ks = 1 .. 1 /\ ks[1] = 1
    BY <1>3
  <2>2. \A y \in Range(ks) : y = 1
    BY <2>1, RangeIs
  <2>3. Rising(ks)
    BY <2>1 DEF Rising
  <2> QED BY <2>1, <2>2, <2>3
<1>5. one \in MapType /\ one.ref = 1 /\ one.keys = ks /\ one.active = << >>
  BY <1>4, FreeIs, FreeMapIs DEF MapType
<1> HIDE DEF one, ks
<1>6. /\ map \in [Maps -> MapType] /\ map[1] = one
      /\ \A m \in Maps : m # 1 => map[m] = FreeMap
  <2>1. map = [m \in Maps |-> IF m = 1 THEN one ELSE FreeMap]
    BY DEF Init, one, ks
  <2> QED BY <1>3, <1>5, <2>1, FreeIs
<1>7. step \in [Steps -> StepType] /\ \A i \in Steps : step[i] = FreeStep
  BY FreeIs DEF Init
<1>8. /\ aStep \in [Stmts -> Seq(Steps)] /\ owned \in [Frames -> Seq(Steps)]
      /\ \A s \in Stmts : aStep[s] = << >>
      /\ \A f \in Frames : owned[f] = << >>
  BY DEF Init
<1>9. var \in [Vars -> {0} \cup Maps] /\ var[v] = 1 /\ \A w \in Vars : w # v => var[w] = 0
  BY <1>1, <1>2, <1>3
<1>10. h \in HeapType
  BY <1>6, <1>7, <1>8, <1>9 DEF Heap, HeapType
<1>11. h.var = var /\ h.map = map /\ h.step = step /\ h.aStep = aStep /\ h.owned = owned
  BY HeapIsState
<1> HIDE DEF h
<1>12. \A i \in Steps : h.step[i].map = 0
  BY <1>7, <1>11, FreeStepIs
<1>13. Pools(h)
  BY <1>5, <1>6, <1>7, <1>11 DEF Pools
<1>14. Counted(h)
  <2> SUFFICES ASSUME NEW m \in Maps PROVE h.map[m].ref = Count(h.var, h.step, m)
    BY DEF Counted
  <2>1. StepsOn(h.step, m) = {}
    BY <1>12, ZeroIs DEF StepsOn
  <2>2. Cardinality(StepsOn(h.step, m)) = 0
    BY <2>1, FS_EmptySet
  <2>3. CASE m = 1
    <3>1. VarsOn(h.var, m) = {v}
      BY <1>2, <1>9, <1>11, <2>3 DEF VarsOn
    <3>2. Cardinality(VarsOn(h.var, m)) = 1
      BY <3>1, FS_Singleton
    <3> QED BY <1>5, <1>6, <1>11, <2>2, <2>3, <3>2 DEF Count
  <2>4. CASE m # 1
    <3>1. VarsOn(h.var, m) = {}
      BY <1>9, <1>11, <2>4, ZeroIs DEF VarsOn
    <3>2. Cardinality(VarsOn(h.var, m)) = 0
      BY <3>1, FS_EmptySet
    <3>3. h.map[m].ref = 0
      BY <1>6, <1>11, <2>4, FreeMapIs
    <3> QED BY <2>2, <3>2, <3>3 DEF Count
  <2> QED BY <2>3, <2>4
<1>15. \A m \in Maps : h.map[m].active = << >>
  BY <1>5, <1>6, <1>11, FreeMapIs
<1>16. MapLists(h)
  BY <1>12, <1>15, EmptyIs, ZeroIs DEF MapLists
<1>17. FrameLists(h)
  BY <1>8, <1>11, <1>12, EmptyIs DEF FrameLists
<1>18. \A s \in Stmts, i \in Steps : ~On(h, s, i)
  BY <1>8, <1>11, EmptyIs DEF On
<1>19. StmtLists(h) /\ Single(h)
  BY <1>8, <1>11, <1>12, <1>18, EmptyIs DEF StmtLists, Single
<1>20. Sound(h)
  BY <1>10, <1>13, <1>14, <1>16, <1>17, <1>19 DEF Sound
<1>21. Ordered(h, nKeys)
  <2>1. \A m \in Maps : Rising(h.map[m].keys) /\ \A k \in Range(h.map[m].keys) : k <= 1
    BY <1>4, <1>5, <1>6, <1>11, FreeMapIs, EmptyIs
  <2> QED BY <1>2, <1>12, <2>1 DEF Ordered
<1>22. Alive(h, live) /\ Walking(h, inside)
  BY <1>2, <1>12 DEF Alive, Walking
<1>23. inside \subseteq live \X Stmts /\ live \subseteq Frames
  BY <1>2
<1> QED BY <1>2, <1>3, <1>20, <1>21, <1>22, <1>23 DEF CursorInv, h

LEMMA NextInv == CursorInv /\ [Next]_vars => CursorInv'
<1> SUFFICES ASSUME CursorInv, [Next]_vars PROVE CursorInv'
  OBVIOUS
<1>1. DOMAIN code.loops \subseteq Stmts /\ code.writes \subseteq Vars
  BY InvParts, ProgramIs
<1>2. ASSUME NEW f \in Frames, Enter(f) PROVE CursorInv'
  BY <1>2, EnterInv
<1>3. ASSUME NEW f \in Frames, Leave(f) PROVE CursorInv'
  BY <1>3, LeaveInv
<1>4. ASSUME NEW f \in Frames, NEW s \in DOMAIN code.loops, Loop(f, s) PROVE CursorInv'
  <2>1. s \in Stmts
    BY <1>1
  <2> QED BY <1>4, <2>1, OpenInv, TemporaryInv, StepOnInv, BreakInv DEF Loop
<1>5. ASSUME NEW v \in code.writes, Mutate(v) PROVE CursorInv'
  <2>1. v \in Vars /\ \A w \in code.writes : w \in Vars
    BY <1>1
  <2> QED BY <1>5, <2>1, AppendInv, EraseInv, ForgetInv, UnsetInv, AssignInv DEF Mutate
<1>6. CASE UNCHANGED vars
  <2>1. /\ HeapBecomes(Heap) /\ code' = code /\ nKeys' = nKeys /\ live' = live
        /\ inside' = inside
    BY <1>6, SameHeap DEF vars
  <2> QED BY <2>1, InvParts, Becomes
<1> QED BY <1>2, <1>3, <1>4, <1>5, <1>6 DEF Next

(* The invariant holds of every execution.                                 *)
LEMMA AlwaysInv == Spec => []CursorInv
  BY InitInv, NextInv, PTL DEF Spec

---------------------------------------------------------------------------
(* What follows from it.                                                   *)

LEMMA TypeFollows == CursorInv => TypeOK
<1> SUFFICES ASSUME CursorInv PROVE TypeOK
  OBVIOUS
<1>1. /\ var \in [Vars -> {0} \cup Maps] /\ map \in [Maps -> MapType]
      /\ step \in [Steps -> StepType]
      /\ aStep \in [Stmts -> Seq(Steps)] /\ owned \in [Frames -> Seq(Steps)]
  BY InvParts, HeapParts, HeapIsState
<1>2. \A m \in Maps : map[m].ref = 0 => map[m] = FreeMap
  BY InvParts, HeapIsState DEF Sound, Pools
<1> QED BY <1>1, <1>2, InvParts DEF TypeOK, MapType, StepType

(* Each variable, map and step, each list of steps holds what TypeOK says, *)
(* and a map nobody refers to (PH7_HashmapUnref) is empty and has no loops *)
(* registered.                                                             *)
THEOREM Typing == Spec => []TypeOK
  BY AlwaysInv, TypeFollows, PTL

LEMMA CountsFollow == CursorInv => CountsExact
<1> SUFFICES ASSUME CursorInv, NEW m \in Maps
             PROVE  map[m].ref = Cardinality({v \in Vars : var[v] = m})
                               + Cardinality({i \in Steps : step[i].map = m})
  BY DEF CountsExact
<1>1. map[m].ref = Count(var, step, m)
  BY InvParts, HeapIsState DEF Sound, Counted
<1> QED BY <1>1 DEF Count, VarsOn, StepsOn

(* The reference count of a hashmap is the number of variables and foreach *)
(* steps that hold it, after every operation: an array is freed with its   *)
(* last holder, neither sooner nor never.                                  *)
THEOREM HoldersCounted == Spec => []CountsExact
  BY AlwaysInv, CountsFollow, PTL

(* A list without repetitions that holds the members of S                  *)
LEMMA ListsIs ==
  ASSUME NEW list \in Seq(Steps), Distinct(list), NEW S \in SUBSET Steps,
         \A i \in Steps : i \in Range(list) <=> i \in S
  PROVE  Lists(list, S)
<1>1. Range(list) \subseteq Steps
  BY SeqIs
<1>2. Range(list) = S
  BY <1>1
<1>3. Cardinality(Range(list)) = Len(list)
  BY CountIs
<1> QED BY <1>2, <1>3 DEF Lists

LEMMA RegisteredFollows == CursorInv => Registered
<1> SUFFICES ASSUME CursorInv PROVE Registered
  OBVIOUS
<1>1. ASSUME NEW m \in Maps
      PROVE  Lists(map[m].active, {i \in Steps : step[i].map = m})
  <2>1. map[m].active \in Seq(Steps) /\ Distinct(map[m].active)
    BY InvParts, HeapParts, HeapIsState DEF Sound, MapLists
  <2>2. \A i \in Steps : i \in Range(map[m].active)
                           <=> i \in {j \in Steps : step[j].map = m}
    BY InvParts, HeapIsState DEF Sound, MapLists
  <2> QED BY <2>1, <2>2, ListsIs
<1>2. ASSUME NEW f \in Frames
      PROVE  Lists(owned[f], {i \in Steps : InUse(i) /\ step[i].frame = f})
  <2>1. owned[f] \in Seq(Steps) /\ Distinct(owned[f])
    BY InvParts, HeapParts, HeapIsState DEF Sound, FrameLists
  <2>2. \A i \in Steps : i \in Range(owned[f])
                           <=> i \in {j \in Steps : InUse(j) /\ step[j].frame = f}
    BY InvParts, HeapIsState DEF Sound, FrameLists, InUse
  <2> QED BY <2>1, <2>2, ListsIs
<1>3. ASSUME NEW i \in Steps, InUse(i)
      PROVE  /\ step[i].frame \in live
             /\ Cardinality({s \in Stmts : i \in Range(aStep[s])}) = 1
  <2>1. step[i].frame \in live
    BY <1>3, InvParts, HeapIsState DEF Alive, InUse
  <2>2. PICK s \in Stmts : On(Heap, s, i)
    BY <1>3, InvParts, HeapIsState DEF Sound, StmtLists, InUse
  <2>3. \A t \in Stmts : On(Heap, t, i) => t = s
    BY <2>2, InvParts DEF Sound, StmtLists
  <2>4. {t \in Stmts : i \in Range(aStep[t])} = {s}
    BY <2>2, <2>3, HeapIsState DEF On
  <2>5. Cardinality({s}) = 1
    BY FS_Singleton
  <2> QED BY <2>1, <2>4, <2>5
<1>4. ASSUME NEW s \in Stmts
      PROVE  Lists(aStep[s], {i \in Steps : i \in Range(aStep[s]) /\ InUse(i)})
  <2>1. aStep[s] \in Seq(Steps) /\ Distinct(aStep[s])
    BY InvParts, HeapParts, HeapIsState DEF Sound, StmtLists
  <2>2. \A i \in Steps : i \in Range(aStep[s]) => InUse(i)
    BY InvParts, HeapIsState DEF Sound, StmtLists, InUse, On
  <2>3. \A i \in Steps : i \in Range(aStep[s])
                           <=> i \in {j \in Steps : j \in Range(aStep[s]) /\ InUse(j)}
    BY <2>2
  <2> QED BY <2>1, <2>3, ListsIs
<1> QED BY <1>1, <1>2, <1>3, <1>4 DEF Registered

(* A foreach step in use is registered with the map it walks, with the     *)
(* frame that made it and with one statement, once with each, and one that *)
(* was released is on no list: no list ever reaches a freed step.          *)
THEOREM ListsAgree == Spec => []Registered
  BY AlwaysInv, RegisteredFollows, PTL

(* The part of a rising list from one of its keys on                       *)
LEMMA FromIs ==
  ASSUME NEW s \in Seq(Nat), Rising(s), NEW c \in Range(s)
  PROVE  LET r == SubSeq(s, Position(s, c), Len(s))
         IN \A k : k \in Range(r) <=> k \in Range(s) /\ c <= k
<1> DEFINE p == Position(s, c)
           r == SubSeq(s, p, Len(s))
<1>1. p \in DOMAIN s /\ s[p] = c
  BY PositionIs
<1>2. Len(s) \in Nat /\ DOMAIN s = 1 .. Len(s) /\ \A i \in DOMAIN s : s[i] \in Nat
  BY SeqIs
<1> HIDE DEF p
<1>3. /\ Len(r) = Len(s) - p + 1 /\ DOMAIN r = 1 .. Len(s) - p + 1
      /\ \A i \in DOMAIN r : r[i] = s[i + p - 1]
  BY <1>1, <1>2
<1> HIDE DEF r
<1>4. \A i \in DOMAIN s : c <= s[i] <=> p <= i
  <2> TAKE i \in DOMAIN s
  <2>1. p < i => c < s[i]
    BY <1>1 DEF Rising
  <2>2. i < p => s[i] < c
    BY <1>1 DEF Rising
  <2>3. i = p => s[i] = c
    BY <1>1
  <2>4. s[i] \in Nat /\ c \in Nat /\ i \in Nat /\ p \in Nat
    BY <1>1, <1>2
  <2> QED BY <2>1, <2>2, <2>3, <2>4
<1>5. ASSUME NEW k, k \in Range(r)
      PROVE  k \in Range(s) /\ c <= k
  <2>1. PICK i \in DOMAIN r : r[i] = k
    BY <1>5, RangeIs
  <2>2. i + p - 1 \in DOMAIN s /\ p <= i + p - 1
    BY <1>1, <1>2, <1>3, <2>1
  <2>3. s[i + p - 1] = k
    BY <1>3, <2>1
  <2> QED BY <1>4, <2>2, <2>3, RangeIs
<1>6. ASSUME NEW k, k \in Range(s), c <= k
      PROVE  k \in Range(r)
  <2>1. PICK i \in DOMAIN s : s[i] = k
    BY <1>6, RangeIs
  <2>2. p <= i
    BY <1>4, <1>6, <2>1
  <2>3. i - p + 1 \in DOMAIN r /\ (i - p + 1) + p - 1 = i
    BY <1>1, <1>2, <1>3, <2>1, <2>2, SMTT(40)
  <2>4. r[i - p + 1] = k
    BY <1>3, <2>1, <2>3
  <2> QED BY <2>3, <2>4, RangeIs
<1> QED BY <1>5, <1>6 DEF r, p

LEMMA RestFollows == CursorInv => RestIsUnseen
<1> SUFFICES ASSUME CursorInv, NEW i \in Steps, InUse(i)
             PROVE  /\ step[i].cursor # 0 =>
                         step[i].cursor \in Range(map[step[i].map].keys)
                    /\ Range(Rest(i)) =
                         {k \in Range(map[step[i].map].keys) : k > step[i].visited}
  BY DEF RestIsUnseen
<1> DEFINE s == map[step[i].map].keys
           c == step[i].cursor
           v == step[i].visited
<1>1. step[i].map \in Maps
  BY InvParts, HeapIsState, StepsAre DEF InUse
<1>2. /\ v \in Nat /\ c \in Nat /\ Aimed(s, c, v) /\ Rising(s) /\ s \in Seq(Nat)
  BY <1>1, InvParts, HeapIsState, AimIs
<1>3. Range(s) \subseteq Nat
  BY <1>2, SeqIs
<1>4. Rest(i) = IF c = 0 THEN << >> ELSE SubSeq(s, Position(s, c), Len(s))
  BY DEF Rest
<1> HIDE DEF s, c, v
<1>5. CASE c = 0
  <2>1. Range(Rest(i)) = {}
    BY <1>4, <1>5, EmptyIs
  <2>2. \A k \in Range(s) : ~(k > v)
    BY <1>2, <1>3, <1>5 DEF Aimed
  <2> QED BY <1>5, <2>1, <2>2 DEF s, c, v
<1>6. CASE c # 0
  <2>1. c \in Range(s) /\ v < c /\ \A k \in Range(s) : v < k => c <= k
    BY <1>2, <1>6 DEF Aimed
  <2>2. \A k : k \in Range(Rest(i)) <=> k \in Range(s) /\ c <= k
    BY <1>2, <1>4, <1>6, <2>1, FromIs
  <2>3. \A k \in Range(s) : c <= k <=> k > v
    BY <1>2, <1>3, <2>1
  <2>4. Range(Rest(i)) = {k \in Range(s) : k > v}
    BY <2>2, <2>3
  <2> QED BY <2>1, <2>4 DEF s, c, v
<1> QED BY <1>5, <1>6

(* Whatever is inserted and removed under a loop (HashmapNodeLink,         *)
(* PH7_HashmapUnlinkNode and a hashmap that is emptied move the cursors),  *)
(* its cursor is on a node of the map it walks, and from there on are just *)
(* the nodes it has not visited: none is skipped, none is met twice.       *)
THEOREM NoneSkippedNoneTwice == Spec => []RestIsUnseen
  BY AlwaysInv, RestFollows, PTL

LEMMA OwnFollows == CursorInv => OwnStep
<1> SUFFICES ASSUME CursorInv, NEW f \in Frames, NEW s \in Stmts, <<f, s>> \in inside
             PROVE  /\ aStep[s] # << >>
                    /\ step[Selected(f, s)].frame = f
                    /\ Cardinality({j \in DOMAIN aStep[s] :
                                      step[aStep[s][j]].frame = f}) = 1
  BY DEF OwnStep
<1> DEFINE i == Selected(f, s)
           mine == {j \in DOMAIN aStep[s] : step[aStep[s][j]].frame = f}
<1>1. i \in Steps /\ On(Heap, s, i) /\ step[i].frame = f
  BY SelectedIs
<1> HIDE DEF i
<1>2. i \in Range(aStep[s])
  BY <1>1, HeapIsState DEF On
<1>3. PICK p \in DOMAIN aStep[s] : aStep[s][p] = i
  BY <1>2, RangeIs
<1>4. aStep[s] # << >>
  BY <1>2, EmptyIs
<1>5. ASSUME NEW j \in mine PROVE j = p
  <2>1. aStep[s][j] \in Range(aStep[s]) /\ aStep[s] \in Seq(Steps)
    BY RangeIs, InvParts, HeapParts, HeapIsState
  <2>2. aStep[s][j] \in Steps /\ On(Heap, s, aStep[s][j])
    BY <2>1, SeqIs, HeapIsState DEF On
  <2>3. aStep[s][j] = i
    BY <1>1, <2>2, InvParts, HeapIsState DEF Sound, Single
  <2>4. Distinct(aStep[s])
    BY InvParts, HeapIsState DEF Sound, StmtLists
  <2> QED BY <1>3, <2>3, <2>4 DEF Distinct
<1>6. mine = {p}
  BY <1>1, <1>3, <1>5
<1>7. Cardinality(mine) = 1
  BY <1>6, FS_Singleton
<1> QED BY <1>1, <1>4, <1>7 DEF i

(* OP_FOREACH_STEP goes on with the step that the running activation made  *)
(* for its loop, of which there is one, whichever other activations of the *)
(* same statement are suspended half way or left it by a break.            *)
THEOREM EachItsOwnStep == Spec => []OwnStep
  BY AlwaysInv, OwnFollows, PTL

---------------------------------------------------------------------------
(* Arrays are values: the refinement of ArrayValues.                       *)

(* What the mapping makes of a heap.                                       *)
ValOf(h, v) == IF h.var[v] = 0 THEN << >> ELSE h.map[h.var[v]].keys
From(keys, c) == IF c = 0 THEN << >> ELSE SubSeq(keys, Position(keys, c), Len(keys))
Sees(h, i) == h.step[i].map # 0 /\ ~h.step[i].byRef
RestOf(h, i) ==
  IF Sees(h, i) THEN From(h.map[h.step[i].map].keys, h.step[i].cursor) ELSE None

SameValues(h, r) == \A v \in Vars : ValOf(r, v) = ValOf(h, v)
SameRests(h, r) == \A i \in Steps : RestOf(r, i) = RestOf(h, i)
Others(h, r, v) == \A w \in Vars \ {v} : ValOf(r, w) = ValOf(h, w)

LEMMA ValIs ==
  ASSUME NEW h, Sound(h), NEW v \in Vars
  PROVE  /\ ValOf(h, v) \in Seq(Key)
         /\ h.var[v] # 0 => h.var[v] \in Maps /\ h.map[h.var[v]].ref > 0
<1>1. h \in HeapType /\ Counted(h)
  BY DEF Sound
<1>2. h.var[v] \in {0} \cup Maps
  BY <1>1, HeapParts
<1>3. \A m \in Maps : h.map[m].keys \in Seq(Key)
  BY <1>1, HeapParts
<1>4. h.var[v] # 0 => h.var[v] \in Maps /\ h.map[h.var[v]].ref > 0
  BY <1>1, <1>2, HeldIs
<1>5. << >> \in Seq(Key)
  OBVIOUS
<1> QED BY <1>3, <1>4, <1>5 DEF ValOf

LEMMA SeesIs ==
  ASSUME NEW h, Sound(h), NEW i \in Steps, h.step[i].map # 0
  PROVE  h.step[i].map \in Maps /\ h.map[h.step[i].map].ref > 0
         /\ h.map[h.step[i].map].ref # 0
<1>1. h \in HeapType /\ Counted(h)
  BY DEF Sound
<1>2. h.step[i].map \in Maps
  BY <1>1, StepsAre
<1>3. h.map[h.step[i].map].ref > 0 /\ h.map[h.step[i].map].ref \in Nat
  BY <1>1, <1>2, HeldIs
<1> QED BY <1>2, <1>3

LEMMA SparedValues ==
  ASSUME NEW h, NEW r, NEW gone, Sound(r), Spared(h, r, gone)
  PROVE  /\ SameValues(h, r)
         /\ \A i \in Steps : RestOf(r, i) = IF i \in gone THEN None ELSE RestOf(h, i)
<1>1. ASSUME NEW v \in Vars PROVE ValOf(r, v) = ValOf(h, v)
  <2>1. r.var = h.var
    BY DEF Spared
  <2>2. r.var[v] # 0 => r.map[r.var[v]].keys = h.map[r.var[v]].keys
    BY ValIs DEF Spared
  <2> QED BY <2>1, <2>2 DEF ValOf
<1>2. ASSUME NEW i \in Steps
      PROVE  RestOf(r, i) = IF i \in gone THEN None ELSE RestOf(h, i)
  <2>1. CASE i \in gone
    <3>1. r.step[i] = FreeStep
      BY <2>1 DEF Spared
    <3> QED BY <2>1, <3>1, FreeStepIs DEF RestOf, Sees
  <2>2. CASE i \notin gone
    <3>1. r.step[i] = h.step[i]
      BY <2>2 DEF Spared
    <3>2. r.step[i].map # 0 => r.map[r.step[i].map].keys = h.map[r.step[i].map].keys
      BY SeesIs DEF Spared
    <3> QED BY <2>2, <3>1, <3>2 DEF RestOf, Sees
  <2> QED BY <2>1, <2>2
<1> QED BY <1>1, <1>2 DEF SameValues

LEMMA ApartValues ==
  ASSUME NEW h, NEW r, NEW v \in Vars, Sound(h), Apart(h, v, r), h.var[v] # 0
  PROVE  SameValues(h, r) /\ SameRests(h, r)
<1>0. \A n \in Maps : h.map[n].ref > 0 => h.map[n].ref # 0
  OBVIOUS
<1>1. ASSUME NEW w \in Vars PROVE ValOf(r, w) = ValOf(h, w)
  <2>1. CASE w = v
    BY <2>1, ZeroIs DEF Apart, ValOf
  <2>2. CASE w # v
    <3>1. r.var[w] = h.var[w]
      BY <2>2 DEF Apart
    <3>2. h.var[w] # 0 => r.map[h.var[w]].keys = h.map[h.var[w]].keys
      BY <1>0, ValIs DEF Apart
    <3> QED BY <3>1, <3>2 DEF ValOf
  <2> QED BY <2>1, <2>2
<1>2. ASSUME NEW i \in Steps PROVE RestOf(r, i) = RestOf(h, i)
  <2>1. r.step[i] = h.step[i]
    BY DEF Apart
  <2>2. h.step[i].map # 0 => r.map[h.step[i].map].keys = h.map[h.step[i].map].keys
    BY SeesIs DEF Apart
  <2> QED BY <2>1, <2>2 DEF RestOf, Sees
<1> QED BY <1>1, <1>2 DEF SameValues, SameRests

LEMMA ReboundValues ==
  ASSUME NEW h, NEW r, NEW v \in Vars, NEW to, Sound(h), Sound(r), Rebound(h, v, to, r),
         \A m \in Maps : r.map[m].ref > 0 => r.map[m].keys = h.map[m].keys
  PROVE  Others(h, r, v) /\ SameRests(h, r)
<1>1. ASSUME NEW w \in Vars \ {v} PROVE ValOf(r, w) = ValOf(h, w)
  <2>1. r.var[w] = h.var[w]
    BY DEF Rebound
  <2>2. r.var[w] # 0 => r.map[r.var[w]].keys = h.map[r.var[w]].keys
    BY ValIs
  <2> QED BY <2>1, <2>2 DEF ValOf
<1>2. ASSUME NEW i \in Steps PROVE RestOf(r, i) = RestOf(h, i)
  <2>1. /\ r.step[i].map = h.step[i].map /\ r.step[i].byRef = h.step[i].byRef
        /\ r.step[i].cursor = h.step[i].cursor
    BY DEF Rebound
  <2>2. r.step[i].map # 0 => r.map[r.step[i].map].keys = h.map[r.step[i].map].keys
    BY SeesIs
  <2> QED BY <2>1, <2>2 DEF RestOf, Sees
<1> QED BY <1>1, <1>2 DEF Others, SameRests

(* Map m is variable v's alone, but for by-ref loops.                      *)
Alone(h, m, v) ==
  /\ \A w \in Vars : h.var[w] = m => w = v
  /\ \A i \in Steps : h.step[i].map = m => h.step[i].byRef

LEMMA MovedValues ==
  ASSUME NEW h, NEW r, NEW v \in Vars, NEW m \in Maps, Sound(h), Moved(h, m, r),
         Alone(h, m, v)
  PROVE  Others(h, r, v) /\ SameRests(h, r)
<1>1. ASSUME NEW w \in Vars \ {v} PROVE ValOf(r, w) = ValOf(h, w)
  <2>1. r.var[w] = h.var[w] /\ h.var[w] # m
    BY DEF Moved, Alone
  <2>2. h.var[w] # 0 => r.map[h.var[w]].keys = h.map[h.var[w]].keys
    BY <2>1, ValIs DEF Moved
  <2> QED BY <2>1, <2>2 DEF ValOf
<1>2. ASSUME NEW i \in Steps PROVE RestOf(r, i) = RestOf(h, i)
  <2>1. r.step[i].map = h.step[i].map /\ r.step[i].byRef = h.step[i].byRef
    BY DEF Moved
  <2>2. CASE Sees(h, i)
    <3>1. h.step[i].map # m
      BY <2>2 DEF Alone, Sees
    <3>2. h.step[i].map \in Maps
      BY <2>2, SeesIs DEF Sees
    <3>3. r.step[i] = h.step[i] /\ r.map[h.step[i].map] = h.map[h.step[i].map]
      BY <3>1, <3>2 DEF Moved
    <3> QED BY <3>3 DEF RestOf, Sees
  <2>3. CASE ~Sees(h, i)
    BY <2>1, <2>3 DEF RestOf, Sees
  <2> QED BY <2>2, <2>3
<1> QED BY <1>1, <1>2 DEF Others, SameRests

(* The discount is the number of by-ref steps on the map at most.          *)
LEMMA ByRefCount ==
  ASSUME NEW h, Sound(h), NEW m \in Maps
  PROVE  LET B == {i \in StepsOn(h.step, m) : h.step[i].byRef}
         IN IsFiniteSet(B) /\ ByRefStepRefs(h, m) <= Cardinality(B)
<1> DEFINE B == {i \in StepsOn(h.step, m) : h.step[i].byRef}
           a == h.map[m].active
           J == {j \in DOMAIN a : h.step[a[j]].byRef}
           g == [j \in J |-> a[j]]
<1>1. IsFiniteSet(B)
  <2>1. B \in SUBSET StepsOn(h.step, m)
    OBVIOUS
  <2> HIDE DEF B
  <2> QED BY <2>1, CountsAre, FS_Subset
<1>2. a \in Seq(Steps) /\ Distinct(a) /\ \A i \in Steps : i \in Range(a) <=> h.step[i].map = m
  BY HeapParts DEF Sound, MapLists
<1>3. Len(a) \in Nat /\ DOMAIN a = 1 .. Len(a) /\ \A j \in DOMAIN a : a[j] \in Steps
  BY <1>2, SeqIs
<1>4. IsFiniteSet(J)
  <2>1. IsFiniteSet(1 .. Len(a))
    BY <1>3, FS_Interval
  <2>2. J \in SUBSET (1 .. Len(a))
    BY <1>3
  <2> HIDE DEF J
  <2> QED BY <2>1, <2>2, FS_Subset
<1>5. g \in [J -> B]
  <2> SUFFICES ASSUME NEW j \in J PROVE a[j] \in B
    OBVIOUS
  <2>1. a[j] \in Range(a) /\ a[j] \in Steps /\ h.step[a[j]].byRef
    BY <1>3, RangeIs
  <2> QED BY <1>2, <2>1 DEF StepsOn
<1>6. \A x, y \in J : g[x] = g[y] => x = y
  BY <1>2 DEF Distinct
<1>7. Cardinality(J) \in Nat /\ Cardinality(B) \in Nat
  BY <1>1, <1>4, FS_CardinalityType
<1>8. ByRefStepRefs(h, m) = Cardinality(J)
  BY DEF ByRefStepRefs
<1> HIDE DEF B, J, g
<1>9. ~(Cardinality(B) < Cardinality(J))
  BY <1>1, <1>4, <1>5, <1>6, FS_PigeonHole
<1> QED BY <1>1, <1>7, <1>8, <1>9 DEF B

LEMMA SeparateAlone ==
  ASSUME NEW h, Sound(h), NEW v \in Vars, h.var[v] # 0, FreeMaps(h) # {}
  PROVE  Alone(Separate(h, v), Separate(h, v).var[v], v)
<1> DEFINE r == Separate(h, v)
           m == h.var[v]
           B == {i \in StepsOn(h.step, m) : h.step[i].byRef}
           S == StepsOn(h.step, m)
           V == VarsOn(h.var, m)
<1>1. /\ Sound(r) /\ Apart(h, v, r)
      /\ r.var[v] = m => h.map[m].ref < 2 + ByRefStepRefs(h, m)
  BY SeparateSound
<1> HIDE DEF r
<1>2. m \in Maps /\ h \in HeapType /\ Counted(h)
  BY ValIs DEF Sound
<1>3. CASE r.var[v] # m
  <2>1. h.map[r.var[v]].ref = 0 /\ r.var[v] \in Maps
    BY <1>1, <1>3 DEF Apart
  <2>2. ~(h.map[r.var[v]].ref > 0)
    BY <2>1
  <2>3. ASSUME NEW w \in Vars, r.var[w] = r.var[v] PROVE w = v
    <3>1. w # v => h.var[w] = r.var[v]
      BY <1>1, <2>3 DEF Apart
    <3> QED BY <1>2, <2>1, <2>2, <3>1, HeldIs
  <2>4. ASSUME NEW i \in Steps, r.step[i].map = r.var[v] PROVE FALSE
    <3>1. h.step[i].map = r.var[v]
      BY <1>1, <2>4 DEF Apart
    <3> QED BY <1>2, <2>1, <2>2, <3>1, HeldIs
  <2> QED BY <2>3, <2>4 DEF Alone, r
<1>4. CASE r.var[v] = m
  <2>1. /\ IsFiniteSet(B) /\ ByRefStepRefs(h, m) <= Cardinality(B)
        /\ ByRefStepRefs(h, m) \in Nat
    BY <1>2, ByRefCount, DiscountIs
  <2>2. /\ IsFiniteSet(V) /\ Cardinality(V) \in Nat
        /\ IsFiniteSet(S) /\ Cardinality(S) \in Nat
    BY CountsAre
  <2>3. h.map[m].ref = Cardinality(V) + Cardinality(S)
    BY <1>2 DEF Counted, Count
  <2>4. h.map[m].ref < 2 + ByRefStepRefs(h, m)
    BY <1>1, <1>4
  <2>5. v \in V /\ B \in SUBSET S
    BY DEF VarsOn
  <2>6. \A w \in Vars : h.var[w] = m => w \in V
    BY DEF VarsOn
  <2>7. \A i \in Steps : h.step[i].map = m => i \in S /\ (h.step[i].byRef <=> i \in B)
    BY DEF StepsOn
  <2> HIDE DEF B, S, V
  <2>8. Cardinality(B) <= Cardinality(S) /\ Cardinality(B) \in Nat
    BY <2>1, <2>2, <2>5, FS_Subset, FS_CardinalityType
  <2>9. Cardinality({v}) = 1 /\ IsFiniteSet({v})
    BY FS_Singleton
  <2>10. Cardinality(V) >= 1
    <3>1. {v} \in SUBSET V
      BY <2>5
    <3>2. Cardinality({v}) <= Cardinality(V)
      BY <2>2, <3>1, FS_Subset
    <3> QED BY <2>2, <2>9, <3>2
  <2>11. ASSUME NEW w \in Vars, h.var[w] = m PROVE w = v
    <3> SUFFICES ASSUME w # v PROVE FALSE
      OBVIOUS
    <3>1. {v} \cup {w} \in SUBSET V
      BY <2>5, <2>6, <2>11
    <3>2. Cardinality({v} \cup {w}) = 2
      <4>1. w \notin {v}
        OBVIOUS
      <4>2. Cardinality({v} \cup {w}) = Cardinality({v}) + 1
        BY <2>9, <4>1, FS_AddElement, ZenonT(40)
      <4> QED BY <2>9, <4>2
    <3>3. 2 <= Cardinality(V)
      BY <2>2, <3>1, <3>2, FS_Subset
    <3> QED BY <2>1, <2>2, <2>3, <2>4, <2>8, <3>3
  <2>12. ASSUME NEW i \in Steps, h.step[i].map = m PROVE h.step[i].byRef
    <3> SUFFICES ASSUME ~h.step[i].byRef PROVE FALSE
      OBVIOUS
    <3>1. i \in S /\ i \notin B
      BY <2>7, <2>12
    <3>2. B \cup {i} \in SUBSET S
      BY <2>5, <3>1
    <3>3. Cardinality(B \cup {i}) = Cardinality(B) + 1
      BY <2>1, <3>1, FS_AddElement
    <3>4. Cardinality(B) + 1 <= Cardinality(S)
      BY <2>2, <3>2, <3>3, FS_Subset
    <3> QED BY <2>1, <2>2, <2>3, <2>4, <2>8, <2>10, <3>4
  <2>13. r.step = h.step /\ \A w \in Vars : w # v => r.var[w] = h.var[w]
    BY <1>1 DEF Apart
  <2> HIDE DEF m
  <2>14. Alone(r, m, v)
    BY <2>11, <2>12, <2>13 DEF Alone
  <2> QED BY <1>4, <2>14 DEF r
<1> QED BY <1>3, <1>4

(* From the first key on is all of them.                                   *)
LEMMA FromFirst ==
  ASSUME NEW s \in Seq(Nat), Rising(s), 0 \notin Range(s)
  PROVE  From(s, First(s)) = s
<1>1. Len(s) \in Nat /\ DOMAIN s = 1 .. Len(s)
  BY SeqIs
<1>2. CASE s = << >>
  BY <1>2 DEF From, First
<1>3. CASE s # << >>
  <2>1. First(s) = s[1] /\ 1 \in DOMAIN s
    BY <1>1, <1>3 DEF First
  <2>2. s[1] \in Range(s)
    BY <2>1, RangeIs
  <2>3. Position(s, s[1]) \in DOMAIN s /\ s[Position(s, s[1])] = s[1]
    BY <2>2, PositionIs
  <2>4. Position(s, s[1]) = 1
    <3>1. Distinct(s)
      BY RisingDistinct
    <3> QED BY <2>1, <2>3, <3>1 DEF Distinct
  <2>5. First(s) # 0
    BY <2>1, <2>2
  <2>6. From(s, First(s)) = SubSeq(s, 1, Len(s))
    BY <2>1, <2>4, <2>5 DEF From
  <2>7. SubSeq(s, 1, Len(s)) = s
    BY <1>1
  <2> QED BY <2>6, <2>7
<1> QED BY <1>2, <1>3

(* A visit takes the first of what is left.                                *)
LEMMA FromAfter ==
  ASSUME NEW s \in Seq(Nat), Rising(s), 0 \notin Range(s), NEW c \in Range(s)
  PROVE  /\ From(s, c) # << >> /\ From(s, c) \in Seq(Nat)
         /\ From(s, After(s, c)) = Tail(From(s, c))
<1> DEFINE p == Position(s, c)
           l == Len(s)
<1>1. p \in DOMAIN s /\ s[p] = c
  BY PositionIs
<1>2. l \in Nat /\ DOMAIN s = 1 .. l
  BY SeqIs
<1>3. From(s, c) = SubSeq(s, p, l)
  BY DEF From
<1>4. After(s, c) = IF p = l THEN 0 ELSE s[p + 1]
  BY DEF After
<1>5. Distinct(s)
  BY RisingDistinct
<1> HIDE DEF p
<1>6. p \in 1 .. l
  BY <1>1, <1>2
<1>7. p \in Int /\ l \in Int /\ p + 1 \in Int /\ \A j \in p .. l : s[j] \in Nat
  <2>1. \A j \in DOMAIN s : s[j] \in Nat
    BY SeqIs
  <2>2. p .. l \subseteq DOMAIN s
    BY <1>2, <1>6
  <2> QED BY <1>2, <1>6, <2>1, <2>2
<1> DEFINE a == SubSeq(s, p, l)
<1>8. a \in Seq(Nat) /\ a # << >>
  <2>1. a \in Seq(Nat) /\ Len(a) = l - p + 1
    BY <1>6, <1>7, SubSeqProperties
  <2> HIDE DEF a
  <2>2. Len(a) # 0
    BY <1>2, <1>6, <2>1
  <2> QED BY <2>1, <2>2
<1>9. Tail(a) = SubSeq(s, p + 1, l)
  <2>1. p <= l /\ \A j \in p .. l : s[j] \in Nat
    BY <1>6, <1>7
  <2> QED BY <1>7, <2>1, HeadTailOfSubSeq
<1> HIDE DEF a
<1>10. From(s, After(s, c)) = SubSeq(s, p + 1, l)
  <2>1. CASE p = l
    <3>1. From(s, After(s, c)) = << >>
      BY <1>4, <2>1 DEF From
    <3>2. SubSeq(s, p + 1, l) = << >>
      <4>1. l < p + 1
        BY <1>2, <2>1
      <4> QED BY <1>7, <4>1, SubSeqEmpty
    <3> QED BY <3>1, <3>2
  <2>2. CASE p # l
    <3>1. p + 1 \in DOMAIN s
      <4>1. p + 1 \in 1 .. l
        <5>1. p \in 1 .. l /\ p # l /\ l \in Nat
          BY <1>2, <1>6, <2>2
        <5> HIDE DEF l
        <5> QED BY <5>1
      <4> QED BY <1>2, <4>1
    <3>2. s[p + 1] \in Range(s)
      BY <3>1, RangeIs
    <3>3. Position(s, s[p + 1]) \in DOMAIN s /\ s[Position(s, s[p + 1])] = s[p + 1]
      BY <3>2, PositionIs
    <3>4. Position(s, s[p + 1]) = p + 1
      BY <1>5, <3>1, <3>3 DEF Distinct
    <3>5. s[p + 1] # 0
      BY <3>2
    <3> QED BY <1>4, <2>2, <3>4, <3>5 DEF From
  <2> QED BY <2>1, <2>2
<1> QED BY <1>3, <1>8, <1>9, <1>10 DEF a, p

LEMMA OpenedValues ==
  ASSUME NEW h, NEW r, NEW n \in Nat, NEW f, NEW s, NEW i \in Steps, NEW m \in Maps,
         Sound(h), Sound(r), Ordered(r, n), Opened(h, f, s, i, m, r)
  PROVE  /\ SameValues(h, r)
         /\ \A j \in Steps \ {i} : RestOf(r, j) = RestOf(h, j)
         /\ RestOf(r, i) = IF code.loops[s].byRef THEN None ELSE r.map[m].keys
<1>0. \A p \in Maps : h.map[p].ref > 0 => h.map[p].ref # 0
  OBVIOUS
<1>1. ASSUME NEW v \in Vars PROVE ValOf(r, v) = ValOf(h, v)
  <2>1. r.var = h.var
    BY DEF Opened
  <2>2. h.var[v] # 0 => r.map[h.var[v]].keys = h.map[h.var[v]].keys
    BY <1>0, ValIs DEF Opened
  <2> QED BY <2>1, <2>2 DEF ValOf
<1>2. ASSUME NEW j \in Steps \ {i} PROVE RestOf(r, j) = RestOf(h, j)
  <2>1. r.step[j] = h.step[j]
    BY DEF Opened
  <2>2. h.step[j].map # 0 => r.map[h.step[j].map].keys = h.map[h.step[j].map].keys
    BY SeesIs DEF Opened
  <2> QED BY <2>1, <2>2 DEF RestOf, Sees
<1>3. /\ r.step[i].map = m /\ m # 0 /\ r.step[i].byRef = code.loops[s].byRef
      /\ r.step[i].cursor = First(r.map[m].keys)
  BY ZeroIs DEF Opened
<1>4. From(r.map[m].keys, First(r.map[m].keys)) = r.map[m].keys
  <2> DEFINE ks == r.map[m].keys
  <2>1. ks \in Seq(Nat) /\ Rising(ks) /\ Range(ks) \subseteq Key
    BY <1>3, AimIs
  <2> HIDE DEF ks
  <2>2. 0 \notin Range(ks)
    BY <2>1, ZeroIs
  <2> QED BY <2>1, <2>2, FromFirst DEF ks
<1> QED BY <1>1, <1>2, <1>3, <1>4 DEF SameValues, RestOf, Sees

LEMMA AdvancedValues ==
  ASSUME NEW h, NEW r, NEW n \in Nat, Sound(h), Ordered(h, n), NEW i \in Steps,
         h.step[i].map # 0, h.step[i].cursor # 0, Advanced(h, i, r)
  PROVE  /\ SameValues(h, r)
         /\ \A j \in Steps \ {i} : RestOf(r, j) = RestOf(h, j)
         /\ h.step[i].byRef => RestOf(r, i) = RestOf(h, i)
         /\ ~h.step[i].byRef => /\ RestOf(h, i) \in Seq(Nat) /\ RestOf(h, i) # << >>
                                /\ RestOf(r, i) = Tail(RestOf(h, i))
<1> DEFINE m == h.step[i].map
           ks == h.map[m].keys
           c == h.step[i].cursor
<1>1. m \in Maps
  BY SeesIs
<1>2. ks \in Seq(Nat) /\ Rising(ks) /\ Range(ks) \subseteq Key /\ c \in Range(ks)
  BY <1>1, AimIs DEF Aimed
<1>3. 0 \notin Range(ks)
  BY <1>2, ZeroIs
<1>4. /\ r.step[i].map = m /\ r.map = h.map /\ r.step[i].cursor = After(ks, c)
      /\ r.step[i].byRef = h.step[i].byRef /\ r.var = h.var
      /\ \A j \in Steps \ {i} : r.step[j] = h.step[j]
  BY DEF Advanced
<1>5. /\ From(ks, c) # << >> /\ From(ks, c) \in Seq(Nat)
      /\ From(ks, After(ks, c)) = Tail(From(ks, c))
  <2> HIDE DEF ks, c
  <2> QED BY <1>2, <1>3, FromAfter
<1>6. h.step[i].byRef => RestOf(r, i) = RestOf(h, i)
  BY <1>4 DEF RestOf, Sees
<1>7. SameValues(h, r) /\ \A j \in Steps \ {i} : RestOf(r, j) = RestOf(h, j)
  BY <1>4 DEF SameValues, ValOf, RestOf, Sees
<1>8. ~h.step[i].byRef => /\ RestOf(h, i) = From(ks, c)
                          /\ RestOf(r, i) = From(ks, After(ks, c))
  BY <1>4 DEF RestOf, Sees
<1> HIDE DEF ks, c, m
<1> QED BY <1>5, <1>6, <1>7, <1>8

---------------------------------------------------------------------------
(* The mapping and the steps of ArrayValues                                *)

Val == [v \in Vars |-> IF var[v] = 0 THEN << >> ELSE map[var[v]].keys]
Rst == [i \in Steps |-> IF InUse(i) /\ ~step[i].byRef THEN Rest(i) ELSE None]

LEMMA MappedIs ==
  /\ Val = [v \in Vars |-> ValOf(Heap, v)]
  /\ Rst = [i \in Steps |-> RestOf(Heap, i)]
  BY HeapIsState DEF Val, Rst, ValOf, RestOf, Sees, From, Rest, InUse

LEMMA MappedNext ==
  ASSUME NEW r, HeapBecomes(r)
  PROVE  /\ Val' = [v \in Vars |-> ValOf(r, v)]
         /\ Rst' = [i \in Steps |-> RestOf(r, i)]
  BY DEF HeapBecomes, Val, Rst, ValOf, RestOf, Sees, From, Rest, InUse

LEMMA IsWrite ==
  ASSUME NEW r, HeapBecomes(r), Sound(r), NEW v \in Vars, Others(Heap, r, v),
         SameRests(Heap, r)
  PROVE  Values!Next
<1>1. /\ Val' = [w \in Vars |-> ValOf(r, w)] /\ Rst' = [i \in Steps |-> RestOf(r, i)]
      /\ Val = [w \in Vars |-> ValOf(Heap, w)] /\ Rst = [i \in Steps |-> RestOf(Heap, i)]
  BY MappedIs, MappedNext
<1>2. \A w \in Vars \ {v} : Val'[w] = Val[w]
  BY <1>1 DEF Others
<1>3. Val'[v] \in Seq(Key)
  BY <1>1, ValIs
<1>4. DOMAIN Val' = Vars /\ Rst' = Rst
  BY <1>1 DEF SameRests
<1>5. Values!Write(v)
  BY <1>2, <1>3, <1>4 DEF Values!Write, Val, Rst
<1> QED BY <1>5 DEF Values!Next

LEMMA IsMayEnd ==
  ASSUME NEW r, HeapBecomes(r), SameValues(Heap, r), NEW S \in SUBSET Steps,
         \A i \in S : RestOf(r, i) \in {RestOf(Heap, i), None}
  PROVE  Values!MayEnd(S)
<1>1. /\ Val' = [w \in Vars |-> ValOf(r, w)] /\ Rst' = [i \in Steps |-> RestOf(r, i)]
      /\ Val = [w \in Vars |-> ValOf(Heap, w)] /\ Rst = [i \in Steps |-> RestOf(Heap, i)]
  BY MappedIs, MappedNext
<1>2. Val' = Val
  BY <1>1 DEF SameValues
<1>3. DOMAIN Rst' = Steps
  BY <1>1
<1>4. \A i \in S : Rst'[i] \in {Rst[i], None}
  BY <1>1
<1> QED BY <1>2, <1>3, <1>4 DEF Values!MayEnd, Val, Rst

LEMMA IsEnd ==
  ASSUME NEW r, HeapBecomes(r), SameValues(Heap, r),
         \A i \in Steps : RestOf(r, i) \in {RestOf(Heap, i), None}
  PROVE  Values!Next
  BY IsMayEnd DEF Values!Next, Values!End

LEMMA IsBegin ==
  ASSUME NEW r, HeapBecomes(r), SameValues(Heap, r), NEW i \in Steps,
         \A j \in Steps \ {i} : RestOf(r, j) \in {RestOf(Heap, j), None},
         \/ \E v \in Vars : RestOf(r, i) = ValOf(Heap, v)
         \/ \E k \in Key : RestOf(r, i) = <<k>>
  PROVE  Values!Next
<1>1. Values!MayEnd(Steps \ {i})
  BY IsMayEnd
<1>2. /\ Rst' = [j \in Steps |-> RestOf(r, j)] /\ Val = [w \in Vars |-> ValOf(Heap, w)]
  BY MappedIs, MappedNext
<1>3. (\E v \in Vars : Rst'[i] = Val[v]) \/ (\E k \in Key : Rst'[i] = <<k>>)
  BY <1>2
<1>4. Values!Begin(i)
  BY <1>1, <1>3 DEF Values!Begin, Val, Rst
<1> QED BY <1>4 DEF Values!Next

LEMMA IsVisit ==
  ASSUME NEW r, HeapBecomes(r), SameValues(Heap, r), NEW i \in Steps,
         \A j \in Steps \ {i} : RestOf(r, j) = RestOf(Heap, j),
         RestOf(Heap, i) \in Seq(Nat), RestOf(Heap, i) # << >>,
         RestOf(r, i) = Tail(RestOf(Heap, i))
  PROVE  Values!Next
<1>1. /\ Val' = [w \in Vars |-> ValOf(r, w)] /\ Rst' = [j \in Steps |-> RestOf(r, j)]
      /\ Val = [w \in Vars |-> ValOf(Heap, w)] /\ Rst = [j \in Steps |-> RestOf(Heap, j)]
  BY MappedIs, MappedNext
<1>2. Val' = Val
  BY <1>1 DEF SameValues
<1>3. Rst[i] \notin {None, << >>}
  BY <1>1, NoneAssumption
<1>4. Rst' = [Rst EXCEPT ![i] = Tail(Rst[i])]
  BY <1>1
<1>5. Values!Visit(i)
  BY <1>2, <1>3, <1>4 DEF Values!Visit, Val, Rst
<1> QED BY <1>5 DEF Values!Next

LEMMA LeaveValues ==
  ASSUME CursorInv, NEW f \in Frames, Leave(f)
  PROVE  Values!Next
<1> DEFINE r == ReleaseAll(Heap, owned[f])
           gone == Range(owned[f])
<1>1. HeapBecomes(r)
  BY DEF Leave
<1>2. owned[f] \in Seq(Steps) /\ Distinct(owned[f])
  BY InvParts, HeapParts, HeapIsState DEF Sound, FrameLists
<1>3. \A i \in Range(owned[f]) : Heap.step[i].map # 0
  <2>1. gone \subseteq Steps
    BY <1>2, SeqIs
  <2> QED BY <2>1, InvParts, HeapIsState DEF Sound, FrameLists
<1>4. Sound(r) /\ Spared(Heap, r, gone)
  BY <1>2, <1>3, InvParts, ReleaseAllSound
<1> HIDE DEF r, gone
<1>5. SameValues(Heap, r) /\ \A i \in Steps : RestOf(r, i) \in {RestOf(Heap, i), None}
  BY <1>4, SparedValues
<1> QED BY <1>1, <1>5, IsEnd

LEMMA OpenValues ==
  ASSUME CursorInv, NEW f \in Frames, NEW s \in DOMAIN code.loops, Open(f, s)
  PROVE  Values!Next
<1> DEFINE v == code.loops[s].over
           h == Reclaimed(f, s)
           own == IF code.loops[s].byRef THEN Separate(h, v) ELSE h
           m == own.var[v]
           r == NewStep(Retain(own, m), f, s, m)
           gone == {i \in Steps : On(Heap, s, i) /\ Heap.step[i].frame = f}
<1>1. /\ <<f, s>> \notin inside
      /\ v # None /\ var[v] # 0 /\ FreeSteps(h) # {} /\ FreeMaps(h) # {} /\ HeapBecomes(r)
  BY DEF Open, CanOpen
<1>2. s \in Stmts /\ v \in Vars
  BY <1>1, InvParts, ProgramIs
<1>3. Sound(h) /\ Ordered(h, nKeys) /\ Vacant(h, f, s)
  BY <1>1, <1>2, ReclaimedKeeps
<1>4. Spared(Heap, h, gone)
  BY <1>2, InvParts, ReclaimedIs
<1> HIDE DEF h, gone, v
<1>5. h.var[v] # 0
  <2>1. h.var = Heap.var
    BY <1>4 DEF Spared
  <2> QED BY <1>1, <2>1, HeapIsState
<1>6. /\ SameValues(Heap, h)
      /\ \A i \in Steps : RestOf(h, i) \in {RestOf(Heap, i), None}
  BY <1>3, <1>4, SparedValues
<1>7. /\ Sound(own) /\ Ordered(own, nKeys) /\ Vacant(own, f, s) /\ own.step = h.step
      /\ own.var[v] # 0 /\ SameValues(h, own) /\ SameRests(h, own)
  <2>1. CASE code.loops[s].byRef
    <3> DEFINE q == Separate(h, v)
    <3>1. own = q
      BY <2>1
    <3>2. Sound(q) /\ Apart(h, v, q)
      BY <1>1, <1>2, <1>3, <1>5, SeparateSound
    <3> HIDE DEF q, own
    <3>3. Ordered(q, nKeys)
      BY <1>2, <1>3, <1>5, <3>2, InvParts, ApartOrdered
    <3>4. Vacant(q, f, s) /\ q.var[v] # 0 /\ q.step = h.step
      BY <1>3, <3>2, ZeroIs DEF Apart, Vacant, On
    <3>5. SameValues(h, q) /\ SameRests(h, q)
      BY <1>2, <1>3, <1>5, <3>2, ApartValues
    <3> QED BY <3>1, <3>2, <3>3, <3>4, <3>5
  <2>2. CASE ~code.loops[s].byRef
    <3>1. own = h
      BY <2>2
    <3> HIDE DEF own
    <3> QED BY <1>3, <1>5, <3>1 DEF SameValues, SameRests
  <2> QED BY <2>1, <2>2
<1> HIDE DEF own
<1>8. m \in Maps /\ own.map[m].ref # 0 /\ own.map[m].keys = ValOf(own, v)
  <2>1. own.var[v] \in Maps /\ own.map[own.var[v]].ref > 0
    BY <1>2, <1>7, ValIs
  <2>2. own.map[m].ref # 0
    BY <2>1
  <2> QED BY <1>7, <2>1, <2>2 DEF ValOf
<1>9. FreeSteps(own) # {}
  BY <1>1, <1>7 DEF FreeSteps
<1> HIDE DEF m
<1>10. Sound(r) /\ Ordered(r, nKeys) /\ \E i \in Steps : Opened(own, f, s, i, m, r)
  BY <1>7, <1>8, <1>9, InvParts, OpenKeeps
<1> HIDE DEF r
<1>11. PICK i \in Steps : Opened(own, f, s, i, m, r)
  BY <1>10
<1>12. /\ SameValues(own, r)
       /\ \A j \in Steps \ {i} : RestOf(r, j) = RestOf(own, j)
       /\ RestOf(r, i) = IF code.loops[s].byRef THEN None ELSE r.map[m].keys
  BY <1>7, <1>8, <1>10, <1>11, InvParts, OpenedValues, ZenonT(40)
<1>13. SameValues(Heap, r)
  BY <1>6, <1>7, <1>12 DEF SameValues
<1>14. \A j \in Steps \ {i} : RestOf(r, j) \in {RestOf(Heap, j), None}
  BY <1>6, <1>7, <1>12 DEF SameRests
<1>15. CASE code.loops[s].byRef
  <2>1. \A j \in Steps : RestOf(r, j) \in {RestOf(Heap, j), None}
    BY <1>12, <1>14, <1>15
  <2> QED BY <1>1, <1>13, <2>1, IsEnd
<1>16. CASE ~code.loops[s].byRef
  <2>1. r.map[m].keys = own.map[m].keys
    BY <1>8, <1>11 DEF Opened
  <2>2. RestOf(r, i) = ValOf(Heap, v)
    BY <1>2, <1>6, <1>7, <1>8, <1>12, <1>16, <2>1 DEF SameValues
  <2> QED BY <1>1, <1>2, <1>13, <1>14, <2>2, IsBegin
<1> QED BY <1>15, <1>16

LEMMA TemporaryValues ==
  ASSUME CursorInv, NEW f \in Frames, NEW s \in DOMAIN code.loops, OpenTemporary(f, s)
  PROVE  Values!Next
<1> DEFINE h == Reclaimed(f, s)
           m == Least(FreeMaps(h))
           r == NewStep(NewMap(h, m, <<nKeys + 1>>), f, s, m)
           gone == {i \in Steps : On(Heap, s, i) /\ Heap.step[i].frame = f}
<1>1. /\ <<f, s>> \notin inside /\ nKeys < code.keys
      /\ FreeSteps(h) # {} /\ FreeMaps(h) # {} /\ HeapBecomes(r)
  BY DEF OpenTemporary, CanOpen
<1>2. s \in Stmts /\ nKeys + 1 \in Key
  BY <1>1, InvParts, ProgramIs, SizesAssumption DEF Key
<1>3. Sound(h) /\ Ordered(h, nKeys) /\ Vacant(h, f, s)
  BY <1>1, <1>2, ReclaimedKeeps
<1>4. Spared(Heap, h, gone)
  BY <1>2, InvParts, ReclaimedIs
<1>5. m \in Maps /\ h.map[m].ref = 0
  BY <1>1, FreeMapsIs
<1> HIDE DEF h, m, gone
<1>6. /\ SameValues(Heap, h)
      /\ \A i \in Steps : RestOf(h, i) \in {RestOf(Heap, i), None}
  BY <1>3, <1>4, SparedValues
<1>7. /\ Sound(r) /\ Ordered(r, nKeys + 1)
      /\ \E i \in Steps : Opened(h, f, s, i, m, r)
      /\ r.map[m].keys = <<nKeys + 1>>
  BY <1>1, <1>2, <1>3, <1>5, InvParts, TemporaryKeeps
<1> HIDE DEF r
<1>8. PICK i \in Steps : Opened(h, f, s, i, m, r)
  BY <1>7
<1>9. /\ SameValues(h, r)
      /\ \A j \in Steps \ {i} : RestOf(r, j) = RestOf(h, j)
      /\ RestOf(r, i) = IF code.loops[s].byRef THEN None ELSE r.map[m].keys
  <2>1. PICK n \in Nat : n = nKeys + 1
    BY InvParts
  <2>2. Ordered(r, n) /\ Sound(r) /\ m \in Maps
    BY <1>5, <1>7, <2>1
  <2> QED BY <1>3, <1>8, <2>2, OpenedValues, ZenonT(40)
<1>10. SameValues(Heap, r)
  BY <1>6, <1>9 DEF SameValues
<1>11. \A j \in Steps \ {i} : RestOf(r, j) \in {RestOf(Heap, j), None}
  BY <1>6, <1>9
<1>12. CASE code.loops[s].byRef
  <2>1. \A j \in Steps : RestOf(r, j) \in {RestOf(Heap, j), None}
    BY <1>9, <1>11, <1>12
  <2> QED BY <1>1, <1>10, <2>1, IsEnd
<1>13. CASE ~code.loops[s].byRef
  <2>1. RestOf(r, i) = <<nKeys + 1>>
    BY <1>7, <1>9, <1>13
  <2>2. \E k \in Key : RestOf(r, i) = <<k>>
    BY <1>2, <2>1
  <2> QED BY <1>1, <1>10, <1>11, <2>2, IsBegin
<1> QED BY <1>12, <1>13

LEMMA StepOnValues ==
  ASSUME CursorInv, NEW f \in Frames, NEW s \in Stmts, StepOn(f, s)
  PROVE  Values!Next
<1> DEFINE i == Selected(f, s)
           k == step[i].cursor
<1>1. <<f, s>> \in inside
  BY DEF StepOn
<1>2. i \in Steps /\ On(Heap, s, i)
  BY <1>1, SelectedIs
<1>3. Heap.step[i].map # 0
  BY <1>2, InvParts DEF Sound, StmtLists
<1>4. CASE k = 0
  <2> DEFINE r == StepRelease(Heap, i)
  <2>1. HeapBecomes(r)
    BY <1>4 DEF StepOn
  <2> HIDE DEF i
  <2>2. Sound(r) /\ Released(Heap, i, r)
    BY <1>2, <1>3, InvParts, ReleaseSound
  <2> HIDE DEF r
  <2>3. Spared(Heap, r, {i})
    BY <1>2, <2>2, InvParts, ReleasedSpares DEF Sound
  <2>4. SameValues(Heap, r) /\ \A j \in Steps : RestOf(r, j) \in {RestOf(Heap, j), None}
    BY <2>2, <2>3, SparedValues
  <2> QED BY <2>1, <2>4, IsEnd
<1>5. CASE k # 0
  <2>1. PICK r : /\ HeapBecomes(r) /\ Advanced(Heap, i, r)
    <3>1. /\ step' = [step EXCEPT ![i].cursor = After(map[step[i].map].keys, k),
                                  ![i].visited = k]
          /\ UNCHANGED <<var, map, aStep, owned>>
      BY <1>5 DEF StepOn
    <3> DEFINE r == [var |-> var, map |-> map, step |-> step', aStep |-> aStep,
                     owned |-> owned]
    <3> HIDE DEF i
    <3>2. HeapBecomes(r)
      BY <3>1 DEF HeapBecomes
    <3>3. step \in [Steps -> StepType] /\ step[i] \in StepType
      BY <1>2, InvParts, HeapParts, HeapIsState
    <3>4. /\ \A j \in Steps : j # i => step'[j] = step[j]
          /\ step'[i].map = step[i].map /\ step'[i].frame = step[i].frame
          /\ step'[i].byRef = step[i].byRef
          /\ step'[i].cursor = After(map[step[i].map].keys, step[i].cursor)
          /\ step'[i].visited = step[i].cursor
      BY <1>2, <3>1, <3>3 DEF StepType
    <3>5. Advanced(Heap, i, r)
      BY <3>4, HeapIsState DEF Advanced
    <3> QED BY <3>2, <3>5
  <2>2. Heap.step[i].cursor # 0
    BY <1>5, HeapIsState
  <2> HIDE DEF i
  <2>3. /\ SameValues(Heap, r)
        /\ \A j \in Steps \ {i} : RestOf(r, j) = RestOf(Heap, j)
        /\ Heap.step[i].byRef => RestOf(r, i) = RestOf(Heap, i)
        /\ ~Heap.step[i].byRef =>
             /\ RestOf(Heap, i) \in Seq(Nat) /\ RestOf(Heap, i) # << >>
             /\ RestOf(r, i) = Tail(RestOf(Heap, i))
    BY <1>2, <1>3, <2>1, <2>2, InvParts, AdvancedValues
  <2>4. CASE Heap.step[i].byRef
    <3>1. \A j \in Steps : RestOf(r, j) \in {RestOf(Heap, j), None}
      BY <2>3, <2>4
    <3> QED BY <2>1, <2>3, <3>1, IsEnd
  <2>5. CASE ~Heap.step[i].byRef
    BY <1>2, <2>1, <2>3, <2>5, IsVisit
  <2> QED BY <2>4, <2>5
<1> QED BY <1>4, <1>5

(* A write, once the array is separated                                    *)
LEMMA WriteValues ==
  ASSUME CursorInv, NEW v \in Vars, CanWrite(v), NEW r, HeapBecomes(r), Sound(r),
         Moved(Separate(Heap, v), Separate(Heap, v).var[v], r)
  PROVE  Values!Next
<1> DEFINE h == Separate(Heap, v)
           m == h.var[v]
<1>1. Sound(h) /\ Apart(Heap, v, h) /\ m \in Maps
  BY SeparateKeeps
<1>2. Heap.var[v] # 0 /\ FreeMaps(Heap) # {}
  BY HeapIsState DEF CanWrite
<1>3. SameValues(Heap, h) /\ SameRests(Heap, h)
  BY <1>1, <1>2, InvParts, ApartValues
<1>4. Alone(h, m, v)
  BY <1>2, InvParts, SeparateAlone
<1> HIDE DEF h
<1>5. Moved(h, m, r)
  BY DEF h
<1> HIDE DEF m
<1>6. Others(h, r, v) /\ SameRests(h, r)
  BY <1>1, <1>4, <1>5, MovedValues
<1>7. Others(Heap, r, v) /\ SameRests(Heap, r)
  BY <1>3, <1>6 DEF Others, SameRests, SameValues
<1> QED BY <1>7, IsWrite

LEMMA AppendValues ==
  ASSUME CursorInv, NEW v \in Vars, AppendTo(v)
  PROVE  Values!Next
<1> DEFINE h == Separate(Heap, v)
           m == h.var[v]
           r == Link(h, m, nKeys + 1)
<1>1. CanWrite(v) /\ nKeys < code.keys /\ HeapBecomes(r)
  BY DEF AppendTo
<1>2. nKeys + 1 \in Key
  BY <1>1, InvParts, ProgramIs, SizesAssumption DEF Key
<1>3. Sound(h) /\ Ordered(h, nKeys) /\ m \in Maps /\ h.map[m].ref # 0
  BY <1>1, SeparateKeeps
<1> HIDE DEF h, m
<1>4. Sound(r) /\ Moved(h, m, r)
  BY <1>2, <1>3, InvParts, LinkKeeps
<1> HIDE DEF r
<1>5. Moved(Separate(Heap, v), Separate(Heap, v).var[v], r)
  BY <1>4 DEF h, m
<1> QED BY <1>1, <1>4, <1>5, WriteValues

LEMMA UnsetValues ==
  ASSUME CursorInv, NEW v \in Vars, NEW k \in Key, UnsetKey(v, k)
  PROVE  Values!Next
<1> DEFINE h == Separate(Heap, v)
           m == h.var[v]
           r == Unlink(h, m, k)
<1>1. CanWrite(v) /\ k \in Range(map[var[v]].keys) /\ HeapBecomes(r)
  BY DEF UnsetKey
<1>2. /\ Sound(h) /\ Ordered(h, nKeys) /\ m \in Maps /\ h.map[m].ref # 0
      /\ h.map[m].keys = map[var[v]].keys
  BY <1>1, SeparateKeeps
<1> HIDE DEF h, m
<1>3. Sound(r) /\ Moved(h, m, r)
  BY <1>1, <1>2, InvParts, UnlinkKeeps
<1> HIDE DEF r
<1>4. Moved(Separate(Heap, v), Separate(Heap, v).var[v], r)
  BY <1>3 DEF h, m
<1> QED BY <1>1, <1>3, <1>4, WriteValues

LEMMA EraseValues ==
  ASSUME CursorInv, NEW v \in Vars, Erase(v)
  PROVE  Values!Next
<1> DEFINE h == Separate(Heap, v)
           m == h.var[v]
           r == Empty(h, m)
<1>1. CanWrite(v) /\ HeapBecomes(r)
  BY DEF Erase
<1>2. Sound(h) /\ Ordered(h, nKeys) /\ m \in Maps /\ h.map[m].ref # 0
  BY <1>1, SeparateKeeps
<1> HIDE DEF h, m
<1>3. Sound(r) /\ Moved(h, m, r)
  BY <1>2, InvParts, EmptyKeeps
<1> HIDE DEF r
<1>4. Moved(Separate(Heap, v), Separate(Heap, v).var[v], r)
  BY <1>3 DEF h, m
<1> QED BY <1>1, <1>3, <1>4, WriteValues

LEMMA AssignValues ==
  ASSUME CursorInv, NEW v \in Vars, NEW w \in Vars, Assign(v, w)
  PROVE  Values!Next
<1> DEFINE m == var[w]
           r == Shared(Heap, v, m)
<1>1. m # 0 /\ m # Heap.var[v] /\ HeapBecomes(r)
  BY HeapIsState DEF Assign, Shared
<1>2. m \in Maps
  BY <1>1, InvParts, HeapParts, HeapIsState
<1> HIDE DEF m
<1>3. /\ Sound(r) /\ Rebound(Heap, v, m, r) /\ r.map[m].keys = Heap.map[m].keys
  BY <1>1, <1>2, InvParts, AssignKeeps
<1> HIDE DEF r
<1>4. \A p \in Maps : r.map[p].ref > 0 => r.map[p].keys = Heap.map[p].keys
  BY <1>1, <1>2, <1>3, InvParts, ReboundOrdered
<1>5. Others(Heap, r, v) /\ SameRests(Heap, r)
  BY <1>3, <1>4, InvParts, ReboundValues
<1> QED BY <1>1, <1>3, <1>5, IsWrite

LEMMA ForgetValues ==
  ASSUME CursorInv, NEW v \in Vars, Forget(v)
  PROVE  Values!Next
<1> DEFINE r == Forgotten(Heap, v)
<1>1. Heap.var[v] # 0 /\ HeapBecomes(r)
  BY HeapIsState DEF Forget, Forgotten
<1>2. Sound(r) /\ Rebound(Heap, v, 0, r)
  BY <1>1, InvParts, ForgetKeeps
<1> HIDE DEF r
<1>3. \A p \in Maps : r.map[p].ref > 0 => r.map[p].keys = Heap.map[p].keys
  BY <1>1, <1>2, InvParts, ReboundOrdered
<1>4. Others(Heap, r, v) /\ SameRests(Heap, r)
  BY <1>2, <1>3, InvParts, ReboundValues
<1> QED BY <1>1, <1>2, <1>4, IsWrite

LEMMA StillValues ==
  ASSUME UNCHANGED <<var, map, step, aStep, owned>>
  PROVE  UNCHANGED Values!vars
  BY DEF Values!vars, InUse, Rest

LEMMA NextValues == CursorInv /\ [Next]_vars => [Values!Next]_(Values!vars)
<1> SUFFICES ASSUME CursorInv, [Next]_vars PROVE [Values!Next]_(Values!vars)
  OBVIOUS
<1>1. DOMAIN code.loops \subseteq Stmts /\ code.writes \subseteq Vars
  BY InvParts, ProgramIs
<1>2. ASSUME NEW f \in Frames, Enter(f) PROVE UNCHANGED Values!vars
  BY <1>2, StillValues DEF Enter
<1>3. ASSUME NEW f \in Frames, Leave(f) PROVE Values!Next
  BY <1>3, LeaveValues
<1>4. ASSUME NEW f \in Frames, NEW s \in DOMAIN code.loops, Loop(f, s)
      PROVE  Values!Next \/ UNCHANGED Values!vars
  <2>1. s \in Stmts
    BY <1>1
  <2>2. Break(f, s) => UNCHANGED Values!vars
    BY StillValues DEF Break
  <2> QED BY <1>4, <2>1, <2>2, OpenValues, TemporaryValues, StepOnValues DEF Loop
<1>5. ASSUME NEW v \in code.writes, Mutate(v) PROVE Values!Next
  <2>1. v \in Vars /\ \A w \in code.writes : w \in Vars
    BY <1>1
  <2> QED BY <1>5, <2>1, AppendValues, EraseValues, ForgetValues, UnsetValues, AssignValues
          DEF Mutate
<1>6. CASE UNCHANGED vars
  BY <1>6, StillValues DEF vars
<1> QED BY <1>2, <1>3, <1>4, <1>5, <1>6 DEF Next

LEMMA InitValues == Init => Values!Init
<1> SUFFICES ASSUME Init PROVE Values!Init
  OBVIOUS
<1>1. CursorInv
  BY InitInv
<1>2. Val \in [Vars -> Seq(Key)]
  BY <1>1, InvParts, MappedIs, ValIs
<1>3. Rst = [i \in Steps |-> None]
  BY FreeStepIs DEF Init, Rst, InUse
<1> QED BY <1>2, <1>3 DEF Values!Init, Val, Rst

(* Copy-on-write keeps arrays values (PH7_HashmapCowSeparate): a write     *)
(* through a variable, which separates the array first unless by-ref loops *)
(* are all that share it, changes no other variable's array, and a loop    *)
(* by value visits the array as it was when the loop began, key by key,    *)
(* whatever is written, assigned, unset and left meanwhile.                *)
THEOREM CopyOnWrite == Spec => ArraysAreValues
  BY AlwaysInv, InitValues, NextValues, PTL DEF Spec, ArraysAreValues, Values!Spec
============================================================================
