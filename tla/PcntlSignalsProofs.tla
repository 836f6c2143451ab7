------------------------ MODULE PcntlSignalsProofs ------------------------
(***************************************************************************)
(* What PcntlSignals guarantees for every Q, every set of signals and      *)
(* every set of VMs.                                                       *)
(***************************************************************************)
EXTENDS PcntlSignals, SequenceTheorems, TLAPS

---------------------------------------------------------------------------
(* The cursors, with the remainders worked out                             *)

(* What x % M is, for x below M,                                           *)
LEMMA ModLow == ASSUME NEW M \in Nat \ {0}, NEW x \in 0 .. (M - 1)
                PROVE  x % M = x
  OBVIOUS

(* below 2M,                                                               *)
LEMMA ModHigh == ASSUME NEW M \in Nat \ {0}, NEW x \in M .. (2 * M - 1)
                 PROVE  x % M = x - M
  OBVIOUS

(* and below 3M.                                                           *)
LEMMA ModHigher == ASSUME NEW M \in Nat \ {0}, NEW x \in (2 * M) .. (3 * M - 1)
                   PROVE  x % M = x - 2 * M
  OBVIOUS

(* A cursor advances by one and wraps at 2Q.                               *)
LEMMA AdvanceIs ==
  ASSUME NEW c \in Cursors
  PROVE  /\ Advance(c) \in Cursors
         /\ Advance(c) = IF c = 2 * Q - 1 THEN 0 ELSE c + 1
  <1> USE QueueAssumption
  <1>1. CASE c = 2 * Q - 1
    BY <1>1, ModHigh, 2 * Q \in Nat \ {0}, c + 1 \in (2 * Q) .. (2 * (2 * Q) - 1)
       DEF Advance, Cursors
  <1>2. CASE c # 2 * Q - 1
    BY <1>2, ModLow, 2 * Q \in Nat \ {0}, c + 1 \in 0 .. (2 * Q - 1) DEF Advance, Cursors
  <1> QED BY <1>1, <1>2

(* The distance between two cursors, once round at most.                   *)
LEMMA DistanceIs ==
  ASSUME NEW a \in Cursors, NEW b \in Cursors
  PROVE  /\ Distance(a, b) \in 0 .. (2 * Q - 1)
         /\ Distance(a, b) = IF a <= b THEN b - a ELSE b - a + 2 * Q
  <1> USE QueueAssumption
  <1>0. 2 * Q \in Nat \ {0}
    OBVIOUS
  <1>1. CASE a <= b
    <2>1. b - a + 2 * Q \in (2 * Q) .. (2 * (2 * Q) - 1)
      BY <1>1 DEF Cursors
    <2>2. Distance(a, b) = (b - a + 2 * Q) - 2 * Q
      BY <1>0, <2>1, ModHigh DEF Distance
    <2> QED BY <1>1, <2>2 DEF Cursors
  <1>2. CASE ~(a <= b)
    <2>1. b - a + 2 * Q \in 0 .. (2 * Q - 1)
      BY <1>2 DEF Cursors
    <2>2. Distance(a, b) = b - a + 2 * Q
      BY <1>0, <2>1, ModLow DEF Distance
    <2> QED BY <1>2, <2>1, <2>2 DEF Cursors
  <1> QED BY <1>1, <1>2

(* It is zero only between a cursor and itself.                            *)
LEMMA DistanceZero ==
  ASSUME NEW a \in Cursors, NEW b \in Cursors
  PROVE  Distance(a, b) = 0 <=> a = b
  <1>1. Distance(a, b) = IF a <= b THEN b - a ELSE b - a + 2 * Q
    BY DistanceIs
  <1> QED BY <1>1, QueueAssumption DEF Cursors

(* The far cursor advances,                                                *)
LEMMA DistanceUp ==
  ASSUME NEW a \in Cursors, NEW t \in Cursors, Distance(a, t) < Q
  PROVE  Distance(a, Advance(t)) = Distance(a, t) + 1
  <1> USE QueueAssumption
  <1>1. Distance(a, t) = IF a <= t THEN t - a ELSE t - a + 2 * Q
    BY DistanceIs
  <1>2. Advance(t) \in Cursors /\ Advance(t) = IF t = 2 * Q - 1 THEN 0 ELSE t + 1
    BY AdvanceIs
  <1>3. Distance(a, Advance(t)) = IF a <= Advance(t) THEN Advance(t) - a
                                  ELSE Advance(t) - a + 2 * Q
    BY <1>2, DistanceIs
  <1> QED BY <1>1, <1>2, <1>3 DEF Cursors

(* the near one advances.                                                  *)
LEMMA DistanceDown ==
  ASSUME NEW a \in Cursors, NEW b \in Cursors, a # b
  PROVE  Distance(Advance(a), b) = Distance(a, b) - 1
  <1> USE QueueAssumption
  <1>1. Distance(a, b) = IF a <= b THEN b - a ELSE b - a + 2 * Q
    BY DistanceIs
  <1>2. Advance(a) \in Cursors /\ Advance(a) = IF a = 2 * Q - 1 THEN 0 ELSE a + 1
    BY AdvanceIs
  <1>3. Distance(Advance(a), b) = IF Advance(a) <= b THEN b - Advance(a)
                                  ELSE b - Advance(a) + 2 * Q
    BY <1>2, DistanceIs
  <1> QED BY <1>1, <1>2, <1>3 DEF Cursors

(* The slot of a cursor, or of one that has run past 2Q.                   *)
LEMMA SlotIs ==
  ASSUME NEW x \in 0 .. (3 * Q - 1)
  PROVE  /\ Slot(x) \in 0 .. (Q - 1)
         /\ Slot(x) = IF x < Q THEN x ELSE IF x < 2 * Q THEN x - Q ELSE x - 2 * Q
  <1> USE QueueAssumption
  <1>1. CASE x < Q
    BY <1>1, ModLow DEF Slot
  <1>2. CASE x \in Q .. (2 * Q - 1)
    BY <1>2, ModHigh DEF Slot
  <1>3. CASE x \in (2 * Q) .. (3 * Q - 1)
    BY <1>3, ModHigher DEF Slot
  <1> QED BY <1>1, <1>2, <1>3


(* Less than Q apart, two cursors have two slots.                          *)
LEMMA SlotApart ==
  ASSUME NEW a \in Cursors, NEW t \in Cursors, a # t, Distance(a, t) < Q
  PROVE  Slot(a) # Slot(t)
  <1> USE QueueAssumption
  <1>1. Distance(a, t) = IF a <= t THEN t - a ELSE t - a + 2 * Q
    BY DistanceIs
  <1>2. a \in 0 .. (3 * Q - 1) /\ t \in 0 .. (3 * Q - 1)
    BY DEF Cursors
  <1>3. /\ Slot(a) = IF a < Q THEN a ELSE IF a < 2 * Q THEN a - Q ELSE a - 2 * Q
        /\ Slot(t) = IF t < Q THEN t ELSE IF t < 2 * Q THEN t - Q ELSE t - 2 * Q
    BY <1>2, SlotIs
  <1> QED BY <1>1, <1>3 DEF Cursors

---------------------------------------------------------------------------
(* The events of a stretch of the ring                                     *)

(* n slots from a cursor on, as a sequence.                                *)
Window(r, a, n) == [i \in 1 .. n |-> r[Slot(a + i - 1)]]

(* What a window holds, and that it stays in the ring's slots.             *)
LEMMA WindowAt ==
  ASSUME NEW r, NEW a \in Cursors, NEW n \in 0 .. Q, NEW i \in 1 .. n
  PROVE  /\ Window(r, a, n)[i] = r[Slot(a + i - 1)]
         /\ a + i - 1 \in 0 .. (3 * Q - 1)
         /\ Slot(a + i - 1) \in 0 .. (Q - 1)
  <1> USE QueueAssumption
  <1>1. a + i - 1 \in 0 .. (3 * Q - 1)
    BY DEF Cursors
  <1>2. Slot(a + i - 1) \in 0 .. (Q - 1)
    BY <1>1, SlotIs
  <1> QED BY <1>1, <1>2 DEF Window

(* A window is a sequence of what the ring holds.                          *)
LEMMA WindowSeq ==
  ASSUME NEW S, NEW r \in [0 .. (Q - 1) -> S], NEW a \in Cursors, NEW n \in 0 .. Q
  PROVE  Window(r, a, n) \in Seq(S) /\ Len(Window(r, a, n)) = n
  <1> USE QueueAssumption
  <1>1. \A i \in 1 .. n : Slot(a + i - 1) \in 0 .. (Q - 1)
    BY WindowAt
  <1>2. Window(r, a, n) \in [1 .. n -> S]
    BY <1>1 DEF Window
  <1>3. Window(r, a, n) \in Seq(S)
    BY <1>2, SeqDef
  <1> QED BY <1>2, <1>3, LenProperties

(* Two windows are one when they hold the same.                            *)
LEMMA WindowEqual ==
  ASSUME NEW S, NEW r \in [0 .. (Q - 1) -> S], NEW a \in Cursors, NEW n \in 0 .. Q,
         NEW s \in Seq(S), Len(s) = n, \A i \in 1 .. n : s[i] = r[Slot(a + i - 1)]
  PROVE  s = Window(r, a, n)
  <1>1. Window(r, a, n) \in Seq(S) /\ Len(Window(r, a, n)) = n
    BY WindowSeq
  <1>2. \A i \in 1 .. Len(s) : s[i] = Window(r, a, n)[i]
    BY WindowAt
  <1> QED BY <1>1, <1>2, SeqEqual

(* A slot the window does not reach can be written under it.               *)
LEMMA WindowKept ==
  ASSUME NEW r, NEW q, NEW a \in Cursors, NEW t \in Cursors, NEW n \in 0 .. Q,
         n <= Distance(a, t), Distance(a, t) < Q,
         \A j \in 0 .. (Q - 1) : j # Slot(t) => q[j] = r[j]
  PROVE  Window(q, a, n) = Window(r, a, n)
  <1> USE QueueAssumption
  <1>1. ASSUME NEW i \in 1 .. n PROVE Slot(a + i - 1) # Slot(t)
    <2>1. a + i - 1 \in 0 .. (3 * Q - 1) /\ t \in 0 .. (3 * Q - 1)
      BY DEF Cursors
    <2>2. /\ Distance(a, t) \in 0 .. (2 * Q - 1)
          /\ Distance(a, t) = IF a <= t THEN t - a ELSE t - a + 2 * Q
      BY DistanceIs
    <2>3. Slot(t) = IF t < Q THEN t ELSE IF t < 2 * Q THEN t - Q ELSE t - 2 * Q
      BY <2>1, SlotIs
    <2> DEFINE x == a + i - 1
    <2>4. Slot(x) = IF x < Q THEN x ELSE IF x < 2 * Q THEN x - Q ELSE x - 2 * Q
      BY <2>1, SlotIs
    <2> QED BY <2>2, <2>3, <2>4 DEF Cursors
  <1>2. \A i \in 1 .. n : q[Slot(a + i - 1)] = r[Slot(a + i - 1)]
    BY <1>1, WindowAt
  <1> QED BY <1>2 DEF Window

Events == Signals \cup {None}
Rings == [0 .. (Q - 1) -> Events]

(* q is the ring r with s stored in the slot of cursor t, and no other.     *)
Stored(q, r, t, s) ==
  /\ q[Slot(t)] = s
  /\ \A j \in 0 .. (Q - 1) : j # Slot(t) => q[j] = r[j]

(* The C handler's store and cursor move append to what the window held.   *)
LEMMA WindowAppend ==
  ASSUME NEW r \in Rings, NEW q \in Rings, NEW s \in Events,
         NEW a \in Cursors, NEW t \in Cursors, Distance(a, t) \in 0 .. (Q - 1),
         Stored(q, r, t, s)
  PROVE  Window(q, a, Distance(a, t) + 1) = Append(Window(r, a, Distance(a, t)), s)
  <1> USE QueueAssumption
  <1> DEFINE S == Events
  <1>11. r \in [0 .. (Q - 1) -> S] /\ q \in [0 .. (Q - 1) -> S] /\ s \in S
    BY DEF Rings
  <1> HIDE DEF S
  <1> DEFINE n == Distance(a, t)
  <1>0. n \in 0 .. (Q - 1) /\ n = Distance(a, t)
    OBVIOUS
  <1> HIDE DEF n
  <1>1. n \in 0 .. Q /\ n + 1 \in 0 .. Q
    BY <1>0
  <1>2. q[Slot(t)] = s
    BY DEF Stored
  <1>3. Distance(a, t) = IF a <= t THEN t - a ELSE t - a + 2 * Q
    BY DistanceIs
  <1>4. Slot(a + n) = Slot(t)
    <2>1. a + n \in 0 .. (3 * Q - 1) /\ t \in 0 .. (3 * Q - 1)
      BY <1>0 DEF Cursors
    <2>2. a + n = t \/ a + n = t + 2 * Q
      BY <1>0, <1>3 DEF Cursors
    <2>3. CASE a + n = t
      BY <2>3
    <2>4. CASE a + n = t + 2 * Q
      <3>1. t < Q
        BY <2>1, <2>4 DEF Cursors
      <3> QED BY <2>1, <2>4, <3>1, SlotIs
    <2> QED BY <2>2, <2>3, <2>4
  <1>5. Window(q, a, n) = Window(r, a, n)
    <2>1. n <= Distance(a, t) /\ Distance(a, t) < Q
      BY <1>0
    <2>2. \A j \in 0 .. (Q - 1) : j # Slot(t) => q[j] = r[j]
      BY DEF Stored
    <2> QED BY ONLY <2>1, <2>2, <1>1, WindowKept, a \in Cursors, t \in Cursors, ZenonT(30)
  <1>6. Window(r, a, n) \in Seq(S) /\ Len(Window(r, a, n)) = n
    BY <1>1, <1>11, WindowSeq
  <1> DEFINE u == Append(Window(r, a, n), s)
  <1>7. /\ u \in Seq(S) /\ Len(u) = n + 1 /\ u[n + 1] = s
        /\ \A i \in 1 .. n : u[i] = Window(r, a, n)[i]
    BY <1>6, <1>11, AppendProperties
  <1> HIDE DEF u
  <1>8. ASSUME NEW i \in 1 .. (n + 1) PROVE u[i] = q[Slot(a + i - 1)]
    <2>1. CASE i = n + 1
      <3>1. a + i - 1 = a + n
        BY <1>0, <2>1 DEF Cursors
      <3> QED BY <2>1, <3>1, <1>2, <1>4, <1>7
    <2>2. CASE i \in 1 .. n
      <3>1. Window(q, a, n)[i] = q[Slot(a + i - 1)]
        BY <2>2 DEF Window
      <3> QED BY <2>2, <3>1, <1>5, <1>7
    <2> QED BY <1>0, <2>1, <2>2
  <1>9. u = Window(q, a, n + 1)
    <2> DEFINE m == n + 1
    <2>1. m \in 0 .. Q /\ u \in Seq(S) /\ Len(u) = m
      BY <1>1, <1>7
    <2>2. \A i \in 1 .. m : u[i] = q[Slot(a + i - 1)]
      BY <1>8
    <2> HIDE DEF m
    <2>3. u = Window(q, a, m)
      BY ONLY <2>1, <2>2, <1>11, WindowEqual, a \in Cursors, ZenonT(30)
    <2> QED BY <2>3 DEF m
  <1> QED BY <1>9 DEF u, n

(* The head's move takes the first event off.                              *)
LEMMA WindowTail ==
  ASSUME NEW S, NEW r \in [0 .. (Q - 1) -> S], NEW a \in Cursors, NEW n \in 1 .. Q
  PROVE  /\ Window(r, a, n) # << >>
         /\ Head(Window(r, a, n)) = r[Slot(a)]
         /\ Tail(Window(r, a, n)) = Window(r, Advance(a), n - 1)
  <1> USE QueueAssumption
  <1> DEFINE w == Window(r, a, n)
  <1>0. n \in 0 .. Q /\ n - 1 \in 0 .. Q /\ 1 \in 1 .. n
    OBVIOUS
  <1>1. Advance(a) \in Cursors /\ Advance(a) = IF a = 2 * Q - 1 THEN 0 ELSE a + 1
    BY AdvanceIs
  <1>2. w \in Seq(S) /\ Len(w) = n
    BY <1>0, WindowSeq
  <1>3. w[1] = r[Slot(a)]
    <2>1. w[1] = r[Slot(a + 1 - 1)]
      BY <1>0, WindowAt
    <2> QED BY <2>1 DEF Cursors
  <1>4. ASSUME NEW i \in 1 .. (n - 1) PROVE w[i + 1] = r[Slot(Advance(a) + i - 1)]
    <2> DEFINE j == i + 1
    <2>1. j \in 1 .. n
      OBVIOUS
    <2>2. w[j] = r[Slot(a + j - 1)] /\ a + j - 1 \in 0 .. (3 * Q - 1)
      BY <2>1 DEF Window, Cursors
    <2> DEFINE x == Advance(a) + i - 1
               y == a + j - 1
    <2>3. x \in 0 .. (3 * Q - 1)
      BY <1>1 DEF Cursors
    <2>4. x = y \/ y = x + 2 * Q
      BY <1>1 DEF Cursors
    <2>5. Slot(x) = Slot(y)
      <3> HIDE DEF x, y
      <3>1. CASE x = y
        BY <3>1
      <3>2. CASE y = x + 2 * Q
        <4>1. x < Q
          BY <2>2, <2>3, <3>2 DEF y
        <4> QED BY <2>2, <2>3, <3>2, <4>1, SlotIs DEF y
      <3> QED BY <2>4, <3>1, <3>2
    <2> QED BY <2>2, <2>5
  <1> HIDE DEF w
  <1>5. w # << >>
    BY <1>2, EmptySeq
  <1>6. Head(w) = r[Slot(a)]
    BY <1>2, <1>3, <1>5
  <1>7. /\ Tail(w) \in Seq(S) /\ Len(Tail(w)) = n - 1
        /\ \A i \in 1 .. (n - 1) : Tail(w)[i] = w[i + 1]
    BY <1>2, <1>5, HeadTailProperties
  <1>8. \A i \in 1 .. (n - 1) : Tail(w)[i] = r[Slot(Advance(a) + i - 1)]
    BY <1>4, <1>7
  <1>9. Tail(w) = Window(r, Advance(a), n - 1)
    BY <1>0, <1>1, <1>7, <1>8, WindowEqual
  <1> QED BY <1>5, <1>6, <1>9 DEF w

(* Two stretches end to end.                                               *)
LEMMA WindowConcat ==
  ASSUME NEW S, NEW r \in [0 .. (Q - 1) -> S],
         NEW a \in Cursors, NEW b \in Cursors, NEW m \in 0 .. Q,
         NEW n \in 0 .. Q, n = Distance(a, b), n + m <= Q
  PROVE  Window(r, a, n + m) = Window(r, a, n) \o Window(r, b, m)
  <1> USE QueueAssumption
  <1> DEFINE u == Window(r, a, n)
             v == Window(r, b, m)
             w == u \o v
  <1>1. n + m \in 0 .. Q
    OBVIOUS
  <1>2. u \in Seq(S) /\ Len(u) = n
    BY WindowSeq
  <1>3. v \in Seq(S) /\ Len(v) = m
    BY WindowSeq
  <1>4. \A i \in 1 .. n : u[i] = r[Slot(a + i - 1)]
    BY DEF Window
  <1>5. ASSUME NEW i \in 1 .. m
        PROVE  v[i] = r[Slot(a + (n + i) - 1)]
    <2> DEFINE x == b + i - 1
               y == a + (n + i) - 1
    <2>1. v[i] = r[Slot(x)] /\ x \in 0 .. (3 * Q - 1)
      BY WindowAt
    <2>2. y \in 0 .. (3 * Q - 1)
      BY DEF Cursors
    <2>3. Distance(a, b) = IF a <= b THEN b - a ELSE b - a + 2 * Q
      BY DistanceIs
    <2>4. x = y \/ y = x + 2 * Q
      BY <2>3 DEF Cursors
    <2>5. Slot(x) = Slot(y)
      <3> HIDE DEF x, y
      <3>1. CASE x = y
        BY <3>1
      <3>2. CASE y = x + 2 * Q
        <4>1. x < Q
          BY <2>1, <2>2, <3>2
        <4> QED BY <2>1, <2>2, <3>2, <4>1, SlotIs
      <3> QED BY <2>4, <3>1, <3>2
    <2> HIDE DEF v
    <2> QED BY <2>1, <2>5
  <1> HIDE DEF u, v
  <1>6. /\ w \in Seq(S) /\ Len(w) = n + m
        /\ \A i \in 1 .. (n + m) : w[i] = IF i <= n THEN u[i] ELSE v[i - n]
    <2>1. /\ u \o v \in Seq(S) /\ Len(u \o v) = Len(u) + Len(v)
          /\ \A i \in 1 .. (Len(u) + Len(v)) :
               (u \o v)[i] = IF i <= Len(u) THEN u[i] ELSE v[i - Len(u)]
      BY <1>2, <1>3, ConcatProperties
    <2> QED BY <2>1, <1>2, <1>3
  <1> HIDE DEF w
  <1>7. ASSUME NEW i \in 1 .. (n + m) PROVE w[i] = r[Slot(a + i - 1)]
    <2>1. CASE i <= n
      BY <2>1, <1>4, <1>6
    <2>2. CASE ~(i <= n)
      <3>1. i - n \in 1 .. m /\ n + (i - n) = i
        BY <2>2
      <3>2. v[i - n] = r[Slot(a + i - 1)]
        BY <3>1, <1>5
      <3> QED BY <3>2, <2>2, <1>6
    <2> QED BY <2>1, <2>2
  <1>8. w = Window(r, a, n + m)
    <2> DEFINE k == n + m
    <2>1. k \in 0 .. Q /\ w \in Seq(S) /\ Len(w) = k
      BY <1>1, <1>6
    <2>2. \A i \in 1 .. k : w[i] = r[Slot(a + i - 1)]
      BY <1>7
    <2> HIDE DEF k
    <2>3. w = Window(r, a, k)
      BY ONLY <2>1, <2>2, WindowEqual, a \in Cursors, r \in [0 .. (Q - 1) -> S], ZenonT(30)
    <2> QED BY <2>3 DEF k
  <1> QED BY <1>8 DEF u, v, w

---------------------------------------------------------------------------
(* Types, and where the drain is                                           *)

(* The innermost call, and the calls left when it ends.                    *)
LEMMA InnermostIs ==
  ASSUME TypeOK, calls # << >>
  PROVE  /\ Len(calls) \in DOMAIN calls
         /\ Innermost = calls[Len(calls)]
         /\ Innermost \in Call
         /\ Innermost.vm \in VMs /\ Innermost.signo \in Signals
         /\ Innermost.how \in IntHandlers \cup {"call"}
         /\ Innermost.at \in {"php", "handler"}
         /\ Front(calls) \in Seq(Call)
         /\ DOMAIN Front(calls) = 1 .. (Len(calls) - 1)
         /\ \A i \in DOMAIN Front(calls) : i \in DOMAIN calls /\ Front(calls)[i] = calls[i]
<1>0. calls \in Seq(Call)
  BY DEF TypeOK
<1>1. Len(calls) \in Nat \ {0} /\ DOMAIN calls = 1 .. Len(calls)
  BY <1>0, EmptySeq
<1>2. calls[Len(calls)] \in Call
  BY <1>0, <1>1, ElementOfSeq
<1>3. Front(calls) = [i \in 1 .. (Len(calls) - 1) |-> calls[i]]
  BY <1>1 DEF Front
<1>4. Front(calls) \in [1 .. (Len(calls) - 1) -> Call] /\ Len(calls) - 1 \in Nat
  BY <1>0, <1>1, <1>3, ElementOfSeq
<1>5. Front(calls) \in Seq(Call)
  BY <1>3, <1>4, SeqDef
<1>6. Innermost = calls[Len(calls)]
  BY DEF Innermost, Last
<1>7. \A c \in Call : /\ c.vm \in VMs /\ c.signo \in Signals
                    /\ c.how \in IntHandlers \cup {"call"} /\ c.at \in {"php", "handler"}
  BY DEF Call
<1> QED BY <1>1, <1>2, <1>3, <1>4, <1>5, <1>6, <1>7

(* The signals of the calls.                                               *)
LEMMA CallSignals ==
  ASSUME TypeOK PROVE \A i \in DOMAIN calls : calls[i].signo \in Signals
<1>1. calls \in Seq(Call) /\ \A c \in Call : c.signo \in Signals
  BY DEF TypeOK, Call
<1>2. DOMAIN calls = 1 .. Len(calls)
  BY <1>1, LenProperties
<1> QED BY <1>1, <1>2, ElementOfSeq

(* A call begun on top of others.                                          *)
LEMMA CallBegun ==
  ASSUME TypeOK, NEW v \in VMs, NEW s \in Signals, NEW how \in IntHandlers \cup {"call"},
         AtPhp(v), ReleaseRuns(v, s, how)
  PROVE  /\ calls' \in Seq(Call)
         /\ \A i \in DOMAIN calls' :
              \/ i \in DOMAIN calls /\ calls'[i] = calls[i]
              \/ calls'[i].vm = v /\ calls'[i].signo = s /\ calls'[i].how = how
<1> DEFINE c == [vm |-> v, signo |-> s, how |-> how, at |-> pc]
<1>1. c \in Call /\ c.vm = v /\ c.signo = s /\ c.how = how
  BY DEF AtPhp, Call
<1>2. calls \in Seq(Call) /\ calls' = Append(calls, c)
  BY DEF TypeOK, ReleaseRuns
<1> HIDE DEF c
<1>3. /\ calls' \in Seq(Call) /\ Len(calls') = Len(calls) + 1
      /\ \A i \in 1 .. Len(calls) : calls'[i] = calls[i]
      /\ calls'[Len(calls) + 1] = c
  BY <1>1, <1>2, AppendProperties
<1>4. DOMAIN calls = 1 .. Len(calls) /\ DOMAIN calls' = 1 .. (Len(calls) + 1)
      /\ Len(calls) \in Nat
  BY <1>2, <1>3, LenProperties
<1> QED BY <1>1, <1>3, <1>4

(* One VM drains at a time, with a table; and if an unwind of it is parked *)
(* between two calls, the drain knows that a handler threw.                *)
DrainOK ==
  /\ draining = IF pc = "php" THEN {} ELSE {vm}
  /\ pc = "php" => vm = None
  /\ pc # "php" => vm \in VMs \cap has
  /\ pc \in {"snapshot", "walk", "copied"} /\ vm \in parked => unwound

(* Every step keeps DrainOK: a drain is entered from PHP code only and     *)
(* never twice, and only a handler that throws parks an unwind under it.   *)
LEMMA DrainOKStep == TypeOK /\ DrainOK /\ [Next]_vars => DrainOK'
<1> USE NoneAssumption
<1> SUFFICES ASSUME TypeOK, DrainOK, [Next]_vars PROVE DrainOK'
  OBVIOUS
<1> USE DEF DrainOK, table, cursors, drain, vars
<1>1. ASSUME NEW s \in Signals, Deliver(s) PROVE DrainOK'
  BY <1>1 DEF Deliver, DeliverGiven
<1>2. ASSUME NEW v \in VMs, ProgramStep(v) PROVE DrainOK'
  <2> USE DEF AtPhp, Runs, TakeState
  <2>1. CASE StoreErr(v)
    BY <2>1 DEF StoreErr
  <2>2. CASE \E s \in Signals : SignalCall(v, s)
    BY <2>2 DEF SignalCall, StoreAndInstall
  <2>3. CASE \E s \in Signals : \E how \in IntHandlers : SignalInt(v, s, how)
    BY <2>3 DEF SignalInt
  <2>4. CASE \E on \in BOOLEAN : AsyncSignals(v, on)
    BY <2>4 DEF AsyncSignals
  <2>5. CASE Park(v) \/ Route(v)
    BY <2>5 DEF Park, Route
  <2>6. CASE Runs(v) /\ Drain(v)
    BY <2>6 DEF Drain, DrainGiven
  <2>7. CASE VmRelease(v)
    BY <2>7 DEF VmRelease, ReleaseGiven
  <2> QED BY <1>2, <2>1, <2>2, <2>3, <2>4, <2>5, <2>6, <2>7
          DEF ProgramStep, SignalDispatch, FetchPoint
<1>3. ASSUME DrainStep PROVE DrainOK'
  BY <1>3 DEF DrainStep, Snapshot, CopyOut, WalkedAll, WalkedAllGiven, LeaveDrain, FreeSlot,
     FreeSlotGiven, FreeSlotNoMemory, Callable, AtHandler, HandlerReturns, HandlerThrows
<1>4. ASSUME NEW threw \in BOOLEAN, ReleaseEnds(threw) PROVE DrainOK'
  <2>1. pc \in {"php", "handler"}
    BY <1>4, InnermostIs DEF ReleaseEnds
  <2> QED BY <1>4, <2>1 DEF ReleaseEnds
<1>5. CASE UNCHANGED vars
  BY <1>5
<1> QED BY <1>1, <1>2, <1>3, <1>4, <1>5 DEF Next, DestructorEnds

(* Every step keeps the types; DrainOK says that the drain has a VM.       *)
LEMMA TypeStep == TypeOK /\ DrainOK /\ [Next]_vars => TypeOK'
<1> USE QueueAssumption, NoneAssumption
<1> SUFFICES ASSUME TypeOK, DrainOK, [Next]_vars PROVE TypeOK'
  OBVIOUS
<1> USE DEF TypeOK, table, cursors, drain, nested, vars
<1>1. ASSUME NEW s \in Signals, Deliver(s) PROVE TypeOK'
  <2>1. Advance(tail) \in Cursors /\ Slot(tail) \in 0 .. (Q - 1)
    BY AdvanceIs, SlotIs DEF Cursors
  <2> QED BY <1>1, <2>1 DEF Deliver, DeliverGiven
<1>2. ASSUME NEW v \in VMs, ProgramStep(v) PROVE TypeOK'
  <2>1. CASE StoreErr(v)
    BY <2>1 DEF StoreErr, TakeState
  <2>2. ASSUME NEW s \in Signals, SignalCall(v, s) PROVE TypeOK'
    <3>1. CASE StoreAndInstall(v, s, calls, FALSE) /\ UNCHANGED calls
      BY <2>2, <3>1 DEF SignalCall, StoreAndInstall, StoreHandler, InstallHandler, TakeState,
         Handlers
    <3>2. CASE ReleaseRuns(v, s, "call") /\ UNCHANGED <<handler, disp, parked, overtaken>>
      <4>1. calls' \in Seq(Call)
        BY <2>2, <3>2, CallBegun DEF SignalCall, Runs
      <4> QED BY <2>2, <3>2, <4>1 DEF SignalCall, TakeState
    <3> QED BY <2>2, <3>1, <3>2 DEF SignalCall
  <2>3. ASSUME NEW s \in Signals, NEW how \in IntHandlers, SignalInt(v, s, how)
        PROVE  TypeOK'
    <3>1. how \in Handlers /\ how \in IntHandlers \cup {"ring"}
      BY DEF Handlers
    <3>2. disp' \in [Signals -> IntHandlers \cup {"ring"}]
      BY <2>3, <3>1 DEF SignalInt
    <3>3. handler' \in [VMs -> [Signals -> Handlers]]
      <4>1. UNCHANGED handler \/ StoreHandler(v, s, how)
        BY <2>3 DEF SignalInt
      <4> QED BY <3>1, <4>1 DEF StoreHandler
    <3>4. calls' \in Seq(Call)
      BY <2>3, CallBegun DEF SignalInt, Runs
    <3> QED BY <2>3, <3>2, <3>3, <3>4 DEF SignalInt, TakeState
  <2>4. CASE \E on \in BOOLEAN : AsyncSignals(v, on)
    BY <2>4 DEF AsyncSignals, TakeState
  <2>5. CASE Park(v) \/ Route(v)
    BY <2>5 DEF Park, Route
  <2>6. CASE Drain(v)
    BY <2>6 DEF Drain, DrainGiven
  <2>7. CASE VmRelease(v)
    <3>1. 0 \in Cursors
      BY DEF Cursors
    <3>2. disp' \in [Signals -> IntHandlers \cup {"ring"}]
      BY <2>7 DEF VmRelease, ReleaseGiven, IntHandlers
    <3> QED BY <2>7, <3>1, <3>2 DEF VmRelease, ReleaseGiven, Handlers
  <2> QED BY <1>2, <2>1, <2>2, <2>3, <2>4, <2>5, <2>6, <2>7
          DEF ProgramStep, SignalDispatch, FetchPoint
<1>3. ASSUME DrainStep PROVE TypeOK'
  <2>1. CASE Snapshot
    BY <2>1 DEF Snapshot
  <2>2. CASE CopyOut
    <3>1. Slot(head) \in 0 .. (Q - 1)
      BY SlotIs DEF Cursors
    <3> QED BY <2>2, <3>1 DEF CopyOut
  <2>3. CASE WalkedAll
    BY <2>3, 0 \in Cursors DEF WalkedAll, WalkedAllGiven, LeaveDrain, Cursors
  <2>4. CASE FreeSlot \/ FreeSlotNoMemory
    <3>1. Advance(head) \in Cursors /\ 0 \in Cursors
      BY AdvanceIs DEF Cursors
    <3> QED BY <2>4, <3>1 DEF FreeSlot, FreeSlotGiven, FreeSlotNoMemory, LeaveDrain
  <2>5. CASE HandlerReturns \/ HandlerThrows
    BY <2>5 DEF AtHandler, HandlerReturns, HandlerThrows, DrainOK
  <2> QED BY <1>3, <2>1, <2>2, <2>3, <2>4, <2>5 DEF DrainStep
<1>4. ASSUME NEW threw \in BOOLEAN, ReleaseEnds(threw) PROVE TypeOK'
  <2> DEFINE c == Innermost
  <2>1. /\ c.vm \in VMs /\ c.signo \in Signals /\ c.how \in Handlers
        /\ calls' \in Seq(Call)
    BY <1>4, InnermostIs DEF ReleaseEnds, Handlers
  <2> HIDE DEF c
  <2>2. CASE c.how = "call"
    <3>1. StoreAndInstall(c.vm, c.signo, calls', threw)
      BY <1>4, <2>2 DEF ReleaseEnds, c
    <3>2. handler' \in [VMs -> [Signals -> Handlers]] /\ parked' \subseteq VMs
      BY <2>1, <3>1 DEF StoreAndInstall, StoreHandler, Handlers
    <3>3. disp' \in [Signals -> IntHandlers \cup {"ring"}] /\ overtaken' \subseteq Signals
      <4>1. CASE c.signo \in Refused
        BY <3>1, <4>1 DEF StoreAndInstall
      <4>2. CASE c.signo \notin Refused
        <5>1. disp' = [disp EXCEPT ![c.signo] = "ring"]
          BY <3>1, <4>2 DEF StoreAndInstall, InstallHandler
        <5>2. overtaken' \subseteq overtaken \cup {c.signo}
          BY <3>1, <4>2 DEF StoreAndInstall, InstallHandler
        <5> QED BY <2>1, <5>1, <5>2
      <4> QED BY <4>1, <4>2
    <3> QED BY <1>4, <2>1, <3>2, <3>3 DEF ReleaseEnds
  <2>3. CASE c.how # "call"
    <3>1. /\ StoreHandler(c.vm, c.signo, c.how)
          /\ parked' = IF threw THEN parked \cup {c.vm} ELSE parked
          /\ UNCHANGED <<disp, overtaken>>
      BY <1>4, <2>3 DEF ReleaseEnds, c
    <3> QED BY <1>4, <2>1, <3>1 DEF ReleaseEnds, StoreHandler
  <2> QED BY <2>2, <2>3
<1>5. CASE UNCHANGED vars
  BY <1>5
<1> QED BY <1>1, <1>2, <1>3, <1>4, <1>5 DEF Next, DestructorEnds

(* Cursors stay in [0, 2Q) however long the program handles signals, and   *)
(* every other variable keeps its type.                                    *)
THEOREM Typing == Spec => [](TypeOK /\ DrainOK)
<1>1. Init => TypeOK
  <2> USE QueueAssumption, NoneAssumption DEF Init
  <2>1. Init => head \in Cursors /\ tail \in Cursors /\ nEnd \in Cursors
    BY DEF Cursors
  <2>2. Init => handler \in [VMs -> [Signals -> Handlers]]
    BY DEF Handlers
  <2>3. Init => calls \in Seq(Call) /\ overtaken \subseteq Signals
    BY EmptySeq
  <2>4. Init => disp \in [Signals -> IntHandlers \cup {"ring"}]
    BY DEF IntHandlers
  <2> QED BY <2>1, <2>2, <2>3, <2>4 DEF TypeOK
<1>2. Init => DrainOK
  BY DEF Init, DrainOK
<1> QED BY <1>1, <1>2, TypeStep, DrainOKStep, PTL DEF Spec

(* Every step calls a PHP handler only when no unwind of its VM is parked: *)
(* PcntlDrain's bUnwound is enough, whatever the handlers before it did.   *)
THEOREM NoCallUnderUnwindHolds == Spec => NoCallUnderUnwind
<1>1. TypeOK /\ DrainOK /\ [Next]_vars
      => [pc # "handler" /\ pc' = "handler" => vm' \notin parked]_vars
  <2> SUFFICES ASSUME DrainOK, Next, pc # "handler", pc' = "handler"
               PROVE  vm' \notin parked
    OBVIOUS
  <2>1. FreeSlot
    BY DEF Next, Deliver, DeliverGiven, ProgramStep, StoreErr, SignalCall, SignalInt,
       DestructorEnds, ReleaseEnds, AsyncSignals, Park, Route, SignalDispatch, FetchPoint, Drain, DrainGiven, VmRelease,
       ReleaseGiven, DrainStep, Snapshot, CopyOut, WalkedAll, WalkedAllGiven, LeaveDrain,
       FreeSlotNoMemory, HandlerReturns, HandlerThrows, drain
  <2> QED BY <2>1 DEF FreeSlot, FreeSlotGiven, Callable, DrainOK
<1> QED BY <1>1, Typing, PTL DEF Spec, NoCallUnderUnwind

---------------------------------------------------------------------------
(* The dispositions                                                        *)

(* A call under way has its VM's table; and one that will store SIG_DFL or *)
(* SIG_IGN has either told the kernel so, or been overtaken.               *)
CallsOK ==
  \A i \in DOMAIN calls :
    /\ calls[i].vm \in has
    /\ calls[i].how \in IntHandlers =>
         disp[calls[i].signo] # "ring" \/ calls[i].signo \in overtaken

Installed == CallsOK /\ InstalledHasHandler

(* The kernel is told of the C handler only when the table has a callable, *)
(* and of the calls still under way those on this signal are overtaken.    *)
LEMMA InstallKeeps ==
  ASSUME TypeOK, Installed, NEW v \in VMs, NEW s \in Signals, NEW stack, NEW threw,
         StoreAndInstall(v, s, stack, threw), v \in has', has \subseteq has',
         calls' = stack,
         \A i \in DOMAIN stack : i \in DOMAIN calls /\ stack[i] = calls[i]
  PROVE  Installed'
<1>0. \A w \in VMs : \A x \in Signals :
        handler'[w][x] = IF w = v /\ x = s THEN "call" ELSE handler[w][x]
  BY DEF StoreAndInstall, StoreHandler, TypeOK
<1>1. CASE s \in Refused
  <2>1. UNCHANGED <<disp, overtaken>>
    BY <1>1 DEF StoreAndInstall
  <2> QED BY <1>0, <2>1 DEF Installed, CallsOK, InstalledHasHandler, TypeOK
<1>2. CASE s \notin Refused
  <2>1. InstallHandler(s, stack)
    BY <1>2 DEF StoreAndInstall
  <2>2. \A x \in Signals : disp'[x] = IF x = s THEN "ring" ELSE disp[x]
    BY <2>1 DEF InstallHandler, TypeOK
  <2>3. overtaken \ {s} \subseteq overtaken'
    BY <2>1 DEF InstallHandler
  <2>4. CallsOK'
    <3> SUFFICES ASSUME NEW i \in DOMAIN stack
                 PROVE  /\ stack[i].vm \in has'
                        /\ stack[i].how \in IntHandlers =>
                             disp'[stack[i].signo] # "ring" \/ stack[i].signo \in overtaken'
      BY DEF CallsOK
    <3>1. /\ calls[i].vm \in has
          /\ calls[i].how \in IntHandlers =>
               disp[calls[i].signo] # "ring" \/ calls[i].signo \in overtaken
      BY DEF Installed, CallsOK
    <3>2. calls[i].signo \in Signals
      BY CallSignals
    <3>3. CASE stack[i].signo = s
      BY <2>1, <3>1, <3>3 DEF InstallHandler, IntHandlers
    <3>4. CASE stack[i].signo # s
      BY <2>2, <2>3, <3>1, <3>2, <3>4
    <3> QED BY <3>3, <3>4
  <2>5. InstalledHasHandler'
    <3> SUFFICES ASSUME NEW x \in Signals, x \notin overtaken', disp'[x] = "ring"
                 PROVE  \E w \in has' : handler'[w][x] = "call"
      BY DEF InstalledHasHandler
    <3>1. CASE x = s
      BY <1>0, <3>1
    <3>2. CASE x # s
      <4>1. x \notin overtaken /\ disp[x] = "ring"
        BY <2>2, <2>3, <3>2
      <4>2. PICK w \in has : handler[w][x] = "call"
        BY <4>1 DEF Installed, InstalledHasHandler
      <4>3. handler'[w][x] = "call" /\ w \in has'
        BY <1>0, <4>2 DEF TypeOK
      <4> QED BY <4>3
    <3> QED BY <3>1, <3>2
  <2> QED BY <2>4, <2>5 DEF Installed
<1> QED BY <1>1, <1>2

(* A call begun under others leaves the table to its end.                  *)
LEMMA BegunKeeps ==
  ASSUME TypeOK, Installed, NEW v \in VMs, NEW s \in Signals,
         NEW how \in IntHandlers \cup {"call"}, AtPhp(v), ReleaseRuns(v, s, how),
         UNCHANGED handler, v \in has', has \subseteq has',
         \A x \in Signals : disp'[x] = "ring" => disp[x] = "ring",
         \A x \in Signals : disp'[x] = "ring" /\ x \in overtaken => x \in overtaken',
         \A x \in Signals : disp'[x] = "ring" /\ x \notin overtaken' => x \notin overtaken,
         how \in IntHandlers => disp'[s] # "ring"
  PROVE  Installed'
<1>1. \A i \in DOMAIN calls' :
        \/ i \in DOMAIN calls /\ calls'[i] = calls[i]
        \/ calls'[i].vm = v /\ calls'[i].signo = s /\ calls'[i].how = how
  BY CallBegun
<1>2. \A i \in DOMAIN calls : calls[i].signo \in Signals
  BY CallSignals
<1>3. CallsOK'
  BY <1>1, <1>2 DEF Installed, CallsOK
<1>4. InstalledHasHandler'
  BY DEF Installed, InstalledHasHandler
<1> QED BY <1>3, <1>4 DEF Installed

(* pcntl_signal() with SIG_DFL or SIG_IGN.                                 *)
LEMMA SignalIntKeeps ==
  ASSUME TypeOK, Installed, NEW v \in VMs, NEW s \in Signals, NEW how \in IntHandlers,
         SignalInt(v, s, how)
  PROVE  Installed'
<1>0. v \in has' /\ has \subseteq has' /\ AtPhp(v)
  BY DEF SignalInt, TakeState, Runs
<1>1. CASE s \in Refused
  <2>1. UNCHANGED <<handler, disp, nested>>
    BY <1>1 DEF SignalInt
  <2> QED BY <1>0, <2>1 DEF Installed, CallsOK, InstalledHasHandler, nested
<1>2. CASE s \notin Refused
  <2>1. /\ overtaken' = overtaken \ {s}
        /\ \A x \in Signals : disp'[x] = IF x = s THEN how ELSE disp[x]
        /\ how # "ring" /\ how # "call"
    BY <1>2 DEF SignalInt, TypeOK, IntHandlers
  <2>2. CASE StoreHandler(v, s, how) /\ UNCHANGED calls
    <3>1. \A w \in VMs : \A x \in Signals :
            handler'[w][x] = IF w = v /\ x = s THEN how ELSE handler[w][x]
      BY <2>2 DEF StoreHandler, TypeOK
    <3>2. \A i \in DOMAIN calls : calls[i].signo \in Signals
      BY CallSignals
    <3>3. CallsOK'
      BY <1>0, <2>1, <2>2, <3>2 DEF Installed, CallsOK
    <3>4. InstalledHasHandler'
      <4> SUFFICES ASSUME NEW x \in Signals, x \notin overtaken', disp'[x] = "ring"
                   PROVE  \E w \in has' : handler'[w][x] = "call"
        BY DEF InstalledHasHandler
      <4>1. x # s /\ x \notin overtaken /\ disp[x] = "ring"
        BY <2>1
      <4>2. PICK w \in has : handler[w][x] = "call"
        BY <4>1 DEF Installed, InstalledHasHandler
      <4>3. handler'[w][x] = "call" /\ w \in has'
        BY <1>0, <3>1, <4>1, <4>2 DEF TypeOK
      <4> QED BY <4>3
    <3> QED BY <3>3, <3>4 DEF Installed
  <2>3. CASE ReleaseRuns(v, s, how) /\ UNCHANGED handler
    <3>1. how \in IntHandlers \cup {"call"}
      OBVIOUS
    <3>2. ReleaseRuns(v, s, how) /\ UNCHANGED handler
      BY <2>3
    <3>3. /\ \A x \in Signals : disp'[x] = "ring" => disp[x] = "ring"
          /\ \A x \in Signals : disp'[x] = "ring" /\ x \in overtaken => x \in overtaken'
          /\ \A x \in Signals : disp'[x] = "ring" /\ x \notin overtaken' => x \notin overtaken
          /\ disp'[s] # "ring"
      BY <2>1
    <3> QED BY <1>0, <3>1, <3>2, <3>3, BegunKeeps
  <2> QED BY <1>2, <2>2, <2>3 DEF SignalInt
<1> QED BY <1>1, <1>2

(* pcntl_signal() with a callable.                                         *)
LEMMA SignalCallKeeps ==
  ASSUME TypeOK, Installed, NEW v \in VMs, NEW s \in Signals, SignalCall(v, s)
  PROVE  Installed'
<1>0. v \in has' /\ has \subseteq has' /\ AtPhp(v)
  BY DEF SignalCall, TakeState, Runs
<1>1. CASE StoreAndInstall(v, s, calls, FALSE) /\ UNCHANGED calls
  BY <1>0, <1>1, InstallKeeps
<1>2. CASE ReleaseRuns(v, s, "call") /\ UNCHANGED <<handler, disp, parked, overtaken>>
  <2>1. "call" \notin IntHandlers /\ "call" \in IntHandlers \cup {"call"}
    BY DEF IntHandlers
  <2> QED BY <1>0, <1>2, <2>1, BegunKeeps
<1> QED BY <1>1, <1>2 DEF SignalCall

(* The innermost call ends.                                                *)
LEMMA EndKeeps ==
  ASSUME TypeOK, Installed, NEW threw \in BOOLEAN, ReleaseEnds(threw)
  PROVE  Installed'
<1> DEFINE c == Innermost
<1>0. /\ c.vm \in VMs /\ c.signo \in Signals /\ c.how \in IntHandlers \cup {"call"}
      /\ Len(calls) \in DOMAIN calls /\ c = calls[Len(calls)]
      /\ \A i \in DOMAIN Front(calls) : i \in DOMAIN calls /\ Front(calls)[i] = calls[i]
  BY InnermostIs DEF ReleaseEnds
<1>1. calls' = Front(calls) /\ has' = has
  BY DEF ReleaseEnds
<1>2. c.vm \in has
  BY <1>0 DEF Installed, CallsOK
<1>3. CASE c.how = "call"
  <2>1. StoreAndInstall(c.vm, c.signo, calls', threw)
    BY <1>3 DEF ReleaseEnds
  <2> HIDE DEF c
  <2> QED BY <1>0, <1>1, <1>2, <2>1, InstallKeeps
<1>4. CASE c.how # "call"
  <2>1. StoreHandler(c.vm, c.signo, c.how) /\ UNCHANGED <<disp, overtaken>>
    BY <1>4 DEF ReleaseEnds
  <2>2. disp[c.signo] # "ring" \/ c.signo \in overtaken
    BY <1>0, <1>4 DEF Installed, CallsOK
  <2> HIDE DEF c
  <2>3. \A w \in VMs : \A x \in Signals \ {c.signo} : handler'[w][x] = handler[w][x]
    BY <1>0, <2>1 DEF StoreHandler, TypeOK
  <2>4. CallsOK'
    BY <1>0, <1>1, <2>1 DEF Installed, CallsOK
  <2>5. InstalledHasHandler'
    BY <1>1, <2>1, <2>2, <2>3 DEF Installed, InstalledHasHandler, TypeOK
  <2> QED BY <2>4, <2>5 DEF Installed
<1> QED BY <1>3, <1>4

(* Whatever the VMs of the process install, replace and tear down, in      *)
(* whatever order, and whatever the destructors of replaced handlers do in *)
(* the middle, to any depth, a signal that enters the C handler has a PHP  *)
(* handler in a live VM, or its C handler was installed in the middle of a *)
(* call that sets the signal to SIG_DFL or SIG_IGN.  VmRelease resets      *)
(* every signal its table names, and a table entry goes from callable to   *)
(* something else only with the disposition, or by such a call.            *)
THEOREM HandlersInstalled == Spec => []InstalledHasHandler
<1>1. Init => Installed
  BY DEF Init, Installed, CallsOK, InstalledHasHandler
<1>2. TypeOK /\ Installed /\ [Next]_vars => Installed'
  <2> SUFFICES ASSUME TypeOK, Installed, [Next]_vars PROVE Installed'
    OBVIOUS
  <2>1. ASSUME UNCHANGED <<handler, disp, nested>>, has \subseteq has' PROVE Installed'
    BY <2>1 DEF Installed, CallsOK, InstalledHasHandler, nested
  <2>2. ASSUME NEW v \in VMs, VmRelease(v) PROVE Installed'
    <3>1. calls' = calls /\ calls = << >>
      BY <2>2 DEF VmRelease, ReleaseGiven
    <3>2. CallsOK'
      BY <3>1 DEF CallsOK
    <3>3. ASSUME NEW x \in Signals, x \notin overtaken', disp'[x] = "ring"
          PROVE  \E w \in has' : handler'[w][x] = "call"
      <4>1. x \notin Named(v) /\ disp[x] = "ring"
        BY <2>2, <3>3 DEF VmRelease, ReleaseGiven
      <4>2. x \notin overtaken
        BY <2>2, <3>3, <4>1 DEF VmRelease, ReleaseGiven
      <4>3. PICK w \in has : handler[w][x] = "call"
        BY <4>1, <4>2 DEF Installed, InstalledHasHandler
      <4>4. w # v
        BY <4>1, <4>3 DEF Named
      <4>5. handler'[w][x] = handler[w][x] /\ w \in has'
        BY <2>2, <4>4 DEF VmRelease, ReleaseGiven, TypeOK
      <4> QED BY <4>3, <4>5
    <3> QED BY <3>2, <3>3 DEF Installed, InstalledHasHandler
  <2>3. ASSUME NEW v \in VMs, StoreErr(v) \/ \E on \in BOOLEAN : AsyncSignals(v, on)
        PROVE  Installed'
    BY <2>1, <2>3 DEF StoreErr, AsyncSignals, TakeState
  <2>4. ASSUME NEW v \in VMs, Park(v) \/ Route(v) \/ Drain(v)
        PROVE  Installed'
    <3>1. UNCHANGED <<table, nested>>
      BY <2>4 DEF Park, Route, Drain, DrainGiven
    <3> QED BY <2>1, <3>1 DEF table
  <2>5. ASSUME (\E s \in Signals : Deliver(s)) \/ DrainStep \/ UNCHANGED vars
        PROVE  Installed'
    <3>1. UNCHANGED <<table, nested>>
      BY <2>5 DEF Deliver, DeliverGiven, DrainStep, Snapshot, CopyOut, WalkedAll,
         WalkedAllGiven, FreeSlot, FreeSlotGiven, FreeSlotNoMemory, HandlerReturns,
         HandlerThrows, vars
    <3> QED BY <2>1, <3>1 DEF table
  <2>6. ASSUME NEW v \in VMs, NEW s \in Signals, SignalCall(v, s) PROVE Installed'
    BY <2>6, SignalCallKeeps
  <2>7. ASSUME NEW v \in VMs, NEW s \in Signals, NEW how \in IntHandlers,
               SignalInt(v, s, how)
        PROVE  Installed'
    BY <2>7, SignalIntKeeps
  <2>8. ASSUME NEW threw \in BOOLEAN, ReleaseEnds(threw) PROVE Installed'
    BY <2>8, EndKeeps
  <2> QED BY <2>2, <2>3, <2>4, <2>5, <2>6, <2>7, <2>8
          DEF Next, ProgramStep, SignalDispatch, FetchPoint, DestructorEnds
<1>3. Installed => InstalledHasHandler
  BY DEF Installed
<1> QED BY <1>1, <1>2, <1>3, Typing, PTL DEF Spec

---------------------------------------------------------------------------
(* The wakeup                                                              *)

(* In a process with one VM the VM with a table holds the statics, and     *)
(* without one there is no async dispatch and nothing was accepted under   *)
(* it.  With two VMs both parts fail: each takes the statics from the      *)
(* other.                                                                  *)
StaticsHeld ==
  /\ \A v \in has : owner = v
  /\ has = {} => ~asyncFlag /\ ~armed

(* Every step keeps both, with one VM.                                     *)
LEMMA WakeupStep ==
  ASSUME NEW m, VMs = {m},
         TypeOK, DrainOK, StaticsHeld, WakeupKept, [Next]_vars
  PROVE  StaticsHeld' /\ WakeupKept'
<1> USE NoneAssumption DEF StaticsHeld, WakeupKept, table, cursors, drain, vars
<1>0. has \subseteq {m} /\ armed \in BOOLEAN /\ asyncFlag \in BOOLEAN /\ pending \in BOOLEAN
  BY DEF TypeOK
<1>1. ASSUME NEW s \in Signals, Deliver(s) PROVE StaticsHeld' /\ WakeupKept'
  BY <1>0, <1>1 DEF Deliver, DeliverGiven
<1>2. ASSUME NEW v \in VMs, ProgramStep(v) PROVE StaticsHeld' /\ WakeupKept'
  <2> USE DEF TakeState
  <2>1. CASE StoreErr(v)
    BY <1>0, <2>1 DEF StoreErr
  <2>2. ASSUME NEW s \in Signals, SignalCall(v, s) PROVE StaticsHeld' /\ WakeupKept'
    BY <1>0, <2>2 DEF SignalCall
  <2>3. ASSUME NEW s \in Signals, NEW how \in IntHandlers, SignalInt(v, s, how)
        PROVE  StaticsHeld' /\ WakeupKept'
    BY <1>0, <2>3 DEF SignalInt
  <2>4. CASE \E on \in BOOLEAN : AsyncSignals(v, on)
    BY <1>0, <2>4 DEF AsyncSignals
  <2>5. CASE Park(v) \/ Route(v)
    BY <1>0, <2>5 DEF Park, Route
  <2>6. CASE Drain(v)
    BY <1>0, <2>6 DEF Drain, DrainGiven
  <2>7. CASE VmRelease(v)
    BY <1>0, <2>7 DEF VmRelease, ReleaseGiven
  <2> QED BY <1>2, <2>1, <2>2, <2>3, <2>4, <2>5, <2>6, <2>7
          DEF ProgramStep, SignalDispatch, FetchPoint
<1>3. ASSUME DrainStep PROVE StaticsHeld' /\ WakeupKept'
  <2>1. CASE Snapshot
    BY <1>0, <2>1 DEF Snapshot
  <2>2. CASE CopyOut
    BY <1>0, <2>2 DEF CopyOut
  <2>3. CASE WalkedAll
    BY <1>0, <2>3 DEF WalkedAll, WalkedAllGiven, LeaveDrain
  <2>4. CASE FreeSlot \/ FreeSlotNoMemory
    BY <1>0, <2>4 DEF FreeSlot, FreeSlotGiven, FreeSlotNoMemory, LeaveDrain
  <2>5. CASE HandlerReturns \/ HandlerThrows
    BY <1>0, <2>5 DEF AtHandler, HandlerReturns, HandlerThrows
  <2> QED BY <1>3, <2>1, <2>2, <2>3, <2>4, <2>5 DEF DrainStep
<1>4. ASSUME NEW threw \in BOOLEAN, ReleaseEnds(threw) PROVE StaticsHeld' /\ WakeupKept'
  BY <1>0, <1>4 DEF ReleaseEnds
<1>5. CASE UNCHANGED vars
  BY <1>5
<1> QED BY <1>1, <1>2, <1>3, <1>4, <1>5 DEF Next, DestructorEnds

(* A process with one VM never loses a wakeup: an accepted delivery that   *)
(* found async dispatch on has the flag up until a drain detaches it.      *)
THEOREM WakeupHolds ==
  ASSUME NEW m, VMs = {m} PROVE Spec => []WakeupKept
<1>1. Init => StaticsHeld /\ WakeupKept
  BY DEF Init, StaticsHeld, WakeupKept
<1>2. TypeOK /\ DrainOK /\ StaticsHeld /\ WakeupKept /\ [Next]_vars
        => StaticsHeld' /\ WakeupKept'
  BY WakeupStep
<1> QED BY <1>1, <1>2, Typing, PTL DEF Spec

---------------------------------------------------------------------------
(* The ring                                                                *)

(* Every step keeps the cursors in order.                                  *)
LEMMA RingOKStep == TypeOK /\ DrainOK /\ RingOK /\ [Next]_vars => RingOK'
<1> USE QueueAssumption, NoneAssumption
<1> SUFFICES ASSUME TypeOK, DrainOK, RingOK, [Next]_vars PROVE RingOK'
  OBVIOUS
<1> USE DEF Used, Walking, table, cursors, drain, vars
<1>0. head \in Cursors /\ tail \in Cursors /\ nEnd \in Cursors
  BY DEF TypeOK
(* The C handler, at whatever point of the drain: the tail moves away from *)
(* head and snapshot alike, and the slot at the head is out of its reach.  *)
<1>1. ASSUME NEW s \in Signals, Deliver(s) PROVE RingOK'
  <2>1. CASE UNCHANGED <<ring, tail>>
    BY <1>1, <2>1 DEF Deliver, DeliverGiven, RingOK, Distance, Slot
  <2>2. CASE Used < Q /\ tail' = Advance(tail) /\ ring' = [ring EXCEPT ![Slot(tail)] = s]
    <3>1. UNCHANGED <<head, nEnd, pc, ev>>
      BY <1>1 DEF Deliver, DeliverGiven
    <3>2. Distance(head, tail') = Distance(head, tail) + 1
      BY <1>0, <2>2, DistanceUp
    <3>3. CASE Walking
      <4>1. Distance(nEnd, tail) < Q
        BY <1>0, <2>2, <3>3, DistanceIs DEF RingOK
      <4>2. Distance(nEnd, tail') = Distance(nEnd, tail) + 1
        BY <1>0, <2>2, <4>1, DistanceUp
      <4>3. CASE pc = "copied"
        <5>1. Distance(head, nEnd) # 0
          BY <1>0, <4>3, DistanceZero DEF RingOK
        <5>2. head # tail
          <6>1. Distance(head, tail) # 0
            BY <1>0, <3>3, <5>1, DistanceIs DEF RingOK
          <6> QED BY <1>0, <6>1, DistanceZero
        <5>3. Slot(head) # Slot(tail)
          BY <1>0, <2>2, <5>2, SlotApart
        <5>4. ring'[Slot(head)] = ring[Slot(head)]
          BY <1>0, <2>2, <5>3, SlotIs DEF TypeOK, Cursors
        <5> QED BY <1>0, <2>2, <3>1, <3>2, <3>3, <4>2, <4>3, <5>4, DistanceIs
                DEF RingOK, Slot, Distance
      <4> QED BY <1>0, <2>2, <3>1, <3>2, <3>3, <4>2, <4>3, DistanceIs DEF RingOK, Distance
    <3> QED BY <1>0, <2>2, <3>1, <3>2, <3>3, DistanceIs DEF RingOK, Distance
  <2> QED BY <1>1, <2>1, <2>2 DEF Deliver, DeliverGiven
<1>2. ASSUME NEW v \in VMs, ProgramStep(v) PROVE RingOK'
  <2>1. CASE VmRelease(v)
    <3>1. 0 \in Cursors /\ Distance(0, 0) = 0
      BY DistanceIs DEF Cursors
    <3> QED BY <2>1, <3>1 DEF VmRelease, ReleaseGiven, RingOK, Distance, Slot
  <2>2. CASE Drain(v)
    BY <2>2 DEF Drain, DrainGiven, RingOK, Distance, Slot
  <2>3. CASE ~VmRelease(v) /\ ~Drain(v)
    <3>1. UNCHANGED <<cursors, drain>>
      BY <1>2, <2>3 DEF ProgramStep, StoreErr, SignalCall, SignalInt, AsyncSignals, Park,
         Route, SignalDispatch, FetchPoint
    <3> QED BY <3>1 DEF RingOK, Distance, Slot
  <2> QED BY <2>1, <2>2, <2>3
<1>3. CASE Snapshot
  <2>1. Distance(tail, tail) = 0
    BY <1>0, DistanceIs DEF Cursors
  <2> QED BY <1>0, <1>3, <2>1, DistanceIs DEF Snapshot, RingOK, Distance
<1>4. CASE CopyOut
  BY <1>4 DEF CopyOut, Until, RingOK, Distance, Slot
<1>5. CASE FreeSlot \/ FreeSlotNoMemory
  <2>1. head # nEnd
    BY <1>5 DEF FreeSlot, FreeSlotGiven, FreeSlotNoMemory, RingOK
  <2>2. Distance(Advance(head), nEnd) = Distance(head, nEnd) - 1
    BY <1>0, <2>1, DistanceDown
  <2>3. head # tail
    <3>1. Distance(head, nEnd) # 0
      BY <1>0, <2>1, DistanceZero
    <3>2. Distance(head, tail) # 0
      BY <1>0, <1>5, <3>1, DistanceIs DEF FreeSlot, FreeSlotGiven, FreeSlotNoMemory, RingOK
    <3> QED BY <1>0, <3>2, DistanceZero
  <2>4. Distance(Advance(head), tail) = Distance(head, tail) - 1
    BY <1>0, <2>3, DistanceDown
  <2> QED BY <1>0, <1>5, <2>2, <2>4, DistanceIs
          DEF FreeSlot, FreeSlotGiven, FreeSlotNoMemory, LeaveDrain, RingOK, Distance
<1>6. CASE WalkedAll \/ HandlerReturns \/ HandlerThrows \/ UNCHANGED vars
  BY <1>0, <1>6 DEF WalkedAll, WalkedAllGiven, LeaveDrain, AtHandler, HandlerReturns,
     HandlerThrows, RingOK, Distance, Slot
<1>7. ASSUME NEW threw \in BOOLEAN, ReleaseEnds(threw) PROVE RingOK'
  BY <1>7 DEF ReleaseEnds, RingOK, Distance, Slot
<1> QED BY <1>1, <1>2, <1>3, <1>4, <1>5, <1>6, <1>7 DEF Next, DrainStep, DestructorEnds

(* At most Q events are held, and the slot a drain has just copied is not  *)
(* written again before its cursor gives it back, for every Q and every    *)
(* point at which the C handler interrupts.                                *)
THEOREM RingHolds == Spec => []RingOK
<1>1. Init => RingOK
  <2>1. 0 \in Cursors /\ Distance(0, 0) = 0
    BY QueueAssumption, DistanceIs DEF Cursors
  <2> QED BY <2>1, QueueAssumption DEF Init, RingOK, Used, Walking
<1> QED BY <1>1, RingOKStep, Typing, PTL DEF Spec

---------------------------------------------------------------------------
(* The ring implements the queue                                           *)

(* A window of no slots.                                                   *)
LEMMA WindowEmpty == ASSUME NEW r, NEW a PROVE Window(r, a, 0) = << >>
  BY DEF Window

(* Where the walk stands between the head and the tail.                    *)
LEMMA WalkBounds ==
  ASSUME TypeOK, RingOK, Walking
  PROVE  /\ First \in Cursors
         /\ Distance(First, nEnd) \in 0 .. Q
         /\ Distance(nEnd, tail) \in 0 .. Q
         /\ Distance(First, tail) \in 0 .. Used
         /\ Distance(First, nEnd) + Distance(nEnd, tail) = Distance(First, tail)
<1> USE QueueAssumption
<1>0. head \in Cursors /\ tail \in Cursors /\ nEnd \in Cursors
  BY DEF TypeOK
<1>1. /\ Distance(head, nEnd) \in 0 .. (2 * Q - 1)
      /\ Distance(nEnd, tail) \in 0 .. (2 * Q - 1)
      /\ Distance(head, tail) \in 0 .. (2 * Q - 1)
  BY <1>0, DistanceIs
<1>2. Distance(head, nEnd) + Distance(nEnd, tail) = Distance(head, tail)
      /\ Distance(head, tail) <= Q
  BY DEF RingOK, Used
<1>3. CASE pc = "copied"
  <2>1. First = Advance(head) /\ First \in Cursors
    BY <1>0, <1>3, AdvanceIs DEF First
  <2>2. head # nEnd
    BY <1>3 DEF RingOK
  <2>3. Distance(First, nEnd) = Distance(head, nEnd) - 1 /\ Distance(head, nEnd) # 0
    BY <1>0, <2>1, <2>2, DistanceDown, DistanceZero
  <2>4. head # tail
    <3>1. Distance(head, tail) # 0
      BY <1>1, <1>2, <2>3
    <3> QED BY <3>1, <1>0, DistanceZero
  <2>5. Distance(First, tail) = Distance(head, tail) - 1
    BY <1>0, <2>1, <2>4, DistanceDown
  <2> QED BY <1>1, <1>2, <2>1, <2>3, <2>5 DEF Used
<1>4. CASE pc # "copied"
  BY <1>0, <1>1, <1>2, <1>4 DEF First, Used
<1> QED BY <1>3, <1>4

(* The two sequences as windows, before and after a step.                  *)
LEMMA QueueWindows ==
  /\ Fresh = Window(ring, Mark, Distance(Mark, tail))
  /\ Fresh' = Window(ring', Mark', Distance(Mark', tail'))
  /\ Detached = IF Walking THEN Window(ring, First, Distance(First, nEnd)) ELSE << >>
  /\ Detached' = IF Walking' THEN Window(ring', First', Distance(First', nEnd')) ELSE << >>
  BY DEF Fresh, Detached, Hold, Window, Distance

(* The C handler's step is an arrival, or dropped.                         *)
LEMMA DeliverQueues ==
  ASSUME TypeOK, RingOK, NEW s \in Signals, Deliver(s)
  PROVE  Queue!Arrive(s) \/ UNCHANGED Queue!vars
<1> USE QueueAssumption DEF table, cursors, drain
<1> DEFINE S == Signals \cup {None}
<1>0. /\ head \in Cursors /\ tail \in Cursors /\ nEnd \in Cursors
      /\ ring \in [0 .. (Q - 1) -> S] /\ s \in S
  BY DEF TypeOK
<1>1. UNCHANGED <<head, drain>>
  BY DEF Deliver, DeliverGiven
<1>2. UNCHANGED <<Mark, First, Phase, ev>> /\ (Walking' <=> Walking)
  BY <1>1 DEF Mark, First, Walking, Phase, Advance
<1>3. CASE UNCHANGED <<ring, tail>>
  <2>1. UNCHANGED <<Fresh, Detached>>
    BY <1>1, <1>2, <1>3, QueueWindows
  <2> QED BY <1>2, <2>1 DEF Queue!vars
<1>4. CASE Used < Q /\ tail' = Advance(tail) /\ ring' = [ring EXCEPT ![Slot(tail)] = s]
  <2> DEFINE n == Distance(Mark, tail)
  <2>1. Mark \in Cursors /\ n \in 0 .. (Q - 1)
    <3>1. CASE Walking
      BY <1>0, <1>4, <3>1, WalkBounds, DistanceIs DEF Mark, RingOK, Used
    <3>2. CASE ~Walking
      BY <1>0, <1>4, <3>2, DistanceIs DEF Mark, Used
    <3> QED BY <3>1, <3>2
  <2>2. ring' \in [0 .. (Q - 1) -> S]
    BY <1>0, <1>4
  <2>3. /\ Distance(Mark, Advance(tail)) = n + 1
        /\ Window(ring', Mark, n + 1) = Append(Window(ring, Mark, n), s)
    <3> DEFINE q == ring'
    <3>1. n = Distance(Mark, tail)
      OBVIOUS
    <3>2. tail \in Cursors
      BY <1>0
    <3>3. s \in Events
      BY <1>0 DEF Events
    <3>4. ring \in Rings
      BY <1>0 DEF Rings, Events
    <3>5. Stored(q, ring, tail, s)
      BY <1>0, <1>4, SlotIs DEF Cursors, Stored
    <3>6. q \in Rings
      BY <2>2 DEF Rings, Events
    <3>7. Mark \in Cursors
      BY <2>1
    <3>8. n \in 0 .. (Q - 1)
      BY <2>1
    <3> HIDE DEF S, q
    <3>9. Window(q, Mark, n + 1) = Append(Window(ring, Mark, n), s)
      BY ONLY <3>2, <3>3, <3>4, <3>5, <3>6, <3>7, <3>8, WindowAppend, ZenonT(30)
    <3>11. Distance(Mark, Advance(tail)) = n + 1
      BY <3>1, <3>2, <3>7, <3>8, DistanceUp
    <3> QED BY <3>9, <3>11 DEF q
  <2>4. Fresh' = Append(Fresh, s)
    BY <1>2, <1>4, <2>3, QueueWindows
  <2>5. Len(Fresh) = n
    <3>1. n \in 0 .. Q
      BY <2>1
    <3>2. Len(Window(ring, Mark, n)) = n
      BY <1>0, <2>1, <3>1, WindowSeq
    <3> QED BY <3>2, QueueWindows
  <2>6. Detached' = Detached /\ Len(Fresh) + Len(Detached) < Q
    <3>1. CASE Walking
      <4> DEFINE m == Distance(First, nEnd)
      <4>1. /\ First \in Cursors /\ m \in 0 .. Q
            /\ m <= Distance(First, tail) /\ Distance(First, tail) < Q
            /\ m + n = Distance(First, tail)
        <5>1. /\ First \in Cursors /\ m \in 0 .. Q
              /\ Distance(First, tail) \in 0 .. Used
              /\ m + Distance(nEnd, tail) = Distance(First, tail)
          BY <3>1, WalkBounds
        <5>2. n = Distance(nEnd, tail)
          BY <3>1 DEF Mark
        <5>3. Used \in 0 .. (Q - 1)
          BY <1>0, <1>4, DistanceIs DEF Used
        <5> HIDE DEF m, n
        <5> QED BY <5>1, <5>2, <5>3, <2>1
      <4>2. \A j \in 0 .. (Q - 1) : j # Slot(tail) => ring'[j] = ring[j]
        BY <1>0, <1>4
      <4>3. Window(ring', First, m) = Window(ring, First, m)
        BY <1>0, <4>1, <4>2, WindowKept
      <4>4. Len(Window(ring, First, m)) = m
        BY <1>0, <4>1, WindowSeq
      <4>5. Detached = Window(ring, First, m) /\ Detached' = Window(ring', First, m)
        BY <1>1, <1>2, <3>1, QueueWindows
      <4> QED BY <4>1, <4>3, <4>4, <4>5, <2>1, <2>5
    <3>2. CASE ~Walking
      <4>1. Detached = << >> /\ Detached' = << >>
        BY <1>2, <3>2, QueueWindows
      <4> QED BY <4>1, <2>1, <2>5
    <3> QED BY <3>1, <3>2
  <2> QED BY <1>2, <2>4, <2>6 DEF Queue!Arrive
<1> QED BY <1>3, <1>4 DEF Deliver, DeliverGiven

(* PHP code begins a drain, tears its VM down, or leaves the queue alone.  *)
LEMMA ProgramQueues ==
  ASSUME TypeOK, DrainOK, RingOK, NEW v \in VMs, ProgramStep(v)
  PROVE  Queue!Begin \/ Queue!Forget \/ UNCHANGED Queue!vars
<1> USE NoneAssumption DEF table, cursors, drain
<1>1. CASE Runs(v) /\ Drain(v)
  <2>1. CASE v \notin has
    <3>1. UNCHANGED <<cursors, drain>>
      BY <1>1, <2>1 DEF Drain, DrainGiven
    <3>2. UNCHANGED <<Fresh, Detached, Phase, ev>>
      BY <3>1 DEF Fresh, Detached, Phase, Mark, First, Walking, Hold, Distance, Slot, Advance
    <3> QED BY <3>2 DEF Queue!vars
  <2>2. CASE v \in has
    <3>1. /\ pc = "php" /\ draining = {}
          /\ pc' = "snapshot" /\ draining' = {v}
          /\ UNCHANGED <<cursors, ev>>
      BY <1>1, <2>2 DEF Drain, DrainGiven, Runs, AtPhp, DrainOK
    <3>2. ~Walking /\ ~Walking'
      BY <3>1 DEF Walking
    <3>3. UNCHANGED <<Fresh, Detached>>
      BY <3>1, <3>2 DEF Fresh, Detached, Mark, Hold, Distance, Slot
    <3>4. Phase = "idle" /\ Phase' = "begun"
      BY <3>1, <3>2 DEF Phase
    <3> QED BY <3>1, <3>3, <3>4 DEF Queue!Begin
  <2> QED BY <2>1, <2>2
<1>2. CASE VmRelease(v)
  <2>1. /\ pc = "php" /\ draining = {} /\ UNCHANGED <<drain, ring>>
        /\ owner = v \/ UNCHANGED cursors
    BY <1>2 DEF VmRelease, ReleaseGiven, DrainOK
  <2>2. ~Walking /\ ~Walking' /\ Phase = "idle" /\ Phase' = "idle"
    BY <2>1 DEF Walking, Phase
  <2>3. Detached = << >> /\ Detached' = << >>
    BY <2>2 DEF Detached
  <2>4. CASE owner = v
    <3>1. head' = 0 /\ tail' = 0
      BY <1>2, <2>4 DEF VmRelease, ReleaseGiven
    <3>2. Distance(0, 0) = 0
      BY QueueAssumption, DistanceZero DEF Cursors
    <3>3. Fresh' = << >>
      BY <3>1, <3>2, <2>2, QueueWindows, WindowEmpty DEF Mark
    <3> QED BY <2>1, <2>2, <2>3, <3>3 DEF Queue!Forget
  <2>5. CASE UNCHANGED cursors
    <3>1. Fresh' = Fresh
      BY <2>2, <2>5 DEF Fresh, Mark, Hold, Distance, Slot
    <3> QED BY <2>1, <2>2, <2>3, <3>1 DEF Queue!vars
  <2> QED BY <2>1, <2>4, <2>5
<1>3. CASE ~(Runs(v) /\ Drain(v)) /\ ~VmRelease(v)
  <2>1. UNCHANGED <<cursors, drain>>
    BY <1>3 DEF ProgramStep, StoreErr, SignalCall, SignalInt, AsyncSignals, Park, Route,
       SignalDispatch, FetchPoint
  <2>2. UNCHANGED <<Fresh, Detached, Phase, ev>>
    BY <2>1 DEF Fresh, Detached, Phase, Mark, First, Walking, Hold, Distance, Slot, Advance
  <2> QED BY <2>2 DEF Queue!vars
<1> QED BY <1>1, <1>2, <1>3

(* The end of a pcntl_signal() leaves the queue alone.                     *)
LEMMA EndQueues ==
  ASSUME NEW threw \in BOOLEAN, ReleaseEnds(threw) PROVE UNCHANGED Queue!vars
<1>1. UNCHANGED <<cursors, drain>>
  BY DEF ReleaseEnds
<1> QED BY <1>1 DEF Queue!vars, Fresh, Detached, Phase, Mark, First, Walking, Hold, Distance,
        Slot, Advance, cursors, drain

(* The drain's steps: the snapshot detaches, a copy serves, leaving ends.  *)
LEMMA DrainQueues ==
  ASSUME TypeOK, DrainOK, RingOK, DrainStep
  PROVE  Queue!Detach \/ Queue!Serve \/ Queue!End \/ UNCHANGED Queue!vars
<1> USE QueueAssumption, NoneAssumption DEF table, cursors, drain
<1> DEFINE S == Signals \cup {None}
<1>0. /\ head \in Cursors /\ tail \in Cursors /\ nEnd \in Cursors
      /\ ring \in [0 .. (Q - 1) -> S]
  BY DEF TypeOK
<1>1. pc # "php" /\ draining = {vm}
  BY DEF DrainOK, DrainStep, Snapshot, CopyOut, WalkedAll, WalkedAllGiven, FreeSlot,
     FreeSlotGiven, FreeSlotNoMemory, AtHandler, HandlerReturns, HandlerThrows
<1>2. Phase = IF Walking THEN "serving" ELSE "begun"
  BY <1>1 DEF Phase
<1>3. CASE Snapshot
  <2>1. /\ ~Walking /\ Walking' /\ nEnd' = tail /\ pc' = "walk"
        /\ UNCHANGED <<cursors, draining, ev>>
    BY <1>3 DEF Snapshot, Walking
  <2>2. Mark = head /\ Mark' = tail /\ First' = head
    BY <2>1 DEF Mark, First
  <2>3. Distance(tail, tail) = 0
    BY <1>0, DistanceZero
  <2>4. Fresh' = << >> /\ Detached' = Fresh
    BY <2>1, <2>2, <2>3, QueueWindows, WindowEmpty
  <2>5. Phase = "begun" /\ Phase' = "serving"
    BY <1>1, <1>2, <2>1 DEF Phase
  <2> QED BY <2>1, <2>4, <2>5 DEF Queue!Detach
<1>4. CASE CopyOut
  <2>1. /\ Walking /\ Walking' /\ pc = "walk" /\ pc' = "copied" /\ head # nEnd
        /\ ev' = ring[Slot(head)] /\ UNCHANGED <<cursors, draining, nEnd>>
    BY <1>4 DEF CopyOut, Walking, Until
  <2>2. Mark' = Mark /\ First = head /\ First' = Advance(head)
    BY <2>1 DEF Mark, First
  <2> DEFINE n == Distance(head, nEnd)
  <2>3. n \in 1 .. Q
    BY <1>0, <2>1, <2>2, WalkBounds, DistanceZero
  <2>4. /\ Window(ring, head, n) # << >>
        /\ Head(Window(ring, head, n)) = ring[Slot(head)]
        /\ Tail(Window(ring, head, n)) = Window(ring, Advance(head), n - 1)
    BY <1>0, <2>3, WindowTail
  <2>5. Distance(Advance(head), nEnd) = n - 1
    BY <1>0, <2>1, DistanceDown
  <2>6. /\ Detached = Window(ring, head, n)
        /\ Detached' = Window(ring, Advance(head), n - 1)
        /\ Fresh' = Fresh
    BY <2>1, <2>2, <2>5, QueueWindows
  <2>7. Phase = "serving" /\ Phase' = "serving"
    BY <1>1, <1>2, <2>1 DEF Phase
  <2> QED BY <2>1, <2>4, <2>6, <2>7 DEF Queue!Serve
<1>5. CASE WalkedAll
  <2>1. /\ Walking /\ ~Walking' /\ pc = "walk" /\ head = nEnd /\ draining' = {}
        /\ UNCHANGED cursors /\ ev' = None
    BY <1>1, <1>5 DEF WalkedAll, WalkedAllGiven, LeaveDrain, Walking, Until
  <2>2. Mark = head /\ Mark' = head /\ First = head
    BY <2>1 DEF Mark, First
  <2>3. Distance(head, nEnd) = 0
    BY <1>0, <2>1, DistanceZero
  <2>4. Fresh' = Fresh /\ Detached = << >> /\ Detached' = << >>
    BY <2>1, <2>2, <2>3, QueueWindows, WindowEmpty
  <2>5. Fresh \in Seq(S)
    <3>1. Distance(head, tail) \in 0 .. Q
      BY <1>0, DistanceIs DEF RingOK, Used
    <3> QED BY <1>0, <2>2, <3>1, QueueWindows, WindowSeq
  <2>6. Fresh' = Detached \o Fresh
    BY <2>4, <2>5, ConcatEmptySeq
  <2>7. Phase = "serving" /\ Phase' = "idle"
    BY <1>2, <2>1 DEF Phase
  <2> QED BY <2>1, <2>4, <2>6, <2>7 DEF Queue!End
<1>6. CASE FreeSlot
  <2>1. /\ Walking /\ Walking' /\ pc = "copied" /\ pc' # "copied" /\ head' = Advance(head)
        /\ UNCHANGED <<tail, ring, draining, nEnd, ev>>
    BY <1>6 DEF FreeSlot, FreeSlotGiven, Walking
  <2>2. UNCHANGED <<Mark, First, Phase>>
    BY <2>1 DEF Mark, First, Phase
  <2>3. UNCHANGED <<Fresh, Detached>>
    BY <2>1, <2>2, QueueWindows
  <2> QED BY <2>1, <2>2, <2>3 DEF Queue!vars
<1>7. CASE FreeSlotNoMemory
  <2>1. /\ Walking /\ ~Walking' /\ pc = "copied" /\ head' = Advance(head)
        /\ draining' = {} /\ UNCHANGED <<tail, ring>> /\ ev' = None
    BY <1>1, <1>7 DEF FreeSlotNoMemory, LeaveDrain, Walking
  <2>2. Mark = nEnd /\ First = Advance(head) /\ Mark' = First
    BY <2>1 DEF Mark, First
  <2> DEFINE n == Distance(First, nEnd)
             m == Distance(nEnd, tail)
  <2>3. /\ First \in Cursors /\ n \in 0 .. Q /\ m \in 0 .. Q
        /\ n + m = Distance(First, tail) /\ n + m <= Q
    <3>1. Used \in 0 .. Q
      BY <1>0, DistanceIs DEF RingOK, Used
    <3> QED BY <2>1, <3>1, WalkBounds
  <2>4. Window(ring, First, n + m) = Window(ring, First, n) \o Window(ring, nEnd, m)
    <3>1. n = Distance(First, nEnd)
      OBVIOUS
    <3>2. ring \in [0 .. (Q - 1) -> S]
      BY <1>0
    <3>3. First \in Cursors
      BY <2>3
    <3>4. nEnd \in Cursors
      BY <1>0
    <3>5. n \in 0 .. Q
      BY <2>3
    <3>6. m \in 0 .. Q
      BY <2>3
    <3>7. n + m <= Q
      BY <2>3
    <3> HIDE DEF n, m, S
    <3> QED BY ONLY <3>1, <3>2, <3>3, <3>4, <3>5, <3>6, <3>7, WindowConcat, ZenonT(60)
  <2>5. /\ Detached = Window(ring, First, n) /\ Fresh = Window(ring, nEnd, m)
        /\ Fresh' = Window(ring, First, n + m) /\ Detached' = << >>
    BY <2>1, <2>2, <2>3, QueueWindows
  <2>6. Phase = "serving" /\ Phase' = "idle"
    BY <1>2, <2>1 DEF Phase
  <2> QED BY <2>1, <2>4, <2>5, <2>6 DEF Queue!End
<1>8. CASE HandlerReturns \/ HandlerThrows
  <2>1. /\ Walking /\ Walking' /\ pc # "copied" /\ pc' # "copied"
        /\ UNCHANGED <<cursors, draining, nEnd, ev>>
    BY <1>8 DEF AtHandler, HandlerReturns, HandlerThrows, Walking
  <2>2. UNCHANGED <<Mark, First, Phase>>
    BY <2>1 DEF Mark, First, Phase
  <2>3. UNCHANGED <<Fresh, Detached>>
    BY <2>1, <2>2, QueueWindows
  <2> QED BY <2>1, <2>2, <2>3 DEF Queue!vars
<1> QED BY <1>3, <1>4, <1>5, <1>6, <1>7, <1>8 DEF DrainStep

(* The ring and its drain implement the detached queue, for every Q, any   *)
(* number of signals and of VMs: no interleaving of the C handler with the *)
(* drain loses, repeats or reorders an accepted delivery.                  *)
THEOREM RingRefinesQueue == Spec => DrainDetaches
<1>1. Init => Queue!Init
  <2> SUFFICES ASSUME Init PROVE Queue!Init
    OBVIOUS
  <2>1. Distance(0, 0) = 0
    BY QueueAssumption, DistanceZero DEF Cursors
  <2>2. ~Walking /\ Mark = 0 /\ tail = 0
    BY DEF Init, Walking, Mark
  <2>3. Fresh = << >> /\ Detached = << >>
    BY <2>1, <2>2, QueueWindows, WindowEmpty
  <2> QED BY <2>3 DEF Init, Queue!Init, Phase
<1>2. TypeOK /\ DrainOK /\ RingOK /\ [Next]_vars => [Queue!Next]_(Queue!vars)
  <2> SUFFICES ASSUME TypeOK, DrainOK, RingOK, [Next]_vars
               PROVE  [Queue!Next]_(Queue!vars)
    OBVIOUS
  <2>1. ASSUME NEW s \in Signals, Deliver(s) PROVE [Queue!Next]_(Queue!vars)
    BY <2>1, DeliverQueues DEF Queue!Next
  <2>2. ASSUME NEW v \in VMs, ProgramStep(v) PROVE [Queue!Next]_(Queue!vars)
    BY <2>2, ProgramQueues DEF Queue!Next
  <2>3. CASE DrainStep
    BY <2>3, DrainQueues DEF Queue!Next
  <2>4. ASSUME NEW threw \in BOOLEAN, ReleaseEnds(threw) PROVE [Queue!Next]_(Queue!vars)
    BY <2>4, EndQueues
  <2>5. CASE UNCHANGED vars
    <3>1. UNCHANGED <<Fresh, Detached, Phase, ev>>
      BY <2>5 DEF vars, cursors, drain, Fresh, Detached, Phase, Mark, First, Walking, Hold,
         Distance, Slot, Advance
    <3> QED BY <3>1 DEF Queue!vars
  <2> QED BY <2>1, <2>2, <2>3, <2>4, <2>5 DEF Next, DestructorEnds
<1> QED BY <1>1, <1>2, Typing, RingHolds, PTL DEF Spec, DrainDetaches, Queue!Spec

===========================================================================
