------------------------ MODULE OutputBufferProofs ------------------------
(* Proofs about OutputBuffer, for programs whose operations no code cuts   *)
(* into; the types are proved for every program.                           *)
EXTENDS OutputBuffer, WellFoundedInduction, TLAPS

(* Bytes on their way: the layers of the buffers b over the output o.      *)
Content(b, o) == [k \in 0 .. Len(b) |-> IF k = 0 THEN o ELSE b[k].data]
NoScript(s) == \A i \in DOMAIN s : ~FromScript(s[i])

Rising(s) == \A i, j \in DOMAIN s :
  i < j /\ FromScript(s[i]) /\ FromScript(s[j]) => s[i] < s[j]
Before(s, t) == \A i \in DOMAIN s, j \in DOMAIN t :
  FromScript(s[i]) /\ FromScript(t[j]) => s[i] < t[j]
Sorted(c) ==
  /\ \A k \in DOMAIN c : Rising(c[k])
  /\ \A k, l \in DOMAIN c : k < l => Before(c[k], c[l])

Holds(c) == UNION {ScriptBytes(c[k]) : k \in DOMAIN c}

(* w is the head of d, with all the script wrote in it.                    *)
Carries(w, d) ==
  /\ Len(w) <= Len(d)
  /\ \A i \in 1 .. Len(w) : w[i] = d[i]
  /\ \A i \in Len(w) + 1 .. Len(d) : ~FromScript(d[i])

(* The operation has not emptied its buffer yet; it called the handler.    *)
Under(op) == op.at \in {"handler", "raise", "raising", "send"}
Called(op) == Under(op) /\ (op.at = "handler" \/ op.answer # "none")

(* Where an operation stands when code of the program may cut into it.     *)
CutInto == {"code", "cast", "moved", "popped", "bail", "release"}

(* The operations in progress os: all but the innermost wait in a          *)
(* diagnostic or are over, and no two of them hold the same buffer.        *)
Stacked(b, os) ==
  /\ \A k \in DOMAIN os : os[k].at \notin CutInto /\ os[k].slot \in DOMAIN b
  /\ \A k \in DOMAIN os : k < Len(os) => os[k].at \in {"raising", "after"}
  /\ \A k \in DOMAIN os : os[k].at \in {"raise", "raising"} => os[k].answer # "none"
  /\ \A k, l \in DOMAIN os :
       Under(os[k]) /\ Under(os[l]) /\ os[k].slot = os[l].slot => k = l

(* A buffer is disabled while its handler's operation holds it, and for    *)
(* good, and empty, once the handler has failed.                           *)
Switched(b, os) ==
  /\ \A k \in DOMAIN os :
       Called(os[k]) => b[os[k].slot].disabled /\ ~b[os[k].slot].failed
  /\ \A i \in DOMAIN b : b[i].failed => b[i].disabled /\ b[i].data = << >>
  /\ \A i \in DOMAIN b : b[i].disabled =>
       b[i].failed \/ \E k \in DOMAIN os : Called(os[k]) /\ os[k].slot = i

(* What an operation took is still in its buffer until it has sent it; of  *)
(* the buffers above the one it works on, only those an outer operation    *)
(* was interrupted in have anything the script wrote.                      *)
Taken(b, os) ==
  /\ \A k \in DOMAIN os : Under(os[k]) => Carries(os[k].data, b[os[k].slot].data)
  /\ \A k \in DOMAIN os : os[k].at = "after" => NoScript(b[os[k].slot].data)
  /\ \A k \in DOMAIN os : \A i \in DOMAIN b :
       i > os[k].slot /\ ~NoScript(b[i].data) =>
         \E m \in DOMAIN os : m < k /\ os[m].slot = i /\ os[m].at = "raising"

(* A final operation is the outermost, on the topmost buffer, pinned only  *)
(* at shutdown; at shutdown the outermost is one.                          *)
Doors(b, os, ph) ==
  /\ \A k \in DOMAIN os : os[k].final =>
       /\ k = 1 /\ os[k].slot = Len(b) /\ os[k].id = b[Len(b)].id
       /\ ph = "run" => ~b[Len(b)].pinned
  /\ ph = "shutdown" /\ os # << >> => os[1].final
  /\ ph = "end" => os = << >>

Works(b, os, ph) ==
  Stacked(b, os) /\ Switched(b, os) /\ Taken(b, os) /\ Doors(b, os, ph)

(* The script's bytes: in order, and all there but for those given up.     *)
Whole ==
  /\ Sorted(Content(bufs, out))
  /\ 1 .. nBytes = Holds(Content(bufs, out)) \cup lost

BufInv ==
  /\ TypeOK
  /\ program.inside = {} => Works(bufs, ops, phase) /\ Whole

---------------------------------------------------------------------------
(* Sequences, and the choice of the highest taker.                         *)

LEMMA NatMin ==
  ASSUME NEW S \in SUBSET Nat, S # {}
  PROVE  \E x \in S : \A y \in S : x <= y
<1>1. PICK x \in S : \A y \in S : ~(<<y, x>> \in OpToRel(<, Nat))
  <2>1. IsWellFoundedOn(OpToRel(<, Nat), Nat)
    BY NatLessThanWellFounded
  <2> HIDE DEF OpToRel
  <2> QED BY <2>1, WFMin
<1>2. \A y \in S : ~(y < x)
  BY <1>1 DEF OpToRel
<1>3. x \in Nat /\ \A y \in S : y \in Nat
  OBVIOUS
<1> QED BY <1>2, <1>3

LEMMA HighestIs ==
  ASSUME NEW n \in Nat, NEW S \in SUBSET (1 .. n), S # {}
  PROVE  Highest(S) \in S /\ \A k \in S : k <= Highest(S)
<1> DEFINE D == {n - k : k \in S}
<1>1. D \in SUBSET Nat /\ D # {}
  <2>1. \A k \in S : n - k \in Nat
    OBVIOUS
  <2> QED BY <2>1
<1>2. PICK d \in D : \A e \in D : d <= e
  BY <1>1, NatMin
<1>3. PICK j \in S : d = n - j
  OBVIOUS
<1>4. \A k \in S : k <= j
  <2> TAKE k \in S
  <2>1. d <= n - k
    BY <1>2
  <2> QED BY <2>1, <1>3
<1> QED BY <1>4 DEF Highest

LEMMA ScriptBytesIn ==
  ASSUME MaxBytes \in Nat, NEW s \in Seq(Byte)
  PROVE  ScriptBytes(s) \subseteq 1 .. MaxBytes
  BY DEF ScriptBytes, FromScript, Byte

LEMMA LastOf ==
  ASSUME NEW S, NEW s \in Seq(S), s # << >>
  PROVE  /\ Len(s) \in Nat \ {0} /\ Len(s) \in DOMAIN s /\ DOMAIN s = 1 .. Len(s)
         /\ Last(s) = s[Len(s)] /\ Last(s) \in S
         /\ Below(s) \in Seq(S) /\ Len(Below(s)) = Len(s) - 1
         /\ DOMAIN Below(s) = 1 .. Len(s) - 1
         /\ \A k \in 1 .. Len(s) - 1 : Below(s)[k] = s[k]
<1>1. Len(s) \in Nat \ {0} /\ DOMAIN s = 1 .. Len(s)
  OBVIOUS
<1>2. Below(s) \in Seq(S) /\ Len(Below(s)) = Len(s) - 1
  BY <1>1 DEF Below
<1>3. \A k \in 1 .. Len(s) - 1 : Below(s)[k] = s[k]
  BY <1>1 DEF Below
<1>4. DOMAIN Below(s) = 1 .. Len(s) - 1
  BY <1>2
<1> QED BY <1>1, <1>2, <1>3, <1>4 DEF Last

LEMMA AppendIs ==
  ASSUME NEW S, NEW s \in Seq(S), NEW e \in S
  PROVE  /\ Append(s, e) \in Seq(S) /\ Append(s, e) # << >>
         /\ Len(Append(s, e)) = Len(s) + 1 /\ DOMAIN Append(s, e) = 1 .. Len(s) + 1
         /\ \A k \in 1 .. Len(s) : Append(s, e)[k] = s[k]
         /\ Append(s, e)[Len(s) + 1] = e
  OBVIOUS

(* The innermost operation goes on to stage at with the given answer.      *)
Onward(at, answer) == [ops EXCEPT ![Len(ops)].answer = answer, ![Len(ops)].at = at]

LEMMA OnwardIs ==
  ASSUME ops \in Seq(Op), ops # << >>,
         NEW at \in Stages, NEW answer \in Answers \cup {"none"}
  PROVE  /\ Onward(at, answer) \in Seq(Op) /\ Len(Onward(at, answer)) = Len(ops)
         /\ DOMAIN Onward(at, answer) = 1 .. Len(ops)
         /\ \A k \in 1 .. Len(ops) - 1 : Onward(at, answer)[k] = ops[k]
         /\ Onward(at, answer)[Len(ops)] = [Top EXCEPT !.answer = answer, !.at = at]
<1> DEFINE n == Len(ops)
           new == [ops[n] EXCEPT !.answer = answer, !.at = at]
<1>1. n \in Nat \ {0} /\ ops[n] \in Op /\ DOMAIN ops = 1 .. n
  OBVIOUS
<1>2. new \in Op
  BY <1>1 DEF Op
<1>3. Onward(at, answer) = [ops EXCEPT ![n] = new]
  BY <1>1 DEF Onward
<1> HIDE DEF new
<1>4. /\ [ops EXCEPT ![n] = new] \in Seq(Op) /\ Len([ops EXCEPT ![n] = new]) = n
      /\ \A k \in 1 .. n : [ops EXCEPT ![n] = new][k] = IF k = n THEN new ELSE ops[k]
  BY <1>1, <1>2
<1> QED BY <1>1, <1>3, <1>4 DEF Top, Last, new

LEMMA GoToIs ==
  ASSUME ops \in Seq(Op), ops # << >>, NEW at
  PROVE  GoTo(at) = Onward(at, Top.answer)
<1> DEFINE n == Len(ops)
<1>1. n \in Nat \ {0} /\ ops[n] \in Op /\ DOMAIN ops = 1 .. n
  OBVIOUS
<1>2. [ops[n] EXCEPT !.at = at] = [ops[n] EXCEPT !.answer = ops[n].answer, !.at = at]
  BY <1>1 DEF Op
<1> QED BY <1>1, <1>2 DEF GoTo, Onward, Top, Last

---------------------------------------------------------------------------
(* Types, whatever the program.                                            *)

(* What an operation begun on slot i of b leaves: the buffers, and itself. *)
Disabled(b, i) == IF Calls(b[i]) THEN [b EXCEPT ![i].disabled = TRUE] ELSE b
Begun(b, i, clean, final) ==
  [slot |-> i, id |-> b[i].id, clean |-> clean, final |-> final,
   data |-> b[i].data, at |-> IF Calls(b[i]) THEN "handler" ELSE "send",
   answer |-> "none"]

LEMMA BufferParts ==
  ASSUME NEW e \in Buffer
  PROVE  /\ e.id \in 1 .. MaxStarts /\ e.data \in Seq(Byte)
         /\ e.user \in BOOLEAN /\ e.disabled \in BOOLEAN
         /\ e.produced \in BOOLEAN /\ e.failed \in BOOLEAN
         /\ [e EXCEPT !.disabled = TRUE] \in Buffer
  BY DEF Buffer

LEMMA BeginTypes ==
  ASSUME NEW b \in Seq(Buffer), NEW i \in 1 .. Len(b),
         NEW clean \in BOOLEAN, NEW final \in BOOLEAN
  PROVE  /\ Disabled(b, i) \in Seq(Buffer) /\ Len(Disabled(b, i)) = Len(b)
         /\ \A k \in 1 .. Len(b) \ {i} : Disabled(b, i)[k] = b[k]
         /\ Disabled(b, i)[i].id = b[i].id /\ Disabled(b, i)[i].pinned = b[i].pinned
         /\ Disabled(b, i)[i].data = b[i].data /\ Disabled(b, i)[i].failed = b[i].failed
         /\ Disabled(b, i)[i].disabled <=> b[i].disabled \/ Calls(b[i])
         /\ Begun(b, i, clean, final) \in Op
<1>1. b[i] \in Buffer /\ i \in Nat
  OBVIOUS
<1> DEFINE new == [b[i] EXCEPT !.disabled = TRUE]
<1>2. new \in Buffer /\ b[i].id \in 0 .. MaxStarts /\ b[i].data \in Seq(Byte)
  <2>1. MaxStarts \in Nat
    BY BoundsAssumption
  <2> QED BY <1>1, <2>1, BufferParts
<1>3. [b EXCEPT ![i].disabled = TRUE] = [b EXCEPT ![i] = new]
  OBVIOUS
<1>4. /\ new.id = b[i].id /\ new.pinned = b[i].pinned /\ new.data = b[i].data
      /\ new.failed = b[i].failed /\ new.disabled
  BY <1>1 DEF Buffer
<1>6. Begun(b, i, clean, final) \in Op
  BY <1>1, <1>2 DEF Begun, Op, Stages
<1> HIDE DEF new
<1>7. /\ [b EXCEPT ![i] = new] \in Seq(Buffer) /\ Len([b EXCEPT ![i] = new]) = Len(b)
      /\ \A k \in 1 .. Len(b) : [b EXCEPT ![i] = new][k] = IF k = i THEN new ELSE b[k]
  BY <1>2
<1>8. CASE Calls(b[i])
  BY <1>3, <1>4, <1>6, <1>7, <1>8 DEF Disabled
<1>9. CASE ~Calls(b[i])
  BY <1>6, <1>9 DEF Disabled
<1> QED BY <1>8, <1>9

(* What buffer j of b is once it has taken the bytes w.                    *)
Filled(b, j, w, produced) ==
  [b EXCEPT ![j].data = @ \o w, ![j].produced = produced]

LEMMA FilledIs ==
  ASSUME NEW b \in Seq(Buffer), NEW j \in 1 .. Len(b), NEW w \in Seq(Byte),
         NEW produced \in BOOLEAN
  PROVE  /\ Filled(b, j, w, produced) \in Seq(Buffer)
         /\ Len(Filled(b, j, w, produced)) = Len(b)
         /\ \A k \in 1 .. Len(b) \ {j} : Filled(b, j, w, produced)[k] = b[k]
         /\ Filled(b, j, w, produced)[j].id = b[j].id
         /\ Filled(b, j, w, produced)[j].pinned = b[j].pinned
         /\ Filled(b, j, w, produced)[j].data = b[j].data \o w
         /\ Filled(b, j, w, produced)[j].disabled = b[j].disabled
         /\ Filled(b, j, w, produced)[j].failed = b[j].failed
<1> DEFINE new == [b[j] EXCEPT !.data = b[j].data \o w, !.produced = produced]
<1>1. b[j] \in Buffer
  OBVIOUS
<1>2. b[j].data \in Seq(Byte) /\ b[j].produced \in BOOLEAN
  BY <1>1 DEF Buffer
<1>3. b[j].data \o w \in Seq(Byte)
  BY <1>2
<1>4. new \in Buffer
  BY <1>1, <1>2, <1>3 DEF Buffer
<1>5. Filled(b, j, w, produced) = [b EXCEPT ![j] = new]
  BY <1>1 DEF Filled
<1>6. /\ new.id = b[j].id /\ new.pinned = b[j].pinned /\ new.data = b[j].data \o w
      /\ new.disabled = b[j].disabled /\ new.failed = b[j].failed
  BY <1>1 DEF Buffer
<1> HIDE DEF new
<1>7. /\ [b EXCEPT ![j] = new] \in Seq(Buffer) /\ Len([b EXCEPT ![j] = new]) = Len(b)
      /\ \A k \in 1 .. Len(b) : [b EXCEPT ![j] = new][k] = IF k = j THEN new ELSE b[k]
  BY <1>4
<1> QED BY <1>5, <1>6, <1>7

(* Bytes either go to the output, or to a buffer that takes them, which    *)
(* may then write out.                                                     *)
Fills(b, j, i, w, base) ==
  /\ j \in 1 .. i /\ i <= Len(b) /\ ~b[j].disabled
  /\ \A k \in j + 1 .. i : b[k].disabled
  /\ LET b2 == Filled(b, j, w, b[j].produced \/ Raising(base))
     IN \/ bufs' = b2 /\ ops' = base
        \/ bufs' = Disabled(b2, j) /\ ops' = Append(base, Begun(b2, j, FALSE, FALSE))
  /\ out' = out

Spills(b, i, w, base) ==
  /\ i <= Len(b) => \A k \in 1 .. i : b[k].disabled
  /\ bufs' = b /\ ops' = base /\ out' = out \o w

LEMMA SinkDoes ==
  ASSUME NEW b \in Seq(Buffer), NEW i \in Int, NEW w, NEW base, Sink(b, i, w, base)
  PROVE  Spills(b, i, w, base) \/ \E j \in 1 .. Len(b) : Fills(b, j, i, w, base)
<1>1. CASE Takers(b, i) = {}
  <2>1. i <= Len(b) => \A k \in 1 .. i : b[k].disabled
    <3> SUFFICES ASSUME i <= Len(b), NEW k \in 1 .. i, ~b[k].disabled PROVE FALSE
      OBVIOUS
    <3>1. k \in Takers(b, i)
      BY DEF Takers
    <3> QED BY <3>1, <1>1
  <2>2. bufs' = b /\ ops' = base /\ out' = out \o w
    BY <1>1 DEF Sink
  <2> QED BY <2>1, <2>2 DEF Spills
<1>2. CASE Takers(b, i) # {}
  <2> DEFINE j == Highest(Takers(b, i))
  <2>1. i <= Len(b) /\ i \in Nat /\ Takers(b, i) \in SUBSET (1 .. i)
    BY <1>2 DEF Takers
  <2>2. j \in Takers(b, i) /\ \A k \in Takers(b, i) : k <= j
    BY <1>2, <2>1, HighestIs
  <2> HIDE DEF j
  <2>3. j \in 1 .. i /\ ~b[j].disabled /\ \A k \in j + 1 .. i : b[k].disabled
    BY <2>1, <2>2 DEF Takers
  <2> DEFINE b2 == Filled(b, j, w, b[j].produced \/ Raising(base))
  <2>4. /\ \/ Begin(b2, j, FALSE, FALSE, base)
           \/ bufs' = b2 /\ ops' = base
        /\ out' = out
    BY <1>2 DEF Sink, Filled, j
  <2>5. Fills(b, j, i, w, base)
    BY <2>1, <2>3, <2>4 DEF Fills, Begin, Disabled, Begun
  <2> QED BY <2>1, <2>3, <2>5
<1> QED BY <1>1, <1>2

LEMMA SinkTypes ==
  ASSUME NEW b \in Seq(Buffer), NEW i \in Int, NEW w \in Seq(Byte), NEW base \in Seq(Op),
         out \in Seq(Byte), Sink(b, i, w, base)
  PROVE  bufs' \in Seq(Buffer) /\ ops' \in Seq(Op) /\ out' \in Seq(Byte) /\ Len(bufs') = Len(b)
<1>1. CASE Spills(b, i, w, base)
  BY <1>1 DEF Spills
<1>2. CASE \E j \in 1 .. Len(b) : Fills(b, j, i, w, base)
  <2>1. PICK j \in 1 .. Len(b) : Fills(b, j, i, w, base)
    BY <1>2
  <2> DEFINE b2 == Filled(b, j, w, b[j].produced \/ Raising(base))
  <2>2. b2 \in Seq(Buffer) /\ Len(b2) = Len(b)
    <3> DEFINE produced == b[j].produced \/ Raising(base)
    <3>1. produced \in BOOLEAN
      OBVIOUS
    <3> HIDE DEF produced
    <3>2. Filled(b, j, w, produced) \in Seq(Buffer) /\ Len(Filled(b, j, w, produced)) = Len(b)
      BY <3>1, FilledIs
    <3> QED BY <3>2 DEF produced
  <2> HIDE DEF b2
  <2>3. /\ Disabled(b2, j) \in Seq(Buffer) /\ Len(Disabled(b2, j)) = Len(b2)
        /\ Begun(b2, j, FALSE, FALSE) \in Op
    BY <2>2, BeginTypes
  <2>4. \/ bufs' = b2 /\ ops' = base
        \/ bufs' = Disabled(b2, j) /\ ops' = Append(base, Begun(b2, j, FALSE, FALSE))
    BY <2>1 DEF Fills, b2
  <2>5. out' = out
    BY <2>1 DEF Fills
  <2>6. Append(base, Begun(b2, j, FALSE, FALSE)) \in Seq(Op)
    BY <2>3, AppendIs
  <2> QED BY <2>2, <2>3, <2>4, <2>5, <2>6
<1> QED BY <1>1, <1>2, SinkDoes

LEMMA TopIs ==
  ASSUME TypeOK, ops # << >>
  PROVE  /\ Top \in Op /\ Top = ops[Len(ops)] /\ Len(ops) \in Nat \ {0}
         /\ DOMAIN ops = 1 .. Len(ops) /\ DOMAIN bufs = 1 .. Len(bufs)
         /\ Top.slot \in Nat /\ Top.data \in Seq(Byte) /\ Top.at \in Stages
         /\ Top.answer \in Answers \cup {"none"} /\ Top.clean \in BOOLEAN /\ Top.final \in BOOLEAN
<1>1. ops \in Seq(Op) /\ bufs \in Seq(Buffer)
  BY DEF TypeOK
<1>2. Top \in Op /\ Top = ops[Len(ops)] /\ Len(ops) \in Nat \ {0} /\ DOMAIN ops = 1 .. Len(ops)
  BY <1>1, LastOf DEF Top
<1>3. DOMAIN bufs = 1 .. Len(bufs)
  BY <1>1
<1> QED BY <1>2, <1>3 DEF Op

LEMMA EntryIs ==
  ASSUME TypeOK, ops # << >>, Present
  PROVE  /\ Top.slot \in 1 .. Len(bufs) /\ Entry = bufs[Top.slot] /\ Entry \in Buffer
         /\ Entry.data \in Seq(Byte)
         /\ Entry.disabled \in BOOLEAN /\ Entry.failed \in BOOLEAN /\ Entry.produced \in BOOLEAN
<1>1. bufs \in Seq(Buffer)
  BY DEF TypeOK
<1>2. Top.slot \in 1 .. Len(bufs) /\ Entry = bufs[Top.slot]
  BY TopIs DEF Present, Entry
<1>3. Entry \in Buffer
  BY <1>1, <1>2
<1> QED BY <1>2, <1>3, BufferParts

LEMMA EmptiedIs ==
  ASSUME TypeOK, ops # << >>
  PROVE  /\ Emptied \in Seq(Buffer) /\ Len(Emptied) = Len(bufs)
         /\ \A k \in 1 .. Len(bufs) : k # Top.slot => Emptied[k] = bufs[k]
         /\ Present =>
              /\ Emptied[Top.slot].id = Entry.id
              /\ Emptied[Top.slot].pinned = Entry.pinned
              /\ Emptied[Top.slot].data = << >>
              /\ Emptied[Top.slot].disabled <=> Entry.disabled /\ ~Succeeded
              /\ Emptied[Top.slot].failed <=> Entry.failed \/ Top.answer \in Failures
<1> DEFINE i == Top.slot
           d == Entry.disabled /\ ~Succeeded
           f == Entry.failed \/ Top.answer \in Failures
           new == [Entry EXCEPT !.data = << >>, !.disabled = d, !.failed = f]
<1>1. bufs \in Seq(Buffer) /\ Len(bufs) \in Nat
  BY DEF TypeOK
<1>2. CASE ~Present
  BY <1>1, <1>2 DEF Emptied, EmptiedMarking
<1>3. CASE Present
  <2>0. << >> \in Seq(Byte)
    OBVIOUS
  <2>1. i \in 1 .. Len(bufs) /\ Entry = bufs[i] /\ Entry \in Buffer
    BY <1>3, EntryIs
  <2>2. d \in BOOLEAN /\ f \in BOOLEAN
    OBVIOUS
  <2>3. new \in Buffer /\ new.id = Entry.id /\ new.pinned = Entry.pinned
        /\ new.data = << >> /\ new.disabled = d /\ new.failed = f
    <3>1. PICK e \in Buffer, x \in BOOLEAN, y \in BOOLEAN : e = Entry /\ x = d /\ y = f
      BY <2>1, <2>2
    <3> DEFINE n == [e EXCEPT !.data = << >>, !.disabled = x, !.failed = y]
    <3>2. n = new
      BY <3>1
    <3>3. n \in Buffer /\ n.id = e.id /\ n.pinned = e.pinned
          /\ n.data = << >> /\ n.disabled = x /\ n.failed = y
      <4>1. PICK none \in Seq(Byte) : none = << >>
        BY <2>0
      <4>2. n = [e EXCEPT !.data = none, !.disabled = x, !.failed = y]
        BY <4>1
      <4> HIDE DEF n
      <4> QED BY <4>1, <4>2 DEF Buffer
    <3> HIDE DEF d, f, n, new
    <3> QED BY <3>1, <3>2, <3>3
  <2>4. Emptied = [bufs EXCEPT ![i] = new]
    BY <1>3, <2>1 DEF Emptied, EmptiedMarking
  <2> HIDE DEF new
  <2>5. /\ [bufs EXCEPT ![i] = new] \in Seq(Buffer)
        /\ Len([bufs EXCEPT ![i] = new]) = Len(bufs)
        /\ \A k \in 1 .. Len(bufs) :
             [bufs EXCEPT ![i] = new][k] = IF k = i THEN new ELSE bufs[k]
    BY <1>1, <2>1, <2>3
  <2> QED BY <2>1, <2>3, <2>4, <2>5
<1> QED BY <1>2, <1>3

LEMMA ResultTypes ==
  ASSUME TypeOK, ops # << >>
  PROVE  Result \in Seq(Byte)
<1>1. Top.data \in Seq(Byte)
  BY TopIs
<1>2. Printed \in Seq(Byte)
  <2>1. CASE Present
    <3>1. Entry.data \in Seq(Byte)
      BY <2>1, EntryIs
    <3>2. Len(Top.data) + 1 \in Int /\ Len(Entry.data) \in Int /\ Len(Top.data) + 1 > 0
      BY <1>1, <3>1
    <3>3. SubSeq(Entry.data, Len(Top.data) + 1, Len(Entry.data)) \in Seq(Byte)
      BY <3>1, <3>2
    <3> QED BY <2>1, <3>3 DEF Printed
  <2>2. CASE ~Present
    BY <2>2 DEF Printed
  <2> QED BY <2>1, <2>2
<1>3. Top.data \o Printed \in Seq(Byte)
  BY <1>1, <1>2
<1> QED BY <1>1, <1>3 DEF Result

LEMMA BoundsAre ==
  /\ MaxBytes \in Nat /\ MaxStarts \in Nat /\ MaxDepth \in Nat
  /\ MaxPrints \in Nat /\ MaxDiags \in Nat /\ MaxInPlace \in Nat
  BY BoundsAssumption

LEMMA InitTypes == Init => TypeOK
<1>1. << >> \in Seq(Buffer) /\ << >> \in Seq(Op) /\ << >> \in Seq(Byte)
  OBVIOUS
<1>2. 0 \in 0 .. MaxBytes /\ 0 \in 0 .. MaxStarts /\ 0 \in 0 .. MaxPrints
      /\ 0 \in 0 .. MaxDiags /\ 0 \in 0 .. MaxInPlace
  BY BoundsAre
<1> QED BY <1>1, <1>2 DEF Init, TypeOK

(* A step of the buffers and the operations, and of the counters.          *)
LEMMA RestTypes ==
  ASSUME TypeOK, bufs' \in Seq(Buffer), ops' \in Seq(Op), out' \in Seq(Byte),
         program' = program, phase' \in {"run", "shutdown", "end"}, halted' \in BOOLEAN,
         nBytes' \in 0 .. MaxBytes, nStarts' \in 0 .. MaxStarts, nPrints' \in 0 .. MaxPrints,
         nDiags' \in 0 .. MaxDiags, nInPlace' \in 0 .. MaxInPlace, lost' \subseteq 1 .. MaxBytes
  PROVE  TypeOK'
  BY DEF TypeOK

LEMMA BeginGives ==
  ASSUME TypeOK, bufs # << >>, NEW clean \in BOOLEAN, NEW final \in BOOLEAN,
         Begin(bufs, Len(bufs), clean, final, ops)
  PROVE  /\ bufs' = Disabled(bufs, Len(bufs))
         /\ ops' = Append(ops, Begun(bufs, Len(bufs), clean, final))
         /\ bufs' \in Seq(Buffer) /\ ops' \in Seq(Op)
<1>1. bufs \in Seq(Buffer) /\ ops \in Seq(Op)
  BY DEF TypeOK
<1>2. Len(bufs) \in 1 .. Len(bufs)
  BY <1>1
<1>3. /\ Disabled(bufs, Len(bufs)) \in Seq(Buffer)
      /\ Begun(bufs, Len(bufs), clean, final) \in Op
  BY <1>1, <1>2, BeginTypes
<1>4. Append(ops, Begun(bufs, Len(bufs), clean, final)) \in Seq(Op)
  BY <1>1, <1>3, AppendIs
<1> QED BY <1>3, <1>4 DEF Begin, Disabled, Begun

LEMMA CodeIs == Code \in Op
<1>1. << >> \in Seq(Byte)
  OBVIOUS
<1>2. PICK none \in Seq(Byte) : none = << >>
  BY <1>1
<1>3. Code = [slot |-> 0, id |-> 0, clean |-> FALSE, final |-> FALSE,
              data |-> none, at |-> "code", answer |-> "none"]
  BY <1>2 DEF Code
<1> QED BY <1>3, BoundsAre DEF Op, Stages

LEMMA ReleaseIs ==
  ASSUME NEW slot \in Nat
  PROVE  Release(slot) \in Op
<1>1. PICK code \in Op : code = Code
  BY CodeIs
<1>2. Release(slot) = [code EXCEPT !.slot = slot, !.at = "release"]
  BY <1>1 DEF Release
<1> QED BY <1>2 DEF Op, Stages

(* Code of the program runs over a stack of operations.                    *)
LEMMA CodeOverTypes ==
  ASSUME TypeOK, NEW kinds, NEW stack \in Seq(Op), CodeOver(kinds, stack)
  PROVE  ops' \in Seq(Op) /\ nInPlace' \in 0 .. MaxInPlace
<1>1. Append(stack, Code) \in Seq(Op)
  BY CodeIs, AppendIs
<1>2. nInPlace' \in 0 .. MaxInPlace
  BY BoundsAre DEF CodeOver, TypeOK
<1> QED BY <1>1, <1>2 DEF CodeOver

LEMMA NoCodeOver ==
  ASSUME program.inside = {}, NEW kinds, NEW stack
  PROVE  ~CodeOver(kinds, stack)
  BY DEF CodeOver

LEMMA EchoTypes == TypeOK /\ Echo => TypeOK'
<1> SUFFICES ASSUME TypeOK, Echo PROVE TypeOK'
  OBVIOUS
<1>1. bufs \in Seq(Buffer) /\ ops \in Seq(Op) /\ out \in Seq(Byte) /\ nBytes \in 0 .. MaxBytes
  BY DEF TypeOK
<1>2. nBytes + 1 \in Byte /\ nBytes' \in 0 .. MaxBytes
  BY <1>1, BoundsAre DEF Echo, Byte
<1>3. <<nBytes + 1>> \in Seq(Byte) /\ Len(bufs) \in Int
  BY <1>1, <1>2
<1>4. Sink(bufs, Len(bufs), <<nBytes + 1>>, ops)
  BY DEF Echo
<1>5. bufs' \in Seq(Buffer) /\ ops' \in Seq(Op) /\ out' \in Seq(Byte)
  BY <1>1, <1>3, <1>4, SinkTypes
<1> QED BY <1>2, <1>5, RestTypes DEF Echo, TypeOK

Opened(kind, chunk) ==
  [id |-> nStarts + 1, user |-> kind.user, pinned |-> kind.pinned, chunk |-> chunk,
   data |-> << >>, disabled |-> FALSE, produced |-> FALSE, failed |-> FALSE]

LEMMA OpenedIs ==
  ASSUME TypeOK, nStarts < MaxStarts, NEW kind \in program.kinds, NEW chunk \in Nat
  PROVE  Opened(kind, chunk) \in Buffer
<1>1. kind \in Kind
  BY ProgramsAssumption DEF TypeOK, Program
<1>2. nStarts + 1 \in 1 .. MaxStarts
  BY BoundsAre DEF TypeOK
<1>3. << >> \in Seq(Byte)
  OBVIOUS
<1>4. PICK none \in Seq(Byte) : none = << >>
  BY <1>3
<1>5. Opened(kind, chunk) =
        [id |-> nStarts + 1, user |-> kind.user, pinned |-> kind.pinned, chunk |-> chunk,
         data |-> none, disabled |-> FALSE, produced |-> FALSE, failed |-> FALSE]
  BY <1>4 DEF Opened
<1> QED BY <1>1, <1>2, <1>5 DEF Buffer, Kind

LEMMA RelocatedTypes ==
  ASSUME TypeOK
  PROVE  Moved \in Seq(Op)
<1>1. ops \in Seq(Op)
  BY DEF TypeOK
<1>2. \A k \in DOMAIN ops : Moved[k] \in Op
  <2> TAKE k \in DOMAIN ops
  <2>1. PICK op \in Op : op = ops[k]
    BY <1>1
  <2>2. /\ [op EXCEPT !.at = "moved"] \in Op
        /\ [op EXCEPT !.slot = 0] \in Op
    BY DEF Op, Stages
  <2>3. Moved[k] \in {[op EXCEPT !.at = "moved"], [op EXCEPT !.slot = 0], op}
    BY <2>1 DEF Moved
  <2> QED BY <2>1, <2>2, <2>3
<1>3. PICK n \in Nat : n = Len(ops) /\ DOMAIN ops = 1 .. n
  BY <1>1
<1>4. Moved \in [1 .. n -> Op]
  <2>1. Moved = [k \in 1 .. n |-> Moved[k]]
    BY <1>3 DEF Moved
  <2> QED BY <1>2, <1>3, <2>1
<1>5. [1 .. n -> Op] \subseteq Seq(Op)
  OBVIOUS
<1> QED BY <1>4, <1>5

LEMMA ObStartTypes ==
  ASSUME TypeOK, NEW kind \in program.kinds, ObStart(kind)
  PROVE  /\ TypeOK'
         /\ \E new \in Buffer : bufs' = Append(bufs, new) /\ new.data = << >>
                                /\ ~new.disabled /\ ~new.failed
         /\ ops' = ops \/ Full
<1> DEFINE chunk == IF kind.chunk > 0 THEN kind.chunk ELSE 0
<1>1. kind \in Kind
  BY ProgramsAssumption DEF TypeOK, Program
<1>2. chunk \in Nat
  BY <1>1 DEF Kind
<1> HIDE DEF chunk
<1>3. ObStartGiven(kind, chunk)
  BY DEF ObStart, chunk
<1>4. Opened(kind, chunk) \in Buffer /\ bufs' = Append(bufs, Opened(kind, chunk))
  BY <1>2, <1>3, OpenedIs DEF ObStartGiven, Opened
<1>5. bufs' \in Seq(Buffer)
  BY <1>4, AppendIs DEF TypeOK
<1>6. nStarts' \in 0 .. MaxStarts
  BY <1>3, BoundsAre DEF ObStartGiven, TypeOK
<1>7. ops' \in Seq(Op) /\ (ops' = ops \/ Full)
  <2>1. ops' = ops \/ (Full /\ ops' = Moved)
    BY <1>3 DEF ObStartGiven
  <2> QED BY <2>1, RelocatedTypes DEF TypeOK
<1>8. TypeOK'
  BY <1>3, <1>5, <1>6, <1>7, RestTypes DEF ObStartGiven, TypeOK
<1> QED BY <1>4, <1>7, <1>8 DEF Opened

LEMMA OperateTypes ==
  ASSUME TypeOK, NEW clean \in BOOLEAN, NEW final \in BOOLEAN, Operate(clean, final)
  PROVE  TypeOK'
<1>1. bufs' \in Seq(Buffer) /\ ops' \in Seq(Op)
  BY BeginGives DEF Operate
<1> QED BY <1>1, RestTypes DEF Operate, TypeOK, counters

LEMMA CodeReturnsTypes == TypeOK /\ CodeReturns => TypeOK'
<1> SUFFICES ASSUME TypeOK, CodeReturns PROVE TypeOK'
  OBVIOUS
<1>1. ops \in Seq(Op) /\ ops # << >>
  BY DEF TypeOK, CodeReturns, AtStage
<1>2. ops' \in Seq(Op) /\ halted' \in BOOLEAN
  BY <1>1, LastOf DEF CodeReturns, TypeOK
<1> QED BY <1>2, RestTypes DEF CodeReturns, TypeOK, counters

(* The buffer a handler prints into.                                       *)
Printing == Highest(Takers(bufs, Len(bufs)) \cup {Top.slot})

LEMMA PrintsIs ==
  ASSUME TypeOK, HandlerPrints
  PROVE  /\ Printing \in 1 .. Len(bufs) => bufs' = Filled(bufs, Printing, <<0>>, TRUE)
         /\ Printing \notin 1 .. Len(bufs) => bufs' = bufs
<1> DEFINE j == Printing
<1>1. bufs \in Seq(Buffer)
  BY DEF TypeOK
<1>2. bufs' = [bufs EXCEPT ![j].data = Append(@, 0), ![j].produced = TRUE]
  BY DEF HandlerPrints, Printing
<1> HIDE DEF j
<1>3. CASE j \in 1 .. Len(bufs)
  <2>1. bufs[j].data \in Seq(Byte) /\ 0 \in Byte
    <3>1. bufs[j] \in Buffer
      BY <1>1, <1>3
    <3>2. 0 \in Byte
      BY BoundsAre DEF Byte
    <3> QED BY <3>1, <3>2, BufferParts
  <2>2. Append(bufs[j].data, 0) = bufs[j].data \o <<0>>
    BY <2>1, SMTT(40)
  <2> QED BY <1>1, <1>2, <1>3, <2>2 DEF Filled, j
<1>4. CASE j \notin 1 .. Len(bufs)
  <2>1. DOMAIN bufs = 1 .. Len(bufs)
    BY <1>1
  <2>2. bufs' = bufs
    BY <1>1, <1>2, <1>4, <2>1
  <2> QED BY <1>4, <2>2 DEF j
<1> QED BY <1>3, <1>4 DEF j

LEMMA HandlerPrintsTypes == TypeOK /\ HandlerPrints => TypeOK'
<1> SUFFICES ASSUME TypeOK, HandlerPrints PROVE TypeOK'
  OBVIOUS
<1>1. bufs \in Seq(Buffer) /\ nPrints \in 0 .. MaxPrints
  BY DEF TypeOK
<1>2. 0 \in Byte /\ TRUE \in BOOLEAN
  BY BoundsAre DEF Byte
<1>3. <<0>> \in Seq(Byte)
  BY <1>2
<1>4. Printing \in 1 .. Len(bufs) =>
        Filled(bufs, Printing, <<0>>, TRUE) \in Seq(Buffer)
  BY <1>1, <1>2, <1>3, FilledIs
<1>5. bufs' \in Seq(Buffer)
  BY <1>1, <1>4, PrintsIs
<1>6. nPrints' \in 0 .. MaxPrints
  BY <1>1, BoundsAre DEF HandlerPrints
<1> QED BY <1>5, <1>6, RestTypes DEF HandlerPrints, TypeOK

(* An answered operation: the handler is done, and the answer kept.        *)
AnsweredAt(answer) == IF Entry.produced /\ answer \notin Unwound THEN "raise" ELSE "send"

LEMMA AnsweredIs ==
  ASSUME TypeOK, ops # << >>, NEW answer \in Answers, Answered(answer)
  PROVE  /\ ops' = Onward(AnsweredAt(answer), answer)
         /\ AnsweredAt(answer) \in Stages
         /\ bufs' \in Seq(Buffer) /\ Len(bufs') = Len(bufs)
         /\ \A k \in 1 .. Len(bufs) :
              /\ bufs'[k].id = bufs[k].id /\ bufs'[k].pinned = bufs[k].pinned
              /\ bufs'[k].data = bufs[k].data
              /\ bufs'[k].disabled = bufs[k].disabled /\ bufs'[k].failed = bufs[k].failed
<1>1. bufs \in Seq(Buffer)
  BY DEF TypeOK
<1>2. ops' = Onward(AnsweredAt(answer), answer) /\ AnsweredAt(answer) \in Stages
  BY DEF Answered, AnsweredAt, Onward, Stages
<1>3. CASE bufs' = bufs
  BY <1>1, <1>2, <1>3
<1>4. CASE bufs' = [bufs EXCEPT ![Top.slot].produced = FALSE]
  <2> DEFINE i == Top.slot
             new == [bufs[i] EXCEPT !.produced = FALSE]
  <2>1. CASE i \in 1 .. Len(bufs)
    <3>1. bufs[i] \in Buffer
      BY <1>1, <2>1
    <3>2. /\ new \in Buffer /\ new.id = bufs[i].id /\ new.pinned = bufs[i].pinned
          /\ new.data = bufs[i].data /\ new.disabled = bufs[i].disabled
          /\ new.failed = bufs[i].failed
      BY <3>1 DEF Buffer
    <3>3. bufs' = [bufs EXCEPT ![i] = new]
      BY <1>4
    <3> HIDE DEF new
    <3>4. /\ [bufs EXCEPT ![i] = new] \in Seq(Buffer)
          /\ Len([bufs EXCEPT ![i] = new]) = Len(bufs)
          /\ \A k \in 1 .. Len(bufs) :
               [bufs EXCEPT ![i] = new][k] = IF k = i THEN new ELSE bufs[k]
      BY <1>1, <2>1, <3>2
    <3> QED BY <1>2, <3>2, <3>3, <3>4
  <2>2. CASE i \notin 1 .. Len(bufs)
    <3>1. bufs' = bufs
      BY <1>1, <1>4, <2>2
    <3> QED BY <1>1, <1>2, <3>1
  <2> QED BY <2>1, <2>2
<1> QED BY <1>3, <1>4 DEF Answered

LEMMA HandlerTypes ==
  ASSUME TypeOK, AtStage("handler"), NEW answer \in Answers, Answered(answer),
         halted' \in BOOLEAN, UNCHANGED <<program, out, phase, counters, lost>>
  PROVE  TypeOK'
<1>1. ops # << >> /\ ops \in Seq(Op) /\ answer \in Answers \cup {"none"}
  BY DEF AtStage, TypeOK
<1>2. /\ bufs' \in Seq(Buffer) /\ ops' = Onward(AnsweredAt(answer), answer)
      /\ AnsweredAt(answer) \in Stages
  BY <1>1, AnsweredIs
<1>3. ops' \in Seq(Op)
  BY <1>1, <1>2, OnwardIs
<1> QED BY <1>2, <1>3, RestTypes DEF TypeOK, counters

LEMMA RaisedIs ==
  ASSUME TypeOK, ops # << >>, NEW at \in Stages
  PROVE  GoTo(at) = Onward(at, Top.answer) /\ GoTo(at) \in Seq(Op)
<1>1. ops \in Seq(Op) /\ Top.answer \in Answers \cup {"none"}
  BY TopIs DEF TypeOK
<1>2. GoTo(at) = Onward(at, Top.answer)
  BY <1>1, GoToIs
<1>3. Onward(at, Top.answer) \in Seq(Op)
  BY <1>1, OnwardIs
<1> QED BY <1>2, <1>3

LEMMA DeprecateTypes == TypeOK /\ Deprecate => TypeOK'
<1> SUFFICES ASSUME TypeOK, Deprecate PROVE TypeOK'
  OBVIOUS
<1>1. ops # << >> /\ bufs \in Seq(Buffer) /\ out \in Seq(Byte)
  BY DEF Deprecate, AtStage, TypeOK
<1>2. Raised \in Seq(Op)
  BY <1>1, RaisedIs DEF Raised, Stages
<1>3. nDiags' \in 0 .. MaxDiags /\ nInPlace' \in 0 .. MaxInPlace
  <2>1. nInPlace' = nInPlace \/ CodeOver({"errorHandler"}, Raised)
    BY DEF Deprecate
  <2>2. nDiags' \in 0 .. MaxDiags
    BY BoundsAre DEF Deprecate, TypeOK
  <2> QED BY <1>2, <2>1, <2>2, CodeOverTypes DEF TypeOK
<1>4. bufs' \in Seq(Buffer) /\ ops' \in Seq(Op) /\ out' \in Seq(Byte)
  <2>1. CASE Sink(bufs, Len(bufs), <<-1>>, Raised)
    <3>1. -1 \in Byte
      BY BoundsAre DEF Byte
    <3>2. <<-1>> \in Seq(Byte) /\ Len(bufs) \in Int
      BY <1>1, <3>1
    <3> QED BY <1>1, <1>2, <2>1, <3>2, SinkTypes
  <2>2. CASE CodeOver({"errorHandler"}, Raised) /\ UNCHANGED <<bufs, out>>
    BY <1>1, <1>2, <2>2, CodeOverTypes
  <2>3. CASE ops' = Raised /\ UNCHANGED <<bufs, out>>
    BY <1>1, <1>2, <2>3
  <2> QED BY <2>1, <2>2, <2>3 DEF Deprecate
<1> QED BY <1>3, <1>4, RestTypes DEF Deprecate, TypeOK

LEMMA CastTypes == TypeOK /\ (Cast \/ CastFails) => TypeOK'
<1> SUFFICES ASSUME TypeOK, Cast \/ CastFails PROVE TypeOK'
  OBVIOUS
<1>1. ops # << >> /\ bufs \in Seq(Buffer) /\ out \in Seq(Byte)
  BY DEF Cast, CastFails, AtStage, TypeOK
<1>2. CASE Cast
  <2>1. Casting \in Seq(Op)
    BY <1>1, RaisedIs DEF Casting, Stages
  <2>2. nDiags' \in 0 .. MaxDiags /\ nInPlace' \in 0 .. MaxInPlace
    <3>1. nInPlace' = nInPlace \/ CodeOver({"cast"}, Casting)
      BY <1>2 DEF Cast
    <3>2. nDiags' \in 0 .. MaxDiags
      BY <1>2, BoundsAre DEF Cast, TypeOK
    <3> QED BY <2>1, <3>1, <3>2, CodeOverTypes DEF TypeOK
  <2>3. bufs' \in Seq(Buffer) /\ ops' \in Seq(Op) /\ out' \in Seq(Byte)
    <3>1. CASE Sink(bufs, Len(bufs), <<-1>>, Casting)
      <4>1. -1 \in Byte
        BY BoundsAre DEF Byte
      <4>2. <<-1>> \in Seq(Byte) /\ Len(bufs) \in Int
        BY <1>1, <4>1
      <4> QED BY <1>1, <2>1, <3>1, <4>2, SinkTypes
    <3>2. CASE CodeOver({"cast"}, Casting) /\ UNCHANGED <<bufs, out>>
      BY <1>1, <2>1, <3>2, CodeOverTypes
    <3> QED BY <1>2, <3>1, <3>2 DEF Cast
  <2> QED BY <1>2, <2>2, <2>3, RestTypes DEF Cast, TypeOK
<1>3. CASE CastFails
  <2>1. PICK op \in Op : op = Top
    BY <1>1, TopIs
  <2>2. [op EXCEPT !.answer = "true"] \in Op
    BY DEF Op, Answers
  <2>3. ops \in Seq(Op) /\ Len(ops) \in DOMAIN ops
    BY <1>1, TopIs DEF TypeOK
  <2>4. ops' = [ops EXCEPT ![Len(ops)] = [op EXCEPT !.answer = "true"]]
    BY <1>1, <1>3, <2>1, TopIs DEF CastFails
  <2>5. ops' \in Seq(Op)
    BY <2>2, <2>3, <2>4
  <2> QED BY <1>3, <2>5, RestTypes DEF CastFails, TypeOK, counters
<1> QED BY <1>2, <1>3

LEMMA SendTypes == TypeOK /\ Send => TypeOK'
<1> SUFFICES ASSUME TypeOK, Send PROVE TypeOK'
  OBVIOUS
<1>1. ops # << >> /\ out \in Seq(Byte)
  BY DEF Send, AtStage, TypeOK
<1>2. Emptied \in Seq(Buffer) /\ GoTo("after") \in Seq(Op) /\ Result \in Seq(Byte)
  BY <1>1, EmptiedIs, RaisedIs, ResultTypes DEF Stages
<1>3. bufs' \in Seq(Buffer) /\ ops' \in Seq(Op) /\ out' \in Seq(Byte)
  <2>1. CASE Sink(Emptied, Top.slot - 1, Result, GoTo("after"))
    <3>1. Top.slot - 1 \in Int
      BY <1>1, TopIs
    <3> QED BY <1>1, <1>2, <2>1, <3>1, SinkTypes
  <2>2. CASE bufs' = Emptied /\ ops' = GoTo("after") /\ UNCHANGED out
    BY <1>1, <1>2, <2>2
  <2> QED BY <2>1, <2>2 DEF Send
<1>4. lost' \subseteq 1 .. MaxBytes
  <2>1. ScriptBytes(Top.data) \subseteq 1 .. MaxBytes
    BY <1>1, TopIs, BoundsAre, ScriptBytesIn
  <2>2. lost' \in {lost, lost \cup ScriptBytes(Top.data)}
    BY DEF Send
  <2> QED BY <2>1, <2>2 DEF TypeOK
<1> QED BY <1>3, <1>4, RestTypes DEF Send, TypeOK, counters

LEMMA PoppedIs ==
  ASSUME TypeOK
  PROVE  Popped \in Seq(Buffer)
<1>1. bufs \in Seq(Buffer)
  BY DEF TypeOK
<1>2. bufs # << >> => Below(bufs) \in Seq(Buffer)
  BY <1>1, LastOf
<1> QED BY <1>1, <1>2 DEF Popped

LEMMA DestructsTypes ==
  ASSUME TypeOK, NEW stack \in Seq(Op), Destructs(stack)
  PROVE  /\ bufs # << >> /\ bufs' = Below(bufs) /\ bufs' \in Seq(Buffer)
         /\ ops' \in Seq(Op) /\ nInPlace' \in 0 .. MaxInPlace
<1>1. bufs # << >> /\ bufs' = Below(bufs) /\ bufs \in Seq(Buffer)
  BY DEF Destructs, TypeOK
<1>2. bufs' \in Seq(Buffer) /\ Len(bufs) \in Nat
  BY <1>1, LastOf
<1>3. Append(stack, Release(Len(bufs))) \in Seq(Op)
  BY <1>2, ReleaseIs, AppendIs
<1>4. CodeOver({"destructor"}, Append(stack, Release(Len(bufs))))
  BY DEF Destructs
<1> QED BY <1>1, <1>2, <1>3, <1>4, CodeOverTypes

LEMMA PopDestructsTypes == TypeOK /\ PopDestructs => TypeOK'
<1> SUFFICES ASSUME TypeOK, PopDestructs PROVE TypeOK'
  OBVIOUS
<1>1. GoTo("popped") \in Seq(Op)
  BY RaisedIs DEF PopDestructs, AtStage, Stages
<1>2. bufs' \in Seq(Buffer) /\ ops' \in Seq(Op) /\ nInPlace' \in 0 .. MaxInPlace
  BY <1>1, DestructsTypes DEF PopDestructs
<1> QED BY <1>2, RestTypes DEF PopDestructs, TypeOK

LEMMA RestoredTypes == TypeOK /\ Restored => TypeOK'
<1> SUFFICES ASSUME TypeOK, Restored PROVE TypeOK'
  OBVIOUS
<1>1. ops # << >> /\ ops \in Seq(Op) /\ bufs \in Seq(Buffer)
  BY DEF Restored, AtStage, TypeOK
<1>2. ops' \in Seq(Op)
  BY <1>1, LastOf DEF Restored
<1>3. bufs' \in Seq(Buffer)
  <2>1. CASE Top.slot \in DOMAIN bufs
    <3>1. PICK buf \in Buffer, none \in Seq(Byte) : buf = bufs[Top.slot] /\ none = << >>
      <4>1. << >> \in Seq(Byte)
        OBVIOUS
      <4>2. bufs[Top.slot] \in Buffer
        BY <1>1, <2>1
      <4> QED BY <4>1, <4>2, Zenon
    <3>2. [buf EXCEPT !.user = FALSE, !.data = none] \in Buffer
      BY DEF Buffer
    <3>3. bufs' = [bufs EXCEPT ![Top.slot] = [buf EXCEPT !.user = FALSE, !.data = none]]
      BY <1>1, <2>1, <3>1 DEF Restored
    <3> QED BY <1>1, <2>1, <3>2, <3>3
  <2>2. CASE Top.slot \notin DOMAIN bufs
    BY <1>1, <2>2 DEF Restored
  <2> QED BY <2>1, <2>2
<1> QED BY <1>2, <1>3, RestTypes DEF Restored, TypeOK, counters

LEMMA BailOutTypes == TypeOK /\ BailOut => TypeOK'
<1> SUFFICES ASSUME TypeOK, BailOut PROVE TypeOK'
  OBVIOUS
<1>1. GoTo("bail") \in Seq(Op) /\ Popped \in Seq(Buffer)
  BY RaisedIs, PoppedIs DEF BailOut, AtStage, Stages
<1>2. ops' \in Seq(Op) /\ nInPlace' \in 0 .. MaxInPlace
  <2>1. \/ ops' = GoTo("bail") /\ nInPlace' = nInPlace
        \/ CodeOver({"exceptionHandler"}, GoTo("bail"))
    BY DEF BailOut
  <2> QED BY <1>1, <2>1, CodeOverTypes DEF TypeOK
<1> QED BY <1>1, <1>2, RestTypes DEF BailOut, TypeOK

LEMMA BailPopsTypes == TypeOK /\ BailPops => TypeOK'
<1> SUFFICES ASSUME TypeOK, BailPops PROVE TypeOK'
  OBVIOUS
<1>1. ops # << >> /\ ops \in Seq(Op) /\ bufs \in Seq(Buffer)
  BY DEF BailPops, AtStage, TypeOK
<1>2. CASE bufs = << >>
  <2>1. ops' \in Seq(Op)
    BY <1>1, <1>2, LastOf DEF BailPops
  <2> QED BY <1>2, <2>1, RestTypes DEF BailPops, TypeOK
<1>3. CASE bufs # << >>
  <2>1. bufs' \in Seq(Buffer) /\ ops' \in Seq(Op) /\ nInPlace' \in 0 .. MaxInPlace
    <3>1. \/ Destructs(ops)
          \/ bufs' = Below(bufs) /\ ops' = ops /\ nInPlace' = nInPlace
      BY <1>3 DEF BailPops
    <3> QED BY <1>1, <1>3, <3>1, DestructsTypes, LastOf DEF TypeOK
  <2>2. lost' \subseteq 1 .. MaxBytes
    <3>1. Last(bufs) \in Buffer
      BY <1>1, <1>3, LastOf
    <3>2. ScriptBytes(Last(bufs).data) \subseteq 1 .. MaxBytes
      BY <3>1, BufferParts, BoundsAre, ScriptBytesIn
    <3> QED BY <1>3, <3>2 DEF BailPops, TypeOK
  <2> QED BY <1>3, <2>1, <2>2, RestTypes DEF BailPops, TypeOK
<1> QED BY <1>2, <1>3

LEMMA FinishTypes == TypeOK /\ Finish => TypeOK'
<1> SUFFICES ASSUME TypeOK, Finish PROVE TypeOK'
  OBVIOUS
<1>1. ops # << >> /\ ops \in Seq(Op) /\ Popped \in Seq(Buffer)
  BY PoppedIs DEF Finish, AtStage, TypeOK
<1>2. Below(ops) \in Seq(Op)
  BY <1>1, LastOf
<1>3. \A kinds : CodeOver(kinds, Below(ops)) =>
        ops' \in Seq(Op) /\ nInPlace' \in 0 .. MaxInPlace
  BY <1>2, CodeOverTypes
<1>4. << >> \in Seq(Buffer) /\ << >> \in Seq(Op)
  OBVIOUS
<1>5. bufs' \in Seq(Buffer) /\ ops' \in Seq(Op)
  BY <1>1, <1>2, <1>3, <1>4 DEF Finish
<1>6. halted' \in BOOLEAN /\ nInPlace' \in 0 .. MaxInPlace
  <2>1. halted \in BOOLEAN /\ nInPlace \in 0 .. MaxInPlace
    BY DEF TypeOK
  <2>2. halted' \in {halted, TRUE}
    BY DEF Finish
  <2>3. nInPlace' = nInPlace \/ nInPlace' \in 0 .. MaxInPlace
    BY <1>3 DEF Finish
  <2>4. halted' \in BOOLEAN
    BY <2>1, <2>2
  <2>5. nInPlace' \in 0 .. MaxInPlace
    BY <2>1, <2>3
  <2> QED BY <2>4, <2>5
<1>7. lost' \subseteq 1 .. MaxBytes
  <2>1. \A i \in DOMAIN Popped : ScriptBytes(Popped[i].data) \subseteq 1 .. MaxBytes
    <3> TAKE i \in DOMAIN Popped
    <3>1. Popped[i] \in Buffer
      BY <1>1
    <3> QED BY <3>1, BufferParts, BoundsAre, ScriptBytesIn
  <2>2. \/ lost' = lost
        \/ lost' = lost \cup UNION {ScriptBytes(Popped[i].data) : i \in DOMAIN Popped}
    BY DEF Finish
  <2>3. lost \subseteq 1 .. MaxBytes
    BY DEF TypeOK
  <2>4. UNION {ScriptBytes(Popped[i].data) : i \in DOMAIN Popped} \subseteq 1 .. MaxBytes
    BY <2>1
  <2> QED BY <2>2, <2>3, <2>4
<1> QED BY <1>5, <1>6, <1>7, RestTypes DEF Finish, TypeOK

LEMMA FlushAllTypes == TypeOK /\ FlushAll => TypeOK'
<1> SUFFICES ASSUME TypeOK, FlushAll PROVE TypeOK'
  OBVIOUS
<1>1. bufs' \in Seq(Buffer) /\ ops' \in Seq(Op) /\ phase' \in {"run", "shutdown", "end"}
  <2>1. CASE bufs = << >>
    BY <2>1 DEF FlushAll, TypeOK
  <2>2. CASE bufs # << >>
    BY <2>2, BeginGives DEF FlushAll, TypeOK
  <2> QED BY <2>1, <2>2
<1> QED BY <1>1, RestTypes DEF FlushAll, TypeOK, counters

LEMMA StepTypes == TypeOK /\ [Next]_vars => TypeOK'
<1> SUFFICES ASSUME TypeOK, [Next]_vars PROVE TypeOK'
  OBVIOUS
<1>1. CASE Script
  BY <1>1, EchoTypes, ObStartTypes, OperateTypes
  DEF Script, ObClean, ObFlush, ObEndClean, ObEndFlush
<1>2. ASSUME NEW answer \in Answers, HandlerReturns(answer)
      PROVE  TypeOK'
  <2>1. halted' \in BOOLEAN
    BY <1>2 DEF HandlerReturns, TypeOK
  <2> QED BY <1>2, <2>1, HandlerTypes DEF HandlerReturns
<1>3. CASE HandlerRefused
  BY <1>3, HandlerTypes DEF HandlerRefused, Answers, Failures
<1>4. CASE Deprecated
  <2>1. ops # << >>
    BY <1>4 DEF Deprecated, AtStage
  <2>2. ops' \in Seq(Op)
    BY <1>4, <2>1, RaisedIs DEF Deprecated, Stages
  <2> QED BY <1>4, <2>2, RestTypes DEF Deprecated, TypeOK, counters
<1>5. CASE ShutdownFunctions \/ ScriptEnds
  BY <1>5, RestTypes DEF ShutdownFunctions, ScriptEnds, TypeOK, counters
<1>6. CASE UNCHANGED vars
  BY <1>6, RestTypes DEF TypeOK, vars, counters
<1>7. CASE Engine
  BY <1>7, <1>2, <1>4, DeprecateTypes, CastTypes, SendTypes, PopDestructsTypes, RestoredTypes,
     FinishTypes, BailOutTypes, BailPopsTypes, CodeReturnsTypes, FlushAllTypes
  DEF Engine
<1> QED
  BY <1>1, <1>3, <1>5, <1>6, <1>7, HandlerPrintsTypes DEF Next, Terminated

(* Every variable keeps to its type, whatever the programs and whatever    *)
(* code cuts into an operation.                                            *)
THEOREM Typing == Spec => []TypeOK
  BY InitTypes, StepTypes, PTL DEF Spec

---------------------------------------------------------------------------
(* Bytes in one layer.                                                     *)

LEMMA NoneIs ==
  ASSUME NEW s, NoScript(s)
  PROVE  /\ Rising(s) /\ ScriptBytes(s) = {}
         /\ \A t : Before(s, t) /\ Before(t, s)
  BY DEF NoScript, Rising, Before, ScriptBytes

LEMMA EmptyIs == NoScript(<< >>)
  BY DEF NoScript

LEMMA NoScriptIs ==
  ASSUME NEW s, ScriptBytes(s) = {}
  PROVE  NoScript(s)
  BY DEF NoScript, ScriptBytes

LEMMA JoinedIs ==
  ASSUME NEW s \in Seq(Byte), NEW w \in Seq(Byte)
  PROVE  /\ s \o w \in Seq(Byte)
         /\ Rising(s) /\ Rising(w) /\ Before(s, w) => Rising(s \o w)
         /\ \A u : Before(u, s) /\ Before(u, w) => Before(u, s \o w)
         /\ \A u : Before(s, u) /\ Before(w, u) => Before(s \o w, u)
         /\ ScriptBytes(s \o w) = ScriptBytes(s) \cup ScriptBytes(w)
         /\ NoScript(s) /\ NoScript(w) => NoScript(s \o w)
<1> DEFINE z == s \o w
<1>1. z \in Seq(Byte) /\ Len(z) = Len(s) + Len(w) /\ Len(s) \in Nat /\ Len(w) \in Nat
      /\ DOMAIN s = 1 .. Len(s) /\ DOMAIN w = 1 .. Len(w) /\ DOMAIN z = 1 .. Len(z)
  OBVIOUS
<1>2. \A i \in 1 .. Len(z) : z[i] = IF i <= Len(s) THEN s[i] ELSE w[i - Len(s)]
  OBVIOUS
<1> HIDE DEF z
<1>3. \A i \in DOMAIN s : i \in DOMAIN z /\ z[i] = s[i]
  BY <1>1, <1>2
<1>4. \A i \in DOMAIN w : Len(s) + i \in DOMAIN z /\ z[Len(s) + i] = w[i]
  BY <1>1, <1>2
<1>5. \A i \in DOMAIN z : (i \in DOMAIN s /\ z[i] = s[i])
                          \/ (i > Len(s) /\ i - Len(s) \in DOMAIN w /\ z[i] = w[i - Len(s)])
  BY <1>1, <1>2
<1>6. ASSUME Rising(s), Rising(w), Before(s, w) PROVE Rising(z)
  <2> SUFFICES ASSUME NEW i \in DOMAIN z, NEW j \in DOMAIN z, i < j,
                      FromScript(z[i]), FromScript(z[j])
               PROVE  z[i] < z[j]
    BY DEF Rising
  <2>1. CASE j \in DOMAIN s /\ z[j] = s[j]
    <3>1. i \in DOMAIN s /\ z[i] = s[i]
      BY <1>1, <1>3, <2>1
    <3> QED BY <1>6, <2>1, <3>1 DEF Rising
  <2>2. CASE j > Len(s) /\ j - Len(s) \in DOMAIN w /\ z[j] = w[j - Len(s)]
    <3>1. CASE i \in DOMAIN s /\ z[i] = s[i]
      BY <1>6, <2>2, <3>1 DEF Before
    <3>2. CASE i > Len(s) /\ i - Len(s) \in DOMAIN w /\ z[i] = w[i - Len(s)]
      <4>1. i - Len(s) < j - Len(s)
        BY <1>1
      <4> QED BY <1>6, <2>2, <3>2, <4>1 DEF Rising
    <3> QED BY <1>5, <3>1, <3>2
  <2> QED BY <1>5, <2>1, <2>2
<1>7. ASSUME NEW u, Before(u, s), Before(u, w) PROVE Before(u, z)
  BY <1>5, <1>7 DEF Before
<1>8. ASSUME NEW u, Before(s, u), Before(w, u) PROVE Before(z, u)
  BY <1>5, <1>8 DEF Before
<1>9. ScriptBytes(z) = ScriptBytes(s) \cup ScriptBytes(w)
  <2>1. \A x : x \in ScriptBytes(z) <=> \E i \in DOMAIN z : FromScript(z[i]) /\ x = z[i]
    BY DEF ScriptBytes
  <2>2. \A x : x \in ScriptBytes(s) <=> \E i \in DOMAIN s : FromScript(s[i]) /\ x = s[i]
    BY DEF ScriptBytes
  <2>3. \A x : x \in ScriptBytes(w) <=> \E i \in DOMAIN w : FromScript(w[i]) /\ x = w[i]
    BY DEF ScriptBytes
  <2>4. \A x : x \in ScriptBytes(z) <=> x \in ScriptBytes(s) \/ x \in ScriptBytes(w)
    BY <1>3, <1>4, <1>5, <2>1, <2>2, <2>3
  <2> QED BY <2>4
<1>10. NoScript(s) /\ NoScript(w) => NoScript(z)
  BY <1>5 DEF NoScript
<1> QED BY <1>1, <1>6, <1>7, <1>8, <1>9, <1>10 DEF z

LEMMA CarriedIs ==
  ASSUME NEW w \in Seq(Byte), NEW d \in Seq(Byte), Carries(w, d)
  PROVE  /\ Rising(d) => Rising(w)
         /\ \A u : Before(u, d) => Before(u, w)
         /\ \A u : Before(d, u) => Before(w, u)
         /\ ScriptBytes(w) = ScriptBytes(d)
         /\ NoScript(d) => NoScript(w)
<1>1. DOMAIN w = 1 .. Len(w) /\ DOMAIN d = 1 .. Len(d) /\ Len(w) \in Nat /\ Len(d) \in Nat
  OBVIOUS
<1>2. \A i \in DOMAIN w : i \in DOMAIN d /\ w[i] = d[i]
  BY <1>1 DEF Carries
<1>3. \A i \in DOMAIN d : FromScript(d[i]) => i \in DOMAIN w
  BY <1>1 DEF Carries
<1>4. Rising(d) => Rising(w)
  BY <1>2 DEF Rising
<1>5. \A u : (Before(u, d) => Before(u, w)) /\ (Before(d, u) => Before(w, u))
  BY <1>2 DEF Before
<1>6. ScriptBytes(w) = ScriptBytes(d)
  <2>1. \A x : x \in ScriptBytes(w) <=> \E i \in DOMAIN w : FromScript(w[i]) /\ x = w[i]
    BY DEF ScriptBytes
  <2>2. \A x : x \in ScriptBytes(d) <=> \E i \in DOMAIN d : FromScript(d[i]) /\ x = d[i]
    BY DEF ScriptBytes
  <2> QED BY <1>2, <1>3, <2>1, <2>2
<1>7. NoScript(d) => NoScript(w)
  BY <1>2 DEF NoScript
<1> QED BY <1>4, <1>5, <1>6, <1>7

---------------------------------------------------------------------------
(* Bytes across the layers.                                                *)

Layered(n, c) == c \in [0 .. n -> Seq(Byte)]

LEMMA ContentIs ==
  ASSUME NEW b \in Seq(Buffer), NEW o \in Seq(Byte)
  PROVE  /\ Layered(Len(b), Content(b, o)) /\ DOMAIN Content(b, o) = 0 .. Len(b)
         /\ Content(b, o)[0] = o
         /\ \A k \in 1 .. Len(b) : Content(b, o)[k] = b[k].data
<1>1. Len(b) \in Nat
  OBVIOUS
<1>2. \A k \in 1 .. Len(b) : b[k].data \in Seq(Byte)
  <2> TAKE k \in 1 .. Len(b)
  <2>1. b[k] \in Buffer
    OBVIOUS
  <2> QED BY <2>1, BufferParts
<1>3. \A k \in 0 .. Len(b) : k = 0 \/ k \in 1 .. Len(b)
  BY <1>1
<1> QED BY <1>1, <1>2, <1>3 DEF Content, Layered

LEMMA HoldsIs ==
  ASSUME NEW c, NEW x
  PROVE  x \in Holds(c) <=> \E k \in DOMAIN c : x \in ScriptBytes(c[k])
  BY DEF Holds

(* Of the layers c, that become d: s is emptied; t takes the bytes w; those *)
(* between t and s have none of the script's, or there are none in w.       *)
Empties(n, c, d, s) == d[s] = << >> /\ \A k \in 0 .. n : k # s => d[k] = c[k]
Pours(n, c, d, t, w) == d[t] = c[t] \o w /\ \A k \in 0 .. n : k # t => d[k] = c[k]
Clear(n, c, t, s, w) ==
  \A k \in 0 .. n : t < k /\ k < s => NoScript(c[k]) \/ NoScript(w)

(* A layer takes bytes that come after all below and before all above it.  *)
LEMMA Poured ==
  ASSUME NEW n \in Nat, NEW c, Layered(n, c), NEW d, Layered(n, d),
         NEW t \in 0 .. n, NEW w \in Seq(Byte),
         Pours(n, c, d, t, w), Sorted(c), Rising(w),
         \A k \in 0 .. n : k <= t => Before(c[k], w),
         \A k \in 0 .. n : k > t => Before(w, c[k])
  PROVE  Sorted(d) /\ Holds(d) = Holds(c) \cup ScriptBytes(w)
<1>0. DOMAIN c = 0 .. n /\ DOMAIN d = 0 .. n
  BY DEF Layered
<1>1. c[t] \in Seq(Byte) /\ Before(c[t], w) /\ Rising(c[t])
  BY <1>0 DEF Sorted, Layered
<1>2. /\ Rising(d[t]) /\ ScriptBytes(d[t]) = ScriptBytes(c[t]) \cup ScriptBytes(w)
      /\ \A u : Before(u, c[t]) /\ Before(u, w) => Before(u, d[t])
      /\ \A u : Before(c[t], u) /\ Before(w, u) => Before(d[t], u)
  BY <1>1, JoinedIs DEF Pours
<1>3. \A k \in DOMAIN d : Rising(d[k])
  BY <1>0, <1>2 DEF Sorted, Pours
<1>4. ASSUME NEW k \in 0 .. n, NEW l \in 0 .. n, k < l
      PROVE  Before(d[k], d[l])
  <2>1. Before(c[k], c[l])
    BY <1>0, <1>4 DEF Sorted
  <2>2. CASE k = t
    <3>1. Before(w, c[l]) /\ d[l] = c[l]
      BY <1>4, <2>2 DEF Pours
    <3> QED BY <1>2, <2>1, <2>2, <3>1
  <2>3. CASE l = t
    <3>1. Before(c[k], w) /\ d[k] = c[k]
      BY <1>4, <2>3 DEF Pours
    <3> QED BY <1>2, <2>1, <2>3, <3>1
  <2> QED BY <2>1, <2>2, <2>3 DEF Pours
<1>5. Sorted(d)
  BY <1>0, <1>3, <1>4 DEF Sorted
<1>6. \A x : x \in Holds(d) <=> x \in Holds(c) \/ x \in ScriptBytes(w)
  BY <1>0, <1>2, HoldsIs DEF Pours
<1> QED BY <1>5, <1>6

LEMMA Drained ==
  ASSUME NEW n \in Nat, NEW c, Layered(n, c), NEW d, Layered(n, d),
         NEW s \in 0 .. n, Empties(n, c, d, s), Sorted(c)
  PROVE  Sorted(d) /\ Holds(c) = Holds(d) \cup ScriptBytes(c[s])
<1>0. DOMAIN c = 0 .. n /\ DOMAIN d = 0 .. n
  BY DEF Layered
<1>1. Rising(d[s]) /\ ScriptBytes(d[s]) = {} /\ \A t : Before(d[s], t) /\ Before(t, d[s])
  BY EmptyIs, NoneIs DEF Empties
<1>2. Sorted(d)
  BY <1>0, <1>1 DEF Sorted, Empties
<1>3. \A x : x \in Holds(c) <=> x \in Holds(d) \/ x \in ScriptBytes(c[s])
  BY <1>0, <1>1, HoldsIs DEF Empties
<1> QED BY <1>2, <1>3

(* What layer s held moves down to layer t; those between have none of     *)
(* the script's bytes, or there are none to move.                          *)
LEMMA Passed ==
  ASSUME NEW n \in Nat, NEW c, Layered(n, c), NEW e, Layered(n, e),
         NEW d, Layered(n, d), NEW s \in 0 .. n, NEW t \in 0 .. n, t < s,
         NEW w \in Seq(Byte), Carries(w, c[s]),
         Empties(n, c, e, s), Pours(n, e, d, t, w), Clear(n, c, t, s, w), Sorted(c)
  PROVE  Sorted(d) /\ Holds(d) = Holds(c)
<1>0. DOMAIN c = 0 .. n
  BY DEF Layered
<1>1. c[s] \in Seq(Byte)
  BY DEF Layered
<1>2. /\ Rising(w) /\ ScriptBytes(w) = ScriptBytes(c[s])
      /\ \A u : Before(u, c[s]) => Before(u, w)
      /\ \A u : Before(c[s], u) => Before(w, u)
  BY <1>0, <1>1, CarriedIs DEF Sorted
<1>3. Sorted(e) /\ Holds(c) = Holds(e) \cup ScriptBytes(c[s])
  BY Drained
<1>4. ASSUME NEW k \in 0 .. n, k <= t PROVE Before(e[k], w)
  <2>1. k < s /\ k # s
    BY <1>4
  <2>2. e[k] = c[k] /\ Before(c[k], c[s])
    BY <1>0, <2>1 DEF Sorted, Empties
  <2> QED BY <1>2, <2>2
<1>5. ASSUME NEW k \in 0 .. n, k > t PROVE Before(w, e[k])
  <2>1. CASE k < s
    <3>1. e[k] = c[k] /\ (NoScript(c[k]) \/ NoScript(w))
      BY <1>5, <2>1 DEF Empties, Clear
    <3> QED BY <3>1, NoneIs
  <2>2. CASE k = s
    BY <2>2, EmptyIs, NoneIs DEF Empties
  <2>3. CASE k > s
    <3>1. e[k] = c[k] /\ Before(c[s], c[k])
      BY <1>0, <2>3 DEF Sorted, Empties
    <3> QED BY <1>2, <3>1
  <2> QED BY <2>1, <2>2, <2>3
<1>6. Sorted(d) /\ Holds(d) = Holds(e) \cup ScriptBytes(w)
  BY <1>2, <1>3, <1>4, <1>5, Poured
<1> QED BY <1>2, <1>3, <1>6

---------------------------------------------------------------------------
(* The operations in progress, step by step.                               *)

(* What the invariant reads of a buffer, but for its bytes.                *)
SameButBytes(b, c) ==
  /\ Len(c) = Len(b)
  /\ \A i \in 1 .. Len(b) :
       /\ c[i].id = b[i].id /\ c[i].pinned = b[i].pinned
       /\ c[i].disabled = b[i].disabled /\ c[i].failed = b[i].failed

Waiting(os) == \A k \in DOMAIN os : os[k].at \in {"raising", "after"}

(* Bytes the script wrote that stand above slot i are those of operations  *)
(* in progress.                                                            *)
Above(b, os, i) == \A t \in DOMAIN b :
  t > i /\ ~NoScript(b[t].data) => \E m \in DOMAIN os : os[m].slot = t /\ os[m].at = "raising"

(* An operation may begin on slot j of b.                                  *)
MayBegin(b, os, ph, j, final) ==
  /\ Waiting(os) /\ Above(b, os, j)
  /\ \A k \in DOMAIN os : Under(os[k]) => os[k].slot # j
  /\ final => os = << >> /\ j = Len(b) /\ (ph = "run" => ~b[j].pinned)
  /\ os = << >> => (ph = "shutdown" => final)
  /\ ph # "end"

LEMMA CarriesItself ==
  ASSUME NEW s \in Seq(Byte)
  PROVE  Carries(s, s)
  BY DEF Carries

LEMMA BeginWorks ==
  ASSUME NEW b \in Seq(Buffer), NEW os \in Seq(Op), NEW ph, NEW j \in 1 .. Len(b),
         NEW clean \in BOOLEAN, NEW final \in BOOLEAN,
         Works(b, os, ph), MayBegin(b, os, ph, j, final)
  PROVE  Works(Disabled(b, j), Append(os, Begun(b, j, clean, final)), ph)
<1> DEFINE c == Disabled(b, j)
           o == Begun(b, j, clean, final)
           s == Append(os, o)
           n == Len(os)
<1>1. c \in Seq(Buffer) /\ Len(c) = Len(b) /\ o \in Op /\ b[j] \in Buffer
  <2>1. c \in Seq(Buffer) /\ Len(c) = Len(b)
    BY BeginTypes
  <2>2. o \in Op
    BY BeginTypes
  <2>3. b[j] \in Buffer
    OBVIOUS
  <2> QED BY <2>1, <2>2, <2>3
<1>2. DOMAIN b = 1 .. Len(b) /\ DOMAIN c = 1 .. Len(b) /\ DOMAIN os = 1 .. n /\ n \in Nat
  BY <1>1
<1>3. /\ \A k \in 1 .. Len(b) :
           /\ c[k].id = b[k].id /\ c[k].pinned = b[k].pinned /\ c[k].data = b[k].data
           /\ c[k].failed = b[k].failed
           /\ k # j => c[k] = b[k]
      /\ c[j].disabled <=> b[j].disabled \/ Calls(b[j])
  <2>1. \A k \in 1 .. Len(b) \ {j} : c[k] = b[k]
    BY BeginTypes
  <2>2. /\ c[j].id = b[j].id /\ c[j].pinned = b[j].pinned /\ c[j].data = b[j].data
        /\ c[j].failed = b[j].failed
        /\ c[j].disabled <=> b[j].disabled \/ Calls(b[j])
    BY BeginTypes
  <2> QED BY <2>1, <2>2
<1>4. /\ o.slot = j /\ o.id = b[j].id /\ o.final = final /\ o.data = b[j].data
      /\ o.answer = "none" /\ o.at = IF Calls(b[j]) THEN "handler" ELSE "send"
      /\ Under(o)
  BY DEF Begun, Under
<1> HIDE DEF c, o
<1>5. /\ DOMAIN s = 1 .. n + 1 /\ Len(s) = n + 1 /\ s[n + 1] = o
      /\ \A k \in DOMAIN os : k \in 1 .. n + 1 /\ s[k] = os[k] /\ k < n + 1
      /\ \A k \in DOMAIN s : k \in DOMAIN os \/ k = n + 1
  BY <1>1, <1>2, AppendIs
<1> HIDE DEF s
<1>6. Called(o) <=> Calls(b[j])
  BY <1>4 DEF Called
<1>7. \A k \in DOMAIN os : Under(os[k]) => os[k].slot # j
  BY DEF MayBegin
<1>8. \A k \in DOMAIN os : Called(os[k]) => Under(os[k])
  BY DEF Called
<1>9. Stacked(c, s)
  <2>1. \A k \in DOMAIN s : s[k].at \notin CutInto /\ s[k].slot \in DOMAIN c
    BY <1>2, <1>4, <1>5 DEF Works, Stacked, CutInto
  <2>2. \A k \in DOMAIN s : k < Len(s) => s[k].at \in {"raising", "after"}
    <3>1. \A k \in DOMAIN s : k < Len(s) => k \in DOMAIN os /\ s[k] = os[k]
      BY <1>2, <1>5
    <3> QED BY <3>1 DEF MayBegin, Waiting
  <2>3. \A k \in DOMAIN s : s[k].at \in {"raise", "raising"} => s[k].answer # "none"
    BY <1>4, <1>5 DEF Works, Stacked
  <2>4. \A k, l \in DOMAIN s :
          Under(s[k]) /\ Under(s[l]) /\ s[k].slot = s[l].slot => k = l
    BY <1>4, <1>5, <1>7, ZenonT(40) DEF Works, Stacked
  <2> QED BY <2>1, <2>2, <2>3, <2>4 DEF Stacked
<1>10. Switched(c, s)
  <2>1. \A k \in DOMAIN os : os[k].slot \in 1 .. Len(b)
    BY <1>2 DEF Works, Stacked
  <2>2. b[j].failed => b[j].disabled /\ b[j].data = << >>
    BY <1>2 DEF Works, Switched
  <2>3. \A k \in DOMAIN s :
          Called(s[k]) => c[s[k].slot].disabled /\ ~c[s[k].slot].failed
    <3>1. ASSUME NEW k \in DOMAIN os, Called(os[k])
          PROVE  c[os[k].slot].disabled /\ ~c[os[k].slot].failed
      BY <1>3, <1>7, <1>8, <2>1, <3>1 DEF Works, Switched
    <3>2. Called(o) => c[o.slot].disabled /\ ~c[o.slot].failed
      BY <1>3, <1>4, <1>6, <2>2 DEF Calls
    <3> QED BY <1>5, <3>1, <3>2
  <2>4. \A i \in DOMAIN c : c[i].failed => c[i].disabled /\ c[i].data = << >>
    BY <1>2, <1>3 DEF Works, Switched
  <2>5. ASSUME NEW i \in DOMAIN c, c[i].disabled
        PROVE  c[i].failed \/ \E k \in DOMAIN s : Called(s[k]) /\ s[k].slot = i
    <3>1. CASE b[i].disabled
      <4>1. b[i].failed \/ \E k \in DOMAIN os : Called(os[k]) /\ os[k].slot = i
        BY <1>2, <3>1 DEF Works, Switched
      <4> QED BY <1>2, <1>3, <1>5, <4>1
    <3>2. CASE ~b[i].disabled
      <4>1. i = j /\ Called(o)
        BY <1>2, <1>3, <1>6, <2>5, <3>2
      <4> QED BY <1>2, <1>4, <1>5, <4>1
    <3> QED BY <3>1, <3>2
  <2> QED BY <2>3, <2>4, <2>5 DEF Switched
<1>11. Taken(c, s)
  <2>1. \A k \in DOMAIN os : os[k].slot \in 1 .. Len(b)
    BY <1>2 DEF Works, Stacked
  <2>2. Carries(o.data, c[o.slot].data)
    BY <1>1, <1>3, <1>4, CarriesItself, BufferParts
  <2>3. \A k \in DOMAIN s : Under(s[k]) => Carries(s[k].data, c[s[k].slot].data)
    BY <1>3, <1>5, <2>1, <2>2 DEF Works, Taken
  <2>4. \A k \in DOMAIN s : s[k].at = "after" => NoScript(c[s[k].slot].data)
    <3>1. o.at # "after"
      BY <1>4
    <3> QED BY <1>3, <1>5, <2>1, <3>1, SMTT(40) DEF Works, Taken
  <2>5. ASSUME NEW k \in DOMAIN s, NEW i \in DOMAIN c, i > s[k].slot, ~NoScript(c[i].data)
        PROVE  \E m \in DOMAIN s : m < k /\ s[m].slot = i /\ s[m].at = "raising"
    <3>1. i \in DOMAIN b /\ ~NoScript(b[i].data)
      BY <1>2, <1>3, <2>5
    <3>2. CASE k \in DOMAIN os
      <4>1. \E m \in DOMAIN os : m < k /\ os[m].slot = i /\ os[m].at = "raising"
        BY <1>5, <2>5, <3>1, <3>2 DEF Works, Taken
      <4> QED BY <1>5, <4>1
    <3>3. CASE k = n + 1
      <4>1. i > j
        BY <1>4, <1>5, <2>5, <3>3
      <4>2. \E m \in DOMAIN os : os[m].slot = i /\ os[m].at = "raising"
        BY <3>1, <4>1 DEF MayBegin, Above
      <4> QED BY <1>5, <3>3, <4>2
    <3> QED BY <1>5, <3>2, <3>3
  <2> QED BY <2>3, <2>4, <2>5 DEF Taken
<1>12. Doors(c, s, ph)
  <2>1. Len(b) \in 1 .. Len(b)
    BY <1>2
  <2>2. \A k \in DOMAIN s : s[k].final =>
          /\ k = 1 /\ s[k].slot = Len(c) /\ s[k].id = c[Len(c)].id
          /\ ph = "run" => ~c[Len(c)].pinned
    <3>1. ASSUME NEW k \in DOMAIN os, os[k].final
          PROVE  /\ k = 1 /\ os[k].slot = Len(b) /\ os[k].id = b[Len(b)].id
                 /\ ph = "run" => ~b[Len(b)].pinned
      BY <3>1 DEF Works, Doors
    <3>2. ASSUME o.final
          PROVE  /\ n + 1 = 1 /\ o.slot = Len(b) /\ o.id = b[Len(b)].id
                 /\ ph = "run" => ~b[Len(b)].pinned
      BY <1>4, <3>2 DEF MayBegin
    <3> QED BY <1>1, <1>3, <1>5, <2>1, <3>1, <3>2
  <2>3. ph = "shutdown" => s[1].final
    <3>1. CASE os = << >>
      <4>1. n = 0
        BY <3>1
      <4>2. s[1] = o
        BY <1>5, <4>1
      <4>3. ph = "shutdown" => final
        BY <3>1 DEF MayBegin
      <4> QED BY <1>4, <4>2, <4>3
    <3>2. CASE os # << >>
      <4>1. 1 \in DOMAIN os
        BY <3>2
      <4> QED BY <1>5, <3>2, <4>1 DEF Works, Doors
    <3> QED BY <3>1, <3>2
  <2> QED BY <2>2, <2>3 DEF Doors, MayBegin
<1> QED BY <1>9, <1>10, <1>11, <1>12 DEF Works, c, o, s

(* Bytes w may be passed to the buffers at or below slot i.                *)
MaySink(b, os, ph, i, w) ==
  /\ Waiting(os) /\ Above(b, os, i)
  /\ NoScript(w) \/ \A k \in DOMAIN os : os[k].slot > i
  /\ os = << >> => ph = "run"

(* A disabled buffer is empty, or held by an operation that waits.         *)
LEMMA DisabledIs ==
  ASSUME NEW b \in Seq(Buffer), NEW os \in Seq(Op), NEW ph, NEW k \in DOMAIN b,
         Works(b, os, ph), Waiting(os), b[k].disabled
  PROVE  \/ NoScript(b[k].data)
         \/ \E m \in DOMAIN os : os[m].slot = k /\ os[m].at = "raising"
<1>1. CASE b[k].failed
  BY <1>1, EmptyIs DEF Works, Switched
<1>2. CASE ~b[k].failed
  <2>1. PICK m \in DOMAIN os : Called(os[m]) /\ os[m].slot = k
    BY <1>2 DEF Works, Switched
  <2>2. os[m].at = "raising"
    BY <2>1 DEF Waiting, Called, Under
  <2> QED BY <2>1, <2>2
<1> QED BY <1>1, <1>2

LEMMA FillWorks ==
  ASSUME NEW b \in Seq(Buffer), NEW os \in Seq(Op), NEW ph, NEW i \in 0 .. Len(b),
         NEW w \in Seq(Byte), NEW produced \in BOOLEAN, NEW j \in 1 .. i,
         ~b[j].disabled, \A k \in j + 1 .. i : b[k].disabled,
         Works(b, os, ph), MaySink(b, os, ph, i, w)
  PROVE  /\ Works(Filled(b, j, w, produced), os, ph)
         /\ MayBegin(Filled(b, j, w, produced), os, ph, j, FALSE)
<1> DEFINE c == Filled(b, j, w, produced)
<1>0. Len(b) \in Nat /\ j \in 1 .. Len(b) /\ b[j] \in Buffer
  OBVIOUS
<1>1. DOMAIN b = 1 .. Len(b) /\ DOMAIN os = 1 .. Len(os) /\ Len(os) \in Nat
  OBVIOUS
<1>2. /\ c \in Seq(Buffer) /\ Len(c) = Len(b)
      /\ \A k \in 1 .. Len(b) \ {j} : c[k] = b[k]
  BY <1>0, FilledIs
<1>4. /\ c[j].id = b[j].id /\ c[j].pinned = b[j].pinned /\ c[j].data = b[j].data \o w
      /\ c[j].failed = b[j].failed /\ c[j].disabled = b[j].disabled
  BY <1>0, FilledIs
<1> HIDE DEF c
<1>3. DOMAIN c = 1 .. Len(b)
  BY <1>2
<1>5. /\ SameButBytes(b, c)
      /\ \A k \in 1 .. Len(b) : k # j => c[k].data = b[k].data
  BY <1>2, <1>4 DEF SameButBytes
<1>6. NoScript(b[j].data) /\ NoScript(w) => NoScript(c[j].data)
  <2>1. b[j].data \in Seq(Byte)
    BY <1>0, BufferParts
  <2> QED BY <1>4, <2>1, JoinedIs
<1>7. \A k \in DOMAIN os : os[k].slot \in 1 .. Len(b)
  BY <1>1 DEF Works, Stacked
<1>8. ASSUME NEW k \in DOMAIN os, Under(os[k])
      PROVE  Called(os[k]) /\ os[k].slot # j
  <2>1. os[k].at = "raising"
    BY <1>8 DEF MaySink, Waiting, Under
  <2>2. Called(os[k])
    BY <1>8, <2>1 DEF Works, Stacked, Called
  <2> QED BY <2>2 DEF Works, Switched
<1>9. Stacked(c, os)
  BY <1>1, <1>3 DEF Works, Stacked
<1>10. Switched(c, os)
  <2>1. \A k \in DOMAIN os :
          Called(os[k]) => c[os[k].slot].disabled /\ ~c[os[k].slot].failed
    BY <1>5, <1>7 DEF SameButBytes, Works, Switched
  <2>2. \A k \in DOMAIN b : b[k].failed => k # j
    BY DEF Works, Switched
  <2>3. \A k \in DOMAIN c : c[k].failed => c[k].disabled /\ c[k].data = << >>
    BY <1>1, <1>3, <1>5, <2>2 DEF SameButBytes, Works, Switched
  <2>4. \A k \in DOMAIN c : c[k].disabled =>
          c[k].failed \/ \E m \in DOMAIN os : Called(os[m]) /\ os[m].slot = k
    BY <1>1, <1>3, <1>5 DEF SameButBytes, Works, Switched
  <2> QED BY <2>1, <2>3, <2>4 DEF Switched
<1>11. \A k \in DOMAIN c : ~NoScript(c[k].data) =>
          ~NoScript(b[k].data) \/ (k = j /\ ~NoScript(w))
  BY <1>3, <1>5, <1>6
<1>12. Taken(c, os)
  <2>1. \A k \in DOMAIN os : Under(os[k]) => Carries(os[k].data, c[os[k].slot].data)
    BY <1>5, <1>7, <1>8 DEF Works, Taken
  <2>2. ASSUME NEW k \in DOMAIN os, os[k].at = "after"
        PROVE  NoScript(c[os[k].slot].data)
    <3>1. NoScript(b[os[k].slot].data)
      BY <2>2 DEF Works, Taken
    <3>2. os[k].slot = j => NoScript(w)
      BY <1>0 DEF MaySink
    <3> QED BY <1>3, <1>7, <1>11, <3>1, <3>2
  <2>3. ASSUME NEW k \in DOMAIN os, NEW t \in DOMAIN c, t > os[k].slot, ~NoScript(c[t].data)
        PROVE  \E m \in DOMAIN os : m < k /\ os[m].slot = t /\ os[m].at = "raising"
    <3>1. CASE ~NoScript(b[t].data)
      BY <1>1, <1>3, <2>3, <3>1 DEF Works, Taken
    <3>2. CASE t = j /\ ~NoScript(w)
      <4>1. os[k].slot > i
        BY <3>2 DEF MaySink
      <4> QED BY <1>0, <1>7, <2>3, <3>2, <4>1
    <3> QED BY <1>11, <2>3, <3>1, <3>2
  <2> QED BY <2>1, <2>2, <2>3 DEF Taken
<1>13. Doors(c, os, ph)
  <2>1. Len(b) \in 1 .. Len(b)
    BY <1>0
  <2>2. /\ Len(c) = Len(b) /\ c[Len(b)].id = b[Len(b)].id
        /\ c[Len(b)].pinned = b[Len(b)].pinned
    BY <1>5, <2>1 DEF SameButBytes
  <2> QED BY <2>2 DEF Works, Doors
<1>14. MayBegin(c, os, ph, j, FALSE)
  <2>1. ASSUME NEW t \in DOMAIN c, t > j, ~NoScript(c[t].data)
        PROVE  \E m \in DOMAIN os : os[m].slot = t /\ os[m].at = "raising"
    <3>1. t \in DOMAIN b /\ ~NoScript(b[t].data)
      BY <1>1, <1>3, <1>5, <2>1
    <3>2. CASE t > i
      BY <3>1, <3>2 DEF MaySink, Above
    <3>3. CASE t <= i
      <4>1. t \in j + 1 .. i
        BY <1>0, <1>1, <2>1, <3>1, <3>3
      <4>2. b[t].disabled
        BY <4>1
      <4> QED BY <3>1, <4>2, DisabledIs DEF MaySink
    <3> QED BY <1>1, <3>1, <3>2, <3>3
  <2>2. ph # "end" /\ (os = << >> => ph # "shutdown")
    BY DEF MaySink, Works, Doors
  <2> QED BY <1>8, <2>1, <2>2 DEF MayBegin, Above, MaySink
<1> QED BY <1>9, <1>10, <1>12, <1>13, <1>14 DEF Works, c

(* The bytes w find their layer at or below i; those between take none.    *)
Finds(b, o, i, w, c, p) ==
  \E t \in 0 .. i :
    /\ Pours(Len(b), Content(b, o), Content(c, p), t, w)
    /\ Clear(Len(b), Content(b, o), t, i + 1, w)

LEMMA ClearAbove ==
  ASSUME NEW b \in Seq(Buffer), NEW os \in Seq(Op), NEW ph, NEW i \in 0 .. Len(b),
         NEW o \in Seq(Byte), NEW w \in Seq(Byte), NEW t \in 0 .. i,
         \A k \in t + 1 .. i : b[k].disabled,
         Works(b, os, ph), MaySink(b, os, ph, i, w)
  PROVE  Clear(Len(b), Content(b, o), t, i + 1, w)
<1> SUFFICES ASSUME NEW k \in 0 .. Len(b), t < k, k < i + 1
             PROVE  NoScript(Content(b, o)[k]) \/ NoScript(w)
  BY DEF Clear
<1>1. k \in t + 1 .. i /\ k \in 1 .. Len(b) /\ DOMAIN b = 1 .. Len(b)
  OBVIOUS
<1>2. Content(b, o)[k] = b[k].data
  BY <1>1, ContentIs
<1>3. b[k].disabled
  BY <1>1
<1>4. CASE \E m \in DOMAIN os : os[m].slot = k /\ os[m].at = "raising"
  <2>1. ~(\A m \in DOMAIN os : os[m].slot > i)
    BY <1>1, <1>4
  <2> QED BY <2>1 DEF MaySink
<1>5. CASE NoScript(b[k].data)
  BY <1>2, <1>5
<1>6. Waiting(os) /\ k \in DOMAIN b
  BY <1>1 DEF MaySink
<1>7. NoScript(b[k].data) \/ \E m \in DOMAIN os : os[m].slot = k /\ os[m].at = "raising"
  BY <1>3, <1>6, DisabledIs, SMTT(40)
<1> QED BY <1>4, <1>5, <1>7

LEMMA SinkWorks ==
  ASSUME NEW b \in Seq(Buffer), NEW os \in Seq(Op), NEW ph, NEW i \in 0 .. Len(b),
         NEW w \in Seq(Byte), out \in Seq(Byte),
         Works(b, os, ph), MaySink(b, os, ph, i, w), Sink(b, i, w, os)
  PROVE  Works(bufs', ops', ph) /\ Len(bufs') = Len(b) /\ Finds(b, out, i, w, bufs', out')
<1>0. i \in Int /\ i <= Len(b) /\ Len(b) \in Nat
  OBVIOUS
<1>1. CASE Spills(b, i, w, os)
  <2>1. bufs' = b /\ ops' = os /\ out' = out \o w /\ \A k \in 0 + 1 .. i : b[k].disabled
    BY <1>0, <1>1 DEF Spills
  <2>2. out \o w \in Seq(Byte)
    OBVIOUS
  <2>3. /\ Content(b, out)[0] = out /\ Content(b, out \o w)[0] = out \o w
        /\ \A k \in 1 .. Len(b) : Content(b, out \o w)[k] = Content(b, out)[k]
    <3> DEFINE p == out \o w
    <3> HIDE DEF p
    <3>1. p \in Seq(Byte)
      BY <2>2 DEF p
    <3>2. Content(b, p)[0] = p /\ \A k \in 1 .. Len(b) : Content(b, p)[k] = b[k].data
      BY <3>1, ContentIs
    <3>3. Content(b, out)[0] = out /\ \A k \in 1 .. Len(b) : Content(b, out)[k] = b[k].data
      BY ContentIs
    <3> QED BY <3>2, <3>3 DEF p
  <2>4. Pours(Len(b), Content(b, out), Content(b, out \o w), 0, w)
    BY <1>0, <2>3 DEF Pours
  <2>5. 0 \in 0 .. i
    BY <1>0
  <2>6. Clear(Len(b), Content(b, out), 0, i + 1, w)
    BY <2>1, <2>5, ClearAbove
  <2> QED BY <2>1, <2>4, <2>5, <2>6 DEF Finds
<1>2. CASE \E j \in 1 .. Len(b) : Fills(b, j, i, w, os)
  <2>1. PICK j \in 1 .. Len(b) : Fills(b, j, i, w, os)
    BY <1>2
  <2> DEFINE produced == b[j].produced \/ Raising(os)
  <2>2. produced \in BOOLEAN
    OBVIOUS
  <2> HIDE DEF produced
  <2> DEFINE c == Filled(b, j, w, produced)
  <2>3. /\ j \in 1 .. i /\ ~b[j].disabled /\ \A k \in j + 1 .. i : b[k].disabled
        /\ \/ bufs' = c /\ ops' = os
           \/ bufs' = Disabled(c, j) /\ ops' = Append(os, Begun(c, j, FALSE, FALSE))
        /\ out' = out
    BY <2>1 DEF Fills, produced
  <2>4. Works(c, os, ph) /\ MayBegin(c, os, ph, j, FALSE)
    BY <2>2, <2>3, FillWorks
  <2>5. /\ c \in Seq(Buffer) /\ Len(c) = Len(b)
        /\ \A k \in 1 .. Len(b) \ {j} : c[k] = b[k]
    BY <2>2, FilledIs
  <2>6. c[j].data = b[j].data \o w
    BY <2>2, FilledIs
  <2> HIDE DEF c
  <2>7. /\ Disabled(c, j) \in Seq(Buffer) /\ Len(Disabled(c, j)) = Len(c)
        /\ \A k \in 1 .. Len(c) : Disabled(c, j)[k].data = c[k].data
    <3>1. /\ Disabled(c, j) \in Seq(Buffer) /\ Len(Disabled(c, j)) = Len(c)
          /\ \A k \in 1 .. Len(c) \ {j} : Disabled(c, j)[k] = c[k]
          /\ Disabled(c, j)[j].data = c[j].data
      BY <2>5, BeginTypes, ZenonT(40)
    <3> QED BY <3>1
  <2>8. Works(bufs', ops', ph)
    <3>1. FALSE \in BOOLEAN
      OBVIOUS
    <3>2. Works(Disabled(c, j), Append(os, Begun(c, j, FALSE, FALSE)), ph)
      BY <2>4, <2>5, <3>1, BeginWorks
    <3> QED BY <2>3, <2>4, <3>2
  <2>9. /\ bufs' \in Seq(Buffer) /\ Len(bufs') = Len(b)
        /\ \A k \in 1 .. Len(b) : bufs'[k].data = c[k].data
    BY <2>3, <2>5, <2>7
  <2>10. /\ Content(bufs', out')[0] = out /\ Content(b, out)[0] = out
         /\ \A k \in 1 .. Len(b) : Content(bufs', out')[k] = c[k].data
         /\ \A k \in 1 .. Len(b) : Content(b, out)[k] = b[k].data
    BY <2>3, <2>9, ContentIs
  <2>11. Pours(Len(b), Content(b, out), Content(bufs', out'), j, w)
    <3>1. \A k \in 0 .. Len(b) : k = 0 \/ k \in 1 .. Len(b)
      BY <1>0
    <3> QED BY <2>5, <2>6, <2>10, <3>1 DEF Pours
  <2>12. j \in 0 .. i
    BY <2>3
  <2>13. Clear(Len(b), Content(b, out), j, i + 1, w)
    BY <2>3, <2>12, ClearAbove
  <2> QED BY <2>8, <2>9, <2>11, <2>12, <2>13 DEF Finds
<1> QED BY <1>0, <1>1, <1>2, SinkDoes

(* No operation stands where code of the program cut into it, and so       *)
(* nothing holds a pointer to a slot.                                      *)
LEMMA NotCutInto ==
  ASSUME TypeOK, NEW ph, Works(bufs, ops, ph), NEW at \in CutInto
  PROVE  ~AtStage(at) /\ ~Full
<1>1. ~AtStage(at)
  <2> SUFFICES ASSUME ops # << >>, Top.at = at PROVE FALSE
    BY DEF AtStage
  <2>1. Top = ops[Len(ops)] /\ Len(ops) \in DOMAIN ops
    BY TopIs
  <2> QED BY <2>1 DEF Works, Stacked
<1>2. ~Full
  BY DEF Full, Held, Works, Stacked, CutInto
<1> QED BY <1>1, <1>2

LEMMA EmptiedWorks ==
  ASSUME TypeOK, NEW ph, AtStage("send"), Works(bufs, ops, ph)
  PROVE  /\ Present
         /\ Works(Emptied, GoTo("after"), ph) /\ Waiting(GoTo("after"))
<1> DEFINE b == Emptied
           s == GoTo("after")
           n == Len(ops)
           i == Top.slot
<1>0. ops # << >> /\ Top.at = "send" /\ bufs \in Seq(Buffer) /\ ops \in Seq(Op)
  BY DEF AtStage, TypeOK
<1>1. /\ Top = ops[n] /\ n \in Nat \ {0} /\ n \in DOMAIN ops /\ DOMAIN ops = 1 .. n
      /\ DOMAIN bufs = 1 .. Len(bufs) /\ Len(bufs) \in Nat
      /\ Top \in Op /\ Top.answer \in Answers \cup {"none"}
  BY <1>0, TopIs
<1>2. Present /\ i \in 1 .. Len(bufs) /\ Entry = bufs[i]
  <2>1. i \in DOMAIN bufs
    BY <1>1 DEF Works, Stacked
  <2> QED BY <1>1, <2>1 DEF Present, Entry
<1>3. /\ b \in Seq(Buffer) /\ Len(b) = Len(bufs)
      /\ \A k \in 1 .. Len(bufs) : k # i => b[k] = bufs[k]
  BY <1>0, EmptiedIs
<1>4. /\ b[i].id = bufs[i].id /\ b[i].pinned = bufs[i].pinned /\ b[i].data = << >>
      /\ b[i].disabled <=> Top.answer \in Failures \/ (Top.answer = "none" /\ bufs[i].disabled)
      /\ b[i].failed <=> bufs[i].failed \/ Top.answer \in Failures
  <2>1. /\ b[i].id = bufs[i].id /\ b[i].pinned = bufs[i].pinned /\ b[i].data = << >>
        /\ b[i].disabled <=> bufs[i].disabled /\ ~Succeeded
        /\ b[i].failed <=> bufs[i].failed \/ Top.answer \in Failures
    BY <1>0, <1>2, EmptiedIs
  <2>2. Top.answer # "none" => bufs[i].disabled
    <3>1. Top.answer # "none" => Called(ops[n])
      BY <1>0, <1>1 DEF Called, Under
    <3> QED BY <1>1, <3>1 DEF Works, Switched
  <2>3. Succeeded <=> Top.answer \in {"string", "true"}
    BY <1>0 DEF Succeeded
  <2>4. Top.answer \in {"none", "string", "true"} <=> Top.answer \notin Failures
    BY <1>1 DEF Answers, Failures
  <2>5. Failures \cap {"none", "string", "true"} = {}
    BY DEF Failures
  <2> HIDE DEF b, i
  <2> QED BY <2>1, <2>2, <2>3, <2>4, <2>5
<1>5. /\ s = Onward("after", Top.answer) /\ s \in Seq(Op)
      /\ Len(s) = n /\ DOMAIN s = 1 .. n /\ \A k \in 1 .. n - 1 : s[k] = ops[k]
      /\ s[n] = [Top EXCEPT !.answer = Top.answer, !.at = "after"]
  <2>1. "after" \in Stages
    BY DEF Stages
  <2>2. s = Onward("after", Top.answer) /\ s \in Seq(Op)
    BY <1>0, <2>1, RaisedIs
  <2> HIDE DEF s
  <2>3. /\ Len(Onward("after", Top.answer)) = n
        /\ DOMAIN Onward("after", Top.answer) = 1 .. n
        /\ \A k \in 1 .. n - 1 : Onward("after", Top.answer)[k] = ops[k]
        /\ Onward("after", Top.answer)[n] = [Top EXCEPT !.answer = Top.answer, !.at = "after"]
    BY <1>0, <1>1, <2>1, OnwardIs
  <2> QED BY <2>2, <2>3
<1>6. /\ s[n].slot = i /\ s[n].id = Top.id /\ s[n].final = Top.final /\ s[n].at = "after"
      /\ ~Under(s[n]) /\ ~Called(s[n])
  <2>1. s[n].slot = i /\ s[n].id = Top.id /\ s[n].final = Top.final /\ s[n].at = "after"
    BY <1>1, <1>5 DEF Op
  <2> QED BY <2>1 DEF Under, Called
<1>7. DOMAIN b = 1 .. Len(bufs)
  BY <1>3
<1> HIDE DEF b, s, n, i
<1>8. \A k \in DOMAIN s :
        /\ k \in DOMAIN ops
        /\ s[k].slot = ops[k].slot /\ s[k].id = ops[k].id /\ s[k].final = ops[k].final
        /\ k # n => k < n /\ s[k] = ops[k]
  <2>1. \A k \in DOMAIN s : k # n => k \in 1 .. n - 1
    BY <1>1, <1>5
  <2>2. \A k \in DOMAIN s : k # n => k < n /\ s[k] = ops[k]
    BY <1>1, <1>5, <2>1
  <2> QED BY <1>1, <1>5, <1>6, <2>2 DEF i
<1>a. DOMAIN s = DOMAIN ops
  BY <1>1, <1>5
<1>9. Under(Top) /\ \A k \in DOMAIN s : k # n /\ Under(s[k]) => s[k].slot # i
  <2>1. Under(ops[n])
    BY <1>0, <1>1 DEF Under
  <2>2. \A k \in DOMAIN ops : Under(ops[k]) /\ ops[k].slot = ops[n].slot => k = n
    BY <1>1, <2>1 DEF Works, Stacked
  <2> QED BY <1>1, <1>8, <2>1, <2>2 DEF i
<1>10. \A k \in DOMAIN s : s[k].slot \in 1 .. Len(bufs)
  BY <1>1, <1>8 DEF Works, Stacked
<1>11. Waiting(s)
  <2>1. \A k \in DOMAIN ops : k < n => ops[k].at \in {"raising", "after"}
    BY DEF Works, Stacked, n
  <2> QED BY <1>6, <1>8, <2>1 DEF Waiting
<1>12. Stacked(b, s)
  <2>1. \A k \in DOMAIN s : s[k].at \notin CutInto /\ s[k].slot \in DOMAIN b
    BY <1>7, <1>10, <1>11 DEF Waiting, CutInto
  <2>2. \A k \in DOMAIN s : s[k].at \in {"raise", "raising"} => s[k].answer # "none"
    BY <1>6, <1>8 DEF Works, Stacked
  <2>3. \A k, l \in DOMAIN s :
          Under(s[k]) /\ Under(s[l]) /\ s[k].slot = s[l].slot => k = l
    BY <1>6, <1>8 DEF Works, Stacked
  <2> QED BY <1>11, <2>1, <2>2, <2>3 DEF Stacked, Waiting
<1>13. Switched(b, s)
  <2>1. ASSUME NEW k \in DOMAIN s, Called(s[k])
        PROVE  b[s[k].slot].disabled /\ ~b[s[k].slot].failed
    <3>1. k # n /\ s[k] = ops[k] /\ k \in DOMAIN ops
      BY <1>6, <1>8, <2>1
    <3>2. s[k].slot # i
      BY <1>9, <2>1, <3>1 DEF Called
    <3>3. b[s[k].slot] = bufs[s[k].slot]
      BY <1>3, <1>10, <3>2
    <3> QED BY <2>1, <3>1, <3>3 DEF Works, Switched
  <2>2. bufs[i].failed => bufs[i].disabled
    BY <1>1, <1>2 DEF Works, Switched, i
  <2>3. Called(Top) <=> Top.answer # "none"
    BY <1>0, <1>9 DEF Called
  <2>4. Called(Top) => ~bufs[i].failed
    BY <1>1 DEF Works, Switched, i
  <2>5. ASSUME NEW k \in DOMAIN b, b[k].failed
        PROVE  b[k].disabled /\ b[k].data = << >>
    <3>1. CASE k = i
      BY <1>4, <2>2, <2>3, <2>4, <2>5, <3>1
    <3>2. CASE k # i
      BY <1>1, <1>3, <1>7, <2>5, <3>2 DEF Works, Switched
    <3> QED BY <3>1, <3>2
  <2>6. ASSUME NEW k \in DOMAIN b, b[k].disabled
        PROVE  b[k].failed \/ \E m \in DOMAIN s : Called(s[m]) /\ s[m].slot = k
    <3>1. CASE k = i /\ Top.answer \in Failures
      BY <1>4, <3>1
    <3>2. CASE k = i /\ Top.answer \notin Failures
      <4>1. Top.answer = "none" /\ bufs[i].disabled
        BY <1>4, <2>6, <3>2
      <4>2. bufs[i].failed
        <5> SUFFICES ASSUME ~bufs[i].failed PROVE FALSE
          OBVIOUS
        <5>1. PICK m \in DOMAIN ops : Called(ops[m]) /\ ops[m].slot = i
          BY <1>1, <1>2, <4>1 DEF Works, Switched, i
        <5>2. m = n
          BY <1>1, <1>a, <1>8, <1>9, <5>1 DEF Called
        <5> QED BY <1>1, <2>3, <4>1, <5>1, <5>2
      <4> QED BY <1>4, <3>2, <4>2
    <3>3. CASE k # i
      <4>1. k \in DOMAIN bufs /\ b[k] = bufs[k]
        BY <1>1, <1>3, <1>7, <3>3
      <4>2. CASE bufs[k].failed
        BY <4>1, <4>2
      <4>3. CASE ~bufs[k].failed
        <5>1. PICK m \in DOMAIN ops : Called(ops[m]) /\ ops[m].slot = k
          BY <2>6, <4>1, <4>3 DEF Works, Switched
        <5>2. m # n
          BY <1>1, <3>3, <5>1 DEF i
        <5> QED BY <1>a, <1>8, <5>1, <5>2
      <4> QED BY <4>2, <4>3
    <3> QED BY <3>1, <3>2, <3>3
  <2> QED BY <2>1, <2>5, <2>6 DEF Switched
<1>14. Taken(b, s)
  <2>1. ASSUME NEW k \in DOMAIN s, Under(s[k])
        PROVE  Carries(s[k].data, b[s[k].slot].data)
    <3>1. k # n /\ s[k] = ops[k] /\ k \in DOMAIN ops
      BY <1>6, <1>8, <2>1
    <3>2. b[s[k].slot] = bufs[s[k].slot]
      BY <1>3, <1>9, <1>10, <2>1, <3>1
    <3> QED BY <2>1, <3>1, <3>2 DEF Works, Taken
  <2>2. ASSUME NEW k \in DOMAIN s, s[k].at = "after"
        PROVE  NoScript(b[s[k].slot].data)
    <3>1. CASE s[k].slot = i
      BY <1>4, <3>1, EmptyIs
    <3>2. CASE s[k].slot # i
      <4>1. k # n /\ s[k] = ops[k] /\ k \in DOMAIN ops
        BY <1>6, <1>8, <3>2
      <4>2. b[s[k].slot] = bufs[s[k].slot]
        BY <1>3, <1>10, <3>2
      <4> QED BY <2>2, <4>1, <4>2 DEF Works, Taken
    <3> QED BY <3>1, <3>2
  <2>3. ASSUME NEW k \in DOMAIN s, NEW t \in DOMAIN b, t > s[k].slot, ~NoScript(b[t].data)
        PROVE  \E m \in DOMAIN s : m < k /\ s[m].slot = t /\ s[m].at = "raising"
    <3>1. t # i
      BY <1>4, <2>3, EmptyIs
    <3>2. t \in DOMAIN bufs /\ b[t] = bufs[t]
      BY <1>1, <1>3, <1>7, <3>1
    <3>3. PICK m \in DOMAIN ops : m < k /\ ops[m].slot = t /\ ops[m].at = "raising"
      BY <1>8, <2>3, <3>2 DEF Works, Taken
    <3>4. m # n
      BY <1>0, <1>1, <3>3
    <3> QED BY <1>a, <1>8, <3>3, <3>4
  <2> QED BY <2>1, <2>2, <2>3 DEF Taken
<1>15. Doors(b, s, ph)
  <2>1. Len(bufs) \in 1 .. Len(bufs)
    BY <1>1, <1>2
  <2>2. /\ b[Len(bufs)].id = bufs[Len(bufs)].id
        /\ b[Len(bufs)].pinned = bufs[Len(bufs)].pinned
    BY <1>3, <1>4, <2>1
  <2>3. \A k \in DOMAIN s : s[k].final =>
          /\ k = 1 /\ s[k].slot = Len(b) /\ s[k].id = b[Len(b)].id
          /\ ph = "run" => ~b[Len(b)].pinned
    BY <1>3, <1>8, <2>2 DEF Works, Doors
  <2>4. 1 \in DOMAIN s
    BY <1>1, <1>5
  <2>5. ph = "shutdown" => s[1].final
    BY <1>0, <1>8, <2>4 DEF Works, Doors
  <2>6. ph # "end"
    BY <1>0 DEF Works, Doors
  <2> QED BY <2>3, <2>5, <2>6 DEF Doors
<1> QED BY <1>2, <1>11, <1>12, <1>13, <1>14, <1>15 DEF Works, b, s

(* The innermost operation goes on, still holding its buffer.              *)
LEMMA OnwardWorks ==
  ASSUME TypeOK, NEW ph, ops # << >>, Called(Top), Works(bufs, ops, ph),
         NEW at \in {"raise", "raising", "send"}, NEW answer \in Answers,
         NEW c \in Seq(Buffer), SameButBytes(bufs, c),
         \A k \in 1 .. Len(bufs) : c[k].data = bufs[k].data
  PROVE  Works(c, Onward(at, answer), ph)
<1> DEFINE s == Onward(at, answer)
           n == Len(ops)
<1>0. bufs \in Seq(Buffer) /\ ops \in Seq(Op) /\ answer # "none"
  BY DEF TypeOK, Answers, Failures
<1>1. /\ Top = ops[n] /\ n \in Nat \ {0} /\ n \in DOMAIN ops /\ DOMAIN ops = 1 .. n
      /\ DOMAIN bufs = 1 .. Len(bufs) /\ Len(bufs) \in Nat /\ Top \in Op
  BY <1>0, TopIs
<1>2. /\ Len(s) = n /\ DOMAIN s = 1 .. n /\ \A k \in 1 .. n - 1 : s[k] = ops[k]
      /\ s[n] = [Top EXCEPT !.answer = answer, !.at = at]
  <2>1. at \in Stages /\ answer \in Answers \cup {"none"}
    BY DEF Stages
  <2> QED BY <1>0, <1>1, <2>1, OnwardIs
<1>3. /\ s[n].slot = Top.slot /\ s[n].id = Top.id /\ s[n].final = Top.final
      /\ s[n].data = Top.data /\ s[n].at = at /\ s[n].answer = answer
      /\ Under(s[n]) /\ Called(s[n])
  <2>1. /\ s[n].slot = Top.slot /\ s[n].id = Top.id /\ s[n].final = Top.final
        /\ s[n].data = Top.data /\ s[n].at = at /\ s[n].answer = answer
    BY <1>1, <1>2 DEF Op
  <2> QED BY <1>0, <2>1 DEF Under, Called
<1>4. DOMAIN c = 1 .. Len(bufs) /\ Len(c) = Len(bufs)
  BY DEF SameButBytes
<1> HIDE DEF s, n
<1>5. \A k \in DOMAIN s :
        /\ k \in DOMAIN ops
        /\ s[k].slot = ops[k].slot /\ s[k].id = ops[k].id /\ s[k].final = ops[k].final
        /\ s[k].data = ops[k].data
        /\ k # n => k < n /\ s[k] = ops[k]
  <2>1. \A k \in DOMAIN s : k # n => k < n /\ s[k] = ops[k]
    BY <1>1, <1>2
  <2> QED BY <1>1, <1>2, <1>3, <2>1
<1>6. DOMAIN s = DOMAIN ops
  BY <1>1, <1>2
<1>7. \A k \in DOMAIN s : (Under(s[k]) <=> Under(ops[k])) /\ (Called(s[k]) <=> Called(ops[k]))
  <2>1. Under(ops[n]) /\ Called(ops[n])
    BY <1>1 DEF Called
  <2> QED BY <1>3, <1>5, <2>1
<1>8. \A k \in DOMAIN s : s[k].slot \in 1 .. Len(bufs)
  BY <1>1, <1>5 DEF Works, Stacked
<1>9. Stacked(c, s)
  <2>1. \A k \in DOMAIN s : s[k].at \notin CutInto
    <3>1. \A k \in DOMAIN s : k # n => s[k].at \notin CutInto
      BY <1>5 DEF Works, Stacked
    <3>2. s[n].at \notin CutInto
      BY <1>3 DEF CutInto
    <3> QED BY <3>1, <3>2
  <2>2. \A k \in DOMAIN ops : k < n => ops[k].at \in {"raising", "after"}
    BY DEF Works, Stacked, n
  <2>3. \A k \in DOMAIN s : k < Len(s) => s[k].at \in {"raising", "after"}
    BY <1>2, <1>5, <2>2
  <2>4. \A k \in DOMAIN s : s[k].at \in {"raise", "raising"} => s[k].answer # "none"
    BY <1>0, <1>3, <1>5 DEF Works, Stacked
  <2>5. \A k, l \in DOMAIN s :
          Under(s[k]) /\ Under(s[l]) /\ s[k].slot = s[l].slot => k = l
    BY <1>5, <1>7 DEF Works, Stacked
  <2> QED BY <1>4, <1>8, <2>1, <2>3, <2>4, <2>5 DEF Stacked
<1>10. Switched(c, s)
  <2>1. \A k \in DOMAIN s : Called(s[k]) => c[s[k].slot].disabled /\ ~c[s[k].slot].failed
    BY <1>5, <1>7, <1>8 DEF SameButBytes, Works, Switched
  <2>2. \A k \in DOMAIN c : c[k].failed => c[k].disabled /\ c[k].data = << >>
    BY <1>1, <1>4 DEF SameButBytes, Works, Switched
  <2>3. ASSUME NEW k \in DOMAIN c, c[k].disabled
        PROVE  c[k].failed \/ \E m \in DOMAIN s : Called(s[m]) /\ s[m].slot = k
    <3>1. bufs[k].failed \/ \E m \in DOMAIN ops : Called(ops[m]) /\ ops[m].slot = k
      BY <1>1, <1>4, <2>3 DEF SameButBytes, Works, Switched
    <3> QED BY <1>4, <1>5, <1>6, <1>7, <3>1 DEF SameButBytes
  <2> QED BY <2>1, <2>2, <2>3 DEF Switched
<1>11. Taken(c, s)
  <2>1. \A k \in DOMAIN s : Under(s[k]) => Carries(s[k].data, c[s[k].slot].data)
    BY <1>5, <1>7, <1>8 DEF Works, Taken
  <2>2. \A k \in DOMAIN s : s[k].at = "after" => NoScript(c[s[k].slot].data)
    BY <1>3, <1>5, <1>8 DEF Works, Taken
  <2>3. ASSUME NEW k \in DOMAIN s, NEW t \in DOMAIN c, t > s[k].slot, ~NoScript(c[t].data)
        PROVE  \E m \in DOMAIN s : m < k /\ s[m].slot = t /\ s[m].at = "raising"
    <3>1. PICK m \in DOMAIN ops : m < k /\ ops[m].slot = t /\ ops[m].at = "raising"
      BY <1>1, <1>4, <1>5, <2>3 DEF Works, Taken
    <3>2. k <= n /\ k \in 1 .. n /\ m \in 1 .. n
      BY <1>1, <1>6
    <3>3. m # n
      BY <1>1, <3>1, <3>2
    <3> QED BY <1>5, <1>6, <3>1, <3>3
  <2> QED BY <2>1, <2>2, <2>3 DEF Taken
<1>12. Doors(c, s, ph)
  <2>1. n \in DOMAIN s /\ 1 \in DOMAIN s
    BY <1>1, <1>2
  <2>2. Len(bufs) \in 1 .. Len(bufs)
    BY <1>1, <1>8, <2>1
  <2>3. /\ c[Len(bufs)].id = bufs[Len(bufs)].id /\ c[Len(bufs)].pinned = bufs[Len(bufs)].pinned
    BY <2>2 DEF SameButBytes
  <2>4. \A k \in DOMAIN s : s[k].final =>
          /\ k = 1 /\ s[k].slot = Len(c) /\ s[k].id = c[Len(c)].id
          /\ ph = "run" => ~c[Len(c)].pinned
    BY <1>4, <1>5, <2>3 DEF Works, Doors
  <2>5. ph = "shutdown" => s[1].final
    BY <1>5, <2>1 DEF Works, Doors
  <2>6. ph # "end"
    BY DEF Works, Doors
  <2> QED BY <2>4, <2>5, <2>6 DEF Doors
<1> QED BY <1>9, <1>10, <1>11, <1>12 DEF Works, s

(* What leaves a buffer is what the script wrote into it.                  *)
LEMMA ResultCarries ==
  ASSUME TypeOK, ops # << >>, Present, Carries(Top.data, Entry.data), Top.answer # "true"
  PROVE  Carries(Result, Entry.data)
<1> DEFINE d == Entry.data
           w == Top.data
           r == w \o Printed
<1>1. d \in Seq(Byte) /\ w \in Seq(Byte)
  BY EntryIs, TopIs
<1>2. Len(w) <= Len(d) /\ Len(w) \in Nat /\ Len(d) \in Nat /\ \A i \in 1 .. Len(w) : w[i] = d[i]
  BY <1>1 DEF Carries
<1>3. CASE Top.answer \in Failures
  <2>1. Printed = SubSeq(d, Len(w) + 1, Len(d))
    BY DEF Printed
  <2>2. r = d
    <3> HIDE DEF d, w
    <3>1. /\ Printed \in Seq(Byte) /\ Len(Printed) = Len(d) - Len(w)
          /\ \A i \in 1 .. Len(d) - Len(w) : Printed[i] = d[Len(w) + i]
      BY <1>1, <1>2, <2>1
    <3>2. r \in Seq(Byte) /\ Len(r) = Len(d)
      BY <1>1, <1>2, <3>1
    <3>3. \A i \in 1 .. Len(d) : r[i] = d[i]
      BY <1>1, <1>2, <3>1, SMTT(40)
    <3> HIDE DEF r
    <3> QED BY <1>1, <3>2, <3>3
  <2> QED BY <1>1, <1>3, <2>2, CarriesItself DEF Result
<1>4. CASE Top.answer \notin Failures
  BY <1>4 DEF Result
<1> QED BY <1>3, <1>4

---------------------------------------------------------------------------
(* The script's bytes, step by step.                                       *)

LEMMA SameContent ==
  ASSUME bufs \in Seq(Buffer), bufs' \in Seq(Buffer), Len(bufs') = Len(bufs),
         \A k \in 1 .. Len(bufs) : bufs'[k].data = bufs[k].data,
         UNCHANGED <<out, nBytes, lost>>, Whole
  PROVE  Whole'
<1>1. Len(bufs) \in Nat /\ \A k \in 0 .. Len(bufs) : k = 0 \/ k \in 1 .. Len(bufs)
  OBVIOUS
<1>2. Content(bufs', out') = Content(bufs, out)
  BY <1>1 DEF Content
<1> QED BY <1>2 DEF Whole

(* Bytes that none of the script's are among may go anywhere.              *)
LEMMA PouredNone ==
  ASSUME NEW n \in Nat, NEW c, Layered(n, c), NEW d, Layered(n, d),
         NEW t \in 0 .. n, NEW w \in Seq(Byte), NoScript(w),
         Pours(n, c, d, t, w), Sorted(c)
  PROVE  Sorted(d) /\ Holds(d) = Holds(c)
<1>1. Rising(w) /\ ScriptBytes(w) = {} /\ \A s : Before(w, s) /\ Before(s, w)
  BY NoneIs
<1>2. /\ \A k \in 0 .. n : k <= t => Before(c[k], w)
      /\ \A k \in 0 .. n : k > t => Before(w, c[k])
  BY <1>1
<1>3. Rising(w)
  BY <1>1
<1>4. Sorted(d) /\ Holds(d) = Holds(c) \cup ScriptBytes(w)
  BY <1>2, <1>3, Poured
<1> QED BY <1>1, <1>4

LEMMA WholeNone ==
  ASSUME bufs \in Seq(Buffer), bufs' \in Seq(Buffer), out \in Seq(Byte), out' \in Seq(Byte),
         Len(bufs') = Len(bufs), NEW t \in 0 .. Len(bufs), NEW w \in Seq(Byte), NoScript(w),
         Pours(Len(bufs), Content(bufs, out), Content(bufs', out'), t, w),
         UNCHANGED <<nBytes, lost>>, Whole
  PROVE  Whole'
<1> DEFINE c == Content(bufs, out)
           d == Content(bufs', out')
           n == Len(bufs)
<1>1. Layered(n, c) /\ n \in Nat
  BY ContentIs
<1>2. Layered(n, d)
  BY ContentIs
<1>3. Sorted(c) /\ Pours(n, c, d, t, w) /\ t \in 0 .. n
  BY DEF Whole
<1> HIDE DEF c, d, n
<1>4. Sorted(d) /\ Holds(d) = Holds(c)
  BY <1>1, <1>2, <1>3, PouredNone
<1> QED BY <1>4 DEF Whole, c, d

(* What the invariant says where the script has the thread: nothing is in  *)
(* progress.                                                               *)
LEMMA ScriptRunsIs ==
  ASSUME TypeOK, Works(bufs, ops, phase), ScriptRuns
  PROVE  ops = << >> /\ phase = "run"
<1>1. ~AtStage("code")
  BY NotCutInto DEF CutInto
<1> QED BY <1>1 DEF ScriptRuns

LEMMA EchoSteps ==
  ASSUME TypeOK, TypeOK', Works(bufs, ops, phase), Whole, Echo
  PROVE  (Works(bufs, ops, phase) /\ Whole)'
<1> DEFINE c == Content(bufs, out)
           d == Content(bufs', out')
           n == Len(bufs)
           w == <<nBytes + 1>>
<1>0. /\ bufs \in Seq(Buffer) /\ ops \in Seq(Op) /\ out \in Seq(Byte) /\ nBytes \in 0 .. MaxBytes
      /\ bufs' \in Seq(Buffer) /\ out' \in Seq(Byte)
  BY DEF TypeOK
<1>1. ops = << >> /\ phase = "run" /\ phase' = phase /\ nBytes' = nBytes + 1 /\ lost' = lost
  BY ScriptRunsIs DEF Echo
<1>2. nBytes + 1 \in Byte /\ n \in Nat /\ nBytes \in Nat
  BY <1>0, BoundsAre DEF Echo, Byte
<1>3. /\ w \in Seq(Byte) /\ Rising(w) /\ ScriptBytes(w) = {nBytes + 1} /\ ~NoScript(w)
      /\ DOMAIN w = {1} /\ w[1] = nBytes + 1
  <2>1. w \in Seq(Byte) /\ DOMAIN w = {1} /\ w[1] = nBytes + 1
    BY <1>2
  <2>2. FromScript(nBytes + 1)
    BY <1>2 DEF FromScript
  <2> HIDE DEF w
  <2>3. Rising(w)
    BY <2>1 DEF Rising
  <2>4. ScriptBytes(w) = {nBytes + 1} /\ ~NoScript(w)
    BY <2>1, <2>2 DEF ScriptBytes, NoScript
  <2> QED BY <2>1, <2>3, <2>4
<1>4. MaySink(bufs, ops, phase, n, w)
  <2>1. DOMAIN ops = {} /\ DOMAIN bufs = 1 .. n
    BY <1>0, <1>1
  <2>2. Above(bufs, ops, n)
    BY <1>2, <2>1 DEF Above
  <2> HIDE DEF w
  <2> QED BY <1>1, <2>1, <2>2 DEF MaySink, Waiting
<1>5. Sink(bufs, n, w, ops) /\ n \in 0 .. n
  BY <1>2 DEF Echo
<1> HIDE DEF w
<1>6. Works(bufs', ops', phase) /\ Len(bufs') = n /\ Finds(bufs, out, n, w, bufs', out')
  BY <1>0, <1>3, <1>4, <1>5, SinkWorks
<1>7. PICK t \in 0 .. n : Pours(n, c, d, t, w) /\ Clear(n, c, t, n + 1, w)
  BY <1>6 DEF Finds
<1>8. Layered(n, c) /\ Layered(n, d) /\ DOMAIN c = 0 .. n
  <2>1. Layered(n, c) /\ DOMAIN c = 0 .. n
    BY <1>0, ContentIs
  <2>2. Layered(Len(bufs'), d)
    BY <1>0, ContentIs
  <2> QED BY <1>6, <2>1, <2>2
<1>9. Sorted(c) /\ 1 .. nBytes = Holds(c) \cup lost
  BY DEF Whole
<1> HIDE DEF c, d, n
<1>10. ASSUME NEW k \in 0 .. n, k <= t PROVE Before(c[k], w)
  <2> SUFFICES ASSUME NEW i \in DOMAIN c[k], FromScript(c[k][i])
               PROVE  c[k][i] < nBytes + 1
    BY <1>3 DEF Before
  <2>1. c[k][i] \in ScriptBytes(c[k])
    BY DEF ScriptBytes
  <2>2. c[k][i] \in Holds(c)
    BY <1>8, <2>1, HoldsIs
  <2>3. c[k][i] \in 1 .. nBytes
    BY <1>9, <2>2
  <2> QED BY <1>2, <2>3
<1>11. ASSUME NEW k \in 0 .. n, k > t PROVE Before(w, c[k])
  <2>1. NoScript(c[k])
    BY <1>2, <1>3, <1>7, <1>11 DEF Clear
  <2> QED BY <2>1, NoneIs
<1>12. Sorted(d) /\ Holds(d) = Holds(c) \cup ScriptBytes(w)
  BY <1>2, <1>3, <1>7, <1>8, <1>9, <1>10, <1>11, Poured
<1>13. 1 .. nBytes' = Holds(d) \cup lost'
  <2>1. 1 .. nBytes + 1 = (1 .. nBytes) \cup {nBytes + 1}
    BY <1>2
  <2> QED BY <1>1, <1>3, <1>9, <1>12, <2>1
<1> QED BY <1>1, <1>6, <1>12, <1>13 DEF Whole, d

LEMMA ObStartSteps ==
  ASSUME TypeOK, TypeOK', Works(bufs, ops, phase), Whole,
         NEW kind \in program.kinds, ObStart(kind)
  PROVE  (Works(bufs, ops, phase) /\ Whole)'
<1> DEFINE c == Content(bufs, out)
           d == Content(bufs', out')
           n == Len(bufs)
<1>0. /\ bufs \in Seq(Buffer) /\ out \in Seq(Byte) /\ bufs' \in Seq(Buffer) /\ out' \in Seq(Byte)
  BY DEF TypeOK
<1>1. /\ ops = << >> /\ ops' = << >> /\ phase = "run" /\ phase' = "run"
      /\ UNCHANGED <<out, nBytes, lost>>
  <2>1. ops = << >> /\ phase = "run" /\ UNCHANGED <<phase, out, nBytes, lost>>
    BY ScriptRunsIs DEF ObStart, ObStartGiven
  <2>2. ops' = ops
    BY ObStartTypes, NotCutInto DEF CutInto
  <2> QED BY <2>1, <2>2
<1>2. PICK new \in Buffer : /\ bufs' = Append(bufs, new) /\ new.data = << >>
                            /\ ~new.disabled /\ ~new.failed
  BY ObStartTypes
<1>3. /\ n \in Nat /\ DOMAIN bufs = 1 .. n /\ DOMAIN bufs' = 1 .. n + 1 /\ Len(bufs') = n + 1
      /\ \A k \in 1 .. n : bufs'[k] = bufs[k]
      /\ bufs'[n + 1] = new
  BY <1>0, <1>2, AppendIs
<1>4. \A k \in DOMAIN bufs' : k \in DOMAIN bufs \/ k = n + 1
  BY <1>3
<1>5. Works(bufs', ops', phase')
  <2>1. DOMAIN ops' = {} /\ DOMAIN ops = {}
    BY <1>1
  <2>2. Switched(bufs', ops')
    BY <1>1, <1>2, <1>3, <1>4, <2>1 DEF Works, Switched
  <2>3. Stacked(bufs', ops') /\ Taken(bufs', ops') /\ Doors(bufs', ops', phase')
    BY <1>1, <2>1 DEF Stacked, Taken, Doors
  <2> QED BY <2>2, <2>3 DEF Works
<1>6. /\ DOMAIN c = 0 .. n /\ DOMAIN d = 0 .. n + 1
      /\ \A k \in 0 .. n : d[k] = c[k]
      /\ d[n + 1] = << >>
  <2>1. /\ DOMAIN c = 0 .. n /\ c[0] = out
        /\ \A k \in 1 .. n : c[k] = bufs[k].data
    BY <1>0, ContentIs
  <2>2. /\ DOMAIN d = 0 .. Len(bufs') /\ d[0] = out'
        /\ \A k \in 1 .. Len(bufs') : d[k] = bufs'[k].data
    BY <1>0, ContentIs
  <2>3. \A k \in 0 .. n : k = 0 \/ (k \in 1 .. n /\ k \in 1 .. n + 1)
    BY <1>3
  <2>4. n + 1 \in 1 .. n + 1
    BY <1>3
  <2> HIDE DEF c, d, n
  <2> QED BY <1>1, <1>2, <1>3, <2>1, <2>2, <2>3, <2>4
<1>7. Sorted(c) /\ 1 .. nBytes = Holds(c) \cup lost
  BY DEF Whole
<1> HIDE DEF c, d, n
<1>8. /\ Rising(d[n + 1]) /\ ScriptBytes(d[n + 1]) = {}
      /\ \A s : Before(d[n + 1], s) /\ Before(s, d[n + 1])
  BY <1>6, EmptyIs, NoneIs
<1>9. \A k \in DOMAIN d : k \in 0 .. n \/ k = n + 1
  BY <1>3, <1>6
<1>10. Sorted(d)
  BY <1>6, <1>7, <1>8, <1>9 DEF Sorted
<1>11. \A x : x \in Holds(d) <=> x \in Holds(c)
  <2>1. \A k \in 0 .. n : k \in DOMAIN d
    BY <1>3, <1>6
  <2> QED BY <1>6, <1>8, <1>9, <2>1, HoldsIs
<1> QED BY <1>1, <1>5, <1>7, <1>10, <1>11 DEF Whole, d

LEMMA BegunSteps ==
  ASSUME TypeOK, bufs # << >>, ops = << >>, NEW clean \in BOOLEAN, NEW final \in BOOLEAN,
         Works(bufs, ops, phase), Whole, MayBegin(bufs, ops, phase, Len(bufs), final),
         Begin(bufs, Len(bufs), clean, final, ops), UNCHANGED <<phase, out, nBytes, lost>>
  PROVE  (Works(bufs, ops, phase) /\ Whole)'
<1>1. bufs \in Seq(Buffer) /\ ops \in Seq(Op) /\ Len(bufs) \in 1 .. Len(bufs)
  BY DEF TypeOK
<1>2. /\ bufs' = Disabled(bufs, Len(bufs))
      /\ ops' = Append(ops, Begun(bufs, Len(bufs), clean, final))
      /\ bufs' \in Seq(Buffer)
  BY BeginGives
<1>3. Works(bufs', ops', phase')
  BY <1>1, <1>2, BeginWorks
<1>4. /\ Len(bufs') = Len(bufs)
      /\ \A k \in 1 .. Len(bufs) : bufs'[k].data = bufs[k].data
  <2>1. /\ Len(bufs') = Len(bufs)
        /\ \A k \in 1 .. Len(bufs) \ {Len(bufs)} : bufs'[k] = bufs[k]
        /\ bufs'[Len(bufs)].data = bufs[Len(bufs)].data
    BY <1>1, <1>2, BeginTypes
  <2> QED BY <2>1
<1> QED BY <1>1, <1>2, <1>3, <1>4, SameContent

LEMMA OperateSteps ==
  ASSUME TypeOK, NEW clean \in BOOLEAN, NEW final \in BOOLEAN, Operate(clean, final),
         Works(bufs, ops, phase), Whole
  PROVE  (Works(bufs, ops, phase) /\ Whole)'
<1>1. ops = << >> /\ phase = "run" /\ bufs # << >> /\ ~bufs[Len(bufs)].pinned
  BY ScriptRunsIs DEF Operate, Last
<1>2. DOMAIN ops = {} /\ DOMAIN bufs = 1 .. Len(bufs) /\ Len(bufs) \in Nat
  BY <1>1 DEF TypeOK
<1>3. Above(bufs, ops, Len(bufs))
  BY <1>2 DEF Above
<1>4. MayBegin(bufs, ops, phase, Len(bufs), final)
  BY <1>1, <1>2, <1>3 DEF MayBegin, Waiting
<1> QED BY <1>1, <1>4, BegunSteps DEF Operate, counters

LEMMA FlushAllSteps ==
  ASSUME TypeOK, FlushAll, Works(bufs, ops, phase), Whole
  PROVE  (Works(bufs, ops, phase) /\ Whole)'
<1>1. ops = << >> /\ phase = "shutdown" /\ UNCHANGED <<out, nBytes, lost>>
  BY DEF FlushAll, counters
<1>2. DOMAIN ops = {} /\ DOMAIN bufs = 1 .. Len(bufs) /\ Len(bufs) \in Nat /\ bufs \in Seq(Buffer)
  BY <1>1 DEF TypeOK
<1>3. CASE bufs = << >>
  <2>1. bufs' = bufs /\ ops' = ops /\ phase' = "end"
    BY <1>3 DEF FlushAll
  <2>2. Works(bufs', ops', phase')
    BY <1>1, <1>2, <2>1 DEF Works, Doors
  <2>3. Whole'
    BY <1>1, <1>2, <2>1, SameContent
  <2> QED BY <2>2, <2>3
<1>4. CASE bufs # << >>
  <2>1. Begin(bufs, Len(bufs), FALSE, TRUE, ops) /\ phase' = phase
    BY <1>4 DEF FlushAll
  <2>2. Above(bufs, ops, Len(bufs))
    BY <1>2 DEF Above
  <2>3. MayBegin(bufs, ops, phase, Len(bufs), TRUE)
    BY <1>1, <1>2, <2>2 DEF MayBegin, Waiting
  <2> QED BY <1>1, <1>4, <2>1, <2>3, BegunSteps
<1> QED BY <1>3, <1>4

LEMMA CarriesMore ==
  ASSUME NEW w \in Seq(Byte), NEW d \in Seq(Byte), NEW v \in Seq(Byte),
         Carries(w, d), NoScript(v)
  PROVE  Carries(w, d \o v)
<1> DEFINE z == d \o v
<1>1. z \in Seq(Byte) /\ Len(z) = Len(d) + Len(v) /\ Len(d) \in Nat /\ Len(v) \in Nat
      /\ DOMAIN v = 1 .. Len(v) /\ Len(w) \in Nat
  OBVIOUS
<1>2. \A i \in 1 .. Len(z) : z[i] = IF i <= Len(d) THEN d[i] ELSE v[i - Len(d)]
  OBVIOUS
<1> HIDE DEF z
<1>3. Len(w) <= Len(d)
  BY DEF Carries
<1>4. ASSUME NEW i \in 1 .. Len(w) PROVE w[i] = z[i]
  <2>1. w[i] = d[i]
    BY DEF Carries
  <2> QED BY <1>1, <1>2, <1>3, <2>1
<1>5. ASSUME NEW i \in Len(w) + 1 .. Len(z) PROVE ~FromScript(z[i])
  <2>1. CASE i <= Len(d)
    <3>1. ~FromScript(d[i])
      BY <1>1, <2>1 DEF Carries
    <3> QED BY <1>1, <1>2, <2>1, <3>1
  <2>2. CASE i > Len(d)
    <3>1. i - Len(d) \in DOMAIN v
      BY <1>1, <2>2
    <3>2. z[i] = v[i - Len(d)]
      BY <1>1, <1>2, <2>2
    <3>3. ~FromScript(v[i - Len(d)])
      BY <3>1 DEF NoScript
    <3> QED BY <3>2, <3>3
  <2> QED BY <1>1, <2>1, <2>2
<1> QED BY <1>1, <1>3, <1>4, <1>5 DEF Carries, z

LEMMA HandlerPrintsSteps ==
  ASSUME TypeOK, TypeOK', Works(bufs, ops, phase), Whole, HandlerPrints
  PROVE  (Works(bufs, ops, phase) /\ Whole)'
<1> DEFINE j == Printing
           w == <<0>>
           n == Len(bufs)
           c == Filled(bufs, j, w, TRUE)
<1>0. /\ bufs \in Seq(Buffer) /\ ops \in Seq(Op) /\ out \in Seq(Byte) /\ bufs' \in Seq(Buffer)
      /\ UNCHANGED <<ops, out, phase, nBytes, lost>>
  BY DEF TypeOK, HandlerPrints
<1>1. /\ ops # << >> /\ Top.at = "handler" /\ Top = ops[Len(ops)] /\ Len(ops) \in DOMAIN ops
      /\ DOMAIN bufs = 1 .. n /\ n \in Nat
  BY TopIs DEF HandlerPrints, AtStage
<1>2. Called(Top) /\ Top.slot \in 1 .. n
  BY <1>1 DEF Called, Under, Works, Stacked
<1>3. j \in 1 .. n /\ (j \in Takers(bufs, n) \/ j = Top.slot)
  <2>1. Takers(bufs, n) \cup {Top.slot} \in SUBSET (1 .. n)
    BY <1>1, <1>2 DEF Takers
  <2>2. j \in Takers(bufs, n) \cup {Top.slot}
    BY <1>1, <2>1, HighestIs DEF Printing
  <2> QED BY <2>1, <2>2
<1>4. w \in Seq(Byte) /\ NoScript(w) /\ TRUE \in BOOLEAN
  <2>1. 0 \in Byte
    BY BoundsAre DEF Byte
  <2>2. w \in Seq(Byte) /\ DOMAIN w = {1} /\ w[1] = 0
    BY <2>1
  <2>3. ~FromScript(0)
    BY DEF FromScript
  <2> HIDE DEF w
  <2> QED BY <2>2, <2>3 DEF NoScript
<1>5. bufs' = c
  BY <1>3, PrintsIs
<1> HIDE DEF j, w
<1>6. /\ c \in Seq(Buffer) /\ Len(c) = n /\ \A k \in 1 .. n \ {j} : c[k] = bufs[k]
      /\ c[j].id = bufs[j].id /\ c[j].pinned = bufs[j].pinned
      /\ c[j].data = bufs[j].data \o w
      /\ c[j].failed = bufs[j].failed /\ c[j].disabled = bufs[j].disabled
  BY <1>0, <1>3, <1>4, FilledIs, ZenonT(40)
<1> HIDE DEF c
<1>7. SameButBytes(bufs, c) /\ DOMAIN c = 1 .. n
  BY <1>6 DEF SameButBytes
<1>8. \A k \in 1 .. n : bufs[k].data \in Seq(Byte)
  <2> TAKE k \in 1 .. n
  <2>1. bufs[k] \in Buffer
    BY <1>0
  <2> QED BY <2>1, BufferParts
<1>9. \A k \in 1 .. n : NoScript(bufs[k].data) => NoScript(c[k].data)
  <2>1. NoScript(bufs[j].data) => NoScript(c[j].data)
    BY <1>3, <1>4, <1>6, <1>8, JoinedIs
  <2> QED BY <1>6, <2>1
<1>10. \A k \in DOMAIN ops : ops[k].slot \in 1 .. n /\ ops[k].data \in Seq(Byte)
  <2> TAKE k \in DOMAIN ops
  <2>1. ops[k] \in Op
    BY <1>0
  <2> QED BY <1>1, <2>1 DEF Works, Stacked, Op
<1>11. Stacked(c, ops)
  BY <1>1, <1>7 DEF Works, Stacked
<1>12. Switched(c, ops)
  <2>1. \A k \in DOMAIN ops : Called(ops[k]) => c[ops[k].slot].disabled /\ ~c[ops[k].slot].failed
    BY <1>7, <1>10 DEF SameButBytes, Works, Switched
  <2>2. ~bufs[j].failed
    <3>1. CASE j \in Takers(bufs, n)
      <4>1. ~bufs[j].disabled
        BY <1>1, <3>1 DEF Takers
      <4> QED BY <1>1, <1>3, <4>1 DEF Works, Switched
    <3>2. CASE j = Top.slot
      BY <1>1, <1>2, <3>2 DEF Works, Switched
    <3> QED BY <1>3, <3>1, <3>2
  <2>3. \A k \in DOMAIN c : c[k].failed => c[k].disabled /\ c[k].data = << >>
    BY <1>1, <1>6, <1>7, <2>2 DEF Works, Switched
  <2>4. \A k \in DOMAIN c : c[k].disabled =>
          c[k].failed \/ \E m \in DOMAIN ops : Called(ops[m]) /\ ops[m].slot = k
    BY <1>1, <1>7 DEF SameButBytes, Works, Switched
  <2> QED BY <2>1, <2>3, <2>4 DEF Switched
<1>13. Taken(c, ops)
  <2>1. ASSUME NEW k \in DOMAIN ops, Under(ops[k])
        PROVE  Carries(ops[k].data, c[ops[k].slot].data)
    <3>1. Carries(ops[k].data, bufs[ops[k].slot].data)
      BY <2>1 DEF Works, Taken
    <3>2. CASE ops[k].slot = j
      BY <1>3, <1>4, <1>6, <1>8, <1>10, <3>1, <3>2, CarriesMore
    <3>3. CASE ops[k].slot # j
      BY <1>6, <1>10, <3>1, <3>3
    <3> QED BY <3>2, <3>3
  <2>2. \A k \in DOMAIN ops : ops[k].at = "after" => NoScript(c[ops[k].slot].data)
    BY <1>9, <1>10 DEF Works, Taken
  <2>3. \A k \in DOMAIN ops : \A t \in DOMAIN c :
          t > ops[k].slot /\ ~NoScript(c[t].data) =>
            \E m \in DOMAIN ops : m < k /\ ops[m].slot = t /\ ops[m].at = "raising"
    BY <1>1, <1>7, <1>9 DEF Works, Taken
  <2> QED BY <2>1, <2>2, <2>3 DEF Taken
<1>14. Doors(c, ops, phase)
  <2>1. n \in 1 .. n
    BY <1>1, <1>2
  <2>2. Len(c) = n /\ c[n].id = bufs[n].id /\ c[n].pinned = bufs[n].pinned
    BY <1>7, <2>1 DEF SameButBytes
  <2> QED BY <2>2 DEF Works, Doors
<1>15. Works(bufs', ops', phase')
  BY <1>0, <1>5, <1>11, <1>12, <1>13, <1>14 DEF Works
<1>16. Whole'
  <2>1. /\ Content(bufs, out)[0] = out
        /\ \A k \in 1 .. n : Content(bufs, out)[k] = bufs[k].data
    BY <1>0, ContentIs
  <2>2. /\ Content(c, out)[0] = out
        /\ \A k \in 1 .. n : Content(c, out)[k] = c[k].data
    BY <1>0, <1>6, ContentIs
  <2>3. \A k \in 0 .. n : k = 0 \/ k \in 1 .. n
    BY <1>1
  <2>4. Pours(n, Content(bufs, out), Content(c, out), j, w)
    BY <1>3, <1>6, <2>1, <2>2, <2>3 DEF Pours
  <2>5. j \in 0 .. n /\ out' \in Seq(Byte) /\ Len(bufs') = Len(bufs)
    BY <1>0, <1>3, <1>5, <1>6
  <2>6. Pours(Len(bufs), Content(bufs, out), Content(bufs', out'), j, w)
    BY <1>0, <1>5, <2>4
  <2> HIDE DEF n
  <2> QED BY <1>0, <1>4, <2>5, <2>6, WholeNone DEF n
<1> QED BY <1>15, <1>16

LEMMA AnsweredSteps ==
  ASSUME TypeOK, Works(bufs, ops, phase), Whole, AtStage("handler"),
         NEW answer \in Answers, Answered(answer), UNCHANGED <<out, phase, nBytes, lost>>
  PROVE  (Works(bufs, ops, phase) /\ Whole)'
<1>0. bufs \in Seq(Buffer) /\ ops # << >> /\ Called(Top)
  BY DEF TypeOK, AtStage, Called, Under
<1>1. /\ ops' = Onward(AnsweredAt(answer), answer)
      /\ bufs' \in Seq(Buffer) /\ Len(bufs') = Len(bufs)
      /\ \A k \in 1 .. Len(bufs) :
           /\ bufs'[k].id = bufs[k].id /\ bufs'[k].pinned = bufs[k].pinned
           /\ bufs'[k].data = bufs[k].data
           /\ bufs'[k].disabled = bufs[k].disabled /\ bufs'[k].failed = bufs[k].failed
  BY <1>0, AnsweredIs
<1>2. AnsweredAt(answer) \in {"raise", "raising", "send"}
  BY DEF AnsweredAt
<1>3. SameButBytes(bufs, bufs')
  BY <1>1 DEF SameButBytes
<1>4. Works(bufs', ops', phase')
  BY <1>0, <1>1, <1>2, <1>3, OnwardWorks
<1>5. Whole'
  BY <1>0, <1>1, SameContent
<1> QED BY <1>4, <1>5

(* The innermost operation's diagnostic, before and after.                 *)
LEMMA GoToWorks ==
  ASSUME TypeOK, Works(bufs, ops, phase), ops # << >>, Top.at \in {"raise", "raising"},
         NEW at \in {"raising", "send"}
  PROVE  Works(bufs, GoTo(at), phase)
<1>0. bufs \in Seq(Buffer) /\ at \in Stages
  BY DEF TypeOK, Stages
<1>1. Top.answer \in Answers /\ Called(Top)
  <2>1. Top = ops[Len(ops)] /\ Len(ops) \in DOMAIN ops /\ Top.answer \in Answers \cup {"none"}
    BY TopIs
  <2>2. Top.answer # "none"
    BY <2>1 DEF Works, Stacked
  <2> QED BY <2>1, <2>2 DEF Called, Under
<1>2. GoTo(at) = Onward(at, Top.answer)
  BY <1>0, RaisedIs
<1>3. SameButBytes(bufs, bufs)
  BY DEF SameButBytes
<1>4. Works(bufs, Onward(at, Top.answer), phase)
  BY <1>0, <1>1, <1>3, OnwardWorks
<1> QED BY <1>2, <1>4

LEMMA DeprecatedSteps ==
  ASSUME TypeOK, Works(bufs, ops, phase), Whole, Deprecated
  PROVE  (Works(bufs, ops, phase) /\ Whole)'
<1>1. bufs \in Seq(Buffer) /\ ops # << >> /\ Top.at = "raising"
      /\ UNCHANGED <<bufs, out, phase, nBytes, lost>> /\ ops' = GoTo("send")
  BY DEF TypeOK, Deprecated, AtStage, counters
<1>2. Works(bufs', ops', phase')
  BY <1>1, GoToWorks
<1>3. Whole'
  BY <1>1, SameContent
<1> QED BY <1>2, <1>3

LEMMA DeprecateSteps ==
  ASSUME TypeOK, TypeOK', Works(bufs, ops, phase), Whole, program.inside = {}, Deprecate
  PROVE  (Works(bufs, ops, phase) /\ Whole)'
<1>1. /\ bufs \in Seq(Buffer) /\ bufs' \in Seq(Buffer) /\ out \in Seq(Byte) /\ out' \in Seq(Byte)
      /\ ops # << >> /\ Top.at = "raise"
      /\ UNCHANGED <<phase, nBytes, lost>> /\ Len(bufs) \in Nat
  BY DEF TypeOK, Deprecate, AtStage
<1>2. Works(bufs, Raised, phase) /\ Raised \in Seq(Op)
  BY <1>1, GoToWorks, RaisedIs DEF Raised, Stages
<1>3. CASE ops' = Raised /\ UNCHANGED <<bufs, out>>
  <2>1. Whole'
    BY <1>1, <1>3, SameContent
  <2> QED BY <1>1, <1>2, <1>3, <2>1
<1>4. CASE Sink(bufs, Len(bufs), <<-1>>, Raised)
  <2> DEFINE w == <<-1>>
             n == Len(bufs)
  <2>1. w \in Seq(Byte) /\ NoScript(w)
    <3>1. -1 \in Byte
      BY BoundsAre DEF Byte
    <3>2. w \in Seq(Byte) /\ DOMAIN w = {1} /\ w[1] = -1
      BY <3>1
    <3>3. ~FromScript(-1)
      BY DEF FromScript
    <3> HIDE DEF w
    <3> QED BY <3>2, <3>3 DEF NoScript
  <2>2. MaySink(bufs, Raised, phase, n, w)
    <3>1. /\ Len(Raised) = Len(ops) /\ Raised # << >> /\ DOMAIN Raised = 1 .. Len(ops)
          /\ \A k \in 1 .. Len(ops) - 1 : Raised[k] = ops[k]
          /\ Raised[Len(ops)].at = "raising" /\ Len(ops) \in Nat \ {0}
      <4>1. "raising" \in Stages /\ ops \in Seq(Op) /\ Top.answer \in Answers \cup {"none"}
            /\ Top \in Op /\ Len(ops) \in Nat \ {0}
        BY <1>1, TopIs DEF Stages, TypeOK
      <4>2. Raised = Onward("raising", Top.answer)
        BY <1>1, <4>1, RaisedIs DEF Raised
      <4>3. /\ Len(Onward("raising", Top.answer)) = Len(ops)
            /\ DOMAIN Onward("raising", Top.answer) = 1 .. Len(ops)
            /\ \A k \in 1 .. Len(ops) - 1 : Onward("raising", Top.answer)[k] = ops[k]
            /\ Onward("raising", Top.answer)[Len(ops)] =
                 [Top EXCEPT !.answer = Top.answer, !.at = "raising"]
        BY <1>1, <4>1, OnwardIs
      <4>4. [Top EXCEPT !.answer = Top.answer, !.at = "raising"].at = "raising"
        BY <4>1 DEF Op
      <4> HIDE DEF Raised
      <4> QED BY <1>2, <4>1, <4>2, <4>3, <4>4
    <3>2. \A k \in DOMAIN Raised : k = Len(ops) \/ (k \in 1 .. Len(ops) - 1 /\ k < Len(ops))
      BY <3>1
    <3>3. \A k \in DOMAIN ops : k < Len(ops) => ops[k].at \in {"raising", "after"}
      BY DEF Works, Stacked
    <3>4. DOMAIN ops = 1 .. Len(ops)
      BY <1>1, TopIs
    <3>5. Waiting(Raised)
      <4> SUFFICES ASSUME NEW k \in DOMAIN Raised
                   PROVE  Raised[k].at \in {"raising", "after"}
        BY DEF Waiting
      <4>1. CASE k = Len(ops)
        <5>1. Raised[Len(ops)].at = "raising"
          BY <3>1
        <5>2. Raised[k].at = "raising"
          BY <4>1, <5>1
        <5> QED BY <5>2
      <4>2. CASE k \in 1 .. Len(ops) - 1 /\ k < Len(ops)
        <5>1. Raised[k] = ops[k] /\ k \in DOMAIN ops
          BY <3>1, <3>4, <4>2
        <5> QED BY <3>3, <4>2, <5>1
      <4> QED BY <3>2, <4>1, <4>2
    <3>6. Above(bufs, Raised, n)
      BY <1>1, TopIs DEF Above
    <3> HIDE DEF w
    <3> QED BY <2>1, <3>1, <3>5, <3>6 DEF MaySink
  <2>3. n \in 0 .. n /\ Sink(bufs, n, w, Raised)
    BY <1>1, <1>4
  <2> HIDE DEF w
  <2>4. Works(bufs', ops', phase) /\ Len(bufs') = n /\ Finds(bufs, out, n, w, bufs', out')
    BY <1>1, <1>2, <2>1, <2>2, <2>3, SinkWorks
  <2>5. PICK t \in 0 .. n : Pours(n, Content(bufs, out), Content(bufs', out'), t, w)
    BY <2>4 DEF Finds
  <2>6. Whole'
    BY <1>1, <2>1, <2>4, <2>5, WholeNone
  <2> QED BY <1>1, <2>4, <2>6
<1>5. ~CodeOver({"errorHandler"}, Raised)
  BY NoCodeOver
<1> QED BY <1>3, <1>4, <1>5 DEF Deprecate

LEMMA SendSteps ==
  ASSUME TypeOK, TypeOK', Works(bufs, ops, phase), Whole, Send
  PROVE  (Works(bufs, ops, phase) /\ Whole)'
<1> DEFINE n == Len(bufs)
           i == Top.slot
           w == Result
           s == GoTo("after")
           c == Content(bufs, out)
           e == Content(Emptied, out)
           d == Content(bufs', out')
<1>0. /\ bufs \in Seq(Buffer) /\ out \in Seq(Byte) /\ bufs' \in Seq(Buffer) /\ out' \in Seq(Byte)
      /\ ops # << >> /\ AtStage("send") /\ Top.at = "send"
      /\ phase' = phase /\ nBytes' = nBytes
  <2>1. AtStage("send")
    BY NotCutInto DEF Send, CutInto
  <2> QED BY <2>1 DEF TypeOK, Send, AtStage, counters
<1>a. PICK drops \in {Dropped, MayBeDropped} :
        /\ IF Top.clean \/ drops \/ Result = << >>
           THEN bufs' = Emptied /\ ops' = GoTo("after") /\ UNCHANGED out
           ELSE Sink(Emptied, Top.slot - 1, Result, GoTo("after"))
        /\ lost' = IF GivesUp(drops) THEN lost \cup ScriptBytes(Top.data) ELSE lost
  BY DEF Send
<1>b. drops <=> Dropped
  <2>1. \A k \in DOMAIN ops : ops[k].at # "code"
    BY DEF Works, Stacked, CutInto
  <2>2. MayBeDropped <=> Dropped
    BY <2>1 DEF MayBeDropped, Dropped, Unframed
  <2> QED BY <2>2, Zenon
<1>c. /\ IF Top.clean \/ Dropped \/ Result = << >>
         THEN bufs' = Emptied /\ ops' = GoTo("after") /\ UNCHANGED out
         ELSE Sink(Emptied, Top.slot - 1, Result, GoTo("after"))
      /\ lost' = IF GivesUp(Dropped) THEN lost \cup ScriptBytes(Top.data) ELSE lost
  BY <1>a, <1>b, Zenon DEF GivesUp
<1>1. Present /\ Works(Emptied, s, phase) /\ Waiting(s)
  BY <1>0, EmptiedWorks
<1>2. /\ i \in 1 .. n /\ Entry = bufs[i] /\ Entry.data \in Seq(Byte)
      /\ Top.data \in Seq(Byte) /\ Top = ops[Len(ops)] /\ Len(ops) \in DOMAIN ops
      /\ n \in Nat /\ DOMAIN bufs = 1 .. n /\ Under(Top)
  BY <1>0, <1>1, EntryIs, TopIs DEF Under
<1>3. Carries(Top.data, Entry.data)
  BY <1>2 DEF Works, Taken
<1>4. w \in Seq(Byte) /\ (Top.answer # "true" => Carries(w, Entry.data))
  BY <1>0, <1>1, <1>3, ResultTypes, ResultCarries
<1>5. ScriptBytes(Top.data) = ScriptBytes(Entry.data)
  BY <1>2, <1>3, CarriedIs
<1>6. /\ Emptied \in Seq(Buffer) /\ Len(Emptied) = n /\ Emptied[i].data = << >>
      /\ \A k \in 1 .. n : k # i => Emptied[k] = bufs[k]
  BY <1>0, <1>1, EmptiedIs
<1>7. /\ Layered(n, c) /\ c[0] = out /\ \A k \in 1 .. n : c[k] = bufs[k].data
      /\ Layered(n, e) /\ e[0] = out /\ \A k \in 1 .. n : e[k] = Emptied[k].data
  <2>1. Layered(n, c) /\ c[0] = out /\ \A k \in 1 .. n : c[k] = bufs[k].data
    BY <1>0, ContentIs
  <2>2. Layered(Len(Emptied), e) /\ e[0] = out
        /\ \A k \in 1 .. Len(Emptied) : e[k] = Emptied[k].data
    BY <1>0, <1>6, ContentIs
  <2> QED BY <1>6, <2>1, <2>2
<1>8. c[i] = Entry.data /\ i \in 0 .. n
  BY <1>2, <1>7
<1>9. Empties(n, c, e, i)
  <2>1. \A k \in 0 .. n : k = 0 \/ k \in 1 .. n
    BY <1>2
  <2> HIDE DEF c, e, i, n
  <2> QED BY <1>2, <1>6, <1>7, <2>1, ZenonT(40) DEF Empties
<1>10. Sorted(c) /\ 1 .. nBytes = Holds(c) \cup lost
  BY DEF Whole
<1>11. CASE Top.clean \/ Dropped \/ w = << >>
  <2>1. bufs' = Emptied /\ ops' = s /\ out' = out
    BY <1>c, <1>11
  <2>2. Sorted(e) /\ Holds(c) = Holds(e) \cup ScriptBytes(c[i])
    <3> HIDE DEF c, e, i, n
    <3> QED BY <1>2, <1>7, <1>8, <1>9, <1>10, Drained
  <2>3. lost' = lost \cup ScriptBytes(c[i])
    <3>1. CASE GivesUp(Dropped)
      <4>1. lost' = lost \cup ScriptBytes(Top.data)
        BY <1>c, <3>1
      <4> QED BY <1>5, <1>8, <4>1
    <3>2. CASE ~GivesUp(Dropped)
      <4>1. w = << >> /\ Top.answer # "true"
        BY <1>11, <3>2 DEF GivesUp, Dropped
      <4>2. ScriptBytes(w) = ScriptBytes(c[i])
        BY <1>2, <1>4, <1>8, <4>1, CarriedIs
      <4>3. ScriptBytes(w) = {}
        BY <4>1, EmptyIs, NoneIs
      <4>4. lost' = lost
        BY <1>c, <3>2
      <4> QED BY <4>2, <4>3, <4>4
    <3> QED BY <3>1, <3>2
  <2>4. Whole'
    <3>1. d = e
      BY <2>1
    <3>2. Sorted(d) /\ 1 .. nBytes' = Holds(d) \cup lost'
      <4> HIDE DEF c, d, e, i
      <4> QED BY <1>0, <1>10, <2>2, <2>3, <3>1
    <3> QED BY <3>2 DEF Whole
  <2> QED BY <1>0, <1>1, <2>1, <2>4
<1>12. CASE ~(Top.clean \/ Dropped \/ w = << >>)
  <2>1. Sink(Emptied, i - 1, w, s) /\ Top.answer # "true"
    BY <1>c, <1>12 DEF Result, Failures
  <2>2. lost' = lost
    <3>1. ~GivesUp(Dropped)
      BY <1>12, <2>1 DEF GivesUp, Dropped
    <3> QED BY <1>c, <3>1
  <2>3. Carries(w, c[i])
    BY <1>4, <1>8, <2>1
  <2>4. i - 1 \in 0 .. n /\ s \in Seq(Op)
    BY <1>0, <1>2, RaisedIs, SMTT(40) DEF Stages
  <2>5. /\ s # << >> /\ DOMAIN s = DOMAIN ops /\ \A k \in DOMAIN s : s[k].slot = ops[k].slot
        /\ DOMAIN Emptied = 1 .. n /\ DOMAIN ops = 1 .. Len(ops) /\ Len(ops) \in Nat
        /\ \A k \in DOMAIN ops : k # Len(ops) => s[k] = ops[k]
    <3>1. /\ "after" \in Stages /\ ops \in Seq(Op) /\ Top.answer \in Answers \cup {"none"}
          /\ Top \in Op /\ DOMAIN ops = 1 .. Len(ops) /\ Len(ops) \in Nat \ {0}
      BY <1>0, TopIs DEF Stages, TypeOK
    <3>2. s = Onward("after", Top.answer)
      BY <1>0, <3>1, RaisedIs
    <3>3. /\ Len(Onward("after", Top.answer)) = Len(ops)
          /\ DOMAIN Onward("after", Top.answer) = 1 .. Len(ops)
          /\ \A k \in 1 .. Len(ops) - 1 : Onward("after", Top.answer)[k] = ops[k]
          /\ Onward("after", Top.answer)[Len(ops)] =
               [Top EXCEPT !.answer = Top.answer, !.at = "after"]
      BY <1>0, <3>1, OnwardIs
    <3>4. [Top EXCEPT !.answer = Top.answer, !.at = "after"].slot = Top.slot
      BY <3>1 DEF Op
    <3> HIDE DEF s, n
    <3>5. \A k \in DOMAIN ops : k # Len(ops) => k \in 1 .. Len(ops) - 1
      BY <3>1
    <3>6. \A k \in DOMAIN s : s[k].slot = ops[k].slot
      BY <1>2, <3>1, <3>2, <3>3, <3>4, <3>5
    <3>7. s # << >>
      BY <2>4, <3>1, <3>2, <3>3
    <3>8. DOMAIN Emptied = 1 .. n
      BY <1>6
    <3> QED BY <3>1, <3>2, <3>3, <3>5, <3>6, <3>7, <3>8
  <2>6. MaySink(Emptied, s, phase, i - 1, w)
    <3>1. Above(Emptied, s, i - 1)
      <4> SUFFICES ASSUME NEW t \in DOMAIN Emptied, t > i - 1, ~NoScript(Emptied[t].data)
                   PROVE  \E m \in DOMAIN s : s[m].slot = t /\ s[m].at = "raising"
        BY DEF Above
      <4>1. t # i
        BY <1>6, EmptyIs
      <4>2. t \in DOMAIN bufs /\ t > i /\ ~NoScript(bufs[t].data)
        BY <1>2, <1>6, <2>5, <4>1
      <4>3. PICK m \in DOMAIN ops : m < Len(ops) /\ ops[m].slot = t /\ ops[m].at = "raising"
        BY <1>2, <4>2 DEF Works, Taken
      <4>4. m # Len(ops)
        BY <2>5, <4>3
      <4> QED BY <2>5, <4>3, <4>4
    <3>2. ASSUME ~NoScript(w), NEW k \in DOMAIN s
          PROVE  s[k].slot > i - 1
      <4> SUFFICES ASSUME ~(s[k].slot > i - 1) PROVE FALSE
        OBVIOUS
      <4>1. ~NoScript(bufs[i].data)
        BY <1>2, <1>4, <2>1, <3>2, CarriedIs
      <4>2. k \in DOMAIN ops /\ ops[k].slot \in 1 .. n
        BY <1>2, <2>5 DEF Works, Stacked
      <4>3. i > ops[k].slot /\ i \in DOMAIN bufs
        BY <1>2, <2>5, <4>2
      <4>4. PICK m \in DOMAIN ops : m < k /\ ops[m].slot = i /\ ops[m].at = "raising"
        BY <4>1, <4>2, <4>3 DEF Works, Taken
      <4>5. m = Len(ops)
        BY <1>2, <4>4 DEF Works, Stacked, Under
      <4> QED BY <2>5, <4>2, <4>4, <4>5
    <3>3. NoScript(w) \/ \A k \in DOMAIN s : s[k].slot > i - 1
      BY <3>2
    <3> QED BY <1>1, <2>5, <3>1, <3>3 DEF MaySink
  <2>7. Works(bufs', ops', phase) /\ Len(bufs') = n /\ Finds(Emptied, out, i - 1, w, bufs', out')
    <3> HIDE DEF i, n, w, s
    <3> QED BY <1>0, <1>1, <1>4, <1>6, <2>1, <2>4, <2>6, SinkWorks
  <2>8. PICK t \in 0 .. i - 1 : Pours(n, e, d, t, w) /\ Clear(n, e, t, i - 1 + 1, w)
    BY <1>6, <2>7 DEF Finds
  <2>9. Layered(n, d)
    <3>1. Layered(Len(bufs'), d)
      BY <1>0, ContentIs
    <3> QED BY <2>7, <3>1
  <2> HIDE DEF c, d, e, i, n, w
  <2>10. t \in 0 .. n /\ t < i /\ i - 1 + 1 = i
    BY <1>2, <2>8
  <2>11. Clear(n, c, t, i, w)
    <3> SUFFICES ASSUME NEW k \in 0 .. n, t < k, k < i PROVE NoScript(c[k]) \/ NoScript(w)
      BY DEF Clear
    <3>1. k # i
      BY <2>10
    <3>2. e[k] = c[k]
      BY <1>9, <3>1 DEF Empties
    <3>3. NoScript(e[k]) \/ NoScript(w)
      BY <2>8, <2>10 DEF Clear
    <3> QED BY <3>2, <3>3
  <2>12. Sorted(d) /\ Holds(d) = Holds(c)
    BY <1>2, <1>4, <1>7, <1>8, <1>9, <1>10, <2>3, <2>8, <2>9, <2>10, <2>11, Passed
  <2>13. Whole'
    BY <1>0, <1>10, <2>2, <2>12 DEF Whole, d
  <2> QED BY <1>0, <2>7, <2>13
<1> QED BY <1>11, <1>12

(* The topmost buffer leaves, with nothing of the script's in it.          *)
LEMMA WholeBelow ==
  ASSUME bufs \in Seq(Buffer), bufs # << >>, out \in Seq(Byte), bufs' = Below(bufs),
         NoScript(bufs[Len(bufs)].data), UNCHANGED <<out, nBytes, lost>>, Whole
  PROVE  Whole'
<1> DEFINE n == Len(bufs)
           c == Content(bufs, out)
           d == Content(bufs', out')
<1>1. /\ n \in Nat \ {0} /\ bufs' \in Seq(Buffer) /\ Len(bufs') = n - 1
      /\ \A k \in 1 .. n - 1 : bufs'[k] = bufs[k]
  BY LastOf
<1>2. DOMAIN c = 0 .. n /\ c[0] = out /\ \A k \in 1 .. n : c[k] = bufs[k].data
  BY ContentIs
<1>3. DOMAIN d = 0 .. n - 1 /\ d[0] = out /\ \A k \in 1 .. n - 1 : d[k] = bufs'[k].data
  <2>1. DOMAIN d = 0 .. Len(bufs') /\ d[0] = out'
        /\ \A k \in 1 .. Len(bufs') : d[k] = bufs'[k].data
    BY <1>1, ContentIs
  <2> QED BY <1>1, <2>1
<1>4. Sorted(c) /\ 1 .. nBytes = Holds(c) \cup lost
  BY DEF Whole
<1>5. NoScript(c[n]) /\ ScriptBytes(c[n]) = {}
  <2>1. c[n] = bufs[n].data
    BY <1>1, <1>2
  <2> QED BY <2>1, NoneIs
<1> HIDE DEF c, d, n
<1>6. \A k \in DOMAIN d : k \in DOMAIN c /\ d[k] = c[k]
  <2>1. \A k \in DOMAIN d : k = 0 \/ (k \in 1 .. n - 1 /\ k \in 1 .. n)
    BY <1>1, <1>3
  <2> QED BY <1>1, <1>2, <1>3, <2>1
<1>7. \A k \in DOMAIN c : k \in DOMAIN d \/ k = n
  BY <1>1, <1>2, <1>3
<1>8. Sorted(d)
  BY <1>4, <1>6 DEF Sorted
<1>9. \A x : x \in Holds(d) <=> x \in Holds(c)
  BY <1>5, <1>6, <1>7, HoldsIs
<1> QED BY <1>4, <1>8, <1>9 DEF Whole, d

(* The innermost operation is over.                                        *)
LEMMA BelowWorks ==
  ASSUME TypeOK, NEW ph, AtStage("after"), Works(bufs, ops, ph), ~Top.final
  PROVE  Works(bufs, Below(ops), ph)
<1> DEFINE s == Below(ops)
           n == Len(ops)
<1>0. ops \in Seq(Op) /\ ops # << >> /\ Top.at = "after"
  BY DEF TypeOK, AtStage
<1>1. /\ n \in Nat \ {0} /\ DOMAIN ops = 1 .. n /\ Top = ops[n] /\ n \in DOMAIN ops
      /\ Len(s) = n - 1 /\ DOMAIN s = 1 .. n - 1 /\ \A k \in 1 .. n - 1 : s[k] = ops[k]
  BY <1>0, TopIs, LastOf
<1> HIDE DEF s, n
<1>2. /\ \A k \in DOMAIN s : k \in DOMAIN ops /\ s[k] = ops[k] /\ k < n
      /\ \A k \in DOMAIN ops : k \in DOMAIN s \/ k = n
  BY <1>1
<1>3. ~Called(ops[n]) /\ ops[n].at # "raising" /\ ~ops[n].final
  BY <1>0, <1>1 DEF Called, Under
<1>4. Stacked(bufs, s)
  <2>1. \A k \in DOMAIN s : k < n => s[k].at \in {"raising", "after"}
    BY <1>2 DEF Works, Stacked, n
  <2> QED BY <1>2, <2>1 DEF Works, Stacked
<1>5. Switched(bufs, s)
  BY <1>2, <1>3 DEF Works, Switched
<1>6. Taken(bufs, s)
  <2>1. ASSUME NEW k \in DOMAIN s, NEW t \in DOMAIN bufs, t > s[k].slot, ~NoScript(bufs[t].data)
        PROVE  \E m \in DOMAIN s : m < k /\ s[m].slot = t /\ s[m].at = "raising"
    <3>1. PICK m \in DOMAIN ops : m < k /\ ops[m].slot = t /\ ops[m].at = "raising"
      BY <1>2, <2>1 DEF Works, Taken
    <3>2. m # n
      BY <1>3, <3>1
    <3> QED BY <1>2, <3>1, <3>2
  <2>2. \A k \in DOMAIN s : Under(s[k]) => Carries(s[k].data, bufs[s[k].slot].data)
    BY <1>2 DEF Works, Taken
  <2>3. \A k \in DOMAIN s : s[k].at = "after" => NoScript(bufs[s[k].slot].data)
    BY <1>2 DEF Works, Taken
  <2> QED BY <2>1, <2>2, <2>3 DEF Taken
<1>7. Doors(bufs, s, ph)
  <2>1. \A k \in DOMAIN s : s[k].final =>
          /\ k = 1 /\ s[k].slot = Len(bufs) /\ s[k].id = bufs[Len(bufs)].id
          /\ ph = "run" => ~bufs[Len(bufs)].pinned
    BY <1>2 DEF Works, Doors
  <2>2. ASSUME ph = "shutdown" PROVE s[1].final
    <3>1. ops[1].final
      BY <1>0, <2>2 DEF Works, Doors
    <3>2. 1 \in DOMAIN ops /\ 1 # n
      BY <1>1, <1>3, <3>1
    <3> QED BY <1>2, <3>1, <3>2
  <2>3. ph # "end"
    BY <1>0 DEF Works, Doors
  <2> QED BY <2>1, <2>2, <2>3 DEF Doors
<1> QED BY <1>4, <1>5, <1>6, <1>7 DEF Works, s

(* A final operation is over: it was the only one.                         *)
LEMMA LastWorks ==
  ASSUME TypeOK, AtStage("after"), Works(bufs, ops, phase), Top.final
  PROVE  /\ Len(ops) = 1 /\ Below(ops) = << >>
         /\ bufs # << >> /\ Popped = Below(bufs) /\ Top.slot = Len(bufs)
         /\ Top.id = bufs[Len(bufs)].id /\ (phase = "run" => ~bufs[Len(bufs)].pinned)
         /\ NoScript(bufs[Len(bufs)].data)
         /\ phase # "end" /\ Works(Popped, << >>, phase)
<1>0. ops \in Seq(Op) /\ ops # << >> /\ Top.at = "after" /\ bufs \in Seq(Buffer)
  BY DEF TypeOK, AtStage
<1>1. /\ Len(ops) \in Nat \ {0} /\ DOMAIN ops = 1 .. Len(ops) /\ Len(ops) \in DOMAIN ops
      /\ Top = ops[Len(ops)] /\ DOMAIN bufs = 1 .. Len(bufs)
      /\ Below(ops) \in Seq(Op) /\ Len(Below(ops)) = Len(ops) - 1
  BY <1>0, TopIs, LastOf
<1>2. /\ Len(ops) = 1 /\ Top.slot = Len(bufs) /\ Top.id = bufs[Len(bufs)].id
      /\ phase = "run" => ~bufs[Len(bufs)].pinned
  BY <1>1 DEF Works, Doors
<1>3. Below(ops) = << >>
  BY <1>1, <1>2
<1>4. bufs # << >> /\ Popped = Below(bufs)
  <2>1. Len(bufs) \in 1 .. Len(bufs)
    BY <1>1, <1>2 DEF Works, Stacked
  <2>2. bufs # << >>
    BY <1>0, <2>1
  <2> QED BY <2>2 DEF Popped
<1>5. NoScript(bufs[Len(bufs)].data)
  BY <1>0, <1>1, <1>2 DEF Works, Taken
<1>6. phase # "end"
  BY <1>0 DEF Works, Doors
<1>7. Works(Popped, << >>, phase)
  <2> DEFINE b == Below(bufs)
             none == << >>
  <2>1. /\ DOMAIN b = 1 .. Len(bufs) - 1 /\ \A k \in 1 .. Len(bufs) - 1 : b[k] = bufs[k]
        /\ Len(bufs) \in Nat
    BY <1>0, <1>4, LastOf
  <2> HIDE DEF b
  <2>2. \A k \in DOMAIN b : k \in DOMAIN bufs /\ b[k] = bufs[k] /\ k # Len(bufs)
    BY <1>1, <2>1
  <2>3. DOMAIN none = {}
    OBVIOUS
  <2>4. \A k \in DOMAIN ops : k = 1
    BY <1>1, <1>2
  <2>5. Switched(b, none)
    <3>1. \A k \in DOMAIN b : b[k].failed => b[k].disabled /\ b[k].data = << >>
      BY <2>2 DEF Works, Switched
    <3>2. \A k \in DOMAIN b : b[k].disabled => b[k].failed
      <4> SUFFICES ASSUME NEW k \in DOMAIN b, b[k].disabled, ~b[k].failed PROVE FALSE
        OBVIOUS
      <4>1. PICK m \in DOMAIN ops : Called(ops[m]) /\ ops[m].slot = k
        BY <2>2 DEF Works, Switched
      <4>2. ops[m].slot = Len(bufs)
        BY <1>1, <1>2, <2>4
      <4> QED BY <2>2, <4>1, <4>2
    <3> QED BY <2>3, <3>1, <3>2 DEF Switched
  <2>6. Stacked(b, none) /\ Taken(b, none)
    BY <2>3 DEF Stacked, Taken
  <2>7. Doors(b, none, phase)
    BY <2>3 DEF Doors
  <2> QED BY <1>4, <2>5, <2>6, <2>7 DEF Works, b
<1> QED BY <1>2, <1>3, <1>4, <1>5, <1>6, <1>7

(* The shutdown flush ends early: what was still held is given up.         *)
LEMMA GivenUp ==
  ASSUME bufs \in Seq(Buffer), bufs # << >>, out \in Seq(Byte), bufs' = << >>, out' = out,
         nBytes' = nBytes, NoScript(bufs[Len(bufs)].data), Whole,
         lost' = lost \cup UNION {ScriptBytes(Below(bufs)[i].data) : i \in DOMAIN Below(bufs)}
  PROVE  Whole'
<1> DEFINE n == Len(bufs)
           c == Content(bufs, out)
           d == Content(bufs', out')
           U == UNION {ScriptBytes(Below(bufs)[i].data) : i \in DOMAIN Below(bufs)}
<1>1. /\ n \in Nat \ {0} /\ DOMAIN Below(bufs) = 1 .. n - 1
      /\ \A k \in 1 .. n - 1 : Below(bufs)[k] = bufs[k]
  BY LastOf
<1>2. DOMAIN c = 0 .. n /\ c[0] = out /\ \A k \in 1 .. n : c[k] = bufs[k].data
  BY ContentIs
<1>3. DOMAIN d = {0} /\ d[0] = out
  <2>1. << >> \in Seq(Buffer) /\ Len(<< >>) = 0
    OBVIOUS
  <2> QED BY <2>1 DEF Content
<1>4. Sorted(c) /\ 1 .. nBytes = Holds(c) \cup lost
  BY DEF Whole
<1>5. \A x : x \in U <=> \E k \in 1 .. n - 1 : x \in ScriptBytes(bufs[k].data)
  BY <1>1
<1>6. ScriptBytes(c[n]) = {}
  <2>1. c[n] = bufs[n].data
    BY <1>1, <1>2
  <2> QED BY <2>1, NoneIs
<1>7. lost' = lost \cup U
  OBVIOUS
<1> HIDE DEF c, d, n, U
<1>8. Sorted(d)
  BY <1>1, <1>2, <1>3, <1>4 DEF Sorted
<1>9. \A x : x \in Holds(c) <=> x \in Holds(d) \/ x \in U
  <2>1. \A k \in DOMAIN c : k = 0 \/ k = n \/ k \in 1 .. n - 1
    BY <1>1, <1>2
  <2>2. \A k \in 1 .. n - 1 : k \in DOMAIN c /\ c[k] = bufs[k].data
    BY <1>1, <1>2
  <2>3. 0 \in DOMAIN c
    BY <1>1, <1>2
  <2>4. ASSUME NEW x, x \in Holds(c) PROVE x \in Holds(d) \/ x \in U
    <3>1. PICK k \in DOMAIN c : x \in ScriptBytes(c[k])
      BY <2>4, HoldsIs
    <3>2. CASE k = 0
      BY <1>2, <1>3, <3>1, <3>2, HoldsIs
    <3>3. CASE k \in 1 .. n - 1
      BY <1>5, <2>2, <3>1, <3>3
    <3> QED BY <1>6, <2>1, <3>1, <3>2, <3>3
  <2>5. ASSUME NEW x, x \in Holds(d) PROVE x \in Holds(c)
    BY <1>2, <1>3, <2>3, <2>5, HoldsIs
  <2>6. ASSUME NEW x, x \in U PROVE x \in Holds(c)
    <3>1. PICK k \in 1 .. n - 1 : x \in ScriptBytes(bufs[k].data)
      BY <1>5, <2>6
    <3> QED BY <2>2, <3>1, HoldsIs
  <2> QED BY <2>4, <2>5, <2>6
<1> QED BY <1>4, <1>7, <1>8, <1>9 DEF Whole, d

LEMMA FinishSteps ==
  ASSUME TypeOK, TypeOK', Works(bufs, ops, phase), Whole, program.inside = {}, Finish
  PROVE  (Works(bufs, ops, phase) /\ Whole)'
<1>0. /\ bufs \in Seq(Buffer) /\ bufs' \in Seq(Buffer) /\ out \in Seq(Byte)
      /\ AtStage("after") /\ ops # << >>
      /\ UNCHANGED <<out, phase, nBytes>>
  <2>1. AtStage("after")
    BY NotCutInto DEF Finish, CutInto
  <2> QED BY <2>1 DEF TypeOK, Finish, AtStage
<1>1. CASE bufs' = Popped /\ ops' = Below(ops) /\ lost' = lost
  <2>1. CASE ~Top.final
    <3>1. bufs' = bufs
      BY <1>1, <2>1 DEF Popped
    <3>2. Works(bufs', ops', phase')
      BY <1>0, <1>1, <2>1, <3>1, BelowWorks
    <3>3. Whole'
      BY <1>0, <1>1, <3>1, SameContent
    <3> QED BY <3>2, <3>3
  <2>2. CASE Top.final
    <3>1. /\ Below(ops) = << >> /\ bufs # << >> /\ Popped = Below(bufs)
          /\ NoScript(bufs[Len(bufs)].data) /\ Works(Popped, << >>, phase)
      BY <1>0, <2>2, LastWorks
    <3>2. Works(bufs', ops', phase')
      BY <1>0, <1>1, <3>1
    <3>3. Whole'
      BY <1>0, <1>1, <3>1, WholeBelow
    <3> QED BY <3>2, <3>3
  <2> QED BY <2>1, <2>2
<1>2. CASE /\ phase = "shutdown" /\ Len(ops) = 1 /\ bufs' = << >> /\ ops' = << >>
           /\ lost' = lost \cup UNION {ScriptBytes(Popped[i].data) : i \in DOMAIN Popped}
  <2>1. Top.final
    <3>1. Top = ops[1]
      BY <1>0, <1>2, TopIs
    <3> QED BY <1>0, <1>2, <3>1 DEF Works, Doors
  <2>2. bufs # << >> /\ Popped = Below(bufs) /\ NoScript(bufs[Len(bufs)].data)
    BY <1>0, <2>1, LastWorks
  <2>3. Works(bufs', ops', phase')
    <3> DEFINE none == << >>
    <3>1. DOMAIN none = {}
      OBVIOUS
    <3>2. Works(none, none, phase)
      BY <1>2, <3>1 DEF Works, Stacked, Switched, Taken, Doors
    <3> QED BY <1>0, <1>2, <3>2
  <2>4. Whole'
    BY <1>0, <1>2, <2>2, GivenUp
  <2> QED BY <2>3, <2>4
<1>3. \A kinds : ~CodeOver(kinds, Below(ops))
  BY NoCodeOver
<1> QED BY <1>1, <1>2, <1>3 DEF Finish, Bails

(* In a program without code to cut in, none does.                         *)
LEMMA NothingCutsIn ==
  ASSUME TypeOK, Works(bufs, ops, phase), program.inside = {}
  PROVE  ~(Cast \/ CastFails \/ PopDestructs \/ Restored \/ BailOut \/ BailPops \/ CodeReturns)
<1>1. ~Cast /\ ~BailOut
  BY DEF Cast, BailOut, BailsInSteps
<1>2. ~PopDestructs
  BY NoCodeOver DEF PopDestructs, Destructs
<1>3. \A at \in CutInto : ~AtStage(at)
  BY NotCutInto
<1> QED BY <1>1, <1>2, <1>3 DEF CastFails, Restored, BailPops, CodeReturns, CutInto

LEMMA InitHolds == Init => BufInv
<1> SUFFICES ASSUME Init PROVE BufInv
  OBVIOUS
<1>1. TypeOK
  BY InitTypes
<1>2. bufs = << >> /\ ops = << >> /\ out = << >> /\ nBytes = 0 /\ lost = {} /\ phase = "run"
  BY DEF Init
<1> DEFINE none == << >>
<1>3. DOMAIN none = {} /\ Len(none) = 0
  OBVIOUS
<1>4. Works(bufs, ops, phase)
  BY <1>2, <1>3 DEF Works, Stacked, Switched, Taken, Doors
<1>5. Whole
  <2>1. DOMAIN Content(bufs, out) = {0} /\ Content(bufs, out)[0] = << >>
    BY <1>2, <1>3 DEF Content
  <2>2. Rising(<< >>) /\ ScriptBytes(<< >>) = {}
    BY EmptyIs, NoneIs
  <2>3. Sorted(Content(bufs, out))
    BY <2>1, <2>2 DEF Sorted
  <2>4. Holds(Content(bufs, out)) = {}
    BY <2>1, <2>2, HoldsIs
  <2> QED BY <1>2, <2>3, <2>4 DEF Whole
<1> QED BY <1>1, <1>4, <1>5 DEF BufInv

LEMMA StepHolds == BufInv /\ [Next]_vars => BufInv'
<1> SUFFICES ASSUME BufInv, [Next]_vars PROVE BufInv'
  OBVIOUS
<1>1. TypeOK /\ TypeOK'
  BY StepTypes DEF BufInv
<1>2. program' = program
  <2>1. CASE Script
    BY <2>1 DEF Script, Echo, ObStart, ObStartGiven, ObClean, ObFlush, ObEndClean,
                ObEndFlush, Operate
  <2>2. CASE Engine
    BY <2>2 DEF Engine, HandlerReturns, Deprecate, Deprecated, Cast, CastFails, Send, PopDestructs,
                Restored, Finish, BailOut, BailPops, CodeReturns, FlushAll
  <2> QED BY <2>1, <2>2
      DEF Next, HandlerPrints, HandlerRefused, ShutdownFunctions, ScriptEnds, Terminated, vars
<1> SUFFICES ASSUME program.inside = {} PROVE (Works(bufs, ops, phase) /\ Whole)'
  BY <1>1, <1>2 DEF BufInv
<1>3. Works(bufs, ops, phase) /\ Whole
  BY DEF BufInv
<1>4. CASE Script
  BY <1>1, <1>3, <1>4, EchoSteps, ObStartSteps, OperateSteps
  DEF Script, ObClean, ObFlush, ObEndClean, ObEndFlush
<1>5. ASSUME NEW answer \in Answers, HandlerReturns(answer)
      PROVE  (Works(bufs, ops, phase) /\ Whole)'
  BY <1>1, <1>3, <1>5, AnsweredSteps DEF HandlerReturns, counters
<1>6. CASE HandlerRefused
  <2>1. "refused" \in Answers
    BY DEF Answers, Failures
  <2> QED BY <1>1, <1>3, <1>6, <2>1, AnsweredSteps DEF HandlerRefused, counters
<1>7. ~(Cast \/ CastFails \/ PopDestructs \/ Restored \/ BailOut \/ BailPops \/ CodeReturns)
  BY <1>1, <1>3, NothingCutsIn
<1>8. CASE Engine
  BY <1>1, <1>3, <1>5, <1>7, <1>8, DeprecateSteps, DeprecatedSteps, SendSteps, FinishSteps,
     FlushAllSteps
  DEF Engine
<1>9. CASE ShutdownFunctions \/ ScriptEnds \/ UNCHANGED vars
  <2>1. UNCHANGED <<bufs, ops, out, nBytes, lost>> /\ bufs \in Seq(Buffer)
    BY <1>1, <1>9 DEF ShutdownFunctions, ScriptEnds, vars, counters, TypeOK
  <2>2. phase' = phase \/ (phase' = "shutdown" /\ ops = << >>)
    BY <1>9 DEF ShutdownFunctions, ScriptEnds, vars
  <2>3. Works(bufs', ops', phase')
    <3>1. CASE phase' = phase
      BY <1>3, <2>1, <3>1
    <3>2. CASE phase' = "shutdown" /\ ops = << >>
      <4>1. DOMAIN ops = {}
        BY <3>2
      <4> QED BY <1>3, <2>1, <3>2, <4>1 DEF Works, Doors
    <3> QED BY <2>2, <3>1, <3>2
  <2>4. Whole'
    BY <1>3, <2>1, SameContent
  <2> QED BY <2>3, <2>4
<1> QED
  BY <1>1, <1>3, <1>4, <1>6, <1>8, <1>9, HandlerPrintsSteps DEF Next, Terminated

LEMMA BufInvHolds == Spec => []BufInv
  BY InitHolds, StepHolds, PTL DEF Spec

LEMMA LayersAre ==
  ASSUME TypeOK
  PROVE  /\ DOMAIN Content(bufs, out) = Layers
         /\ \A k \in Layers : Content(bufs, out)[k] = Layer(k)
  BY DEF TypeOK, Content, Layers, Layer

(* The script's bytes keep their order and none is doubled, however the    *)
(* handlers answer and whatever fills, fails or is written out on the way, *)
(* in the programs whose operations no code cuts into.                     *)
THEOREM BytesInOrder == Spec => []InOrder
<1>1. BufInv => InOrder
  <2> SUFFICES ASSUME TypeOK, Sorted(Content(bufs, out)) PROVE InOrder
    BY DEF BufInv, Whole, InOrder
  <2> DEFINE c == Content(bufs, out)
  <2>1. DOMAIN c = Layers /\ \A k \in Layers : c[k] = Layer(k)
    BY LayersAre
  <2>2. /\ \A k \in Layers : Rising(Layer(k))
        /\ \A k, l \in Layers : k < l => Before(Layer(k), Layer(l))
    BY <2>1 DEF Sorted
  <2> QED BY <2>2 DEF InOrder, Rising, Before
<1> QED BY <1>1, BufInvHolds, PTL

(* No byte of the script disappears unless an operation gave it up: each   *)
(* is in the output, in a buffer, or was cleaned, swallowed or lost with   *)
(* the request, again in the programs no code cuts into.                   *)
THEOREM NothingDisappears == Spec => []BytesKept
<1>1. BufInv => BytesKept
  <2> SUFFICES ASSUME TypeOK, 1 .. nBytes = Holds(Content(bufs, out)) \cup lost
               PROVE  AllBytesKept
    BY DEF BufInv, Whole, BytesKept
  <2> DEFINE h == Holds(Content(bufs, out))
             u == UNION {ScriptBytes(Layer(k)) : k \in Layers}
  <2>1. \A x : x \in h <=> x \in u
    BY LayersAre, HoldsIs
  <2>2. 1 .. nBytes = h \cup lost
    OBVIOUS
  <2>3. AllBytesKept <=> 1 .. nBytes = u \cup lost
    BY DEF AllBytesKept
  <2> HIDE DEF h, u
  <2>4. h = u
    BY <2>1
  <2> QED BY <2>2, <2>3, <2>4
<1> QED BY <1>1, BufInvHolds, PTL

(* A handler that has failed is never called again, not even by the        *)
(* shutdown flush, and its buffer holds nothing back, in the programs no   *)
(* code cuts into.                                                         *)
THEOREM FailedIsOut == Spec => []FailedIsTransparent
<1>1. BufInv => FailedIsTransparent
  <2> SUFFICES ASSUME TypeOK, Works(bufs, ops, phase) PROVE
        /\ AtStage("handler") => ~Entry.failed
        /\ ops = << >> => \A i \in DOMAIN bufs : bufs[i].failed => bufs[i].data = << >>
    BY DEF BufInv, FailedIsTransparent
  <2>1. ASSUME AtStage("handler") PROVE ~Entry.failed
    <3>1. ops # << >> /\ Called(Top)
      BY <2>1 DEF AtStage, Called, Under
    <3>2. Top = ops[Len(ops)] /\ Len(ops) \in DOMAIN ops
      BY <3>1, TopIs
    <3> QED BY <3>1, <3>2 DEF Works, Switched, Entry
  <2>2. \A i \in DOMAIN bufs : bufs[i].failed => bufs[i].data = << >>
    BY DEF Works, Switched
  <2> QED BY <2>1, <2>2
<1> QED BY <1>1, BufInvHolds, PTL

(* Nothing but the end of an operation shortens the stack of buffers, if   *)
(* no code cuts in.                                                        *)
LEMMA OnlyFinishShortens ==
  ASSUME TypeOK, Works(bufs, ops, phase), program.inside = {}, [Next]_vars, Len(bufs') < Len(bufs)
  PROVE  Finish
<1>0. bufs \in Seq(Buffer) /\ Len(bufs) \in Nat /\ ops \in Seq(Op) /\ out \in Seq(Byte)
  BY DEF TypeOK
<1>1. bufs' # bufs
  BY <1>0
<1>2. ASSUME NEW clean \in BOOLEAN, NEW final \in BOOLEAN, bufs # << >>,
             Begin(bufs, Len(bufs), clean, final, ops)
      PROVE  FALSE
  <2>1. Len(bufs) \in 1 .. Len(bufs)
    BY <1>0, <1>2
  <2>2. bufs' = Disabled(bufs, Len(bufs))
    BY <1>2, BeginGives
  <2>3. Len(Disabled(bufs, Len(bufs))) = Len(bufs)
    BY <1>0, <1>2, <2>1, BeginTypes
  <2> QED BY <1>0, <2>2, <2>3
<1>3. ~Echo
  <2> SUFFICES ASSUME Echo PROVE FALSE
    OBVIOUS
  <2>1. nBytes + 1 \in Byte
    BY BoundsAre DEF Echo, TypeOK, Byte
  <2>2. <<nBytes + 1>> \in Seq(Byte) /\ Len(bufs) \in Int
    BY <1>0, <2>1
  <2>3. Sink(bufs, Len(bufs), <<nBytes + 1>>, ops)
    BY DEF Echo
  <2>4. Len(bufs') = Len(bufs)
    BY <1>0, <2>2, <2>3, SinkTypes
  <2> QED BY <1>0, <2>4
<1>4. ASSUME NEW kind \in program.kinds, ObStart(kind) PROVE FALSE
  <2>1. PICK new \in Buffer : bufs' = Append(bufs, new)
    BY <1>4, ObStartTypes
  <2>2. Len(bufs') = Len(bufs) + 1
    BY <1>0, <2>1, AppendIs
  <2> QED BY <1>0, <2>2
<1>5. ~Script
  BY <1>2, <1>3, <1>4 DEF Script, ObClean, ObFlush, ObEndClean, ObEndFlush, Operate
<1>6. ~HandlerPrints
  <2> SUFFICES ASSUME HandlerPrints PROVE FALSE
    OBVIOUS
  <2>1. Printing \in 1 .. Len(bufs)
    BY <1>1, PrintsIs
  <2>2. 0 \in Byte /\ TRUE \in BOOLEAN
    BY BoundsAre DEF Byte
  <2>3. <<0>> \in Seq(Byte)
    BY <2>2
  <2>4. bufs' = Filled(bufs, Printing, <<0>>, TRUE)
    BY <2>1, PrintsIs
  <2>5. Len(Filled(bufs, Printing, <<0>>, TRUE)) = Len(bufs)
    BY <1>0, <2>1, <2>2, <2>3, FilledIs
  <2>6. Len(bufs') = Len(bufs)
    BY <2>4, <2>5
  <2> QED BY <1>0, <2>6
<1>7. ASSUME NEW answer \in Answers, AtStage("handler"), Answered(answer) PROVE FALSE
  <2>1. ops # << >>
    BY <1>7 DEF AtStage
  <2>2. Len(bufs') = Len(bufs)
    BY <1>7, <2>1, AnsweredIs
  <2> QED BY <1>0, <2>2
<1>8. ~HandlerRefused
  <2>1. "refused" \in Answers
    BY DEF Answers, Failures
  <2> QED BY <1>7, <2>1 DEF HandlerRefused
<1>9. ~Deprecate
  <2> SUFFICES ASSUME Deprecate PROVE FALSE
    OBVIOUS
  <2>1. ops # << >>
    BY DEF Deprecate, AtStage
  <2>2. Raised \in Seq(Op)
    BY <2>1, RaisedIs DEF Raised, Stages
  <2>3. -1 \in Byte
    BY BoundsAre DEF Byte
  <2>4. <<-1>> \in Seq(Byte) /\ Len(bufs) \in Int
    BY <1>0, <2>3
  <2>5. Sink(bufs, Len(bufs), <<-1>>, Raised)
    BY <1>1 DEF Deprecate
  <2>6. Len(bufs') = Len(bufs)
    BY <1>0, <2>2, <2>4, <2>5, SinkTypes
  <2> QED BY <1>0, <2>6
<1>10. ~Send
  <2> SUFFICES ASSUME Send PROVE FALSE
    OBVIOUS
  <2>1. ops # << >>
    BY DEF Send, AtStage
  <2>2. Emptied \in Seq(Buffer) /\ Len(Emptied) = Len(bufs) /\ Result \in Seq(Byte)
        /\ GoTo("after") \in Seq(Op) /\ Top.slot - 1 \in Int
    BY <2>1, EmptiedIs, ResultTypes, RaisedIs, TopIs DEF Stages
  <2>3. Sink(Emptied, Top.slot - 1, Result, GoTo("after")) \/ bufs' = Emptied
    BY DEF Send
  <2>4. Len(bufs') = Len(Emptied)
    BY <1>0, <2>2, <2>3, SinkTypes
  <2> QED BY <1>0, <2>2, <2>4
<1>11. ~FlushAll
  <2>1. FlushAll => bufs # << >> /\ Begin(bufs, Len(bufs), FALSE, TRUE, ops)
    BY <1>1 DEF FlushAll
  <2> QED BY <1>2, <2>1
<1>12. ASSUME NEW answer \in Answers, HandlerReturns(answer) PROVE FALSE
  BY <1>7, <1>12 DEF HandlerReturns
<1>13. ~(Deprecated \/ Cast \/ CastFails \/ PopDestructs \/ Restored \/ BailOut \/ BailPops
         \/ CodeReturns)
  BY <1>1, NothingCutsIn DEF Deprecated
<1>14. ~(ShutdownFunctions \/ ScriptEnds \/ Terminated \/ UNCHANGED vars)
  BY <1>1 DEF ShutdownFunctions, ScriptEnds, Terminated, vars
<1> QED
  BY <1>5, <1>6, <1>8, <1>9, <1>10, <1>11, <1>12, <1>13, <1>14 DEF Next, Engine

LEMMA LeavesStep ==
  ASSUME BufInv, [Next]_vars, program.inside = {}, Len(bufs') < Len(bufs)
  PROVE  /\ Top.final /\ Top.id = Last(bufs).id
         /\ bufs' = Below(bufs) \/ (phase = "shutdown" /\ bufs' = << >>)
         /\ Last(bufs).pinned => phase = "shutdown"
<1>0. TypeOK /\ Works(bufs, ops, phase) /\ bufs \in Seq(Buffer) /\ Len(bufs) \in Nat
  BY DEF BufInv, TypeOK
<1>a. Finish
  BY <1>0, OnlyFinishShortens
<1>b. AtStage("after")
  BY <1>0, <1>a, NotCutInto DEF Finish, CutInto
<1>c. ops # << >>
  BY <1>b DEF AtStage
<1>d. bufs' # bufs
  BY <1>0
<1>1. Finish /\ AtStage("after") /\ ops # << >> /\ bufs' # bufs
  BY <1>a, <1>b, <1>c, <1>d
<1>2. Top.final
  <2>1. CASE bufs' = Popped
    BY <1>1, <2>1 DEF Popped
  <2>2. CASE Bails
    <3>0. phase = "shutdown" /\ Len(ops) = 1
      BY <2>2 DEF Bails
    <3>1. Top = ops[1]
      BY <1>0, <1>1, <3>0, TopIs
    <3> QED BY <1>0, <1>1, <3>0, <3>1 DEF Works, Doors
  <2> QED BY <1>1, <2>1, <2>2 DEF Finish
<1>3. /\ Popped = Below(bufs) /\ Top.id = bufs[Len(bufs)].id
      /\ phase = "run" => ~bufs[Len(bufs)].pinned
      /\ phase # "end"
  BY <1>0, <1>1, <1>2, LastWorks
<1>4. bufs' = Popped \/ (phase = "shutdown" /\ bufs' = << >>)
  BY <1>1 DEF Finish, Bails
<1>5. phase \in {"run", "shutdown"}
  BY <1>0, <1>3 DEF TypeOK
<1> QED BY <1>2, <1>3, <1>4, <1>5 DEF Last

(* Buffers leave from the top, one by one, each by an operation begun on   *)
(* that very buffer, and a pinned one only at shutdown; a shutdown flush   *)
(* whose handler throws drops them all.  In the programs no code cuts      *)
(* into, no step shortens the stack in any other way.                      *)
THEOREM LeavesByItsOwn == Spec => LeavesByItsOwnOperation
<1>1. BufInv /\ [Next]_vars =>
        [program.inside = {} /\ Len(bufs') < Len(bufs) =>
           /\ Top.final /\ Top.id = Last(bufs).id
           /\ bufs' = Below(bufs) \/ (phase = "shutdown" /\ bufs' = << >>)
           /\ Last(bufs).pinned => phase = "shutdown"]_vars
  BY LeavesStep
<1> QED BY <1>1, BufInvHolds, PTL DEF Spec, LeavesByItsOwnOperation
============================================================================
