--------------------------- MODULE OutputBuffer ---------------------------
(***************************************************************************)
(* Output buffering (src/ph7/vm_builtin_ob.c).                             *)
(*                                                                         *)
(* A buffer keeps the raw bytes written into it; its handler, a php        *)
(* callable, runs on the way out.  An operation (VmObPerform) takes the    *)
(* bytes, calls the handler, acts on its answer and hands the result to    *)
(* the buffer below, which may fill up and start an operation of its own   *)
(* before the first one is over.  So the operations in progress form a     *)
(* stack, and php code runs at its top: a handler, or, between two steps   *)
(* of an operation, code that cuts in: a catch body, an error handler, the *)
(* conversion of a handler's answer, the destructor of a handler.          *)
(*                                                                         *)
(* A byte is a number: the n-th byte the script wrote is n, a byte a       *)
(* handler printed is 0, one of a diagnostic is -1.                        *)
(***************************************************************************)
EXTENDS Integers, Sequences

CONSTANTS
  MaxBytes,      \* bound: bytes the script writes
  MaxStarts,     \* bound: ob_start() calls
  MaxDepth,      \* bound: buffers open at a time
  MaxPrints,     \* bound: bytes handlers print
  MaxDiags,      \* bound: diagnostics displayed
  MaxInPlace,    \* bound: times code runs in the middle of an operation
  Programs       \* the programs in play, see Program below

ASSUME BoundsAssumption ==
  {MaxBytes, MaxStarts, MaxDepth, MaxPrints, MaxDiags, MaxInPlace} \subseteq Nat

(* What ob_start() is given: a handler or none, a chunk size or 0, and     *)
(* flags; pinned stands for flags that allow no operation.                 *)
Kind == [user: BOOLEAN, pinned: BOOLEAN, chunk: Int]

(* A program: the buffers it opens, and its code an operation may meet     *)
(* half way: a catch of what a handler throws, an error handler, a handler *)
(* of uncaught exceptions, what the cast of an answer that is no string    *)
(* runs, the destructor of a handler whose last holder is its buffer.      *)
Program ==
  [kinds: SUBSET Kind,
   inside: SUBSET {"catch", "errorHandler", "exceptionHandler", "cast", "destructor"}]
ASSUME ProgramsAssumption == Programs \subseteq Program

VARIABLES
  program,   \* the program that runs
  bufs,      \* aOB, outermost first
  ops,       \* the operations in progress, innermost last
  out,       \* what the real consumer received
  phase,     \* "run", "shutdown" (PH7_VmObFlushAll), "end"
  halted,    \* bHaltRequested
  nBytes,    \* bytes the script has written so far
  nStarts,   \* buffers opened so far; the next one's id
  nPrints,   \* bytes handlers have printed so far
  nDiags,    \* diagnostics displayed so far
  nInPlace,  \* times code ran in place so far
  lost       \* history: script bytes given up on purpose

counters == <<nBytes, nStarts, nPrints, nDiags, nInPlace>>
vars == <<program, bufs, ops, out, phase, halted, counters, lost>>

Byte == -1 .. MaxBytes
FromScript(n) == n > 0
ScriptBytes(s) == {s[i] : i \in {j \in DOMAIN s : FromScript(s[j])}}

Failures == {"false", "throw", "exit", "refused"}
Unwound == {"throw", "exit", "refused"}
Answers == {"string", "true"} \cup Failures

(* VmObEntry.  failed is history: the handler failed once.                 *)
Buffer == [id: 1 .. MaxStarts, user: BOOLEAN, pinned: BOOLEAN, chunk: Nat,
           data: Seq(Byte), disabled: BOOLEAN, produced: BOOLEAN, failed: BOOLEAN]

(* An activation of VmObPerform: the buffer's slot and id, the operation,  *)
(* the bytes taken, where it stands, and the handler's answer.  At "code"  *)
(* it is php code running in place instead; at "release", VmObRestore      *)
(* dropping the handler of the buffer that was at slot.  At "cast" and at  *)
(* "release" C holds a pointer to that slot of the array of buffers; at    *)
(* "moved" the array has since moved away from under it.                   *)
Stages == {"handler", "raise", "raising", "cast", "moved", "send", "after",
           "popped", "bail", "release", "code"}
Op == [slot: Nat, id: 0 .. MaxStarts, clean: BOOLEAN, final: BOOLEAN,
       data: Seq(Byte), at: Stages, answer: Answers \cup {"none"}]

Code == [slot |-> 0, id |-> 0, clean |-> FALSE, final |-> FALSE,
         data |-> << >>, at |-> "code", answer |-> "none"]

Release(slot) == [Code EXCEPT !.slot = slot, !.at = "release"]

Last(s) == s[Len(s)]
Below(s) == SubSeq(s, 1, Len(s) - 1)
Top == Last(ops)
AtStage(stage) == ops # << >> /\ Top.at = stage
GoTo(stage) == [ops EXCEPT ![Len(ops)].at = stage]

(* bObRaising, saved and restored around each diagnostic                   *)
Raising(stack) == \E k \in DOMAIN stack : stack[k].at = "raising"

(* The program's code of one of these kinds runs, over the stack.          *)
CodeOver(kinds, stack) ==
  /\ kinds \cap program.inside # {}
  /\ nInPlace < MaxInPlace
  /\ nInPlace' = nInPlace + 1
  /\ ops' = Append(stack, Code)

---------------------------------------------------------------------------
(* VmObPerform on slot i of the buffers b, up to the handler's first       *)
(* instruction.  The bytes are copied out, the entry keeps its own; a      *)
(* buffer whose handler runs is disabled for the duration of the call.     *)
Calls(buf) == buf.user /\ ~buf.disabled

Begin(b, i, clean, final, base) ==
  /\ bufs' = IF Calls(b[i]) THEN [b EXCEPT ![i].disabled = TRUE] ELSE b
  /\ ops' = Append(base,
       [slot |-> i, id |-> b[i].id, clean |-> clean, final |-> final,
        data |-> b[i].data, at |-> IF Calls(b[i]) THEN "handler" ELSE "send",
        answer |-> "none"])

(* VmObSink: the highest buffer at or below slot i that is not disabled    *)
(* takes the bytes, and writes out if that fills its chunk; with none      *)
(* left, or none at slot i any more, they go to the real output.           *)
Takers(b, i) == IF i > Len(b) THEN {} ELSE {j \in 1 .. i : ~b[j].disabled}
Highest(S) == CHOOSE j \in S : \A k \in S : k <= j

Sink(b, i, bytes, base) ==
  IF Takers(b, i) = {}
  THEN /\ out' = out \o bytes
       /\ bufs' = b
       /\ ops' = base
  ELSE LET j == Highest(Takers(b, i))
           b2 == [b EXCEPT ![j].data = @ \o bytes, ![j].produced = @ \/ Raising(base)]
       IN /\ IF b2[j].chunk > 0 /\ Len(b2[j].data) >= b2[j].chunk
             THEN Begin(b2, j, FALSE, FALSE, base)
             ELSE bufs' = b2 /\ ops' = base
          /\ UNCHANGED out

---------------------------------------------------------------------------
(* The script                                                              *)

(* Script code has the thread: the main program, or a catch body or an     *)
(* error handler running in place.                                         *)
ScriptRuns ==
  /\ ~halted
  /\ \/ ops = << >> /\ phase = "run"
     \/ AtStage("code")

(* echo, through VmObConsumer outside of any handler                       *)
Echo ==
  /\ ScriptRuns
  /\ nBytes < MaxBytes
  /\ nBytes' = nBytes + 1
  /\ Sink(bufs, Len(bufs), <<nBytes + 1>>, ops)
  /\ UNCHANGED <<program, phase, halted, nStarts, nPrints, nDiags, nInPlace, lost>>

(* A push that finds the array of buffers full moves it; the array has     *)
(* room for every slot held.  What is then written through a pointer C     *)
(* held goes to freed memory and no longer to a buffer.                    *)
Held(op) == op.at \in {"cast", "release"}
Full ==
  /\ \E k \in DOMAIN ops : Held(ops[k])
  /\ \A k \in DOMAIN ops : Held(ops[k]) => ops[k].slot <= Len(bufs)
Moved ==
  [k \in DOMAIN ops |->
    CASE ops[k].at = "cast" -> [ops[k] EXCEPT !.at = "moved"]
      [] ops[k].at = "release" -> [ops[k] EXCEPT !.slot = 0]
      [] OTHER -> ops[k]]

ObStartGiven(kind, chunk) ==
  /\ ScriptRuns
  /\ nStarts < MaxStarts
  /\ Len(bufs) < MaxDepth
  /\ nStarts' = nStarts + 1
  /\ bufs' = Append(bufs,
       [id |-> nStarts + 1, user |-> kind.user, pinned |-> kind.pinned, chunk |-> chunk,
        data |-> << >>, disabled |-> FALSE, produced |-> FALSE, failed |-> FALSE])
  /\ UNCHANGED ops \/ (Full /\ ops' = Moved)
  /\ UNCHANGED <<program, out, phase, halted, nBytes, nPrints, nDiags, nInPlace, lost>>

ObStartVerbatim(kind) == ObStartGiven(kind, kind.chunk)

(* A negative chunk size is none.                                          *)
ObStart(kind) == ObStartGiven(kind, IF kind.chunk > 0 THEN kind.chunk ELSE 0)

(* A call that operates on the topmost buffer, unless ob_start()'s flags   *)
(* forbid it (VmObAllows).                                                 *)
OperateOnPinned(clean, final) ==
  /\ ScriptRuns
  /\ bufs # << >>
  /\ Begin(bufs, Len(bufs), clean, final, ops)
  /\ UNCHANGED <<program, out, phase, halted, counters, lost>>

Operate(clean, final) ==
  /\ ScriptRuns
  /\ bufs # << >>
  /\ ~Last(bufs).pinned
  /\ Begin(bufs, Len(bufs), clean, final, ops)
  /\ UNCHANGED <<program, out, phase, halted, counters, lost>>

ObClean == Operate(TRUE, FALSE)
ObFlush == Operate(FALSE, FALSE)
ObEndClean == Operate(TRUE, TRUE)    \* and ob_get_clean()
ObEndFlush == Operate(FALSE, TRUE)   \* and ob_get_flush()

(* Code running in place returns, or calls exit().                         *)
CodeReturns ==
  /\ AtStage("code")
  /\ ops' = Below(ops)
  /\ halted' \in {halted, TRUE}
  /\ UNCHANGED <<program, bufs, out, phase, counters, lost>>

---------------------------------------------------------------------------
(* The handler                                                             *)

Entry == bufs[Top.slot]

(* What a handler prints goes to the topmost buffer still taking bytes,    *)
(* its own one included, with no write-out.                                *)
HandlerPrints ==
  /\ AtStage("handler")
  /\ nPrints < MaxPrints
  /\ nPrints' = nPrints + 1
  /\ LET j == Highest(Takers(bufs, Len(bufs)) \cup {Top.slot})
     IN bufs' = [bufs EXCEPT ![j].data = Append(@, 0), ![j].produced = TRUE]
  /\ UNCHANGED <<program, ops, out, phase, halted, nBytes, nStarts, nDiags, nInPlace, lost>>

(* The handler's call is over.  One that printed, and answered, is         *)
(* deprecated for it before its answer is used.                            *)
Answered(answer) ==
  IF Entry.produced /\ answer \notin Unwound
  THEN /\ ops' = [ops EXCEPT ![Len(ops)].answer = answer, ![Len(ops)].at = "raise"]
       /\ bufs' = [bufs EXCEPT ![Top.slot].produced = FALSE]
  ELSE /\ ops' = [ops EXCEPT ![Len(ops)].answer = answer, ![Len(ops)].at = "send"]
       /\ UNCHANGED bufs

HandlerReturns(answer) ==
  /\ AtStage("handler")
  /\ Answered(answer)
  /\ halted' = (halted \/ answer = "exit")
  /\ UNCHANGED <<program, out, phase, counters, lost>>

(* VmObRefuseInHandler: a call that would change the stack under the       *)
(* handler ends the request instead.                                       *)
HandlerRefused ==
  /\ AtStage("handler")
  /\ Answered("refused")
  /\ halted' = TRUE
  /\ UNCHANGED <<program, out, phase, counters, lost>>

---------------------------------------------------------------------------
(* The rest of the operation                                               *)

(* VmObDeprecateOutput: the buffer is still disabled, and its handler no   *)
(* longer counts as running.                                               *)
Raised == GoTo("raising")

Deprecate ==
  /\ AtStage("raise")
  /\ \/ /\ nDiags < MaxDiags
        /\ nDiags' = nDiags + 1
        /\ Sink(bufs, Len(bufs), <<-1>>, Raised)
        /\ UNCHANGED nInPlace
     \/ /\ CodeOver({"errorHandler"}, Raised)
        /\ UNCHANGED <<bufs, out, nDiags>>
     \/ /\ ops' = Raised
        /\ UNCHANGED <<bufs, out, nDiags, nInPlace>>
  /\ UNCHANGED <<program, phase, halted, nBytes, nStarts, nPrints, lost>>

DeprecatedAgain ==
  /\ AtStage("raising")
  /\ ops' = GoTo("raise")
  /\ UNCHANGED <<program, bufs, out, phase, halted, counters, lost>>

Deprecated ==
  /\ AtStage("raising")
  /\ ops' = GoTo("send")
  /\ UNCHANGED <<program, bufs, out, phase, halted, counters, lost>>

(* An answer that is neither a string nor a boolean is cast to a string    *)
(* with the entry held, the handler no longer counting as running: an      *)
(* array with a warning, displayed or handled, an object by its            *)
(* __toString().  A cast that throws, or is left by exit(), answers no     *)
(* bytes.                                                                  *)
Casting == GoTo(IF Top.slot \in DOMAIN bufs THEN "cast" ELSE "moved")

Cast ==
  /\ AtStage("send") /\ Top.answer = "string"
  /\ "cast" \in program.inside
  /\ \/ /\ CodeOver({"cast"}, Casting)
        /\ UNCHANGED <<bufs, out, nDiags>>
     \/ /\ nDiags < MaxDiags
        /\ nDiags' = nDiags + 1
        /\ Sink(bufs, Len(bufs), <<-1>>, Casting)
        /\ UNCHANGED nInPlace
  /\ UNCHANGED <<program, phase, halted, nBytes, nStarts, nPrints, lost>>

CastFails ==
  /\ AtStage("cast") \/ AtStage("moved")
  /\ Top.answer = "string"
  /\ ops' = [ops EXCEPT ![Len(ops)].answer = "true"]
  /\ UNCHANGED <<program, bufs, out, phase, halted, counters, lost>>

(* What leaves the buffer.  A failure sends the original bytes and what    *)
(* the handler printed after them; TRUE sends nothing; a string stands for *)
(* the bytes it was made of.                                               *)
Present == Top.slot \in DOMAIN bufs
Printed == IF Present
           THEN SubSeq(Entry.data, Len(Top.data) + 1, Len(Entry.data))
           ELSE << >>
Result == IF Top.answer \in Failures THEN Top.data \o Printed
          ELSE IF Top.answer = "true" THEN << >>
          ELSE Top.data

DroppedOnExit == Top.answer \in {"refused", "exit"}

(* No frame of the program is left to throw into.                          *)
Unframed == phase = "shutdown" /\ \A k \in DOMAIN ops : ops[k].at # "code"

(* The request ends there and nothing more is delivered.  A throw at       *)
(* shutdown is taken for that while pCalleeName names the flush: always    *)
(* when the flush itself led to it, and in code that cuts in unless a      *)
(* builtin is on the way.                                                  *)
Dropped ==
  \/ Top.answer = "refused"
  \/ Top.answer = "throw" /\ Unframed

MayBeDropped == Dropped \/ (Top.answer = "throw" /\ phase = "shutdown")

(* The entry is emptied.  It was disabled for the call, and an answer that *)
(* is no failure enables it again, through the pointer held since the      *)
(* answer's cast began.                                                    *)
EmptiedMarking(data, enabled) ==
  IF ~Present THEN bufs
  ELSE [bufs EXCEPT
         ![Top.slot].data = data,
         ![Top.slot].disabled = @ /\ ~enabled,
         ![Top.slot].failed = @ \/ Top.answer \in Failures]

Succeeded == Top.answer \in {"string", "true"} /\ Top.at # "moved"

EmptiedNot == EmptiedMarking(Entry.data, Succeeded)
EmptiedAfterThrow == EmptiedMarking(<< >>, Succeeded \/ Top.answer = "throw")

Emptied == EmptiedMarking(<< >>, Succeeded)

(* What an operation gives up for good, for the history.                   *)
GivesUp(dropped) ==
  \/ Top.clean
  \/ Top.answer \in {"true", "refused"}
  \/ Top.answer = "throw" /\ dropped

Send ==
  /\ AtStage("send") \/ AtStage("cast") \/ AtStage("moved")
  /\ \E dropped \in {Dropped, MayBeDropped} :
       /\ IF Top.clean \/ dropped \/ Result = << >>
          THEN /\ bufs' = Emptied
               /\ ops' = GoTo("after")
               /\ UNCHANGED out
          ELSE Sink(Emptied, Top.slot - 1, Result, GoTo("after"))
       /\ lost' = IF GivesUp(dropped) THEN lost \cup ScriptBytes(Top.data) ELSE lost
  /\ UNCHANGED <<program, phase, halted, counters>>

(* The door removes the topmost buffer, and then the exception the handler *)
(* threw is raised (VmObRethrow).  Thrown from a buffer another operation  *)
(* wrote into, it is raised with that operation still in progress, and a   *)
(* catch, or the handler of uncaught exceptions, runs there; otherwise the *)
(* script goes on in its catch, or ends.                                   *)
Popped == IF AtStage("after") /\ Top.final /\ bufs # << >> THEN Below(bufs) ELSE bufs

(* VmObPop, when the destructor of the buffer's handler runs in it.  The   *)
(* slot is free by then; VmObRestore goes on with it, whatever is there.   *)
Destructs(stack) ==
  /\ bufs # << >> /\ Last(bufs).user
  /\ bufs' = Below(bufs)
  /\ CodeOver({"destructor"}, Append(stack, Release(Len(bufs))))

PopDestructs ==
  /\ AtStage("after") /\ Top.final
  /\ Destructs(GoTo("popped"))
  /\ UNCHANGED <<program, out, phase, halted, nBytes, nStarts, nPrints, nDiags, lost>>

Restored ==
  /\ AtStage("release")
  /\ bufs' = IF Top.slot \in DOMAIN bufs
             THEN [bufs EXCEPT ![Top.slot].user = FALSE, ![Top.slot].data = << >>]
             ELSE bufs
  /\ ops' = Below(ops)
  /\ UNCHANGED <<program, out, phase, halted, counters, lost>>

(* At shutdown an exception ends the request: the flush gives up the other *)
(* buffers.  If the program has code to run meanwhile, that takes steps.   *)
BailsInSteps == program.inside \cap {"exceptionHandler", "destructor"} # {}
Bails == Top.answer = "throw" /\ phase = "shutdown" /\ Len(ops) = 1

Finish ==
  /\ AtStage("after") \/ AtStage("popped")
  /\ LET threw == Top.answer = "throw"
         nested == Len(ops) > 1 /\ ops[Len(ops) - 1].at # "code"
     IN \/ /\ Bails /\ ~BailsInSteps
           /\ bufs' = << >>
           /\ lost' = lost \cup UNION {ScriptBytes(Popped[i].data) : i \in DOMAIN Popped}
           /\ ops' = << >>
           /\ UNCHANGED <<halted, nInPlace>>
        \/ /\ threw /\ nested
           /\ CodeOver({"exceptionHandler"} \cup (IF Unframed THEN {} ELSE {"catch"}), Below(ops))
           /\ bufs' = Popped
           /\ UNCHANGED <<halted, lost>>
        \/ /\ threw /\ (phase = "run" \/ Len(ops) > 1)
           /\ bufs' = Popped
           /\ ops' = Below(ops)
           /\ halted' \in (IF nested THEN {TRUE} ELSE {halted, TRUE})
           /\ UNCHANGED <<lost, nInPlace>>
        \/ /\ ~threw
           /\ bufs' = Popped
           /\ ops' = Below(ops)
           /\ UNCHANGED <<halted, lost, nInPlace>>
  /\ UNCHANGED <<program, out, phase, nBytes, nStarts, nPrints, nDiags>>

BailOut ==
  /\ AtStage("after") \/ AtStage("popped")
  /\ Bails /\ BailsInSteps
  /\ bufs' = Popped
  /\ \/ ops' = GoTo("bail") /\ UNCHANGED nInPlace
     \/ CodeOver({"exceptionHandler"}, GoTo("bail"))
  /\ UNCHANGED <<program, out, phase, halted, nBytes, nStarts, nPrints, nDiags, lost>>

BailPops ==
  /\ AtStage("bail")
  /\ IF bufs = << >>
     THEN /\ ops' = Below(ops)
          /\ UNCHANGED <<bufs, lost, nInPlace>>
     ELSE /\ \/ Destructs(ops)
             \/ bufs' = Below(bufs) /\ UNCHANGED <<ops, nInPlace>>
          /\ lost' = lost \cup ScriptBytes(Last(bufs).data)
  /\ UNCHANGED <<program, out, phase, halted, nBytes, nStarts, nPrints, nDiags>>

---------------------------------------------------------------------------
(* The end of the request                                                  *)

(* The shutdown functions and the destructors run after an exit(), and may *)
(* write and use buffers like the rest of the script.                      *)
ShutdownFunctions ==
  /\ phase = "run" /\ ops = << >> /\ halted
  /\ halted' = FALSE
  /\ UNCHANGED <<program, bufs, ops, out, phase, counters, lost>>

ScriptEnds ==
  /\ phase = "run" /\ ops = << >>
  /\ phase' = "shutdown"
  /\ halted' = FALSE
  /\ UNCHANGED <<program, bufs, ops, out, counters, lost>>

(* PH7_VmObFlushAll: a final operation on the topmost buffer, and again    *)
(* until none is left.                                                     *)
FlushAll ==
  /\ phase = "shutdown" /\ ops = << >>
  /\ IF bufs = << >>
     THEN /\ phase' = "end"
          /\ UNCHANGED <<bufs, ops>>
     ELSE /\ Begin(bufs, Len(bufs), FALSE, TRUE, ops)
          /\ UNCHANGED phase
  /\ UNCHANGED <<program, out, halted, counters, lost>>

Terminated == phase = "end" /\ UNCHANGED vars

---------------------------------------------------------------------------
Init ==
  /\ program \in Programs
  /\ bufs = << >> /\ ops = << >> /\ out = << >>
  /\ phase = "run" /\ halted = FALSE
  /\ nBytes = 0 /\ nStarts = 0 /\ nPrints = 0 /\ nDiags = 0 /\ nInPlace = 0
  /\ lost = {}

Script ==
  \/ Echo
  \/ \E kind \in program.kinds : ObStart(kind)
  \/ ObClean \/ ObFlush \/ ObEndClean \/ ObEndFlush

Engine ==
  \/ \E answer \in Answers \ {"refused"} : HandlerReturns(answer)
  \/ Deprecate \/ Deprecated \/ Cast \/ CastFails \/ Send
  \/ PopDestructs \/ Restored \/ Finish \/ BailOut \/ BailPops
  \/ CodeReturns \/ FlushAll

Next ==
  \/ Script \/ Engine
  \/ HandlerPrints \/ HandlerRefused \/ ShutdownFunctions \/ ScriptEnds
  \/ Terminated

Spec == Init /\ [][Next]_vars

(* Handlers return, and so does code run in place.                         *)
FairSpec == Spec /\ WF_vars(Engine)

---------------------------------------------------------------------------
(* Properties                                                              *)

(* What each variable holds.                                               *)
TypeOK ==
  /\ program \in Programs
  /\ bufs \in Seq(Buffer)
  /\ ops \in Seq(Op)
  /\ out \in Seq(Byte)
  /\ phase \in {"run", "shutdown", "end"}
  /\ halted \in BOOLEAN
  /\ nBytes \in 0 .. MaxBytes /\ nStarts \in 0 .. MaxStarts /\ nPrints \in 0 .. MaxPrints
  /\ nDiags \in 0 .. MaxDiags /\ nInPlace \in 0 .. MaxInPlace
  /\ lost \subseteq 1 .. MaxBytes

(* Bytes come out in the order of their layers: what has been sent, then   *)
(* the buffers from the outermost in.                                      *)
Layers == 0 .. Len(bufs)
Layer(k) == IF k = 0 THEN out ELSE bufs[k].data

(* The script's bytes keep their order and none is doubled, whatever       *)
(* fills, fails or is written out on the way.                              *)
InOrder == program.inside = {} =>
  \A k, l \in Layers : \A i \in DOMAIN Layer(k), j \in DOMAIN Layer(l) :
    LET m == Layer(k)[i]
        n == Layer(l)[j]
    IN FromScript(m) /\ FromScript(n) /\ (k < l \/ (k = l /\ i < j)) => m < n

(* No byte of the script disappears unless an operation gave it up.        *)
AllBytesKept ==
  1 .. nBytes = (UNION {ScriptBytes(Layer(k)) : k \in Layers}) \cup lost

BytesKept == program.inside = {} => AllBytesKept

(* A buffer whose handler failed is transparent for good: the handler is   *)
(* not called again, not even by the shutdown flush, and nothing stays in  *)
(* the buffer once no operation is under way.  With code that cuts in it   *)
(* does not hold: such code can end the buffer and open another in its     *)
(* place, fail that one, and the old operation then goes on with it.       *)
FailedIsTransparent == program.inside = {} =>
  /\ AtStage("handler") => ~Entry.failed
  /\ ops = << >> => \A i \in DOMAIN bufs : bufs[i].failed => bufs[i].data = << >>

(* Buffers leave from the top, one by one, each by an operation that was   *)
(* begun on that very buffer, and a pinned one only at shutdown; a failed  *)
(* shutdown flush drops them all.  Like the two properties before it, for  *)
(* programs no code cuts into: such code may open a buffer over the one an *)
(* operation is under way on, whose door then removes the other.           *)
LeavesByItsOwnOperation ==
  [][program.inside = {} /\ Len(bufs') < Len(bufs) =>
       /\ Top.final /\ Top.id = Last(bufs).id
       /\ bufs' = Below(bufs) \/ (phase = "shutdown" /\ bufs' = << >>)
       /\ Last(bufs).pinned => phase = "shutdown"]_vars

(* The shutdown flush comes to an end, if no code of the program runs      *)
(* between two handlers: code that cuts in may open a buffer the flush     *)
(* then pops instead of the one it works on, and so for ever.  A handler   *)
(* itself may open none, and there is no frame left for a catch.           *)
FlushEnds ==
  phase = "shutdown" /\ program.inside \subseteq {"catch"} ~> phase = "end"
============================================================================
