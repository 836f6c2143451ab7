--------------------------- MODULE PcntlSignals ---------------------------
(***************************************************************************)
(* The signal half of ext/pcntl (src/ph7/builtin_pcntl.c).                 *)
(*                                                                         *)
(* The C handler, on the interpreter's own thread, interrupts it between   *)
(* any two machine steps: it records the delivery in a ring of Q slots and *)
(* raises a flag.  The interpreter drains the ring at a fetch point when   *)
(* the flag is up, or when the program calls pcntl_signal_dispatch().      *)
(*                                                                         *)
(* The ring, its cursors and the flags are file statics: one set for the   *)
(* process.  The handler table is per VM, and a process may keep several   *)
(* VMs (the development server caches one per script).                     *)
(*                                                                         *)
(* The drain shares the ring with the C handler and is split at every      *)
(* access.  pcntl_signal() shares only the dispositions with it: it is     *)
(* split where PHP code may run inside it, at the release of the handler   *)
(* it replaces, whose destructor may itself do whatever a program does.    *)
(***************************************************************************)
EXTENDS Integers, Sequences, SequencesExt

CONSTANTS
  VMs,        \* the virtual machines of the process
  Signals,    \* the signal numbers 1 .. NSIG-1 in play
  Refused,    \* those sigaction() refuses (SIGKILL, SIGSTOP)
  Q,          \* PCNTL_QUEUE
  None,       \* signo 0 of a slot never written; no VM
  Destructible, \* the signals that may be given a handler with a destructor
  MaxCalls    \* bound: pcntl_signal() calls in the middle of which others run

ASSUME QueueAssumption == Q \in Nat \ {0}
ASSUME NoneAssumption == None \notin Signals /\ None \notin VMs
ASSUME RefusedAssumption == Refused \subseteq Signals
ASSUME DestructibleAssumption == Destructible \subseteq Signals
ASSUME MaxCallsAssumption == MaxCalls \in Nat

VARIABLES
  has,        \* the VMs whose pPcntl is allocated
  handler,    \* aHandler and aSet of each VM
  draining,   \* the VMs whose bDraining is set
  parked,     \* the VMs whose nBoundaryRc holds an unwind to route
  owner,      \* pPcntlVm
  disp,       \* the kernel's disposition of each signal
  asyncFlag,  \* bPcntlAsyncFlag
  pending,    \* PH7_PcntlAsyncPending
  head, tail, \* nPcntlHead, nPcntlTail
  ring,       \* aPcntlQueue, the signo of each slot
  pc, vm,     \* where the drain is, and the VM it runs for
  nEnd,       \* the drain's snapshot of the tail
  ev,         \* the event it has copied out
  unwound,    \* a handler of this drain threw
  calls,      \* the pcntl_signal() calls whose replaced handler is being
              \* destroyed, the innermost last; at says where each was made
  armed,      \* history: an accepted delivery no drain has detached yet
              \* arrived with the async flag set
  overtaken   \* history: the signals whose C handler was installed in the
              \* middle of a call that sets them to SIG_DFL or SIG_IGN

table == <<has, handler, owner, disp>>
cursors == <<head, tail, ring>>
drain == <<draining, pc, vm, nEnd, ev, unwound>>
nested == <<calls, overtaken>>
vars == <<table, parked, asyncFlag, pending, cursors, drain, armed, nested>>

IntHandlers == {"default", "ignore"}
Handlers == IntHandlers \cup {"unset", "call"}

---------------------------------------------------------------------------
(* The ring                                                                *)

Cursors == 0 .. (2 * Q - 1)
Slot(c) == c % Q
AdvanceUnwrapped(c) == c + 1
Advance(c) == (c + 1) % (2 * Q)
Distance(from, to) == (to - from + 2 * Q) % (2 * Q)
Used == Distance(head, tail)

(* PcntlSigHandler.  A full ring drops the delivery, but the flag goes up  *)
(* all the same.                                                           *)
DeliverGiven(s, room) ==
  /\ disp[s] = "ring"
  /\ IF room
     THEN /\ ring' = [ring EXCEPT ![Slot(tail)] = s]
          /\ tail' = Advance(tail)
          /\ armed' = (armed \/ asyncFlag)
     ELSE UNCHANGED <<ring, tail, armed>>
  /\ pending' = (pending \/ asyncFlag)
  /\ UNCHANGED <<table, parked, asyncFlag, head, drain, nested>>

DeliverOverfull(s) == DeliverGiven(s, Used <= Q)

Deliver(s) == DeliverGiven(s, Used < Q)

---------------------------------------------------------------------------
(* Calls a PHP program makes                                               *)

(* PHP code of v has the thread: a program between two opcodes, a handler  *)
(* a drain called, or the destructor of a handler being replaced.  It goes *)
(* on only with no unwind parked.                                          *)
Innermost == Last(calls)
AtPhp(v) ==
  /\ <<pc, vm>> \in {<<"php", None>>, <<"handler", v>>}
  /\ calls # << >> => Innermost.vm = v
Runs(v) == AtPhp(v) /\ v \notin parked

(* PcntlState(pVm, 1): the first call allocates the table and takes the    *)
(* statics over.                                                           *)
TakeState(v) ==
  /\ has' = has \cup {v}
  /\ owner' = IF v \in has THEN owner ELSE v

(* PcntlStoreErr, from any pcntl call that fails.                          *)
StoreErr(v) ==
  /\ Runs(v)
  /\ TakeState(v)
  /\ UNCHANGED <<handler, disp, parked, asyncFlag, pending, cursors, drain, armed, nested>>

(* The replaced handler is an object, or an array that holds one, whose    *)
(* destructor runs before the new handler is stored; until then the entry  *)
(* still reads as the old one.                                             *)
ReleaseRuns(v, s, how) ==
  /\ handler[v][s] = "call" /\ s \in Destructible
  /\ Len(calls) < MaxCalls
  /\ calls' = Append(calls, [vm |-> v, signo |-> s, how |-> how, at |-> pc])

(* The store that ends the call; whatever a destructor put there is wiped. *)
StoreHandler(v, s, how) == handler' = [handler EXCEPT ![v][s] = how]

(* sigaction() with the C handler, under the calls of stack.               *)
InstallHandler(s, stack) ==
  /\ disp' = [disp EXCEPT ![s] = "ring"]
  /\ overtaken' = IF \E i \in DOMAIN stack : stack[i].signo = s /\ stack[i].how # "call"
                  THEN overtaken \cup {s} ELSE overtaken \ {s}

(* pcntl_signal() with SIG_DFL or SIG_IGN: the kernel is told first, and   *)
(* nothing is stored when it refuses.                                      *)
SignalInt(v, s, how) ==
  /\ Runs(v)
  /\ TakeState(v)
  /\ IF s \in Refused
     THEN /\ parked' = parked \cup {v}
          /\ UNCHANGED <<handler, disp, nested>>
     ELSE /\ disp' = [disp EXCEPT ![s] = how]
          /\ overtaken' = overtaken \ {s}
          /\ \/ StoreHandler(v, s, how) /\ UNCHANGED calls
             \/ ReleaseRuns(v, s, how) /\ UNCHANGED handler
          /\ UNCHANGED parked
  /\ UNCHANGED <<asyncFlag, pending, cursors, drain, armed>>

(* pcntl_signal() with a callable: stored first, then installed.           *)
StoreAndInstall(v, s, stack, threw) ==
  /\ StoreHandler(v, s, "call")
  /\ IF s \in Refused THEN UNCHANGED <<disp, overtaken>> ELSE InstallHandler(s, stack)
  /\ parked' = IF s \in Refused \/ threw THEN parked \cup {v} ELSE parked

SignalCall(v, s) ==
  /\ Runs(v)
  /\ TakeState(v)
  /\ \/ StoreAndInstall(v, s, calls, FALSE) /\ UNCHANGED calls
     \/ ReleaseRuns(v, s, "call") /\ UNCHANGED <<handler, disp, parked, overtaken>>
  /\ UNCHANGED <<asyncFlag, pending, cursors, drain, armed>>

(* The destructor ends, with its unwind parked when it threw; the call     *)
(* goes on all the same.                                                   *)
ReleaseEnds(threw) ==
  LET c == Innermost IN
  /\ calls # << >>
  /\ c.at = pc
  /\ c.vm \in parked => threw
  /\ calls' = Front(calls)
  /\ IF c.how = "call"
     THEN StoreAndInstall(c.vm, c.signo, calls', threw)
     ELSE /\ StoreHandler(c.vm, c.signo, c.how)
          /\ parked' = IF threw THEN parked \cup {c.vm} ELSE parked
          /\ UNCHANGED <<disp, overtaken>>
  /\ UNCHANGED <<has, owner, asyncFlag, pending, cursors, drain, armed>>

(* pcntl_async_signals(on): what is queued already is not swept up.        *)
AsyncSignals(v, on) ==
  /\ Runs(v)
  /\ TakeState(v)
  /\ asyncFlag' = on
  /\ UNCHANGED <<handler, disp, parked, pending, cursors, drain, armed, nested>>

(* A C-boundary throw parks its unwind (VmBoundaryPark); the next fetch    *)
(* routes it, before anything else.                                        *)
Park(v) ==
  /\ Runs(v)
  /\ parked' = parked \cup {v}
  /\ UNCHANGED <<table, asyncFlag, pending, cursors, drain, armed, nested>>

Route(v) ==
  /\ v \in parked
  /\ AtPhp(v)
  /\ parked' = parked \ {v}
  /\ UNCHANGED <<table, asyncFlag, pending, cursors, drain, armed, nested>>

---------------------------------------------------------------------------
(* PcntlDrain                                                              *)

(* Its entry.  With no table there is nothing to consume the flag; a call  *)
(* from inside a handler is a no-op; otherwise the flag goes down first.   *)
DrainGiven(v, busy) ==
  IF v \notin has
  THEN /\ pending' = FALSE
       /\ UNCHANGED <<table, parked, asyncFlag, cursors, drain, armed, nested>>
  ELSE /\ ~busy
       /\ draining' = draining \cup {v}
       /\ pending' = FALSE
       /\ pc' = "snapshot" /\ vm' = v
       /\ UNCHANGED <<table, parked, asyncFlag, cursors, nEnd, ev, unwound, armed, nested>>

DrainReentered(v) == DrainGiven(v, FALSE)

Drain(v) == DrainGiven(v, v \in draining)

(* pcntl_signal_dispatch()                                                 *)
SignalDispatch(v) == Runs(v) /\ Drain(v)

(* The fetch point of VmByteCodeExec: a parked unwind wins.                *)
FetchPoint(v) == Runs(v) /\ pending /\ Drain(v)

Snapshot ==
  /\ pc = "snapshot"
  /\ nEnd' = tail
  /\ armed' = FALSE
  /\ pc' = "walk"
  /\ UNCHANGED <<table, parked, asyncFlag, pending, cursors,
                 draining, vm, ev, unwound, nested>>

(* Where the walk ends: the snapshot, not the live tail.                   *)
UntilLive == tail
Until == nEnd

(* The event is copied out of the ring before its slot is given back.      *)
CopyOut ==
  /\ pc = "walk"
  /\ head # Until
  /\ ev' = ring[Slot(head)]
  /\ pc' = "copied"
  /\ UNCHANGED <<table, parked, asyncFlag, pending, cursors,
                 draining, vm, nEnd, unwound, armed, nested>>

(* The drain's locals end with it.                                         *)
LeaveDrain ==
  /\ draining' = draining \ {vm}
  /\ pc' = "php" /\ vm' = None
  /\ nEnd' = 0 /\ ev' = None /\ unwound' = FALSE

(* The drain leaves a flag that went up meanwhile as it is.                *)
WalkedAllGiven(flag) ==
  /\ pc = "walk"
  /\ head = Until
  /\ LeaveDrain
  /\ pending' = flag
  /\ UNCHANGED <<table, parked, asyncFlag, cursors, armed, nested>>

WalkedAllClearing == WalkedAllGiven(FALSE)

WalkedAll == WalkedAllGiven(pending)

(* The head moves on; then the handler is called, unless the number is out *)
(* of range, a handler of this drain threw, or the table has no callable   *)
(* for it now.                                                             *)
Callable(threw) ==
  /\ ev \in Signals
  /\ ~threw
  /\ handler[vm][ev] = "call"

FreeSlotGiven(threw) ==
  /\ pc = "copied"
  /\ head' = Advance(head)
  /\ pc' = IF Callable(threw) THEN "handler" ELSE "walk"
  /\ UNCHANGED <<table, parked, asyncFlag, pending, tail, ring,
                 draining, vm, nEnd, ev, unwound, armed, nested>>

FreeSlotThrown == FreeSlotGiven(FALSE)

FreeSlot == FreeSlotGiven(unwound)

(* No memory for the two arguments: the rest of the snapshot stays in the  *)
(* ring.                                                                   *)
FreeSlotNoMemory ==
  /\ pc = "copied"
  /\ Callable(unwound)
  /\ head' = Advance(head)
  /\ LeaveDrain
  /\ UNCHANGED <<table, parked, asyncFlag, pending, tail, ring, armed, nested>>

(* The handler's own code, and the releases that follow the call.          *)
AtHandler == pc = "handler" /\ (calls # << >> => Innermost.at = "php")

HandlerReturns ==
  /\ AtHandler
  /\ vm \notin parked
  /\ pc' = "walk"
  /\ UNCHANGED <<table, parked, asyncFlag, pending, cursors,
                 draining, vm, nEnd, ev, unwound, armed, nested>>

(* PH7_VmCallUserFunction parks the unwind the handler left with.  So does *)
(* a destructor among the releases: the next call then gives up at its     *)
(* first fetch, before any PHP code, and the drain learns of it there.     *)
HandlerThrows ==
  /\ AtHandler
  /\ parked' = parked \cup {vm}
  /\ unwound' = TRUE
  /\ pc' = "walk"
  /\ UNCHANGED <<table, asyncFlag, pending, cursors,
                 draining, vm, nEnd, ev, armed, nested>>

---------------------------------------------------------------------------
(* PH7_PcntlVmRelease, of a VM with a table: every signal the table names  *)
(* goes back to SIG_DFL; the statics are cleared only by the VM that took  *)
(* them over last.                                                         *)
ReleaseGiven(v, named) ==
  /\ pc = "php" /\ calls = << >>
  /\ v \in has
  /\ disp' = [s \in Signals |-> IF s \in named THEN "default" ELSE disp[s]]
  /\ handler' = [handler EXCEPT ![v] = [s \in Signals |-> "unset"]]
  /\ has' = has \ {v}
  /\ parked' = parked \ {v}
  /\ overtaken' = overtaken \ named
  /\ IF owner = v
     THEN /\ owner' = None
          /\ asyncFlag' = FALSE /\ pending' = FALSE /\ armed' = FALSE
          /\ head' = 0 /\ tail' = 0
     ELSE UNCHANGED <<owner, asyncFlag, pending, armed, head, tail>>
  /\ UNCHANGED <<ring, drain, calls>>

Named(v) == {s \in Signals : handler[v][s] # "unset"}

(* Mutant of VmRelease: the kernel keeps the dispositions.                  *)
ReleaseTableOnly(v) == ReleaseGiven(v, {})

VmRelease(v) == ReleaseGiven(v, Named(v))

---------------------------------------------------------------------------

Init ==
  /\ has = {}
  /\ handler = [v \in VMs |-> [s \in Signals |-> "unset"]]
  /\ draining = {} /\ parked = {} /\ owner = None
  /\ disp = [s \in Signals |-> "default"]
  /\ asyncFlag = FALSE /\ pending = FALSE
  /\ head = 0 /\ tail = 0
  /\ ring = [i \in 0 .. (Q - 1) |-> None]
  /\ pc = "php" /\ vm = None /\ nEnd = 0 /\ ev = None
  /\ unwound = FALSE /\ armed = FALSE
  /\ calls = << >> /\ overtaken = {}

DrainStep ==
  \/ Snapshot \/ CopyOut \/ WalkedAll \/ FreeSlot \/ FreeSlotNoMemory
  \/ HandlerReturns \/ HandlerThrows

ProgramStep(v) ==
  \/ StoreErr(v)
  \/ \E s \in Signals :
       \/ SignalCall(v, s)
       \/ \E how \in IntHandlers : SignalInt(v, s, how)
  \/ \E on \in BOOLEAN : AsyncSignals(v, on)
  \/ Park(v) \/ Route(v)
  \/ SignalDispatch(v) \/ FetchPoint(v)
  \/ VmRelease(v)

DestructorEnds == \E threw \in BOOLEAN : ReleaseEnds(threw)

Next ==
  \/ \E s \in Signals : Deliver(s)
  \/ \E v \in VMs : ProgramStep(v)
  \/ DrainStep
  \/ DestructorEnds

Spec == Init /\ [][Next]_vars

(* The interpreter keeps running, and a PHP handler, and a destructor      *)
(* however deep, does not call pcntl_signal() for ever.                    *)
FairSpec ==
  /\ Spec
  /\ SF_vars(DrainStep)
  /\ \A depth \in 1 .. MaxCalls : SF_vars(Len(calls) = depth /\ DestructorEnds)

---------------------------------------------------------------------------
(* Properties                                                              *)

(* A pcntl_signal() under way.                                             *)
Call == [vm : VMs, signo : Signals, how : IntHandlers \cup {"call"},
         at : {"php", "handler"}]

(* The values each variable takes.                                         *)
TypeOK ==
  /\ has \subseteq VMs /\ draining \subseteq VMs /\ parked \subseteq VMs
  /\ handler \in [VMs -> [Signals -> Handlers]]
  /\ owner \in VMs \cup {None} /\ vm \in VMs \cup {None}
  /\ disp \in [Signals -> IntHandlers \cup {"ring"}]
  /\ calls \in Seq(Call)
  /\ overtaken \subseteq Signals
  /\ asyncFlag \in BOOLEAN /\ pending \in BOOLEAN
  /\ unwound \in BOOLEAN /\ armed \in BOOLEAN
  /\ head \in Cursors /\ tail \in Cursors /\ nEnd \in Cursors
  /\ ring \in [0 .. (Q - 1) -> Signals \cup {None}]
  /\ ev \in Signals \cup {None}
  /\ pc \in {"php", "snapshot", "walk", "copied", "handler"}

(* The events from one cursor up to another, oldest first.                 *)
Hold(from, to) == [i \in 1 .. Distance(from, to) |-> ring[Slot(from + i - 1)]]

Walking == pc \in {"walk", "copied", "handler"}
First == IF pc = "copied" THEN Advance(head) ELSE head
Detached == IF Walking THEN Hold(First, nEnd) ELSE << >>
Mark == IF Walking THEN nEnd ELSE head
Fresh == Hold(Mark, tail)

Phase == IF draining = {} THEN "idle" ELSE IF Walking THEN "serving" ELSE "begun"

Queue == INSTANCE SignalQueue
           WITH fresh <- Fresh, detached <- Detached, current <- ev, phase <- Phase,
                Capacity <- Q

(* The ring, its wrapping cursors and the drain's snapshot implement the   *)
(* queue that a dispatch detaches: handlers are told the deliveries in     *)
(* their order, each once, and none that came after the dispatch began,    *)
(* wherever the C handler interrupts the drain.                            *)
DrainDetaches == Queue!Spec

(* What the cursors keep true and the refinement rests on: at most Q       *)
(* events are held, the snapshot lies between the head and the tail, and   *)
(* the slot just copied has not been written again.                        *)
RingOK ==
  /\ Used <= Q
  /\ Walking => Distance(head, nEnd) + Distance(nEnd, tail) = Used
  /\ pc = "copied" => head # nEnd /\ ev = ring[Slot(head)]

(* An accepted delivery that found async dispatch on keeps the flag up     *)
(* until a drain has detached it: the drain lowers the flag before it      *)
(* looks at the tail.  Promised for a process with one VM.                 *)
WakeupKept == armed => pending \/ pc = "snapshot"

(* No handler is called with an unwind parked: what was queued behind a    *)
(* handler that threw is consumed without a call.                          *)
NoCallUnderUnwind == [][pc # "handler" /\ pc' = "handler" => vm' \notin parked]_vars

(* A signal that still enters the C handler has a PHP handler to call in   *)
(* some live VM, whichever VMs installed, replaced and were torn down, and *)
(* whatever the destructors of replaced handlers did in the middle.  The   *)
(* one way out is named by overtaken: pcntl_signal() tells the kernel      *)
(* SIG_DFL or SIG_IGN before it releases the old handler and stores the    *)
(* new one after, so a callable that the destructor gives the same signal  *)
(* stays installed and loses its table entry.                              *)
InstalledHasHandler ==
  \A s \in Signals \ overtaken :
    disp[s] = "ring" => \E v \in has : handler[v][s] = "call"

(* A drain ends, also under handlers that raise their own signal again and *)
(* again: it walks to its snapshot, not to the live tail.                  *)
DrainEnds == draining # {} ~> draining = {}

===========================================================================
