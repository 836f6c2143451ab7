# Formal models of PHL

PHL is a PHP engine in C: a compiler to byte code, a virtual machine (`src/src/ph7`), a pool
allocator and platform layer (`src/src/sx`) and a command with a development server
(`src/src/phl`). This directory holds TLA+ models of the parts of it whose correctness is a
matter of *order*: what may happen between two steps of one routine, and what state the other
actors find when it does. Paths below are relative to `src/src/`.

The runtime is single threaded, yet four things come between two steps of its C code: a POSIX
signal handler; a PHP destructor or callback that C calls and that calls back into the same C
routines; another body of PHP code, a generator, a fiber or a second activation, that runs while
the first one is suspended; and, in the development server, a client, an editor of the scripts
and a shutdown signal. Those are the interleavings modelled here.

## Inventory

| Component | State it keeps | Operations | What is hard, and what correct means |
|---|---|---|---|
| Reference counting and cycle collector: `ph7/vm_gc.c`, release paths of `hashmap.c`, `oo.c`, `memobj.c` | `iRef`, colour and flags of each container; the root buffer `aGcRoot`, its threshold, `bGcWanted`; work lists | take, drop, release, separate; `PH7_GcPossibleRoot`, `PH7_GcForget`, `PH7_GcCollect`; `gc_enable/disable/collect_cycles` | Destructors run in the middle of a collection and of a release, and rewire the heap. Counts must be exact, nothing reachable may be freed, nothing freed may be named, garbage must stay findable, a round must end. |
| Signals: `ph7/builtin_pcntl.c`, the fetch point in `vm_exec.c` | the ring, its two cursors, two flags (file statics); a handler table per VM; the kernel's dispositions | the C handler; `pcntl_signal`, `pcntl_async_signals`, `pcntl_signal_dispatch`; the drain; `PH7_PcntlVmRelease` | The handler interrupts the drain between any two accesses. Deliveries are served in order and once, the wakeup is not lost, no handler is called under an unwind, the drain ends, VMs do not disturb each other. |
| Ordered hash map, foreach: `ph7/hashmap.c`, `vm_ops_iter.c`, step lists in `vm.c` | insertion list and count of each map; the foreach steps with their cursors, on three lists | insert, remove, empty, share, copy on write; begin, step, break, leave a frame | A loop body, a nested loop or another activation changes the map under a cursor. A cursor must skip and repeat nothing, a step must end with its frame, arrays must behave as values. |
| Development server: `phl/server.c` | script cache per process (VM, mtime, last use), `g_shutdown`, worker processes | accept, serve, compile, reset and reuse a VM, evict, stop | Edits fall between the reading of a time, the compilation and the next request; signals fall against `accept()`; a reused VM must be clean. |
| Output buffering: `ph7/vm_builtin_ob.c` | stack of buffers with flags; the operations under way | start, write, flush, clean, end, the shutdown flush | A handler is PHP code half way through an operation, and the bytes it lets out may start another operation below. Bytes leave once and in order, failures are transparent, buffers leave by their own operation. |
| VM execution, exceptions: `vm.c`, `vm_exec.c`, `vm_error.c`, `vm_builtin_call.c` | frames, operand stack, handler and finally stacks, parked unwind | fetch, call, throw, unwind, finally | Handlers of all bodies share one stack; a C-boundary throw is parked and routed at the next fetch. |
| Generators, fibers: `ph7/vm_exec_ctx.c` | a suspended context with its slices of the handler and finally stacks | start, suspend, resume, throw, close, destroy | A context is resumed at another depth, from another context, or closed half way through a `finally`. Each throw stops where the bodies' positions say. |
| Handler stacks: `vm_builtin_error.c` | error and exception handlers, shutdown functions | set, restore, run | Re-entrant registration. |
| Sessions: `vm_builtin_session.c` | session data, lock | start, write, regenerate, destroy | Two requests on one session. |
| Streams, filters, curl, PDO/SQLite, sockets | handles | read, write, close | Handle lifetimes; otherwise I/O and library calls. |
| Pool allocator, mutex: `sx/sxmem.c`, `sx/sxmutex.c` | free lists, account | alloc, free, release | Limit accounting. |
| Lexer, parser, compiler; sort; string, date, math, regex; DOM, JSON, serialization; file formats; reflection; command line | none between calls, or tables | | Sequential data transformation, which the 5,000 `.phpt` tests reach well. |

`PROJECT.json` repeats this list with the status of each part, and lists the hazards with the line
at which each one bites.

## Modules

| Module | What it is |
|---|---|
| `CycleGc` | counts, releases and the collector, with the script as environment |
| `CycleGcProofs` | theorems about `CycleGc` |
| `CycleGcGarbageProofs` | the theorem that the collector can find all garbage |
| `PcntlSignals` | the C handler, the drain at the grain of its accesses, the calls of PHP programs, several VMs; holds its own refinement mapping |
| `SignalQueue` | abstract specification: a queue that a dispatch detaches whole |
| `PcntlSignalsProofs` | theorems about `PcntlSignals` |
| `ForeachCursors` | maps, copy-on-write, foreach steps and their cursors; holds its refinement mapping |
| `ForeachCursorsProofs` | theorems about `ForeachCursors`, its refinement among them |
| `ArrayValues` | abstract specification: arrays are values and a loop by value walks a snapshot |
| `OutputBuffer` | the stack of buffers and the operations on it |
| `OutputBufferProofs` | theorems about `OutputBuffer` |
| `DevServer` | processes, the script cache, edits and shutdown |
| `DevServerProofs` | theorems about `DevServer` |
| `Generators` | generators and fibers, and the try, catch and finally of their bodies |
| `GeneratorsProofs` | theorems about `Generators` |
| `MCCycleGc`, `MCForeachCursors`, `MCOutputBuffer`, `MCDevServer`, `MCGenerators` | the TLC instances: sets of slots, programs, setups, symmetry |

`PcntlSignals` needs no MC module: its cfg gives every constant a model value or a set of them.
The components meet as the code's do: the collector's model has the walks of `foreach` as holds
that no count names (`walked`), and the signals' and the collector's models share the fetch point
as their door to PHP code. They are not composed into one specification: they share no other
state, and their product is out of TLC's reach.

### CycleGc

State. `rc` is `iRef`; `color`, `status`, `dtorCalled` are the other fields of a container's
header; `slot` is what each of its values names. References held by the script's variables and
operands are a number per container, `ext`; pins that C takes (the collector's hold, and the two
around a destructor, `oo.c:3587`) are `hold`. A slot that a PHP reference also names is in `named`;
a property slot under `REFSRCPIN` is in `bound`. `walked` holds the containers with an open
by-reference `foreach` step. The buffer is `roots`, `rows` (rows nulled by `PH7_GcForget` count
towards the threshold), `enabled`, `wanted`, `threshold`. `pc`, `todo`, `work`, `aux`, `dead` are
where `PH7_GcCollect` is and its lists. `debt` is a history variable: the slots whose reference the
collector has subtracted and not yet restored.

Grain. C code runs to completion except where PHP can run: at a fetch point, and in the body of a
destructor. `stack` is the C stack with its releases (`tear`), destructor bodies (`dtor`) and the
collection (`gc`). While the top frame is a destructor, every action of the script is enabled, over
whatever lies below it: a half-torn array, a collection between proof and cut, another destructor.
The loops of the collector are one action per container visited, with the work lists as sets, so
that every order of visits is explored and not only the code's stack order.

Actions follow the code's numbering of a collection: `MarkRoot/MarkVisit` (1), `ScanRoot/ScanVisit/
BlackVisit` (2), `WhiteRoot/WhiteVisit/WhiteDone` (3), `Restore`, `Destruct` (4), `Verify`, `Cut` (5),
`GiveBack` (6). `Drop`, `Store`, `Unset`, `Separate`, `OpenWalk`, `CloseWalk`, `Alias`, `Unalias`,
`WeakGet` are what a script does; all decrements pass through `UnrefGiven`, which releases at zero
and calls `PossibleRoot` otherwise.

Left out: the passes of `ph7_vm_reset` and of shutdown (`PH7_GcResetBuffer`, `PH7_GcRelease`),
by-value array walks, duplication of a map with shared slots, `KeepPinned` values, closures and
generators as containers (they would be objects with other edges).

### PcntlSignals

State. `head`, `tail`, `ring`, `asyncFlag`, `pending`, `owner` are the file statics of
`builtin_pcntl.c:165-182`; `has`, `handler`, `draining` the per-VM `pPcntl`; `parked` the VM's
`nBoundaryRc`; `disp` the kernel's table. Cursors run modulo twice the ring size as in the code.
`armed` is a history variable: a delivery was accepted with async dispatch on and no drain has
detached it.

Grain. `Deliver` is the C handler and is enabled in every state in which its disposition is
installed. The handler shares only the ring and the flags with the interpreter, so `PcntlDrain` is
split at each access of those (`Drain`, `Snapshot`, `CopyOut`, `FreeSlot`, `WalkedAll`), and the
PHP-visible calls that only write the table or the dispositions are one step each, where no PHP code
can run inside them. While a PHP handler runs (`pc = "handler"`) its VM may make every call, a nested
dispatch included; it leaves by `HandlerReturns` or `HandlerThrows`.

`pcntl_signal()` is two steps when it replaces a handler that has a destructor: `SignalInt` tells the
kernel, or `SignalCall` checks its argument, up to the release of the old value (`builtin_pcntl.c:975`,
`:989`); then the destructor runs, and makes whatever calls a program makes, `pcntl_signal()` for the
same signal, a dispatch and calls of further depth included; `ReleaseEnds` stores the new handler over
whatever is there by then, and installs the C handler for a callable. `calls` is the stack of the calls
under way. `overtaken` is history: the signals whose C handler was installed in the middle of a call
that sets them to `SIG_DFL` or `SIG_IGN`.

Left out: threads (PHL runs PHP on one), default death by a signal, `fork`, `sigprocmask` and the
`sigwait` family (they keep no state of the program's own), destructors that run inside the VM's own
teardown, and the second release of an array of handlers whose element's destructor replaces it again
(the double release of `gc_dying_map`, by another door).

`SignalQueue` states what `builtin_pcntl.c`'s header promises: "a dispatch detaches the queue".
`PcntlSignals!Queue` maps the ring to it: `detached` is the window from the head (past the copied
slot) to the snapshot, `fresh` the window from there to the tail. A full ring drops the delivery,
which is a stutter; `Forget` is the teardown of the VM that holds the statics.

### ForeachCursors and ArrayValues

State. `map` is the heap of `ph7_hashmap`s: the count, the insertion list as a sequence of keys (a key
stands for its node), and `active`, the map's list of registered steps. `step` is the pool of
`ph7_foreach_step`s with their cursors; `aStep` the list a statement keeps in its `ph7_foreach_info`,
`owned` a frame's `pForeachSteps`. `var` is what each variable holds. `live` and `inside` are the frames
that exist and the loops they are in. `visited` and `over` in a step are history.

Grain. One action per instruction: `Open` and `OpenTemporary` (`OP_FOREACH_INIT`), `StepOn`
(`OP_FOREACH_STEP`), `Break` (any way out of a loop that leaves the step behind), `Enter` and `Leave` a
frame, and the script's writes `AppendTo`, `UnsetKey`, `Erase`, `Assign`, `Forget`, each with the
separation it makes first. The C routines are functions from heap to heap (`Separate`, `Link`, `Unlink`,
`Empty`, `StepRelease`, ...), so that an action is the composition of the calls its handler makes. Any live
frame may go on at any time: that is recursion as well as suspended generators.

`ArrayValues` says what copy-on-write is for. The mapping reads the keys of the map a variable holds as
that variable's value, and what a by-value step has still to visit as the rest of its walk. That a loop
by reference follows the live array is the point of it, and it is not mapped.

Left out: hash chains and their growth (they do not touch the insertion list), loops over iterators and
plain objects, `sort()` of an array under a loop, `$GLOBALS` by reference.

### OutputBuffer

State. `bufs` is `aOB`. `ops` is the C stack of `VmObPerform` activations with where each stands and the
bytes it took; `out` is what reached the real output. A byte of the script is its number, so a doubled,
lost or reordered byte shows. `lost` is history: the bytes a clean, a handler's TRUE or a refused call
gave up on purpose. A program (`Program`) is the buffers it opens and the code an operation may meet half
way: a catch of what a handler throws, an error handler, a handler of uncaught exceptions, what the cast
of an answer runs, the destructor of a handler.

Grain. `Begin` up to the handler's first instruction, `HandlerPrints`/`HandlerReturns`/`HandlerRefused`
while it runs, `Deprecate` the diagnostic of a handler that printed and answered, `Send` the rest of the
operation up to the delivery below (which may `Begin` another one, when a chunk is full), `Finish` the
door's removal of the buffer and the throw held back until then.

PHP code that cuts in is an entry of `ops` of its own (`at = "code"`), over the operation it interrupts,
and may do there all that a script does. It runs

- at `Deprecate`, as the error handler of the diagnostic;
- at `Cast`, when an answer is no string: `__toString()`, or the warning of an array
  (`vm_builtin_ob.c:248`). The handler no longer counts as running, so `ob_start()` is allowed, while C
  holds a pointer to the entry. A push that moves the array of buffers (`Full`, `Moved`, `SySetPut`)
  leaves the pointer behind: what is then written through it, that the buffer is on again, reaches no
  buffer (stage `"moved"`). `CastFails` is a cast that throws or exits;
- at `PopDestructs`, as the destructor of the handler whose buffer is being removed. The slot is free by
  then, and `Restored` is the rest of `VmObRestore`, on whatever is at the slot;
- at `Finish` and `BailOut`, when an exception is raised: a catch, or the handler of uncaught exceptions.
  `BailPops` is the flush that gives up, one buffer at a time, where code can run between.

Left out: the STARTED and PROCESSED bits and sizes that only `ob_get_status()` reads, notices for calls
without a buffer, what a write to freed memory does to its next owner, and destructors of the other
values an operation drops (its argument, its result, the exception). A handler whose last holder is the
operation's own copy (`:262`) runs its destructor at the pop in the model.

### DevServer

State. `pc` is where each process is in the accept loop and in `AcquireScriptVm`; `cache` and `ticks` are
its `g_vmCache` and `g_vmCacheClock`; `down` its `g_shutdown`. `source`, `mtime`, `clock` are the files and
the time in whole seconds. `late` and an entry's `at` are history.

Grain. `Test`, `Block` and the return of `accept()` are separate steps, so that a signal may fall between
any two. A request is `Stat`, `Find`, `Compile`, `Install`, `Exec`, with edits in between; `Find` either
reuses the VM or drops it, and may drop one that is fresh, as `ph7_vm_reset` may fail. With a router the
same steps run twice.

Left out: HTTP parsing, static files, `PHL_NO_REUSE` (no cache, hence none of its hazards), the worker's
crash (the parent does not wait for its workers).

### Generators

State. `exc` and `fin` are the stacks `aException` and `aFinallyAction` of the VM; `park` a suspended
generator's slices of them, `base` where the slices of a running one begin; `side` the stacks of a
suspended fiber, or of its host while it runs (`VmCoroStateSwap`). `chain` are the bodies that run, each
entered by the one before. A body is its position, the regions of the tries around it; its code between
them is free. `next` is what the running body does next: go on, throw, or return. `lost` is history.

Grain. One action per instruction or builtin: `EnterTry`, `LeaveTry`, `EndFinally`, `Yield`,
`FiberSuspend`, `Return`, `Start`, `Resume`, `ThrowInto`, `Close`, `Drop`. A throw (`Raise`) is decided in
`Land`, `Escape` or `Uncaught`, each the whole of `VmThrowException` with the ends of the bodies it leaves.

Abstractions: every catch takes every exception, and a try with a `finally` alone stands for one whose
catches do not match. The script's and a fiber's tries have one catch, and it runs in the step that lands
on it. A plain function is not a body: it would end with the same discard of actions as a fiber's. A
builtin that refuses (resuming a running generator, say) is a `Raise`.

Left out: `yield from`, `break` and `continue` through a `finally`, calls suspended deep in a fiber,
values, and the destructors of a frame's locals.

## Runs

| Run | Instance | Question |
|---|---|---|
| `gc_objects` | 2 objects x 2 properties; one has a destructor; a PHP reference may name one slot; gc may be disabled | are counts exact at each step of a collection (`CountsExact`, `DebtSettled`); is nothing reachable torn down or cut (`ReachableIsKept`); do colours end clean (`ColorsClean`); does nothing name freed memory (`NothingNamesFreed`); does cutting free nothing early and everything in the end (`CutFreesNothing`, `CutMembersDie`); is an object torn down by one release only (`TornOnce`)? |
| `gc_complete` | 2 arrays and an object, 1 slot each; an array and the object are walked, the object is weakly held; no aliases, no destructors; fair | `TypeOK`; is all garbage found from some row of the buffer (`NoGarbageLost`); does a round end (`RoundEnds`)? |
| `pcntl_one` | 1 VM, 2 signals and one `sigaction` refuses, ring of 2; handlers of one signal may have a destructor, which runs in the middle of one call at a time; fair | `TypeOK`, `RingOK`; is the wakeup kept (`WakeupKept`); has a signal that is delivered a handler (`InstalledHasHandler`); is the ring the detached queue (`DrainDetaches`); `NoCallUnderUnwind`, `DrainEnds` |
| `ob_program` | 2 buffers of 4 kinds, 2 bytes of the script, one of a handler, one diagnostic, one piece of code in place; 4 programs: one no code cuts into, one with a catch, one with an error handler, one with casts, destructors and a handler of uncaught exceptions; fair | `TypeOK`; do the script's bytes keep their order and none appear twice (`InOrder`) or vanish (`BytesKept`); does a failed handler stay out of the way (`FailedIsTransparent`); do buffers leave by their own operation (`LeavesByItsOwnOperation`), all four in the first program; does the shutdown flush end (`FlushEnds`), in the first two? `TypeOK` and the absence of a deadlock are checked of all. |
| `foreach_cursors` | 2 variables, 3 maps, 2 steps; 5 programs: a by-value loop in a by-reference one over an array two variables share (2 keys) or one holds (3 keys), two by-reference loops (4), one loop in 2 activations (4), a temporary (3); frames symmetric | `TypeOK`, `CountsExact`; do the three lists of steps agree (`Registered`); has each walk before it what it has not seen (`RestIsUnseen`); does each activation go on with its own step (`OwnStep`); do maps implement values (`ArraysAreValues`)? |
| `server_scripts` | a cache of 2, 3 scripts; alone with and without a router, and with a worker; an edit, a second, 1 to 3 requests; fair | `TypeOK`; is a VM that would be reused up to date (`CacheFresh`), the only one of its script (`OnePerScript`), clean and the right one (`RunsCleanVm`); does the router's stay (`RouterStays`); does the server stop (`Stops`)? |
| `gen_bodies` | 2 generators of 2 functions and a fiber; 2 tries around the first one's position, 1 around the others'; 2 actions pending | `TypeOK`; are the open handlers those of the positions (`HandlersMatch`); is the action a `finally` ends with its own (`PendingIsOwnUntilLost`); does a throw stop where it should (`CaughtByInnermost`)? |

Five runs show that a sentence of the code's own comments is not what the code does ("Findings"):
`gc_dying_map`, `gen_swallow`, `gen_same`, `foreach_live`, `ob_catch`.

Bounds, and why they are enough.
- Two containers are the smallest cycle. Two slots per container give double edges (a container visited
  twice), a self edge beside another edge, and a dead member with a live child. `MaxExt` bounds the
  references of the script to one container: at 1 a value can still be shared by the script, a slot, a
  walk and C pins.
- `ThresholdMin` of 2 or 3 in place of 10,000 lets both kinds of collection happen: the fetch point's
  own and `gc_collect_cycles()`.
- A ring of two wraps its cursors at four and fills at two, so empty, full, wrapped and overflowing
  states all occur; the theorems cover the real 64. With one VM a drain never meets a VM without a table;
  that case is in the theorems, which hold for any number of VMs.
- One destructor at a time (`MaxCalls = 1`) has the whole of `pcntl_signal()`, for the same signal and for
  another, and a dispatch, in the middle of a call; calls within calls are in the theorems, which hold for
  every depth and every set of signals with such handlers.
- Two buffers are the fewest in which an operation meets another one, and a chunk of two with two bytes
  fills once from above and once from the script. `ob_catch` takes three bytes and no handler output.
- Two keys put a cursor on a node, before it, past the end, and on a node that goes; three and four, in the
  programs that share nothing, add nodes on both sides of it. Two steps are a nested loop, or one loop
  suspended half way. Three maps let both variables and a step hold each its own.
- A cache of two with three scripts evicts; a request for the router and one script fills it. One edit and
  one second suffice for an edit in the same second, before the time is read, and between it and the
  compilation.
- Two generators and a fiber give every nesting of two kinds, and a throw through two bodies; the third
  level of tries adds no new neighbour on the stack.
- `CHECK_DEADLOCK FALSE` in the collector's and the generators' runs: a script that holds its bound of
  references, or whose bodies are all over, really stops. The other runs check deadlock.

Each property has a mutant of a mapped definition in its module, under which TLC finds it violated in the
same instance: a plausible slip in the code (a list not updated, a state not reset, an order swapped).

## Fairness

`PcntlSignals`: strong fairness of `DrainStep`, i.e. C code between two accesses runs on and a PHP
handler returns or throws. Nothing is asked of signals: `DrainEnds` holds although they may arrive for
ever, since the drain walks to its snapshot. A handler that loops for ever is the program's own. The
fairness is strong, and there is one more for the end of a destructor at each depth of calls, because a
program may come and go between two steps of these: a handler that goes on for ever to replace handlers
whose destructors replace handlers is the program's own too.

`CycleGc`: weak fairness of `TearStep` and `CollectorStep`, both C loops that nothing waits for. PHP owes
nothing. `RoundEnds` is therefore checked without destructors: one that never returns would hold the
round for ever.

`OutputBuffer`: weak fairness of `Engine`, the C code, the return of a handler and the return of code in
place. `FlushEnds` asks no more: the flush takes the topmost buffer with each operation, a handler itself
can open none, and at shutdown there is no frame left for a catch. Code that runs between two handlers can
open one, since its call is no longer the handler's: an error handler, a `__toString()` of an answer, a
destructor of a handler. Programs with such code are exempt, and some of them never end (below).

`DevServer`: weak fairness of `Run(p)`, a process and the script it serves. Clients need never come again,
so a signal that falls between the test of the flag and `accept()` waits for the next one, for ever if
there is none: `Stops` exempts it (`late`), and the race is listed below.

## Findings

- **A dying array is collected** (`gc_dying_map`). `PH7_HashmapRelease` releases its elements first and
  forgets its row last, and unlike an object it has no mark of being under release. An element's
  destructor that calls `gc_collect_cycles()` lets the collector reach the array and release it again.
- **A finally swallows the exception** (`gen_swallow`). A throw out of a body finds a `finally` in a
  generator below it. The rethrow is queued before the thrower ends, above the thrower's base, and the
  thrower's end discards it (`vm_exec.c:195`). The `finally` runs, its end finds no action, and the
  script goes on as if nothing had been thrown. `vm_error.c:7228` says that the end of the `finally`
  re-raises.
- **A return pops another generator's tries** (`gen_same`). `VmFinallyAdvance` knows its own tries by the
  code they belong to, and a generator that resumes another one of the same function shares it. The
  comment above it speaks of "this function's inline trys" as this exec's; `vm_exec.c:5835` spells out
  why that is not enough.
- **A by-reference loop moves to the sharer's copy** (`foreach_live`). `foreach ($a as &$x)` separates `$a`
  when it begins. After `$b = $a` in the body both share the map the loop is on; the next write to `$a`
  separates `$a`, and the loop, and the writes through `$x`, go on in `$b`'s array.
- **A catch prints into a buffer that is about to go** (`ob_catch`). The result of ending the upper buffer
  fills a chunked buffer below, whose handler throws. The inner operation raises at once, in the middle of
  the outer one, and what the catch prints lands in the upper buffer and is discarded with it.

Known deviations without a run, each met while modelling:

- With the code's constants `VmGcAdjustThreshold` doubles whenever it is *below* the maximum (10,000, ...,
  80,000, 160,000), while `vm_gc.c:59` calls 100,000 the ceiling.
- `vm_gc.c:15` says a count that drops without reaching zero is the only event that can strand a cycle. A
  slot that a PHP reference also names is rightly not followed; a collection that finds it so spends the
  roots; a later `unset($r)` drops no count, and the cycle is in no row. `gc_complete` is run without
  aliases for that reason.
- The pins around a destructor are given back by subtraction (`oo.c:3593`), so that an object whose last
  other reference went in its destructor is not buffered. `gc_complete` is run without destructors.
- Members die one by one at the end of a collection, and the death of one may run the destructor of an
  object outside the set, which can take a member still ahead from its `WeakReference`: it survives, with
  its edges gone (`vm_gc.c:637`). `CutMembersDie` is about members no `WeakReference` names. It says that a
  member dies when its hold is given back, and not that it is dead afterwards: the destructor of what
  another held may allocate, and get the block.
- With two VMs in a process, one without a table consumes the flag another's delivery raised
  (`builtin_pcntl.c:363`), and the teardown of one resets dispositions the other has installed since
  (`builtin_pcntl.c:461`, against the comment at `:170`).
- Code that runs in place of a throw (a catch, an error handler) may end the buffer an operation is on and open
  another in its slot. `VmObPerform` finds its entry again by index (`vm_builtin_ob.c:195`), so the old
  operation goes on with the new buffer: if that one's handler has failed meanwhile, it is switched on again.
  Hence `FailedIsTransparent`, `InOrder` and `BytesKept` are about programs nothing cuts into.
- A buffer opened by code that cuts into an operation is on top when that operation ends, and its door
  removes it in the place of the one it worked on. At shutdown the old one is flushed again, and a handler
  that answers an object whose `__toString()` calls `ob_start()` (`vm_builtin_ob.c:248`), or an error handler
  that does, keeps the flush going for ever. Hence the scope of `FlushEnds`. If the push moves the array, the
  write at `:255` goes to freed memory and the buffer stays off.
- A destructor of a handler that opens a buffer while its own is removed gets the slot that is being
  released: `VmObRestore` goes on (`vm_builtin_ob.c:426`) and frees the new buffer's bytes.
- `pcntl_signal($s, SIG_DFL)` tells the kernel, releases the old handler and then stores the default
  (`builtin_pcntl.c:970-976`). A destructor of the old handler that calls `pcntl_signal($s, $callable)` in
  between leaves the C handler installed and the table without a callable: deliveries are recorded and
  dropped. `InstalledHasHandler` names that order (`overtaken`) and holds for every other.
- The diagnostic of a chunked lower buffer's handler is displayed while the operation above is under way
  and lands in the buffer that is being operated on, not in "the level below" (`vm_builtin_ob.c:214`).
- A script rewritten in the second its time was read in stays stale until it is written again; the
  comment at `server.c:490` does not claim more than whole seconds. A parent that is told to stop while it
  waits in `accept()` after the race at `server.c:861` stays until the next client.
- A `finally` left by an exception leaves its action on the stack, and an outer `finally` of the same body
  pops that one (`vm_exec.c:6044`): the second way `PendingIsOwn` fails.
- A generator that is being destroyed and yields inside a try of its own ends all bodies with no
  diagnostic (`vm_exec.c:6307`; `RefuseYieldInTry`). `Fiber::suspend()` in a generator that a fiber
  resumed suspends the generator and not the fiber (`vm_exec_ctx.c:3017`; `FiberSuspend`).

## Proofs

### The collector

`CycleGcProofs` proves, for every finite set of containers and slots, every bound and every class of
destructors, from the named assumptions of `CycleGc`:

| Theorem | Statement | Hypothesis |
|---|---|---|
| `Typing` | `TypeOK`, with `WalkHeld`: an iterated container is held by its iteration | none |
| `RoundInvariant` | the inductive invariant `GcInv` below | `Maps = {} \/ HasDtor = {}` |
| `CountsAlwaysExact` | `CountsExact` | the same |
| `DebtIsSettled` | `DebtSettled` | the same |
| `ColorsAreClean` | `ColorsClean` | the same |
| `FreedIsUnnamed` | `NothingNamesFreed` | the same |
| `TornByOne` | `TornOnce` | the same |
| `CutsFreeNothing` | `CutFreesNothing` | the same |
| `ReachableAlwaysKept` | `ReachableIsKept` | the same |
| `MembersDie` | `CutMembersDie` | the same |

The hypothesis says that the heap has no arrays, or that no class has a destructor. It is needed: with
both, `gc_dying_map` is a behaviour in which an array is torn down twice, after which `GcInv` is false.
(`gc_complete` runs arrays and an object without destructors, `gc_objects` destructors without arrays.)

None of these properties is inductive. `GcInv` has four parts beside the types.

- `HeapOK`: the counts are exact; a free block is named by nothing, names nothing and has no row; a
  container being torn down is named by nothing and no container has two frames of one kind; the pins
  are one of the collection (`HeldByGc`) and two for a running destructor. It is stated over parameters
  (`Sound`), since a release looks at the heap in the middle of a step: the new reference taken and the
  old one not yet dropped.
- `Control`: the collection is the top frame while it counts or cuts.
- `DebtOK`: at each `pc`, `debt` is exactly the visible edges of a named set of containers — the grey ones
  already visited in *mark*, grey, white and the black still to be walked in *scan*, white and dead in
  *white*, the dead not yet restored in *restore*, none elsewhere. So a visit subtracts edges that were not
  subtracted, and a restoration adds those that were.
- `ColorsOK`, `MarkOK`, `ScanOK`, `WhiteOK`, `PaintedOK`, `TodoOK`: what each pass paints and what its work
  list has still ahead. The heart is `Reached(G, ahead, X)`: no subset of `G` avoids both the containers
  ahead and an edge that leads into it from the rest of `G`. It says without recursion that a pass will
  still visit all of `G`, and when nothing is ahead it says that `G` is empty: that a scan leaves no grey
  and *white* leaves no white container is the step to `DebtSettled` and `ColorsClean`.
- `CutOK`: after the proof a member of the dead set has no reference but the hold and the edges that will be
  cut. `ReachableIsKept` follows: the complement of the dead set is closed and holds all anchors
  (`OutsideReach`), whatever destructors did before the proof.
- `GiveOK`, inductive relative to `GcInv`: of a member whose hold is still to be given back nothing else is
  left (`Alone`), if no `WeakReference` names it. The destructors that run meanwhile have no way to it:
  `PhpSpares`, one step per instruction, and `TearSpares`. So the hold is the last reference
  (`LastHold`), which is `CutMembersDie`.

Steps divide into those of the script, the releases and the destructors, which find nothing subtracted
(`Quiet`, `QuietStep`), the beginning of a round (`CollectStep`), and those of the collection, one
lemma a pass and part of the invariant (`CollectorHeap`, `CollectorRound`, `CollectorControl`).

`CycleGcGarbageProofs` proves the converse of `ReachableAlwaysKept`, on which trial deletion without a root
set depends:

| Theorem | Statement | Hypothesis |
|---|---|---|
| `GarbageIsFound` | `NoGarbageLost` | `Ordinary`: no class has a destructor, no reference to a slot is taken, the collector stays on |

Each part of `Ordinary` is needed: in the instance of `gc_complete` TLC finds garbage that no row leads to when
the object has a destructor (it stores `$this` in a property of its own and is released for good with no drop
that buffers), when one slot may be named by a PHP reference (above, under Findings), and when `gc_disable()`
is allowed (a drop buffers nothing while it lasts).

The invariant `GarbageInv` is inductive relative to `GcInv`. It speaks of searches without paths:
`Found(sl, A, L)` says that every set that contains `A` and is shut under the slots `sl` contains `L`.

- Between collections and in *mark* all that is allocated is found from what the script owns, the rows and
  what is being torn down (`BufferFinds`). A drop that strands something makes its container a row or a
  release (`DropFinds`). Only `PH7_HashmapCowSeparate` lowers a count in place and buffers nothing:
  `SeparateKept` shows that the map it leaves has kept a name which the copy leads to, or which is found
  without it.
- From *scan* on the rows are spent. What is not on trial is found from the script alone (`ScriptFinds`); what
  is still on trial has no count left (`Countless`), so nothing but the dead names the dead (`Closing`), and
  the comparison of counts in `Verify` never fails (`Proved`).
- In *give* nothing names a member any more and each dies as its hold is given back (`Given`). Members are all
  that dies then: `TearGiven` shows that whatever else their slots name is found from the script and stays, so
  that the drops of a collection, which buffer nothing, strand nothing.

### The signals

`PcntlSignalsProofs` proves, for every ring size `Q > 0`, every set of signals and of VMs, from
`QueueAssumption` and `NoneAssumption` alone:

| Theorem | Statement |
|---|---|
| `Typing` | `TypeOK`, with `DrainOK`: the VM of a drain in progress is the only one draining and has a table |
| `NoCallUnderUnwindHolds` | no handler is called with an unwind parked |
| `HandlersInstalled` | `InstalledHasHandler`, whatever destructors of replaced handlers call, at any depth; `overtaken` signals are exempt |
| `WakeupHolds` | `WakeupKept`, for a process with one VM (`VMs = {m}`) |
| `RingHolds` | `RingOK` |
| `RingRefinesQueue` | `DrainDetaches`: the ring implements `SignalQueue` |

The argument. `DrainOK` is the strengthening all others use: it ties `pc`, `vm` and `draining`
together, and says that an unwind parked while a drain walks was parked by it (`unwound`) — which
`NoCallUnderUnwind` needs. `InstalledHasHandler` is inductive with it and `CallsOK`: a call under way has
its VM's table, and one that will store `SIG_DFL` or `SIG_IGN` has told the kernel so or been overtaken,
so its store wipes no callable that an installed signal needs. The teardown resets just what the table
named, so an installed disposition keeps a table that names it. `WakeupKept` is not inductive: it
needs that with one VM the statics belong to the VM that has the table, so that no drain drops the flag
for lack of one. `RingOK` is arithmetic of cursors modulo `2Q`: the lemmas `AdvanceIs`, `DistanceIs`,
`DistanceUp`, `DistanceDown`, `SlotApart` reduce `%` to case splits once, and `RingOKStep` cites only
them. The refinement rests on `Window(r, a, n)`, the `n` events from cursor `a`: `WindowAppend` (a
delivery), `WindowTail` (a slot copied), `WindowConcat` (a drain that gives up) and `WindowKept` (a write
outside leaves the window alone) give each step of the ring its step of the queue.

### The development server

`DevServerProofs` proves, for every set of scripts, workers and ways to start the server, every cache size
and any number of edits and seconds, from `SizesAssumption`, `NamesAssumption` and `SetupsAssumption`:

| Theorem | Statement |
|---|---|
| `Typing` | `TypeOK` |
| `CleanRuns` | `RunsCleanVm` |
| `Freshness` | `CacheFresh` |
| `OneVmEach` | `OnePerScript` |
| `RouterKept` | `RouterStays` |

The argument. `CacheInv` is one invariant of all five: the types, that no file was written in the future
(`PastTimes`), and for each process a `Row` over its job, position, cache and clock, in three parts.

- `FreshRow`: times were read in the past, so an edit, whose time is the present, makes every entry and every
  job either older than the file or of the same second, and `CacheFresh` asks nothing of these. A job that
  waits to be installed has the edition of its script if its time was read in a later second than the last
  change; that is the step `CacheFresh` alone does not survive.
- `OneRow`: what is being compiled is not in the cache (it was not found, or was dropped).
- `RouterRow`: what runs is the most recently used. When a router stands aside its VM is therefore newer
  than every other until the script is installed, and with two slots the least used one is not the
  router's (`RoomSpares`).

`OneProcess` reduces a step of a process to its new row; there is one lemma for each action, or branch of it,
under that. `NatMin`, from the well-foundedness of the natural numbers, gives `First` and `LeastUsed`
their values.

### The output buffers

`OutputBufferProofs` proves, for every program, any number of buffers, bytes and diagnostics, and every
depth of operations:

| Theorem | Statement |
|---|---|
| `Typing` | `TypeOK` |
| `BytesInOrder` | `InOrder` |
| `NothingDisappears` | `BytesKept` |
| `FailedIsOut` | `FailedIsTransparent` |
| `LeavesByItsOwn` | `LeavesByItsOwnOperation` |

All but the first are, as the properties, about programs no code cuts into (`program.inside = {}`); with a
catch, `ob_catch` is a counterexample. The invariant, `BufInv`, has two parts.

- `Works` is about the operations under way. `Stacked`: no two of them are between their handler and their
  delivery on one buffer. `Switched`: a buffer is off exactly while its handler's operation holds it, and for good,
  and empty, once the handler failed. `Taken`: what an operation took is still in its buffer until it has sent
  it, and of the buffers above only those that an outer operation was interrupted in hold anything of the script's.
  `Doors`: a final operation is the outermost one, on the topmost buffer, which is pinned only at shutdown.
- `Whole` is about the bytes: the layers, the output and then the buffers from the outermost in, are `Sorted`,
  and together with `lost` they hold the numbers `1 .. nBytes` and no other.

`InOrder` and `BytesKept` alone are not inductive: whether the delivery of an operation's bytes puts them in order
depends on what the buffers above its own hold by then, which `Taken` says.

A step then moves bytes from one layer to the next lower one (`Pours`), adds the newest at the top, or empties
a layer into `lost`; each keeps `Whole`. Only `Finish` shortens the stack (`OnlyFinishShortens`), which with
`Doors` gives `LeavesByItsOwnOperation`.

### The arrays

`ForeachCursorsProofs` proves, for every set of programs, frames and statements, every finite set of
variables and any number of maps, steps and keys:

| Theorem | Statement |
|---|---|
| `Typing` | `TypeOK` |
| `HoldersCounted` | `CountsExact` |
| `ListsAgree` | `Registered` |
| `NoneSkippedNoneTwice` | `RestIsUnseen` |
| `EachItsOwnStep` | `OwnStep` |
| `CopyOnWrite` | `ArraysAreValues`: the maps implement `ArrayValues` |

The assumptions are those of `ForeachCursors`. `VarsAssumption` (finitely many variables) is what makes counts
numbers. `NoneAssumption` keeps `None` apart from frames, variables and lists of keys, the last because the
mapping uses it for a walk that is not under way.

The invariant, `CursorInv`, is stated over a heap and not over the variables, since a handler is a
composition of calls and its parts have to hold between them.

- `Sound`: the types; a free map or step carries nothing; a map's count is exact; the lists have no
  repetitions, and a step is on its map's, its frame's and one statement's list exactly while it is in use;
  and a frame has one step at most on a statement (`Single`). `OwnStep` needs the last, and it holds only
  because a loop that begins reclaims what this activation left of the statement before.
- `Ordered`: keys are listed in the order of their insertion, and a cursor is on the first key above the last
  one visited (`Aimed`), or on none if there is no such key. `RestIsUnseen` says which keys are ahead and not in
  which order, so it does not survive the removal of the node under a cursor; `Ordered` does, and implies it.
- `Alive` and `Walking`: a step's frame lives, and a frame that is in a loop has a step for it.

A handler's effect on a heap is one of a few relations: a step is `Released`, several are `Spared` no
longer (a list is released head first: there is no induction, the least position at which the chain of heaps
would be unsound is a contradiction), a step is `Begun`, a variable `Rebound`, an array set `Apart` from its
sharers, a map's keys and its cursors `Moved`. Each keeps `Sound`, and each keeps `Ordered` under what it does to
keys and cursors. For the refinement, `SeparateAlone` counts: once an array is separated, its
references leave room for one variable and by-reference loops only, so a write is seen by no other variable and by
no loop by value (`MovedValues`). That is where the discount of `HashmapByRefStepRefs` has to be
exact: one too many, and a by-value loop is among the holders.

### The generators

`GeneratorsProofs` proves, for every set of generators and fibers, every depth of tries and every way the
bodies drive each other:

| Theorem | Statement | Hypothesis |
|---|---|---|
| `Typing` | `TypeOK` | none |
| `HandlersKept` | `HandlersMatch` | `OwnFunctions` |
| `PendingKept` | `PendingIsOwnUntilLost` | the same |
| `ThrowFindsInnermost` | `CaughtByInnermost` | the same |

`OwnFunctions` says that no two generators are of one function. `Return` pops every entry of the function that
returns from the stacks, and two activations of one function are told apart by nothing: without the hypothesis
`gen_same` is a counterexample. (A recursive generator, or one called twice, is outside these theorems.)

`HandlersMatch` speaks of the stack that is live. It says nothing of where a body's part of it begins, of the
slices that are parked and of the stacks fibers have put aside, so it does not survive a suspension and a resume
at another depth. The invariant, `GenInv`, is about all of them.

- `Core`: the types, and that the chain of running bodies, their states, bases and positions fit together.
- `Whole("exc", Plain)`: every stack, the live one, the ones put aside by the fibers of the chain and the
  parked ones, is made of exactly the slices of the bodies it is kept for, from base to base. A slice (`Slice`)
  has one entry for each try of the body's position that still has a handler open, in order and saying whether
  the body is in its catch. `Running` says it of the bodies in the chain and `Waiting` of those that can be resumed.
- `Whole("fin", v)` for some `v`, until `lost`: the same of the pending actions, one for each finally a body
  stands in. A return goes to the nearest finally and leaves the actions of the finallys further out behind until
  it is over; `v` says from where on, and `Returned(v)` that such leftovers are there only while the body is
  returning or still in that finally.

There is a lemma for each change of a slice (an entry pushed, popped, turned into a catch), for the end of
bodies (`TopChange`), for a body that goes to the background and one that comes back (`BackChange`), and for the
pop by function at a return; an action is one of these on each stack. `CaughtByInnermost` follows from the
slices alone: the topmost entry of the live stack is that of the innermost open try of the innermost body that
has one.

Only model-checked: the liveness properties `DrainEnds`, `RoundEnds`, `FlushEnds` and `Stops`, since fairness
is out of the prover's reach. The other properties of the passing runs are theorems, under the hypotheses named
in the tables.

## Not modelled

The components with status `not_modelled` in `PROJECT.json` carry their reason: most are sequential
transformations of data, tables, or thin layers over a library or a file. The parts left out of a
modelled component are named in its section above.

## Plan

Models, in this order:
1. `Generators`: plain functions as bodies, `yield from`, `break` through a `finally`.
2. `DevServer`: the passes of `ph7_vm_reset` (with the collector's and `PH7_PcntlVmRelease`).
3. The free lists of the pool allocator; statement against connection lifetime in PDO.

Proofs, in this order:
1. `CycleGc`: the theorems with arrays and destructors together, under the weaker hypothesis that no element's
   destructor collects.
2. `CycleGc`: `GarbageIsFound` for objects with destructors that write nothing.
3. The theorems about the models named above, as they grow.
