----------------------------- MODULE Generators -----------------------------
(***************************************************************************)
(* Generators and fibers (src/ph7/vm_exec_ctx.c) and the try, catch and    *)
(* finally blocks of their bodies (vm_exec.c, vm_error.c).                 *)
(*                                                                         *)
(* The bodies that run share one stack of open handlers, aException, and   *)
(* one of actions that wait for a finally to end, aFinallyAction.  A       *)
(* generator that suspends takes its slice of both with it and puts it     *)
(* back, at another depth, when it is resumed; a fiber has stacks of its   *)
(* own that are swapped in.  A generator's catch and finally are code of   *)
(* its own that a throw redirects it to.  The script's and a fiber's tries *)
(* have one catch, run in place, here in the step that lands on it.        *)
(*                                                                         *)
(* A body is its position: the regions of the tries it stands in, outer    *)
(* ones first.  What runs between them is free.  Every catch takes every   *)
(* exception; a finally alone is also the try whose catches do not match.  *)
(***************************************************************************)
EXTENDS Integers, Sequences, FiniteSets, FiniteSetsExt, SequencesExt

CONSTANTS
  Gens, Fibers,  \* the coroutines
  Main,          \* the script
  Fn,            \* the function each generator runs
  Kinds,         \* the kinds of try in each body
  Drives,        \* the coroutines each body starts, resumes and destroys
  Raisers,       \* the bodies that throw
  MaxNest,       \* bound: tries around a position, for each body
  MaxPending     \* bound: a try is entered with fewer actions pending

Coros == Gens \cup Fibers
Bodies == {Main} \cup Coros
TryKinds == {"catch", "finally", "both"}

ASSUME BodiesAssumption == Gens \cap Fibers = {} /\ Main \notin Coros
ASSUME FunctionsAssumption == DOMAIN Fn = Gens
ASSUME KindsAssumption ==
  /\ Kinds \in [Bodies -> SUBSET TryKinds]
  /\ \A b \in Bodies \ Gens : Kinds[b] \subseteq {"catch"}
ASSUME UsesAssumption == Drives \in [Bodies -> SUBSET Coros] /\ Raisers \subseteq Bodies
ASSUME BoundsAssumption == MaxNest \in [Bodies -> Nat] /\ MaxPending \in Nat

VARIABLES
  state,    \* iState of each coroutine
  chain,    \* the bodies that are running, each entered by the one before it
  pc,       \* the position of each body
  exc,      \* aException
  fin,      \* aFinallyAction
  base,     \* nExceptionBase and nFinallyBase of each coroutine while it runs
  park,     \* aSavedException and aSavedFinally of each generator
  side,     \* sSaved of each fiber; its sHost while it runs
  closing,  \* bClosing
  next,     \* what the running body does next: goes on, throws, or returns
  lost,     \* history: an action was dropped or abandoned, see Throw
  ended     \* the script is over

stacks == <<exc, fin, base, park, side>>
vars == <<state, chain, pc, exc, fin, base, park, side, closing, next, lost, ended>>

Region == [kind: TryKinds, at: {"try", "catch", "finally"}]
Handler == [owner: Bodies, path: Seq(Region), inCatch: BOOLEAN]
Action == [kind: {"fall", "rethrow", "return"}, owner: Bodies, path: Seq(Region)]
Nothing == [exc |-> <<>>, fin |-> <<>>]
NoBase == [exc |-> 0, fin |-> 0]

Init ==
  /\ state = [c \in Coros |-> "created"]
  /\ chain = <<Main>>
  /\ pc = [b \in Bodies |-> <<>>]
  /\ exc = <<>> /\ fin = <<>>
  /\ base = [b \in Bodies |-> NoBase]
  /\ park = [g \in Gens |-> Nothing]
  /\ side = [f \in Fibers |-> Nothing]
  /\ closing = [g \in Gens |-> FALSE]
  /\ next = "run" /\ lost = FALSE /\ ended = FALSE

Me == Last(chain)
Going == next = "run" /\ ~ended

(* The same position with its innermost try in region r; a stack cut down  *)
(* to n entries, if it has more.                                           *)
At(path, r) == [path EXCEPT ![Len(path)].at = r]
Cut(s, n) == SubSeq(s, 1, IF n < Len(s) THEN n ELSE Len(s))
Above(s, n) == SubSeq(s, n + 1, Len(s))

HasCatch(h) == Last(h.path).kind # "finally" /\ ~h.inCatch
HasFinally(h) == Last(h.path).kind # "catch"

(***************************************************************************)
(* Tries.                                                                  *)
(***************************************************************************)

(* VmExecOpLoadException. *)
EnterTry ==
  /\ Going
  /\ Len(pc[Me]) < MaxNest[Me] /\ Len(fin) < MaxPending
  /\ \E k \in Kinds[Me] :
       LET path == Append(pc[Me], [kind |-> k, at |-> "try"])
       IN  /\ pc' = [pc EXCEPT ![Me] = path]
           /\ exc' = Append(exc, [owner |-> Me, path |-> path, inCatch |-> FALSE])
  /\ UNCHANGED <<state, chain, fin, base, park, side, closing, next, lost, ended>>

(* OP_POP_EXCEPTION: the end of a try or a catch body.  It pops the handler *)
(* on top if that is this try's, entered by this body.                      *)
Popped ==
  IF exc # <<>> /\ Last(exc).owner = Me /\ Last(exc).path = At(pc[Me], "try")
  THEN Front(exc) ELSE exc

LeaveTry ==
  /\ Going
  /\ pc[Me] # <<>> /\ Last(pc[Me]).at # "finally"
  /\ exc' = Popped
  /\ LET path == At(pc[Me], "finally")
     IN  IF Last(path).kind = "catch"
         THEN pc' = [pc EXCEPT ![Me] = Front(@)] /\ fin' = fin
         ELSE /\ pc' = [pc EXCEPT ![Me] = path]
              /\ fin' = Append(fin, [kind |-> "fall", owner |-> Me, path |-> path])
  /\ UNCHANGED <<state, chain, base, park, side, closing, next, lost, ended>>

(* OP_END_FINALLY takes whatever action is on top. *)
Dispatched(kind) == CASE kind = "fall" -> "run" [] kind = "rethrow" -> "throw" [] OTHER -> "return"

EndFinally ==
  /\ Going
  /\ pc[Me] # <<>> /\ Last(pc[Me]).at = "finally"
  /\ pc' = [pc EXCEPT ![Me] = Front(@)]
  /\ IF fin = <<>>
     THEN fin' = fin /\ next' = "run"
     ELSE fin' = Front(fin) /\ next' = Dispatched(Last(fin).kind)
  /\ UNCHANGED <<state, chain, exc, base, park, side, closing, lost, ended>>

(***************************************************************************)
(* Entering and leaving a body.                                            *)
(***************************************************************************)

(* How deep the stacks are when it is entered. *)
DepthOfStart == NoBase
Depth == [exc |-> Len(exc), fin |-> Len(fin)]

(* VmStartCtx and VmResumeCtx: the frame is put on the chain.  A generator *)
(* finds its bases anew and puts its slices back on top of them; a fiber   *)
(* changes places with what the VM holds (VmCoroStateSwap).                *)
Enter(c) ==
  /\ chain' = Append(chain, c)
  /\ state' = [state EXCEPT ![c] = "running"]
  /\ IF c \in Fibers
     THEN /\ exc' = side[c].exc /\ fin' = side[c].fin
          /\ side' = [side EXCEPT ![c] = [exc |-> exc, fin |-> fin]]
          /\ UNCHANGED <<base, park>>
     ELSE /\ base' = [base EXCEPT ![c] = Depth]
          /\ exc' = exc \o park[c].exc /\ fin' = fin \o park[c].fin
          /\ park' = [park EXCEPT ![c] = Nothing]
          /\ UNCHANGED side
  /\ UNCHANGED <<pc, lost, ended>>

(* The first run, and any later one. *)
Start ==
  /\ Going
  /\ \E c \in Drives[Me] : state[c] = "created" /\ Enter(c)
  /\ UNCHANGED <<closing, next>>

Resume ==
  /\ Going
  /\ \E c \in Drives[Me] : state[c] = "suspended" /\ Enter(c)
  /\ UNCHANGED <<closing, next>>

(* Generator::throw() and Fiber::throw() raise where the body stands. *)
ThrowInto ==
  /\ Going
  /\ \E c \in Drives[Me] : state[c] = "suspended" /\ Enter(c)
  /\ next' = "throw"
  /\ UNCHANGED closing

(* VmSuspendCtxDetach, VmParkCtxState.  The close of a generator that      *)
(* suspends all the same releases it (VmReleaseExecCtx).                   *)
Suspend ==
  /\ chain' = Front(chain)
  /\ IF Me \in Fibers
     THEN /\ exc' = side[Me].exc /\ fin' = side[Me].fin
          /\ side' = [side EXCEPT ![Me] = [exc |-> exc, fin |-> fin]]
          /\ state' = [state EXCEPT ![Me] = "suspended"]
          /\ UNCHANGED <<park, closing>>
     ELSE /\ exc' = Cut(exc, base[Me].exc) /\ fin' = Cut(fin, base[Me].fin)
          /\ park' = [park EXCEPT ![Me] =
               IF closing[Me] THEN Nothing
               ELSE [exc |-> Above(exc, base[Me].exc), fin |-> Above(fin, base[Me].fin)]]
          /\ state' = [state EXCEPT ![Me] = IF closing[Me] THEN "closed" ELSE "suspended"]
          /\ closing' = [closing EXCEPT ![Me] = FALSE]
          /\ UNCHANGED side
  /\ base' = [base EXCEPT ![Me] = NoBase]
  /\ UNCHANGED <<pc, next, lost, ended>>

(* OP_YIELD. *)
Yield == Going /\ Me \in Gens /\ ~closing[Me] /\ Suspend

(* Fiber::suspend() suspends pActiveCtx: in a generator that runs inside a *)
(* fiber it is the generator that suspends, even one that is being closed. *)
FiberSuspend == Going /\ Me \in Coros /\ Suspend

(* What ends with the bodies above the n-th of the chain: VmFinishCtxRun.  *)
(* Each gives the actions above its own base up (VmExecFinalize).          *)
Ending(n) == {chain[i] : i \in n + 1 .. Len(chain)}
KeptAll(n, actions) == actions
Kept(n, actions) == IF n = Len(chain) THEN actions ELSE Cut(actions, base[chain[n + 1]].fin)

Ended(n, how) ==
  /\ chain' = SubSeq(chain, 1, n)
  /\ state' = [c \in Coros |-> IF c \in Ending(n) THEN how ELSE state[c]]
  /\ closing' = [g \in Gens |-> closing[g] /\ g \notin Ending(n)]
  /\ base' = [b \in Bodies |-> IF b \in Ending(n) THEN NoBase ELSE base[b]]
  /\ park' = park

(* Where the bodies above the n-th stood is forgotten. *)
Positions(n) == [b \in Bodies |-> IF b \in Ending(n) THEN <<>> ELSE pc[b]]

(* The fiber that runs on the chain last, if any: the bodies from it on    *)
(* are what the live stacks are about.                                     *)
Side == Max({0} \cup {i \in DOMAIN chain : chain[i] \in Fibers})
Bottom == IF Side = 0 THEN 1 ELSE Side

(***************************************************************************)
(* Returning: VmFinallyAdvance.                                            *)
(***************************************************************************)

(* The handlers of tries of the running body's function, from the top; and *)
(* of these the topmost with a finally.                                    *)
Mine(i) == \A j \in i .. Len(exc) : exc[j].owner \in Gens /\ Fn[exc[j].owner] = Fn[Me]
Crossed == {i \in DOMAIN exc : Mine(i)}
Stops == {i \in Crossed : HasFinally(exc[i])}

(* OP_SET_FINALLY_RET; an OP_DONE of a script's or a fiber's body ends it. *)
Return ==
  /\ Going /\ Me \in Coros
  /\ next' = "return"
  /\ UNCHANGED <<state, chain, pc, stacks, closing, lost, ended>>

(* The return is queued for the next finally... *)
ReturnThroughFinally ==
  /\ next = "return" /\ Me \in Gens /\ Stops # {}
  /\ LET i == Max(Stops)
         path == At(exc[i].path, "finally")
     IN  /\ exc' = SubSeq(exc, 1, i - 1)
         /\ fin' = Append(fin, [kind |-> "return", owner |-> Me, path |-> path])
         /\ pc' = [pc EXCEPT ![Me] = path]
  /\ next' = "run"
  /\ UNCHANGED <<state, chain, base, park, side, closing, lost, ended>>

(* ... or the body is over.  A generator that was being closed is released; *)
(* the stacks of a fiber are freed and its host's are back.                 *)
Complete ==
  /\ next = "return" /\ (Me \in Gens => Stops = {})
  /\ Ended(Len(chain) - 1, IF Me \in Gens /\ closing[Me] THEN "closed" ELSE "completed")
  /\ pc' = Positions(Len(chain) - 1)
  /\ IF Me \in Fibers
     THEN /\ exc' = side[Me].exc /\ fin' = side[Me].fin
          /\ side' = [side EXCEPT ![Me] = Nothing]
     ELSE /\ exc' = SubSeq(exc, 1, Len(exc) - Cardinality(Crossed))
          /\ fin' = Cut(fin, base[Me].fin)
          /\ side' = side
  /\ next' = "run"
  /\ UNCHANGED <<lost, ended>>

(***************************************************************************)
(* Throwing: VmThrowException, VmThrowInline.                              *)
(***************************************************************************)

(* The handlers that take a throw, and the topmost; what it leaves behind. *)
CatchersOnly == {i \in DOMAIN exc : HasCatch(exc[i])}
Takers == {i \in DOMAIN exc : HasCatch(exc[i]) \/ HasFinally(exc[i])}
Taker == exc[Max(Takers)]
Marked == IF Taker.owner \in Gens THEN <<[Taker EXCEPT !.inCatch = TRUE]>> ELSE <<>>
Handled == SubSeq(exc, 1, Max(Takers) - 1) \o (IF HasCatch(Taker) THEN Marked ELSE <<>>)
Rethrow == [kind |-> "rethrow", owner |-> Taker.owner, path |-> At(Taker.path, "finally")]
Queued == IF HasCatch(Taker) THEN fin ELSE Append(fin, Rethrow)
Landing ==
  IF Taker.owner \notin Gens THEN Front(Taker.path)
  ELSE At(Taker.path, IF HasCatch(Taker) THEN "catch" ELSE "finally")

(* throw, or a builtin that refuses: a coroutine that runs already, say. *)
Raise ==
  /\ Going /\ Me \in Raisers
  /\ next' = "throw"
  /\ UNCHANGED <<state, chain, pc, stacks, closing, lost, ended>>

(* The handlers under the taker stay; those above are popped.  The bodies  *)
(* above its owner end, and with them the actions above their bases: the   *)
(* rethrow just queued too, if there was such a body.  An action that      *)
(* waits for a finally the throw has left stays where it is.               *)
Land ==
  /\ next = "throw" /\ Takers # {}
  /\ \E n \in Bottom .. Len(chain) :
       /\ chain[n] = Taker.owner
       /\ Ended(n, "closed")
       /\ pc' = [Positions(n) EXCEPT ![Taker.owner] = Landing]
       /\ fin' = Kept(n, Queued)
       /\ lost' = (\/ lost
                   \/ n < Len(chain) /\ ~HasCatch(Taker)
                   \/ \E k \in Len(Taker.path) + 1 .. Len(pc[Taker.owner]) :
                        pc[Taker.owner][k].at = "finally")
  /\ exc' = Handled
  /\ next' = "run"
  /\ UNCHANGED <<side, ended>>

(* Nobody takes it.  It leaves the fiber, whose resumer raises it again    *)
(* (pEscaped, VmFiberRaiseEscaped), or the script is over.                 *)
Escape ==
  /\ next = "throw" /\ Takers = {} /\ Side > 0
  /\ LET f == chain[Side]
     IN  /\ exc' = side[f].exc /\ fin' = side[f].fin
         /\ side' = [side EXCEPT ![f] = Nothing]
  /\ Ended(Side - 1, "closed")
  /\ pc' = Positions(Side - 1)
  /\ UNCHANGED <<next, lost, ended>>

UncaughtUnwindsAll ==
  /\ next = "throw" /\ Takers = {} /\ Side = 0
  /\ Ended(0, "closed")
  /\ pc' = Positions(1)
  /\ exc' = <<>> /\ fin' = Kept(1, fin)
  /\ next' = "run" /\ ended' = TRUE
  /\ UNCHANGED <<side, lost>>
Uncaught ==
  /\ next = "throw" /\ Takers = {} /\ Side = 0
  /\ Ended(1, "closed")
  /\ pc' = Positions(1)
  /\ exc' = <<>> /\ fin' = Kept(1, fin)
  /\ next' = "run" /\ ended' = TRUE
  /\ UNCHANGED <<side, lost>>

(***************************************************************************)
(* Destroying a coroutine: VmReleaseExecCtx.                               *)
(***************************************************************************)

(* One that never ran; or a suspended fiber, whose body is unwound without *)
(* its finallys (bCoroKill).                                               *)
Drop ==
  /\ Going
  /\ \E c \in Drives[Me] :
       /\ state[c] = "created" \/ (state[c] = "suspended" /\ c \in Fibers)
       /\ state' = [state EXCEPT ![c] = "closed"]
       /\ pc' = [pc EXCEPT ![c] = <<>>]
       /\ side' = [f \in Fibers |-> IF f = c THEN Nothing ELSE side[f]]
  /\ UNCHANGED <<chain, exc, fin, base, park, closing, next, lost, ended>>

(* A suspended generator is closed: it is resumed to return (VmCloseCtx). *)
Close ==
  /\ Going
  /\ \E g \in Drives[Me] \cap Gens :
       /\ state[g] = "suspended"
       /\ Enter(g)
       /\ closing' = [closing EXCEPT ![g] = TRUE]
  /\ next' = "return"

(* It may not yield: an Error is thrown... *)
OwnTaker == Takers # {} /\ Max(Takers) > base[Me].exc

RefuseYield ==
  /\ Going /\ Me \in Gens /\ closing[Me]
  /\ ~OwnTaker
  /\ next' = "throw"
  /\ UNCHANGED <<state, chain, pc, stacks, closing, lost, ended>>

(* ... and the body is left, even when a handler of its own has taken the  *)
(* Error.  No body has a redirect to follow then, so all of them end.      *)
RefuseYieldInTry ==
  /\ Going /\ Me \in Gens /\ closing[Me]
  /\ OwnTaker
  /\ Ended(1, "closed")
  /\ pc' = Positions(1)
  /\ ended' = TRUE
  /\ UNCHANGED <<exc, fin, side, next, lost>>

Next ==
  \/ EnterTry \/ LeaveTry \/ EndFinally
  \/ Start \/ Resume \/ ThrowInto \/ Yield \/ FiberSuspend
  \/ Return \/ ReturnThroughFinally \/ Complete
  \/ Raise \/ Land \/ Escape \/ Uncaught
  \/ Drop \/ Close \/ RefuseYield \/ RefuseYieldInTry

Spec == Init /\ [][Next]_vars

(***************************************************************************)
(* Properties.                                                             *)
(***************************************************************************)

Stacks == [exc: Seq(Handler), fin: Seq(Action)]

(* What each variable holds. *)
TypeOK ==
  /\ state \in [Coros -> {"created", "running", "suspended", "completed", "closed"}]
  /\ chain \in Seq(Bodies) /\ chain # <<>> /\ chain[1] = Main
  /\ pc \in [Bodies -> Seq(Region)]
  /\ exc \in Seq(Handler) /\ fin \in Seq(Action)
  /\ base \in [Bodies -> [exc: Nat, fin: Nat]]
  /\ park \in [Gens -> Stacks] /\ side \in [Fibers -> Stacks]
  /\ closing \in [Gens -> BOOLEAN]
  /\ next \in {"run", "throw", "return"}
  /\ lost \in BOOLEAN /\ ended \in BOOLEAN

(* The handlers a body's position asks for: one for each try whose try or  *)
(* catch region it stands in.                                              *)
Asked(b) == {k \in DOMAIN pc[b] : pc[b][k].at # "finally"}
HandlerOf(b, k) ==
  [owner |-> b, path |-> At(SubSeq(pc[b], 1, k), "try"), inCatch |-> pc[b][k].at = "catch"]

(* Those of some bodies, body by body and from the outermost try in.       *)
Places(bodies) == UNION {{n} \X Asked(bodies[n]) : n \in DOMAIN bodies}
HandlerAt(bodies, p) == HandlerOf(bodies[p[1]], p[2])
Lists(handlers, bodies) ==
  /\ Range(handlers) = {HandlerAt(bodies, p) : p \in Places(bodies)}
  /\ \A i, j \in DOMAIN handlers : i < j =>
       \E p, q \in Places(bodies) :
         /\ handlers[i] = HandlerAt(bodies, p) /\ handlers[j] = HandlerAt(bodies, q)
         /\ p[1] < q[1] \/ (p[1] = q[1] /\ p[2] < q[2])

(* The bodies from the last fiber under the n-th of the chain up, or from  *)
(* the script.                                                             *)
Under(n) ==
  LET f == Max({1} \cup {i \in 1 .. n - 1 : chain[i] \in Fibers})
  IN  SubSeq(chain, f, n - 1)

(* The handlers that are open, wherever they are kept, are those of the    *)
(* bodies they are kept for, each where it stands: none is left by a body  *)
(* that ended, none is missing after a resume at another depth, none is    *)
(* seen from another side.  (The parks and restores of vm_exec_ctx.c.)     *)
HandlersMatch ==
  ~ended =>
    /\ Lists(exc, Under(Len(chain) + 1))
    /\ \A g \in Gens : state[g] = "suspended" => Lists(park[g].exc, <<g>>)
    /\ \A f \in Fibers : state[f] = "suspended" => Lists(side[f].exc, <<f>>)
    /\ \A n \in DOMAIN chain : chain[n] \in Fibers => Lists(side[chain[n]].exc, Under(n))

(* At the end of a finally the action on top is the one that was queued    *)
(* when it was entered, by this body.                                      *)
PendingIsOwn ==
  Going /\ pc[Me] # <<>> /\ Last(pc[Me]).at = "finally"
    => fin # <<>> /\ Last(fin).owner = Me /\ Last(fin).path = pc[Me]

(* It can be another only after a rethrow was dropped with a body that     *)
(* ended, or a finally was left by an exception and its body went on.      *)
PendingIsOwnUntilLost == lost \/ PendingIsOwn

(* Whether a throw stops at a body that stands there, and where.           *)
Stopping(b) ==
  {k \in DOMAIN pc[b] :
     pc[b][k].at = "try" \/ (pc[b][k].at = "catch" /\ pc[b][k].kind = "both")}
StopsAt(b) ==
  LET path == SubSeq(pc[b], 1, Max(Stopping(b)))
  IN  IF b \notin Gens THEN Front(path)
      ELSE IF Last(path).at = "try" /\ Last(path).kind # "finally"
      THEN At(path, "catch") ELSE At(path, "finally")

(* A throw ends no body whose position would have stopped it, and goes on  *)
(* in the innermost try of the innermost body that has one, through        *)
(* generators and out of fibers (VmThrowException).                        *)
CaughtByInnermost ==
  [][next = "throw" =>
       /\ \A i \in Len(chain') + 1 .. Len(chain) : Stopping(chain[i]) = {}
       /\ next' = "run" /\ ~ended' =>
            /\ Stopping(Last(chain')) # {}
            /\ pc'[Last(chain')] = StopsAt(Last(chain'))]_vars

=============================================================================
