----------------------------- MODULE DevServer -----------------------------
(***************************************************************************)
(* The development server, phl -S (src/phl/server.c).                      *)
(*                                                                         *)
(* A parent and the workers it forked accept on one listening socket; each *)
(* serves one request at a time and keeps a cache of its own of compiled   *)
(* scripts.  A cached VM is reused while its script's modification time,   *)
(* in whole seconds, is the one found before it was compiled.  Meanwhile   *)
(* somebody edits the scripts, and a signal asks the server to stop.       *)
(***************************************************************************)
EXTENDS Integers, FiniteSets

CONSTANTS
  Scripts,    \* the paths of php scripts
  Parent,     \* the process that was started
  Workers,    \* the processes it may fork
  None,       \* no script
  CacheSize,  \* PHL_VM_CACHE_SIZE
  Setups,     \* the ways the server is started
  MaxEdits,   \* bound: edits of a script
  MaxTime     \* bound: seconds that pass

ASSUME SizesAssumption == {MaxEdits, MaxTime} \subseteq Nat /\ CacheSize \in Nat \ {0}
ASSUME NamesAssumption == Parent \notin Workers /\ None \notin Scripts

(* The workers that could be forked, the router script or None, and how    *)
(* many requests there will be.                                            *)
Setup == [workers: SUBSET Workers, router: Scripts \cup {None}, requests: Nat]
ASSUME SetupsAssumption == Setups \subseteq Setup

VARIABLES
  setup,      \* how this server was started
  source,     \* what each script says: its edition, and whether it compiles
  mtime,      \* when it was last written
  clock,      \* the time, in seconds
  pc,         \* where each process is
  down,       \* its g_shutdown
  late,       \* history: the signal came between the test of it and accept()
  job,        \* what it is serving
  cache,      \* its g_vmCache
  ticks,      \* its g_vmCacheClock
  nEdits, nRequests

files == <<source, mtime, clock, nEdits>>
vars == <<setup, source, mtime, clock, pc, down, late, job, cache, ticks, nEdits, nRequests>>

Procs == {Parent} \cup Workers
Slots == 1 .. CacheSize
Points == {"test", "entering", "accept", "serve", "stat", "find", "compile", "install", "exec",
           "cleanup", "gone"}

(* PhlVmCacheEntry: the script, the edition it was compiled from, whether  *)
(* a run has left its state in the VM, the last use and the time found.    *)
(* at is history: when that time was read.                                 *)
Entry == [path: Scripts, edition: Nat, dirty: BOOLEAN, use: Nat, mtime: Nat, at: Nat]
Empty == [path |-> None, edition |-> 0, dirty |-> FALSE, use |-> 0, mtime |-> 0, at |-> 0]

(* The script asked for, if any; which of the two scripts is being served; *)
(* the time found for it, and when; the slot its VM goes in; the edition   *)
(* it was compiled from.                                                   *)
Job == [wanted: Scripts \cup {None}, stage: {"router", "script"}, mtime: Nat, at: Nat,
        slot: {0} \cup Slots, edition: Nat]
NoJob == [wanted |-> None, stage |-> "script", mtime |-> 0, at |-> 0, slot |-> 0,
          edition |-> 0]
Path(p) == IF job[p].stage = "router" THEN setup.router ELSE job[p].wanted

Go(p, point) == pc' = [pc EXCEPT ![p] = point]
At(p, point) == pc[p] = point

---------------------------------------------------------------------------
(* The accept loop                                                         *)

Test(p) ==
  /\ At(p, "test")
  /\ Go(p, IF down[p] THEN "cleanup" ELSE "entering")
  /\ UNCHANGED <<setup, files, down, late, job, cache, ticks, nRequests>>

Block(p) ==
  /\ At(p, "entering")
  /\ Go(p, "accept")
  /\ UNCHANGED <<setup, files, down, late, job, cache, ticks, nRequests>>

(* A client connects and sends no request in time.                         *)
Silent(p) ==
  /\ At(p, "accept")
  /\ nRequests < setup.requests /\ nRequests' = nRequests + 1
  /\ Go(p, "test")
  /\ UNCHANGED <<setup, files, down, late, job, cache, ticks>>

(* A client connects and asks for a script, or for a file that is none.    *)
(* The router is tried first.                                              *)
Connect(p, wanted) ==
  /\ At(p, "accept")
  /\ nRequests < setup.requests /\ nRequests' = nRequests + 1
  /\ job' = [job EXCEPT ![p] = [NoJob EXCEPT !.wanted = wanted,
                !.stage = IF setup.router # None THEN "router" ELSE "script"]]
  /\ Go(p, "serve")
  /\ UNCHANGED <<setup, files, down, late, cache, ticks>>

(* HandleRequest: a script is acquired, a file is sent.                    *)
Serve(p) ==
  /\ At(p, "serve")
  /\ IF Path(p) # None
     THEN Go(p, "stat") /\ UNCHANGED job
     ELSE Go(p, "test") /\ job' = [job EXCEPT ![p] = NoJob]
  /\ UNCHANGED <<setup, files, down, late, cache, ticks, nRequests>>

---------------------------------------------------------------------------
(* AcquireScriptVm                                                         *)

(* GetFileMtime                                                            *)
Stat(p) ==
  /\ At(p, "stat")
  /\ Go(p, "find")
  /\ job' = [job EXCEPT ![p].mtime = mtime[Path(p)], ![p].at = clock]
  /\ UNCHANGED <<setup, files, down, late, cache, ticks, nRequests>>

Holding(p) == {i \in Slots : cache[p][i].path = Path(p)}
Holes(p) == {i \in Slots : cache[p][i].path = None}
First(S) == CHOOSE i \in S : \A j \in S : i <= j
LeastUsed(p) == CHOOSE i \in Slots : \A j \in Slots : cache[p][i].use <= cache[p][j].use
HolesOnly(p) == IF Holes(p) # {} THEN First(Holes(p)) ELSE 0
Room(p) == IF Holes(p) # {} THEN First(Holes(p)) ELSE LeastUsed(p)

(* The VM is reused after a reset if the script is unchanged, and dropped  *)
(* if it is not or the reset fails; then its slot is the one to fill.      *)
ReusedAsIs(p, i) ==
  /\ cache[p][i].mtime = job[p].mtime
  /\ cache' = [cache EXCEPT ![p][i].use = ticks[p] + 1]
  /\ ticks' = [ticks EXCEPT ![p] = @ + 1]
  /\ job' = [job EXCEPT ![p].slot = i]
  /\ Go(p, "exec")

ReusedInTurn(p, i) ==
  /\ cache[p][i].mtime = job[p].mtime
  /\ cache' = [cache EXCEPT ![p][i].dirty = FALSE]
  /\ ticks' = [ticks EXCEPT ![p] = @ + 1]
  /\ job' = [job EXCEPT ![p].slot = i]
  /\ Go(p, "exec")

Reused(p, i) ==
  /\ cache[p][i].mtime = job[p].mtime
  /\ cache' = [cache EXCEPT ![p][i].use = ticks[p] + 1, ![p][i].dirty = FALSE]
  /\ ticks' = [ticks EXCEPT ![p] = @ + 1]
  /\ job' = [job EXCEPT ![p].slot = i]
  /\ Go(p, "exec")

KeptStale(p, i) ==
  /\ job' = [job EXCEPT ![p].slot = Room(p)]
  /\ Go(p, "compile")
  /\ UNCHANGED <<cache, ticks>>

DroppedEntry(p, i) ==
  /\ cache' = [cache EXCEPT ![p][i] = Empty]
  /\ job' = [job EXCEPT ![p].slot = i]
  /\ Go(p, "compile")
  /\ UNCHANGED ticks

Find(p) ==
  /\ At(p, "find")
  /\ IF Holding(p) # {}
     THEN \E i \in Holding(p) : Reused(p, i) \/ DroppedEntry(p, i)
     ELSE /\ job' = [job EXCEPT ![p].slot = Room(p)]
          /\ Go(p, "compile")
          /\ UNCHANGED <<cache, ticks>>
  /\ UNCHANGED <<setup, files, down, late, nRequests>>

(* The router stands aside, or the request has been answered.              *)
PassOn(p) ==
  /\ Go(p, "serve")
  /\ job' = [job EXCEPT ![p].stage = "script", ![p].slot = 0, ![p].edition = 0]

Answer(p) ==
  /\ Go(p, "test")
  /\ job' = [job EXCEPT ![p] = NoJob]

(* ph7_compile_file reads the script, which may have been edited since its *)
(* time was read.  A router that does not compile is passed over; for the  *)
(* script itself the answer is a 500.                                      *)
Compile(p) ==
  /\ At(p, "compile")
  /\ IF source[Path(p)].compiles
     THEN /\ job' = [job EXCEPT ![p].edition = source[Path(p)].edition]
          /\ Go(p, "install")
     ELSE IF job[p].stage = "router" THEN PassOn(p) ELSE Answer(p)
  /\ UNCHANGED <<setup, files, down, late, cache, ticks, nRequests>>

(* The compiled script takes its slot, whose VM is released.               *)
InstallTimed(p, found, at) ==
  /\ At(p, "install")
  /\ cache' = [cache EXCEPT ![p][job[p].slot] =
       [path |-> Path(p), edition |-> job[p].edition, dirty |-> FALSE,
        use |-> ticks[p] + 1, mtime |-> found, at |-> at]]
  /\ ticks' = [ticks EXCEPT ![p] = @ + 1]
  /\ Go(p, "exec")
  /\ UNCHANGED <<setup, files, down, late, job, nRequests>>

StatAfterCompiling(p) == InstallTimed(p, mtime[Path(p)], clock)
Install(p) == InstallTimed(p, job[p].mtime, job[p].at)

(* The script runs and the client is answered, unless a router returns     *)
(* FALSE.                                                                  *)
Exec(p) ==
  /\ At(p, "exec")
  /\ cache' = [cache EXCEPT ![p][job[p].slot].dirty = TRUE]
  /\ \/ Answer(p)
     \/ job[p].stage = "router" /\ PassOn(p)
  /\ UNCHANGED <<setup, files, down, late, ticks, nRequests>>

---------------------------------------------------------------------------
(* Shutdown                                                                *)

(* SIGINT or SIGTERM: the handler raises the flag, and accept() returns.   *)
SignalFlags(S) ==
  /\ down' = [p \in Procs |-> down[p] \/ (p \in S /\ ~At(p, "gone"))]
  /\ late' = [p \in Procs |-> late[p] \/ (p \in S /\ At(p, "entering"))]

NotWoken(S) == pc
Woken(S) == [p \in Procs |-> IF p \in S /\ At(p, "accept") THEN "test" ELSE pc[p]]

(* From outside: to the parent, or from the terminal to all of them.       *)
Interrupt(S) ==
  /\ SignalFlags(S)
  /\ pc' = Woken(S)
  /\ UNCHANGED <<setup, files, job, cache, ticks, nRequests>>

(* The parent takes the workers down with it; the cache is released.       *)
Cleanup(p) ==
  /\ At(p, "cleanup")
  /\ LET S == IF p = Parent THEN setup.workers ELSE {}
     IN /\ SignalFlags(S)
        /\ pc' = [Woken(S) EXCEPT ![p] = "gone"]
  /\ cache' = [cache EXCEPT ![p] = [i \in Slots |-> Empty]]
  /\ UNCHANGED <<setup, files, job, ticks, nRequests>>

---------------------------------------------------------------------------
(* The files                                                               *)

Edit(s) ==
  /\ nEdits < MaxEdits /\ nEdits' = nEdits + 1
  /\ \E compiles \in BOOLEAN :
       source' = [source EXCEPT ![s] = [edition |-> @.edition + 1, compiles |-> compiles]]
  /\ mtime' = [mtime EXCEPT ![s] = clock]
  /\ UNCHANGED <<setup, clock, pc, down, late, job, cache, ticks, nRequests>>

Tick ==
  /\ clock < MaxTime /\ clock' = clock + 1
  /\ UNCHANGED <<setup, source, mtime, nEdits, pc, down, late, job, cache, ticks, nRequests>>

---------------------------------------------------------------------------
Init ==
  /\ setup \in Setups
  /\ source = [s \in Scripts |-> [edition |-> 1, compiles |-> TRUE]]
  /\ mtime = [s \in Scripts |-> 0]
  /\ clock = 0 /\ nEdits = 0 /\ nRequests = 0
  /\ pc = [p \in Procs |-> IF p \in {Parent} \cup setup.workers THEN "test" ELSE "gone"]
  /\ down = [p \in Procs |-> FALSE]
  /\ late = [p \in Procs |-> FALSE]
  /\ job = [p \in Procs |-> NoJob]
  /\ cache = [p \in Procs |-> [i \in Slots |-> Empty]]
  /\ ticks = [p \in Procs |-> 0]

Run(p) ==
  Test(p) \/ Block(p) \/ Serve(p) \/ Stat(p) \/ Find(p) \/ Compile(p) \/ Install(p)
  \/ Exec(p) \/ Cleanup(p)

Clients(p) == Silent(p) \/ \E wanted \in Scripts \cup {None} : Connect(p, wanted)

Next ==
  \/ \E p \in Procs : Run(p) \/ Clients(p)
  \/ Interrupt({Parent}) \/ Interrupt(Procs)
  \/ \E s \in Scripts : Edit(s)
  \/ Tick

Spec == Init /\ [][Next]_vars

(* Processes run and scripts end; nobody need ever connect again.          *)
FairSpec == Spec /\ \A p \in Procs : WF_vars(Run(p))

---------------------------------------------------------------------------
(* Properties                                                              *)

(* What each variable holds; a slot is chosen before a script is compiled. *)
TypeOK ==
  /\ setup \in Setups
  /\ source \in [Scripts -> [edition: Nat, compiles: BOOLEAN]]
  /\ mtime \in [Scripts -> 0 .. MaxTime]
  /\ clock \in 0 .. MaxTime /\ nEdits \in 0 .. MaxEdits /\ nRequests \in Nat
  /\ pc \in [Procs -> Points]
  /\ down \in [Procs -> BOOLEAN] /\ late \in [Procs -> BOOLEAN]
  /\ job \in [Procs -> Job]
  /\ cache \in [Procs -> [Slots -> Entry \cup {Empty}]]
  /\ ticks \in [Procs -> Nat]
  /\ \A p \in Procs : pc[p] \in {"compile", "install", "exec"} => job[p].slot # 0

(* A cached VM that would be reused runs what its script says now, as long *)
(* as its time was read in a later second than the script's last change:   *)
(* however edits fall between the reading of the time, the compilation and *)
(* the next request.                                                       *)
CacheFresh ==
  \A p \in Procs, i \in Slots : LET e == cache[p][i] IN
    e.path # None /\ e.mtime = mtime[e.path] /\ e.at > mtime[e.path] =>
      e.edition = source[e.path].edition

(* A script has one VM in a cache, so an edit leaves no older one behind.  *)
OnePerScript ==
  \A p \in Procs : \A i, j \in Slots :
    cache[p][i].path = cache[p][j].path /\ cache[p][i].path # None => i = j

(* What runs is the VM of the script that was asked for, and nothing of an *)
(* earlier request is left in it.                                          *)
RunsCleanVm ==
  \A p \in Procs : At(p, "exec") =>
    /\ cache[p][job[p].slot].path = Path(p)
    /\ ~cache[p][job[p].slot].dirty

(* The router runs for every request, so with room for one more script its *)
(* VM is never the one evicted for it.                                     *)
RouterStays ==
  [][CacheSize > 1 /\ setup.router # None =>
       \A p \in Procs, i \in Slots :
         cache[p][i].path = setup.router /\ At(p, "install") =>
           cache'[p][i].path = setup.router]_vars

(* A process that is told to stop does, whatever it was serving, unless    *)
(* the signal fell between the test of the flag and accept().              *)
Stops == \A p \in Procs : down[p] /\ ~late[p] ~> pc[p] = "gone"

============================================================================
