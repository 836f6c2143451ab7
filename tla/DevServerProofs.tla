--------------------------- MODULE DevServerProofs ---------------------------
(* Proofs about DevServer.                                                 *)
EXTENDS DevServer, WellFoundedInduction, TLAPS

---------------------------------------------------------------------------
(* Slots: a choice of the first or least used of some is one of them.      *)

LEMMA NatMin ==
  ASSUME NEW S \in SUBSET Nat, S # {}
  PROVE  \E x \in S : \A y \in S : x <= y
<1>1. PICK x \in S : \A y \in S : ~(<<y, x>> \in OpToRel(<, Nat))
  <2>1. IsWellFoundedOn(OpToRel(<, Nat), Nat)
    BY NatLessThanWellFounded
  <2> HIDE DEF OpToRel
  <2> QED BY <2>1, WFMin
<1>2. \A y \in S : ~(y < x)
  BY <1>1 DEF OpToRel
<1>3. x \in Nat /\ \A y \in S : y \in Nat
  OBVIOUS
<1> QED BY <1>2, <1>3

LEMMA FirstIs ==
  ASSUME NEW S \in SUBSET Slots, S # {}
  PROVE  First(S) \in S
<1>1. S \in SUBSET Nat
  BY SizesAssumption DEF Slots
<1> QED BY <1>1, NatMin DEF First

LEMMA LeastUsedIs ==
  ASSUME TypeOK, NEW p \in Procs
  PROVE  /\ LeastUsed(p) \in Slots
         /\ \A j \in Slots : cache[p][LeastUsed(p)].use <= cache[p][j].use
<1> DEFINE Uses == {cache[p][i].use : i \in Slots}
<1>1. \A i \in Slots : cache[p][i].use \in Nat
  BY DEF TypeOK, Entry, Empty
<1>2. Uses \in SUBSET Nat /\ Uses # {}
  BY <1>1, SizesAssumption DEF Slots
<1>3. PICK u \in Uses : \A v \in Uses : u <= v
  <2> HIDE DEF Uses
  <2> QED BY <1>2, NatMin
<1>4. PICK i \in Slots : cache[p][i].use = u
  OBVIOUS
<1>5. \A j \in Slots : cache[p][i].use <= cache[p][j].use
  BY <1>3, <1>4
<1> QED BY <1>5 DEF LeastUsed

LEMMA RoomIs ==
  ASSUME TypeOK, NEW p \in Procs
  PROVE  Room(p) \in Slots
<1>1. Holes(p) \in SUBSET Slots
  BY DEF Holes
<1> QED BY <1>1, FirstIs, LeastUsedIs DEF Room

(* A signal takes nobody anywhere but from accept() to the test.           *)
LEMMA WokenIs ==
  ASSUME TypeOK, NEW S
  PROVE  /\ Woken(S) \in [Procs -> Points]
         /\ \A q \in Procs : Woken(S)[q] \in {pc[q], "test"}
  BY DEF TypeOK, Woken, At, Points

LEMMA FlagsAre ==
  ASSUME TypeOK, NEW S, SignalFlags(S)
  PROVE  down' \in [Procs -> BOOLEAN] /\ late' \in [Procs -> BOOLEAN]
  BY DEF TypeOK, SignalFlags, At

---------------------------------------------------------------------------
(* Types.  What is looked up is a script; what runs is its VM, cleaned.    *)

Asked == \A p \in Procs :
  pc[p] \in {"stat", "find", "compile", "install", "exec"} => Path(p) \in Scripts

TypeInv == TypeOK /\ Asked /\ RunsCleanVm

LEMMA InitTypes == Init => TypeInv
  BY SizesAssumption, NamesAssumption, SetupsAssumption
  DEF Init, TypeInv, TypeOK, Asked, RunsCleanVm, Setup, Points, Procs, Slots, Job, NoJob, At

(* A step of process p's request: its job, position, cache and clock       *)
(* become j, point, c and t.                                               *)
Moves(p, j, point, c, t) ==
  /\ job' = [job EXCEPT ![p] = j]
  /\ pc' = [pc EXCEPT ![p] = point]
  /\ cache' = [cache EXCEPT ![p] = c]
  /\ ticks' = [ticks EXCEPT ![p] = t]
  /\ nRequests' \in Nat
  /\ UNCHANGED <<setup, source, mtime, clock, nEdits, down, late>>

PathOf(j) == IF j.stage = "router" THEN setup.router ELSE j.wanted

Fits(j, point, c, t) ==
  /\ j \in Job /\ point \in Points /\ c \in [Slots -> Entry \cup {Empty}] /\ t \in Nat
  /\ point \in {"stat", "find", "compile", "install", "exec"} => PathOf(j) \in Scripts
  /\ point \in {"compile", "install", "exec"} => j.slot # 0
  /\ point = "exec" => c[j.slot].path = PathOf(j) /\ ~c[j.slot].dirty

LEMMA OneProcessTypes ==
  ASSUME TypeInv, NEW p \in Procs, NEW j, NEW point, NEW c, NEW t,
         Moves(p, j, point, c, t), Fits(j, point, c, t)
  PROVE  TypeInv'
<1> USE DEF TypeInv, TypeOK, Points, Moves, Fits
<1>1. job' \in [Procs -> Job] /\ pc' \in [Procs -> Points]
      /\ cache' \in [Procs -> [Slots -> Entry \cup {Empty}]]
      /\ ticks' \in [Procs -> Nat]
  OBVIOUS
<1>2. job'[p] = j /\ pc'[p] = point /\ cache'[p] = c
  OBVIOUS
<1>3. \A q \in Procs \ {p} : job'[q] = job[q] /\ pc'[q] = pc[q] /\ cache'[q] = cache[q]
  OBVIOUS
<1>4. TypeOK'
  BY <1>1, <1>2, <1>3
<1>5. Asked'
  BY <1>2, <1>3 DEF Asked, Path, PathOf
<1>6. RunsCleanVm'
  BY <1>2, <1>3 DEF RunsCleanVm, Path, PathOf, At
<1> QED BY <1>4, <1>5, <1>6

(* Parts of what a process serves, and of its cache.                       *)
LEMMA JobParts ==
  ASSUME TypeInv, NEW p \in Procs
  PROVE  /\ job[p] \in Job
         /\ cache[p] \in [Slots -> Entry \cup {Empty}]
         /\ \A i \in Slots : cache[p][i].path \in Scripts => cache[p][i] \in Entry
         /\ pc[p] \in {"compile", "install", "exec"} => job[p].slot \in Slots
         /\ pc[p] \in {"stat", "find", "compile", "install", "exec"} => Path(p) \in Scripts
         /\ Path(p) = PathOf(job[p])
         /\ Path(p) \in Scripts \cup {None}
         /\ ticks[p] \in Nat
  BY NamesAssumption, SetupsAssumption
  DEF TypeInv, TypeOK, Asked, Job, Empty, Path, PathOf, Setup

---------------------------------------------------------------------------
(* The cache.  The three parts of the invariant, of one process each.      *)

(* Times were read in the past; what was compiled from an edition found    *)
(* in a later second than the script's last change is that edition.        *)
FreshEntry(e) ==
  /\ e.at <= clock
  /\ e.path # None /\ e.mtime = mtime[e.path] /\ e.at > mtime[e.path] =>
       e.edition = source[e.path].edition

FreshRow(j, point, c) ==
  /\ \A i \in Slots : FreshEntry(c[i])
  /\ j.at <= clock
  /\ point = "install" /\ j.mtime = mtime[PathOf(j)] /\ j.at > mtime[PathOf(j)] =>
       j.edition = source[PathOf(j)].edition

(* What is being compiled is not in the cache.                             *)
OneRow(j, point, c) ==
  /\ \A i, k \in Slots : c[i].path = c[k].path /\ c[i].path # None => i = k
  /\ point \in {"compile", "install"} => \A i \in Slots : c[i].path # PathOf(j)

(* What runs is the most recently used; while the script is looked for,    *)
(* that is the router, so with two slots it is not the one to be filled.   *)
Newest(c) ==
  \A i, k \in Slots : c[i].path = setup.router /\ k # i => c[k].use < c[i].use

RouterRow(j, point, c, t) == setup.router # None =>
  /\ \A i \in Slots : c[i].use <= t
  /\ point = "exec" => \A i \in Slots \ {j.slot} : c[i].use < c[j.slot].use
  /\ j.stage = "script" /\ point \in {"serve", "stat", "find", "compile", "install"} =>
       Newest(c)
  /\ CacheSize > 1 /\ point \in {"compile", "install"} => c[j.slot].path # setup.router

Row(j, point, c, t) ==
  FreshRow(j, point, c) /\ OneRow(j, point, c) /\ RouterRow(j, point, c, t)

PastTimes == \A s \in Scripts : mtime[s] <= clock

CacheInv ==
  /\ TypeInv
  /\ PastTimes
  /\ \A p \in Procs : Row(job[p], pc[p], cache[p], ticks[p])

LEMMA InitCache == Init => CacheInv
<1> SUFFICES ASSUME Init PROVE CacheInv
  OBVIOUS
<1>1. TypeInv
  BY InitTypes
<1>2. PastTimes
  BY DEF Init, PastTimes
<1>3. ASSUME NEW p \in Procs PROVE Row(job[p], pc[p], cache[p], ticks[p])
  <2>1. job[p] = NoJob /\ pc[p] \in {"test", "gone"} /\ ticks[p] = 0 /\ clock = 0
        /\ \A i \in Slots : cache[p][i] = Empty
    BY DEF Init
  <2>2. FreshRow(job[p], pc[p], cache[p])
    BY <2>1 DEF FreshRow, FreshEntry, NoJob, Empty
  <2>3. OneRow(job[p], pc[p], cache[p])
    BY <2>1 DEF OneRow, Empty
  <2>4. RouterRow(job[p], pc[p], cache[p], ticks[p])
    BY <2>1 DEF RouterRow, Empty
  <2> QED BY <2>2, <2>3, <2>4 DEF Row
<1> QED BY <1>1, <1>2, <1>3 DEF CacheInv

LEMMA OneProcess ==
  ASSUME CacheInv, NEW p \in Procs, NEW j, NEW point, NEW c, NEW t,
         Moves(p, j, point, c, t), Fits(j, point, c, t), Row(j, point, c, t)
  PROVE  CacheInv'
<1>1. TypeInv'
  BY OneProcessTypes DEF CacheInv
<1>2. PastTimes'
  BY DEF CacheInv, PastTimes, Moves
<1>3. ASSUME NEW q \in Procs PROVE Row(job[q], pc[q], cache[q], ticks[q])'
  <2>1. UNCHANGED <<setup, source, mtime, clock>>
    BY DEF Moves
  <2>2. job'[q] = (IF q = p THEN j ELSE job[q]) /\ pc'[q] = (IF q = p THEN point ELSE pc[q])
        /\ cache'[q] = (IF q = p THEN c ELSE cache[q])
        /\ ticks'[q] = (IF q = p THEN t ELSE ticks[q])
    BY DEF Moves, CacheInv, TypeInv, TypeOK
  <2>3. Row(job'[q], pc'[q], cache'[q], ticks'[q])
    BY <2>2 DEF CacheInv
  <2> QED
    BY <2>1, <2>3
    DEF Row, FreshRow, FreshEntry, OneRow, RouterRow, Newest, PathOf
<1> QED BY <1>1, <1>2, <1>3 DEF CacheInv

(* The parts of the invariant, of one process.                             *)
LEMMA RowParts ==
  ASSUME CacheInv, NEW p \in Procs
  PROVE  /\ FreshRow(job[p], pc[p], cache[p])
         /\ OneRow(job[p], pc[p], cache[p])
         /\ RouterRow(job[p], pc[p], cache[p], ticks[p])
         /\ TypeInv
  BY DEF CacheInv, Row

(* Steps that move a process and leave its job, cache or clock.            *)
LEMMA Same ==
  ASSUME TypeInv, NEW p \in Procs
  PROVE  /\ job = [job EXCEPT ![p] = job[p]]
         /\ cache = [cache EXCEPT ![p] = cache[p]]
         /\ ticks = [ticks EXCEPT ![p] = ticks[p]]
         /\ nRequests \in Nat
  BY DEF TypeInv, TypeOK

(* A process that is between requests, or is looking for nothing yet.      *)
LEMMA Idle ==
  ASSUME CacheInv, NEW p \in Procs, NEW j \in {job[p], NoJob},
         NEW point \in {"test", "entering", "accept", "cleanup"}
  PROVE  Row(j, point, cache[p], ticks[p])
<1>1. j.at <= clock
  BY RowParts, SizesAssumption DEF FreshRow, NoJob, TypeInv, TypeOK
<1> QED BY <1>1, RowParts DEF Row, FreshRow, OneRow, RouterRow

LEMMA IdleFits ==
  ASSUME CacheInv, NEW p \in Procs, NEW j \in {job[p], NoJob},
         NEW point \in {"test", "entering", "accept", "cleanup"}
  PROVE  Fits(j, point, cache[p], ticks[p])
<1>1. NoJob \in Job
  BY DEF NoJob, Job
<1> QED BY <1>1, RowParts, JobParts DEF Fits, Points

(* The process goes on without a script.                                   *)
LEMMA IdleStep ==
  ASSUME CacheInv, NEW p \in Procs, NEW j \in {job[p], NoJob},
         NEW point \in {"test", "entering", "accept", "cleanup"},
         Moves(p, j, point, cache[p], ticks[p])
  PROVE  CacheInv'
  BY Idle, IdleFits, OneProcess

LEMMA AcceptSteps ==
  ASSUME CacheInv, NEW p \in Procs, Test(p) \/ Block(p) \/ Silent(p)
  PROVE  CacheInv'
<1> USE RowParts, Same DEF Go, At, files
<1>1. CASE Test(p)
  <2> DEFINE point == IF down[p] THEN "cleanup" ELSE "entering"
  <2>1. Moves(p, job[p], point, cache[p], ticks[p])
    BY <1>1 DEF Test, Moves
  <2> QED BY <2>1, IdleStep
<1>2. CASE Block(p)
  <2>1. Moves(p, job[p], "accept", cache[p], ticks[p])
    BY <1>2 DEF Block, Moves
  <2> QED BY <2>1, IdleStep
<1>3. CASE Silent(p)
  <2>1. Moves(p, job[p], "test", cache[p], ticks[p])
    BY <1>3 DEF Silent, Moves
  <2> QED BY <2>1, IdleStep
<1> QED BY <1>1, <1>2, <1>3

LEMMA ConnectStep ==
  ASSUME CacheInv, NEW p \in Procs, NEW w \in Scripts \cup {None}, Connect(p, w)
  PROVE  CacheInv'
<1> USE RowParts, Same DEF Go, At, files
<1> DEFINE j == [NoJob EXCEPT !.wanted = w,
                   !.stage = IF setup.router # None THEN "router" ELSE "script"]
<1>1. Moves(p, j, "serve", cache[p], ticks[p])
  BY DEF Connect, Moves
<1>2. NoJob \in Job
  BY DEF NoJob, Job
<1>3. Fits(j, "serve", cache[p], ticks[p])
  BY <1>2, JobParts DEF Fits, Points, Job
<1>4. j.at = 0 /\ (setup.router # None => j.stage = "router")
  BY DEF NoJob
<1>5. 0 <= clock
  BY SizesAssumption DEF TypeInv, TypeOK
<1> HIDE DEF j
<1>6. Row(j, "serve", cache[p], ticks[p])
  BY <1>4, <1>5 DEF Row, FreshRow, OneRow, RouterRow
<1> QED BY <1>1, <1>3, <1>6, OneProcess

LEMMA ServeStep ==
  ASSUME CacheInv, NEW p \in Procs, Serve(p)
  PROVE  CacheInv'
<1> USE RowParts, Same DEF Go, At, files
<1>1. CASE Path(p) # None
  <2>1. Moves(p, job[p], "stat", cache[p], ticks[p])
    BY <1>1 DEF Serve, Moves
  <2>2. Fits(job[p], "stat", cache[p], ticks[p])
    BY <1>1, JobParts DEF Fits, Points
  <2>3. Row(job[p], "stat", cache[p], ticks[p])
    BY DEF Serve, Row, FreshRow, OneRow, RouterRow
  <2> QED BY <2>1, <2>2, <2>3, OneProcess
<1>2. CASE Path(p) = None
  <2>1. Moves(p, NoJob, "test", cache[p], ticks[p])
    BY <1>2 DEF Serve, Moves
  <2> QED BY <2>1, IdleStep
<1> QED BY <1>1, <1>2

LEMMA StatStep ==
  ASSUME CacheInv, NEW p \in Procs, Stat(p)
  PROVE  CacheInv'
<1> USE RowParts, Same DEF Go, At, files
<1> DEFINE j == [job[p] EXCEPT !.mtime = mtime[Path(p)], !.at = clock]
<1>1. Moves(p, j, "find", cache[p], ticks[p])
  BY DEF Stat, Moves
<1>2. mtime[Path(p)] \in Nat /\ clock \in Nat
  BY JobParts, SizesAssumption DEF Stat, TypeInv, TypeOK
<1>4. j \in Job /\ j.at = clock /\ j.stage = job[p].stage /\ j.wanted = job[p].wanted
  <2> DEFINE found == mtime[Path(p)]
  <2>1. found \in Nat /\ job[p] \in Job
    BY <1>2, JobParts
  <2>2. j = [job[p] EXCEPT !.mtime = found, !.at = clock]
    OBVIOUS
  <2> HIDE DEF found, j
  <2> QED BY <1>2, <2>1, <2>2 DEF Job
<1> HIDE DEF j
<1>3. Fits(j, "find", cache[p], ticks[p])
  BY <1>4, JobParts DEF Fits, Points, PathOf, Stat
<1>5. Row(j, "find", cache[p], ticks[p])
  BY <1>2, <1>4 DEF Stat, Row, FreshRow, OneRow, RouterRow
<1> QED BY <1>1, <1>3, <1>5, OneProcess

(* A VM found is reused.                                                   *)
LEMMA ReusedStep ==
  ASSUME CacheInv, NEW p \in Procs, Find(p), NEW i \in Holding(p), Reused(p, i)
  PROVE  CacheInv'
<1>0. TypeInv
  BY DEF CacheInv
<1> DEFINE j == [job[p] EXCEPT !.slot = i]
           old == cache[p][i]
           t == ticks[p] + 1
           e == [old EXCEPT !.use = t, !.dirty = FALSE]
           c == [cache[p] EXCEPT ![i] = e]
<1>1. i \in Slots /\ old.path = Path(p) /\ Path(p) \in Scripts
  BY <1>0, JobParts DEF Holding, Find, At
<1>2. old \in Entry /\ t \in Nat
  BY <1>0, <1>1, JobParts
<1>3. e \in Entry /\ e.path = Path(p) /\ ~e.dirty /\ e.use = t
      /\ e.at = old.at /\ e.mtime = old.mtime /\ e.edition = old.edition
  <2> HIDE DEF old, t
  <2> QED BY <1>1, <1>2 DEF Entry
<1>4. cache' = [cache EXCEPT ![p] = c]
  BY <1>0, <1>1, JobParts DEF Reused, TypeInv, TypeOK
<1> USE RowParts, Same
<1>5. ticks' = [ticks EXCEPT ![p] = t]
  BY DEF Reused
<1>6. j \in Job /\ PathOf(j) = Path(p) /\ j.slot = i /\ j.at = job[p].at /\ j.stage = job[p].stage
  BY <1>1, JobParts DEF Job, PathOf
<1>7. c \in [Slots -> Entry \cup {Empty}] /\ c[i] = e
      /\ \A k \in Slots \ {i} : c[k] = cache[p][k]
  <2> HIDE DEF e
  <2> QED BY <1>1, <1>3, JobParts
<1>8. i # 0
  BY <1>1, SizesAssumption DEF Slots
<1>9. \A k \in Slots : cache[p][k].use \in Nat
  BY DEF TypeInv, TypeOK, Entry, Empty
<1> HIDE DEF j, c, e
<1>10. Moves(p, j, "exec", c, t)
  <2> HIDE DEF t
  <2> QED BY <1>4, <1>5 DEF Find, Reused, Moves, Go, At, files, j
<1> HIDE DEF t
<1>11. Fits(j, "exec", c, t)
  BY <1>1, <1>2, <1>3, <1>6, <1>7, <1>8 DEF Fits, Points
<1>12. FreshRow(j, "exec", c)
  BY <1>1, <1>3, <1>6, <1>7 DEF FreshRow, FreshEntry
<1>13. OneRow(j, "exec", c)
  BY <1>1, <1>3, <1>7 DEF OneRow
<1>14. ASSUME setup.router # None PROVE RouterRow(j, "exec", c, t)
  <2>1. \A k \in Slots \ {i} : c[k].use < t
    BY <1>7, <1>9, <1>14, JobParts DEF RouterRow, t
  <2> QED BY <1>2, <1>3, <1>6, <1>7, <1>9, <2>1 DEF RouterRow
<1> QED BY <1>10, <1>11, <1>12, <1>13, <1>14, OneProcess DEF Row, RouterRow

(* A VM found is dropped: its script is in the cache no more.              *)
LEMMA DroppedStep ==
  ASSUME CacheInv, NEW p \in Procs, Find(p), NEW i \in Holding(p), DroppedEntry(p, i)
  PROVE  CacheInv'
<1> USE RowParts, Same
<1> DEFINE j == [job[p] EXCEPT !.slot = i]
           c == [cache[p] EXCEPT ![i] = Empty]
<1>1. i \in Slots /\ cache[p][i].path = Path(p) /\ Path(p) \in Scripts /\ Path(p) # None
  BY JobParts, NamesAssumption DEF Holding, Find, At
<1>2. cache' = [cache EXCEPT ![p] = c]
  BY <1>1, JobParts DEF DroppedEntry, TypeInv, TypeOK
<1>3. Moves(p, j, "compile", c, ticks[p])
  BY <1>2 DEF Find, DroppedEntry, Moves, Go, At, files
<1>4. i # 0
  BY <1>1, SizesAssumption DEF Slots
<1>5. c[i] = Empty /\ c \in [Slots -> Entry \cup {Empty}]
      /\ \A k \in Slots \ {i} : c[k] = cache[p][k]
  BY <1>1, JobParts
<1>6. j \in Job /\ PathOf(j) = Path(p) /\ j.slot = i /\ j.at = job[p].at /\ j.stage = job[p].stage
  BY <1>1, JobParts DEF Job, PathOf
<1>7. \A k \in Slots : cache[p][k].use \in Nat
  BY DEF TypeInv, TypeOK, Entry, Empty
<1>8. Empty.path = None /\ Empty.use = 0 /\ Empty.at = 0
  BY DEF Empty
<1>9. 0 <= clock /\ 0 <= ticks[p]
  BY JobParts, SizesAssumption DEF TypeInv, TypeOK
<1> HIDE DEF j, c, Empty
<1>13. Fits(j, "compile", c, ticks[p])
  BY <1>1, <1>4, <1>5, <1>6, JobParts DEF Fits, Points
<1>10. FreshRow(j, "compile", c)
  BY <1>5, <1>6, <1>8, <1>9 DEF FreshRow, FreshEntry
<1>11. OneRow(j, "compile", c)
  BY <1>1, <1>5, <1>6, <1>8 DEF OneRow
<1>12. RouterRow(j, "compile", c, ticks[p])
  <2> SUFFICES ASSUME setup.router # None PROVE RouterRow(j, "compile", c, ticks[p])
    BY DEF RouterRow
  <2>1. \A k \in Slots : c[k].use <= ticks[p]
    BY <1>5, <1>8, <1>9 DEF RouterRow
  <2>2. ASSUME j.stage = "script" PROVE Newest(c)
    <3>1. Newest(cache[p])
      BY <1>6, <2>2 DEF RouterRow, Find, At
    <3>2. ASSUME NEW k \in Slots, NEW l \in Slots, c[k].path = setup.router, l # k
          PROVE  c[l].use < c[k].use
      <4>1. k # i /\ c[k] = cache[p][k]
        BY <1>5, <1>8, <3>2
      <4>2. cache[p][l].use < cache[p][k].use
        BY <3>1, <3>2, <4>1 DEF Newest
      <4> QED BY <1>5, <1>7, <1>8, <4>1, <4>2
    <3> QED BY <3>2 DEF Newest
  <2>3. c[j.slot].path # setup.router
    BY <1>5, <1>6, <1>8
  <2> QED BY <2>1, <2>2, <2>3 DEF RouterRow
<1> QED BY <1>3, <1>10, <1>11, <1>12, <1>13, OneProcess DEF Row

(* Nothing is found: the slot to fill is not the router's.                 *)
LEMMA RoomSpares ==
  ASSUME TypeOK, NEW p \in Procs, CacheSize > 1, setup.router # None, Newest(cache[p])
  PROVE  cache[p][Room(p)].path # setup.router
<1>1. CASE Holes(p) # {}
  <2>1. Room(p) \in Holes(p)
    <3>1. Holes(p) \in SUBSET Slots
      BY DEF Holes
    <3>2. First(Holes(p)) \in Holes(p)
      <4> DEFINE H == Holes(p)
      <4>1. H \in SUBSET Nat /\ H # {}
        BY <1>1, <3>1, SizesAssumption DEF Slots
      <4> HIDE DEF H
      <4>2. First(H) \in H
        BY <4>1, NatMin DEF First
      <4> QED BY <4>2 DEF H
    <3> QED BY <1>1, <3>2 DEF Room
  <2> QED BY <2>1 DEF Holes
<1>2. CASE Holes(p) = {}
  <2>1. Room(p) = LeastUsed(p)
    BY <1>2 DEF Room
  <2>2. LeastUsed(p) \in Slots /\ \A j \in Slots : cache[p][LeastUsed(p)].use <= cache[p][j].use
    BY LeastUsedIs
  <2>3. PICK k \in Slots : k # LeastUsed(p)
    <3>1. 1 \in Slots /\ 2 \in Slots
      BY SizesAssumption DEF Slots
    <3> QED BY <3>1
  <2>4. \A j \in Slots : cache[p][j].use \in Nat
    BY DEF TypeOK, Entry, Empty
  <2>5. SUFFICES ASSUME cache[p][LeastUsed(p)].path = setup.router PROVE FALSE
    BY <2>1
  <2>6. cache[p][k].use < cache[p][LeastUsed(p)].use
    BY <2>2, <2>3, <2>5 DEF Newest
  <2> QED BY <2>2, <2>3, <2>4, <2>6
<1> QED BY <1>1, <1>2

LEMMA NotFoundStep ==
  ASSUME CacheInv, NEW p \in Procs, Find(p), Holding(p) = {}
  PROVE  CacheInv'
<1> USE RowParts, Same
<1> DEFINE j == [job[p] EXCEPT !.slot = Room(p)]
<1>1. Moves(p, j, "compile", cache[p], ticks[p])
  BY DEF Find, Moves, Go, At, files
<1>2. Room(p) \in Slots
  BY RoomIs DEF TypeInv
<1>3. Room(p) # 0
  BY <1>2, SizesAssumption DEF Slots
<1>4. j \in Job /\ PathOf(j) = Path(p) /\ j.slot = Room(p)
      /\ j.at = job[p].at /\ j.stage = job[p].stage
  <2> DEFINE r == Room(p)
  <2>1. r \in Slots
    BY <1>2
  <2>2. job[p] \in Job /\ Path(p) = PathOf(job[p])
    BY JobParts
  <2>3. j = [job[p] EXCEPT !.slot = r]
    OBVIOUS
  <2> HIDE DEF r, j
  <2>4. j \in Job /\ j.slot = r /\ j.at = job[p].at /\ j.stage = job[p].stage
        /\ j.wanted = job[p].wanted
    BY <2>1, <2>2, <2>3 DEF Job
  <2> QED BY <2>2, <2>4 DEF PathOf, r
<1>5. \A k \in Slots : cache[p][k].path # Path(p)
  BY DEF Holding
<1> HIDE DEF j
<1>9. Fits(j, "compile", cache[p], ticks[p])
  BY <1>3, <1>4, JobParts DEF Fits, Points, Find, At
<1>6. FreshRow(j, "compile", cache[p])
  BY <1>4 DEF FreshRow
<1>7. OneRow(j, "compile", cache[p])
  BY <1>4, <1>5 DEF OneRow
<1>8. RouterRow(j, "compile", cache[p], ticks[p])
  <2> SUFFICES ASSUME setup.router # None PROVE RouterRow(j, "compile", cache[p], ticks[p])
    BY DEF RouterRow
  <2>1. j.stage = "script" => Newest(cache[p])
    BY <1>4 DEF RouterRow, Find, At
  <2>2. j.stage # "script" => Path(p) = setup.router
    BY <1>4, JobParts DEF Job, Path
  <2>3. CacheSize > 1 => cache[p][j.slot].path # setup.router
    BY <1>2, <1>4, <1>5, <2>1, <2>2, RoomSpares DEF TypeInv
  <2> QED BY <2>1, <2>3 DEF RouterRow
<1> QED BY <1>1, <1>6, <1>7, <1>8, <1>9, OneProcess DEF Row

(* The router stands aside: it is not in the cache, or is what just ran.   *)
LEMMA AsideStep ==
  ASSUME CacheInv, NEW p \in Procs, PassOn(p), NEW c \in [Slots -> Entry \cup {Empty}],
         cache' = [cache EXCEPT ![p] = c],
         UNCHANGED <<ticks, nRequests, setup, files, down, late>>,
         \A i \in Slots : FreshEntry(c[i]),
         \A i, k \in Slots : c[i].path = c[k].path /\ c[i].path # None => i = k,
         setup.router # None => Newest(c) /\ \A i \in Slots : c[i].use <= ticks[p]
  PROVE  CacheInv'
<1> USE RowParts, Same
<1> DEFINE j == [job[p] EXCEPT !.stage = "script", !.slot = 0, !.edition = 0]
<1>1. Moves(p, j, "serve", c, ticks[p])
  BY DEF PassOn, Moves, Go, files
<1>2. Fits(j, "serve", c, ticks[p])
  BY JobParts DEF Fits, Points, Job
<1>3. j.at = job[p].at
  BY JobParts DEF Job
<1> HIDE DEF j
<1>4. Row(j, "serve", c, ticks[p])
  BY <1>3 DEF Row, FreshRow, OneRow, RouterRow
<1> QED BY <1>1, <1>2, <1>4, OneProcess

LEMMA CompileStep ==
  ASSUME CacheInv, NEW p \in Procs, Compile(p)
  PROVE  CacheInv'
<1> USE RowParts, Same
<1>1. CASE source[Path(p)].compiles
  <2> DEFINE ed == source[Path(p)].edition
             j == [job[p] EXCEPT !.edition = ed]
  <2>1. Moves(p, j, "install", cache[p], ticks[p])
    BY <1>1 DEF Compile, Moves, Go, At, files
  <2>2. ed \in Nat
    BY JobParts DEF Compile, TypeInv, TypeOK, At
  <2>3. PathOf(j) = Path(p) /\ j.slot = job[p].slot /\ j.at = job[p].at
        /\ j.stage = job[p].stage /\ j.edition = ed /\ j \in Job
    <3> HIDE DEF ed
    <3> QED BY <2>2, JobParts DEF Job, PathOf
  <2> HIDE DEF j
  <2>4. Fits(j, "install", cache[p], ticks[p])
    BY <2>3, JobParts, SizesAssumption DEF Fits, Points, Compile, Slots, At
  <2>5. FreshRow(j, "install", cache[p])
    BY <2>3 DEF FreshRow
  <2>6. OneRow(j, "install", cache[p])
    BY <2>3, JobParts DEF OneRow, Compile, At
  <2>7. RouterRow(j, "install", cache[p], ticks[p])
    BY <2>3 DEF RouterRow, Compile, At
  <2> QED BY <2>1, <2>4, <2>5, <2>6, <2>7, OneProcess DEF Row
<1>2. CASE ~source[Path(p)].compiles /\ job[p].stage = "router"
  <2>1. \A i \in Slots : cache[p][i].path # setup.router
    BY <1>2, JobParts DEF OneRow, Compile, At, PathOf
  <2>2. Newest(cache[p])
    BY <2>1 DEF Newest
  <2> QED BY <1>2, <2>2, AsideStep, JobParts DEF Compile, FreshRow, OneRow, RouterRow
<1>3. CASE ~source[Path(p)].compiles /\ job[p].stage # "router"
  <2>1. Moves(p, NoJob, "test", cache[p], ticks[p])
    BY <1>3 DEF Compile, Answer, Moves, Go, At, files
  <2> QED BY <2>1, IdleStep
<1> QED BY <1>1, <1>2, <1>3

LEMMA InstallStep ==
  ASSUME CacheInv, NEW p \in Procs, Install(p)
  PROVE  CacheInv'
<1> USE RowParts, Same
<1> DEFINE s == job[p].slot
           t == ticks[p] + 1
           e == [path |-> Path(p), edition |-> job[p].edition, dirty |-> FALSE,
                 use |-> t, mtime |-> job[p].mtime, at |-> job[p].at]
           c == [cache[p] EXCEPT ![s] = e]
<1>1. s \in Slots /\ Path(p) \in Scripts /\ t \in Nat /\ s # 0 /\ pc[p] = "install"
  BY JobParts, SizesAssumption DEF Install, InstallTimed, Slots, At
<1>2. e \in Entry
  BY <1>1, JobParts DEF Entry, Job
<1>3. cache' = [cache EXCEPT ![p] = c]
  BY <1>1, JobParts DEF Install, InstallTimed, TypeInv, TypeOK
<1>4. ticks' = [ticks EXCEPT ![p] = t]
  BY DEF Install, InstallTimed
<1>5. e.path = Path(p) /\ ~e.dirty /\ e.use = t /\ e.at = job[p].at
      /\ e.mtime = job[p].mtime /\ e.edition = job[p].edition
  OBVIOUS
<1> HIDE DEF e
<1>6. c \in [Slots -> Entry \cup {Empty}] /\ c[s] = e
      /\ \A k \in Slots \ {s} : c[k] = cache[p][k]
  BY <1>1, <1>2, JobParts
<1> HIDE DEF c
<1>7. Moves(p, job[p], "exec", c, t)
  <2> HIDE DEF t
  <2> QED BY <1>3, <1>4 DEF Install, InstallTimed, Moves, Go, At, files
<1>8. \A k \in Slots : cache[p][k].use \in Nat
  BY DEF TypeInv, TypeOK, Entry, Empty
<1>9. Fits(job[p], "exec", c, t)
  <2> HIDE DEF t
  <2> QED BY <1>1, <1>5, <1>6, JobParts DEF Fits, Points
<1>10. FreshRow(job[p], "exec", c)
  <2>1. FreshEntry(e)
    BY <1>1, <1>5, JobParts DEF FreshEntry, FreshRow
  <2> QED BY <1>6, <2>1 DEF FreshRow
<1>11. OneRow(job[p], "exec", c)
  BY <1>1, <1>5, <1>6, JobParts DEF OneRow
<1>12. ASSUME setup.router # None PROVE RouterRow(job[p], "exec", c, t)
  <2>1. \A k \in Slots \ {s} : c[k].use < t
    BY <1>6, <1>8, <1>12, JobParts DEF RouterRow
  <2> HIDE DEF t
  <2>2. \A k \in Slots : c[k].use <= t
    BY <1>1, <1>5, <1>6, <1>8, <2>1
  <2> QED BY <1>5, <1>6, <2>1, <2>2 DEF RouterRow
<1> QED BY <1>7, <1>9, <1>10, <1>11, <1>12, OneProcess DEF Row, RouterRow

LEMMA ExecStep ==
  ASSUME CacheInv, NEW p \in Procs, Exec(p)
  PROVE  CacheInv'
<1> USE RowParts, Same
<1> DEFINE s == job[p].slot
           old == cache[p][s]
           e == [old EXCEPT !.dirty = TRUE]
           c == [cache[p] EXCEPT ![s] = e]
<1>1. s \in Slots /\ old \in Entry /\ old.path = Path(p) /\ pc[p] = "exec" /\ Path(p) \in Scripts
  BY JobParts DEF Exec, TypeInv, RunsCleanVm, At
<1>2. e \in Entry /\ e.path = old.path /\ e.use = old.use /\ e.at = old.at
      /\ e.mtime = old.mtime /\ e.edition = old.edition
  <2> HIDE DEF old
  <2> QED BY <1>1 DEF Entry
<1>3. cache' = [cache EXCEPT ![p] = c]
  BY <1>1, JobParts DEF Exec, TypeInv, TypeOK
<1>4. c \in [Slots -> Entry \cup {Empty}] /\ c[s] = e
      /\ \A k \in Slots \ {s} : c[k] = cache[p][k]
  <2> HIDE DEF e
  <2> QED BY <1>1, <1>2, JobParts
<1> HIDE DEF e, c
<1>5. \A i \in Slots : FreshEntry(c[i])
  BY <1>1, <1>2, <1>4 DEF FreshRow, FreshEntry
<1>6. \A i, k \in Slots : c[i].path = c[k].path /\ c[i].path # None => i = k
  BY <1>1, <1>2, <1>4 DEF OneRow
<1>7. setup.router # None => \A i \in Slots : c[i].use <= ticks[p]
  BY <1>1, <1>2, <1>4 DEF RouterRow
<1>8. CASE Answer(p)
  <2>1. Moves(p, NoJob, "test", c, ticks[p])
    BY <1>3, <1>8 DEF Exec, Answer, Moves, Go, files
  <2>2. Fits(NoJob, "test", c, ticks[p])
    BY <1>4, JobParts DEF Fits, Points, NoJob, Job
  <2>3. NoJob.at <= clock
    BY SizesAssumption DEF NoJob, TypeInv, TypeOK
  <2>4. Row(NoJob, "test", c, ticks[p])
    BY <1>5, <1>6, <1>7, <2>3 DEF Row, FreshRow, OneRow, RouterRow
  <2> QED BY <2>1, <2>2, <2>4, OneProcess
<1>9. CASE job[p].stage = "router" /\ PassOn(p)
  <2>1. Path(p) = setup.router
    BY <1>9 DEF Path
  <2>2. setup.router # None => Newest(c)
    <3> SUFFICES ASSUME setup.router # None, NEW i \in Slots, NEW k \in Slots,
                        c[i].path = setup.router, k # i
                 PROVE  c[k].use < c[i].use
      BY DEF Newest
    <3>1. i = s
      BY <1>1, <1>2, <1>4, <1>6, <2>1
    <3>2. cache[p][k].use < old.use
      BY <1>1, <3>1 DEF RouterRow
    <3> QED BY <1>2, <1>4, <3>1, <3>2
  <2>3. UNCHANGED <<ticks, nRequests, setup, files, down, late>>
    BY DEF Exec
  <2> QED BY <1>3, <1>4, <1>5, <1>6, <1>7, <1>9, <2>2, <2>3, AsideStep
<1> QED BY <1>8, <1>9 DEF Exec

---------------------------------------------------------------------------
(* Signals, and the files.                                                 *)

(* A signal wakes processes from accept(); one that goes empties its cache.*)
LEMMA SignalStep ==
  ASSUME CacheInv, NEW S, SignalFlags(S), NEW to \in [Procs -> Points],
         \A q \in Procs : to[q] \in {pc[q], "test", "gone"},
         pc' = to, UNCHANGED <<setup, files, job, ticks, nRequests>>,
         cache' \in [Procs -> [Slots -> Entry \cup {Empty}]],
         \A q \in Procs : \/ cache'[q] = cache[q]
                          \/ to[q] = "gone" /\ cache'[q] = [i \in Slots |-> Empty]
  PROVE  CacheInv'
<1> USE RowParts
<1>1. down' \in [Procs -> BOOLEAN] /\ late' \in [Procs -> BOOLEAN]
  BY FlagsAre DEF CacheInv, TypeInv
<1>2. TypeOK'
  BY <1>1 DEF files, CacheInv, TypeInv, TypeOK
<1>3. Asked' /\ RunsCleanVm'
  BY DEF files, CacheInv, TypeInv, Asked, RunsCleanVm, Path, At
<1>4. PastTimes'
  BY DEF files, CacheInv, PastTimes
<1>5. ASSUME NEW q \in Procs PROVE Row(job[q], pc[q], cache[q], ticks[q])'
  <2>1. UNCHANGED <<setup, source, mtime, clock>> /\ job'[q] = job[q] /\ ticks'[q] = ticks[q]
    BY DEF files
  <2>2. Row(job[q], to[q], cache'[q], ticks[q])
    <3>1. CASE cache'[q] = cache[q]
      BY <3>1 DEF Row, FreshRow, OneRow, RouterRow
    <3>2. CASE to[q] = "gone" /\ cache'[q] = [i \in Slots |-> Empty]
      <4>1. \A i \in Slots : cache'[q][i].path = None /\ cache'[q][i].use = 0
                             /\ cache'[q][i].at = 0
        BY <3>2 DEF Empty
      <4>2. 0 <= clock /\ 0 <= ticks[q]
        BY JobParts, SizesAssumption DEF TypeInv, TypeOK
      <4>3. FreshRow(job[q], to[q], cache'[q])
        BY <3>2, <4>1, <4>2 DEF FreshRow, FreshEntry
      <4> QED BY <3>2, <4>1, <4>2, <4>3 DEF Row, OneRow, RouterRow
    <3> QED BY <3>1, <3>2
  <2> QED BY <2>1, <2>2 DEF Row, FreshRow, FreshEntry, OneRow, RouterRow, Newest, PathOf
<1> QED BY <1>2, <1>3, <1>4, <1>5 DEF CacheInv, TypeInv

LEMMA CleanupStep ==
  ASSUME CacheInv, NEW p \in Procs, Cleanup(p)
  PROVE  CacheInv'
<1> DEFINE S == IF p = Parent THEN setup.workers ELSE {}
           to == [Woken(S) EXCEPT ![p] = "gone"]
<1>1. Woken(S) \in [Procs -> Points] /\ \A q \in Procs : Woken(S)[q] \in {pc[q], "test"}
  BY WokenIs DEF CacheInv, TypeInv
<1>2. to \in [Procs -> Points] /\ to[p] = "gone"
      /\ \A q \in Procs : to[q] \in {pc[q], "test", "gone"}
  BY <1>1 DEF Points
<1>3. cache' \in [Procs -> [Slots -> Entry \cup {Empty}]]
  BY DEF Cleanup, CacheInv, TypeInv, TypeOK
<1>4. \A q \in Procs : \/ cache'[q] = cache[q]
                       \/ to[q] = "gone" /\ cache'[q] = [i \in Slots |-> Empty]
  BY <1>2 DEF Cleanup, CacheInv, TypeInv, TypeOK
<1>5. SignalFlags(S) /\ pc' = to /\ UNCHANGED <<setup, files, job, ticks, nRequests>>
  BY DEF Cleanup
<1> HIDE DEF S, to
<1> QED BY <1>2, <1>3, <1>4, <1>5, SignalStep

LEMMA InterruptStep ==
  ASSUME CacheInv, NEW S, Interrupt(S)
  PROVE  CacheInv'
<1>1. Woken(S) \in [Procs -> Points] /\ \A q \in Procs : Woken(S)[q] \in {pc[q], "test"}
  BY WokenIs DEF CacheInv, TypeInv
<1>2. cache \in [Procs -> [Slots -> Entry \cup {Empty}]]
  BY DEF CacheInv, TypeInv, TypeOK
<1> QED BY <1>1, <1>2, SignalStep DEF Interrupt

(* A change is made now: nothing was read later than that.                 *)
LEMMA EditStep ==
  ASSUME CacheInv, NEW s \in Scripts, Edit(s)
  PROVE  CacheInv'
<1>0. TypeInv
  BY DEF CacheInv
<1> USE RowParts, <1>0
<1>1. PICK b \in BOOLEAN :
        source' = [source EXCEPT ![s] = [edition |-> source[s].edition + 1, compiles |-> b]]
  BY DEF Edit
<1>2. source' \in [Scripts -> [edition: Nat, compiles: BOOLEAN]]
  BY <1>1 DEF TypeInv, TypeOK
<1>3. mtime' \in [Scripts -> 0 .. MaxTime] /\ mtime'[s] = clock
      /\ \A r \in Scripts \ {s} : mtime'[r] = mtime[r] /\ source'[r] = source[r]
  BY <1>1 DEF Edit, TypeInv, TypeOK
<1>4. nEdits' \in 0 .. MaxEdits
  BY SizesAssumption DEF Edit, TypeInv, TypeOK
<1>5. TypeOK'
  BY <1>2, <1>3, <1>4 DEF Edit, TypeInv, TypeOK
<1>6. TypeInv'
  BY <1>5 DEF Edit, TypeInv, Asked, RunsCleanVm, Path, At
<1>7. clock' = clock /\ clock \in Nat
  BY SizesAssumption DEF Edit, TypeInv, TypeOK
<1>8. PastTimes'
  BY <1>3, <1>7 DEF CacheInv, PastTimes
<1>9. ASSUME NEW q \in Procs PROVE Row(job[q], pc[q], cache[q], ticks[q])'
  <2>1. UNCHANGED <<setup, pc, job, cache, ticks>>
    BY DEF Edit
  <2>2. \A i \in Slots : cache[q][i].path \in Scripts \cup {None} /\ cache[q][i].at \in Nat
    BY DEF TypeInv, TypeOK, Entry, Empty
  <2>3. \A i \in Slots : FreshEntry(cache[q][i])'
    <3> SUFFICES ASSUME NEW i \in Slots PROVE FreshEntry(cache[q][i])'
      OBVIOUS
    <3> DEFINE e == cache[q][i]
    <3>1. FreshEntry(e) /\ e.path \in Scripts \cup {None} /\ e.at \in Nat
      BY <2>2 DEF FreshRow
    <3>2. cache'[q][i] = e
      BY <2>1
    <3> HIDE DEF e
    <3> QED BY <1>3, <1>7, <3>1, <3>2 DEF FreshEntry
  <2>4. ASSUME pc[q] = "install", job[q].mtime = mtime'[PathOf(job[q])],
               job[q].at > mtime'[PathOf(job[q])]
        PROVE  job[q].edition = source'[PathOf(job[q])].edition
    <3>1. PathOf(job[q]) \in Scripts /\ job[q].at \in Nat
      BY <2>4, JobParts DEF Job
    <3> QED BY <1>3, <1>7, <2>4, <3>1 DEF FreshRow
  <2>5. FreshRow(job[q], pc[q], cache[q])'
    BY <1>7, <2>1, <2>3, <2>4 DEF FreshRow, PathOf
  <2> QED BY <2>1, <2>5 DEF Row, OneRow, RouterRow, Newest, PathOf
<1> QED BY <1>6, <1>8, <1>9 DEF CacheInv

LEMMA TickStep ==
  ASSUME CacheInv, Tick
  PROVE  CacheInv'
<1>0. TypeInv
  BY DEF CacheInv
<1> USE RowParts, <1>0
<1>1. TypeOK'
  BY SizesAssumption DEF Tick, TypeInv, TypeOK
<1>2. TypeInv'
  BY <1>1 DEF Tick, TypeInv, Asked, RunsCleanVm, Path, At
<1>3. clock' = clock + 1 /\ clock \in Nat
  BY SizesAssumption DEF Tick, TypeInv, TypeOK
<1>4. PastTimes'
  <2>1. \A r \in Scripts : mtime[r] \in Nat
    BY SizesAssumption DEF TypeInv, TypeOK
  <2> QED BY <1>3, <2>1 DEF CacheInv, PastTimes, Tick
<1>5. ASSUME NEW q \in Procs PROVE Row(job[q], pc[q], cache[q], ticks[q])'
  <2>1. UNCHANGED <<setup, source, mtime, pc, job, cache, ticks>>
    BY DEF Tick
  <2>2. job[q].at \in Nat /\ \A i \in Slots : cache[q][i].at \in Nat
    BY DEF TypeInv, TypeOK, Job, Entry, Empty
  <2>3. \A i \in Slots : FreshEntry(cache[q][i])'
    BY <1>3, <2>1, <2>2 DEF FreshRow, FreshEntry
  <2>4. FreshRow(job[q], pc[q], cache[q])'
    BY <1>3, <2>1, <2>2, <2>3 DEF FreshRow, PathOf
  <2> QED BY <2>1, <2>4 DEF Row, OneRow, RouterRow, Newest, PathOf
<1> QED BY <1>2, <1>4, <1>5 DEF CacheInv

LEMMA StepCache == CacheInv /\ [Next]_vars => CacheInv'
<1> SUFFICES ASSUME CacheInv, [Next]_vars PROVE CacheInv'
  OBVIOUS
<1>1. ASSUME NEW p \in Procs, Find(p) PROVE CacheInv'
  BY <1>1, ReusedStep, DroppedStep, NotFoundStep DEF Find
<1>2. ASSUME NEW p \in Procs, Run(p) PROVE CacheInv'
  BY <1>1, <1>2, AcceptSteps, ServeStep, StatStep, CompileStep, InstallStep, ExecStep,
     CleanupStep DEF Run
<1>3. ASSUME NEW p \in Procs, Clients(p) PROVE CacheInv'
  BY <1>3, AcceptSteps, ConnectStep DEF Clients
<1>4. CASE UNCHANGED vars
  BY <1>4 DEF vars, CacheInv, TypeInv, TypeOK, Asked, RunsCleanVm, Path, At, PastTimes,
              Row, FreshRow, FreshEntry, OneRow, RouterRow, Newest, PathOf
<1> QED BY <1>2, <1>3, <1>4, InterruptStep, EditStep, TickStep DEF Next

---------------------------------------------------------------------------
(* Every variable of the server keeps its type, and no script is compiled  *)
(* without a slot for it.                                                  *)
THEOREM Typing == Spec => []TypeOK
<1>1. CacheInv => TypeOK
  BY DEF CacheInv, TypeInv
<1> QED BY <1>1, InitCache, StepCache, PTL DEF Spec

(* What runs is the VM of the script that was asked for, and nothing that  *)
(* an earlier request left is in it.                                       *)
THEOREM CleanRuns == Spec => []RunsCleanVm
<1>1. CacheInv => RunsCleanVm
  BY DEF CacheInv, TypeInv
<1> QED BY <1>1, InitCache, StepCache, PTL DEF Spec

(* However edits fall between the reading of a script's time, its          *)
(* compilation and its reuse, what the cache would reuse is the script's   *)
(* present edition if its time was read in a later second than the last    *)
(* change.                                                                 *)
THEOREM Freshness == Spec => []CacheFresh
<1>1. CacheInv => CacheFresh
  BY DEF CacheInv, Row, FreshRow, FreshEntry, CacheFresh
<1> QED BY <1>1, InitCache, StepCache, PTL DEF Spec

(* No script has two VMs in a process's cache.                             *)
THEOREM OneVmEach == Spec => []OnePerScript
<1>1. CacheInv => OnePerScript
  BY DEF CacheInv, Row, OneRow, OnePerScript
<1> QED BY <1>1, InitCache, StepCache, PTL DEF Spec

(* With two slots or more, the router's VM is in the cache for good: the   *)
(* script that is compiled for a request never takes its slot.             *)
THEOREM RouterKept == Spec => RouterStays
<1> DEFINE Keeps == CacheSize > 1 /\ setup.router # None =>
              \A p \in Procs, i \in Slots :
                cache[p][i].path = setup.router /\ At(p, "install") =>
                  cache'[p][i].path = setup.router
<1>1. CacheInv /\ [Next]_vars => Keeps
  <2> SUFFICES ASSUME CacheInv, [Next]_vars, CacheSize > 1, setup.router # None,
                      NEW q \in Procs, NEW i \in Slots,
                      cache[q][i].path = setup.router, At(q, "install")
               PROVE  cache'[q][i].path = setup.router
    OBVIOUS
  <2>1. i # job[q].slot
    BY RowParts DEF RouterRow, At
  <2>2. ASSUME NEW p \in Procs, Run(p) \/ Clients(p)
        PROVE  cache'[q][i] = cache[q][i]
    <3>1. CASE p # q
      BY <2>2, <3>1, RowParts
      DEF Run, Clients, Test, Block, Serve, Stat, Find, Reused, DroppedEntry, Compile,
          Install, InstallTimed, Exec, Cleanup, Silent, Connect, TypeInv, TypeOK
    <3>2. CASE p = q
      <4>1. Install(q)
        BY <2>2, <3>2 DEF Run, Clients, Test, Block, Serve, Stat, Find, Compile,
           Exec, Cleanup, Silent, Connect, At
      <4> QED BY <2>1, <4>1, RowParts DEF Install, InstallTimed, TypeInv, TypeOK
    <3> QED BY <3>1, <3>2
  <2>3. CASE Interrupt({Parent}) \/ Interrupt(Procs) \/ (\E s \in Scripts : Edit(s)) \/ Tick
             \/ UNCHANGED vars
    BY <2>3 DEF Interrupt, Edit, Tick, vars
  <2> QED BY <2>2, <2>3 DEF Next
<1> QED BY <1>1, InitCache, StepCache, PTL DEF Spec, RouterStays

=============================================================================
