---------------------------- MODULE MCDevServer ----------------------------
(* Instances of DevServer for TLC.                                         *)
EXTENDS DevServer

CONSTANTS router, page, other, worker

(* One process with and without a router, and two with nothing to tell     *)
(* apart but who is told to stop.                                          *)
Started == {[workers |-> {}, router |-> router, requests |-> 3],
            [workers |-> {}, router |-> None, requests |-> 2],
            [workers |-> {worker}, router |-> None, requests |-> 1]}
============================================================================
