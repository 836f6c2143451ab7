-------------------------- MODULE MCOutputBuffer --------------------------
(* Instances of OutputBuffer for TLC.                                      *)
EXTENDS OutputBuffer

(* A plain handler, one behind a chunk size, the default handler, a buffer *)
(* a framework pinned, and one with a handler of its own.                  *)
Filter == [user |-> TRUE, pinned |-> FALSE, chunk |-> 0]
Chunked == [user |-> TRUE, pinned |-> FALSE, chunk |-> 2]
Default == [user |-> FALSE, pinned |-> FALSE, chunk |-> -1]
Pinned == [user |-> FALSE, pinned |-> TRUE, chunk |-> 0]
PinnedFilter == [user |-> TRUE, pinned |-> TRUE, chunk |-> 2]
All == {Filter, Chunked, Default, Pinned}

(* A program whose operations are not cut into, one that catches what a    *)
(* handler throws, one with an error handler, and one whose handlers are   *)
(* objects with destructors and answer objects, under a handler of         *)
(* uncaught exceptions.                                                    *)
AnyProgram == {[kinds |-> All, inside |-> {}],
               [kinds |-> {Filter, Chunked, Default}, inside |-> {"catch"}],
               [kinds |-> {Filter}, inside |-> {"errorHandler"}],
               [kinds |-> {PinnedFilter},
                inside |-> {"cast", "destructor", "exceptionHandler"}]}

Catching == {[kinds |-> {Chunked, Default}, inside |-> {"catch"}]}
============================================================================
