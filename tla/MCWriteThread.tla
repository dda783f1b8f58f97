---------------------------- MODULE MCWriteThread ----------------------------
(* Instances of WriteThread.                                               *)
EXTENDS WriteThread

CONSTANTS a, b, c, d

MCWriter == {a, b, c, d}

Plain ==
  [pipelined |-> FALSE, concurrent |-> FALSE, wal_fails |-> FALSE, weak_cas |-> FALSE,
   max_stalls |-> 0,
   writers |-> MCWriter, sync |-> {}, no_slowdown |-> {}, unbatched |-> {}, callback |-> {},
   alone |-> {}]

(* Writers that cannot share a group, and one that is unbatched; callbacks *)
(* and a log that may fail; a Sync that may fail, and a compare-and-swap;  *)
(* a stall with a writer that will not wait.                               *)
MCConfigs ==
  {[Plain EXCEPT !.pipelined = p, !.concurrent = TRUE, !.sync = {a}, !.unbatched = {b}]
     : p \in BOOLEAN}
  \cup
  {[Plain EXCEPT !.pipelined = p, !.concurrent = cc, !.writers = {a, b, c}, !.callback = {a, b},
                 !.alone = {a}, !.wal_fails = TRUE]
     : p \in BOOLEAN, cc \in BOOLEAN}
  \cup
  {[Plain EXCEPT !.pipelined = p, !.writers = {a, b, c}, !.sync = {a}, !.callback = {a},
                 !.wal_fails = TRUE, !.weak_cas = TRUE]
     : p \in BOOLEAN}
  \cup
  {[Plain EXCEPT !.pipelined = p, !.writers = {a, b, c}, !.no_slowdown = {a}, !.max_stalls = 1]
     : p \in BOOLEAN}

(* A stall with a writer that will not wait, and one more writer.          *)
MCStalled == {[Plain EXCEPT !.no_slowdown = {a}, !.max_stalls = 1]}
=============================================================================
