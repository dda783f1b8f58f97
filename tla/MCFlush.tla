------------------------------ MODULE MCFlush ------------------------------
(* Instances of Flush.                                                     *)
EXTENDS Flush

CONSTANTS x, y

MCCF == {x, y}

Plain == [max_flushes |-> 1, merge |-> 1, max_write_buffers |-> 3, max_batches |-> 2,
          max_requests |-> 0, max_errors |-> 0, max_crashes |-> 0,
          severity |-> "fatal", sync_fails |-> FALSE, writes |-> {{x}, {x, y}},
          sync |-> BOOLEAN]

(* Two flush threads; two of them and writers that stall; crashes; two     *)
(* memtables to a flush; errors that stop the background work; errors that *)
(* Resume can clear, and errors that count for nothing, with one thread.   *)
MCConfigs ==
  {[Plain EXCEPT !.max_flushes = 2, !.max_batches = 3, !.sync = {TRUE}],
   [Plain EXCEPT !.max_flushes = 2, !.max_batches = 3, !.max_write_buffers = 2,
                 !.writes = {{x}}, !.sync = {TRUE}],
   [Plain EXCEPT !.max_flushes = 2, !.max_crashes = 2],
   [Plain EXCEPT !.merge = 2, !.max_requests = 1, !.max_crashes = 1],
   [Plain EXCEPT !.max_flushes = 2, !.max_errors = 1, !.sync_fails = TRUE],
   [Plain EXCEPT !.max_batches = 3, !.max_requests = 1, !.max_errors = 1,
                 !.severity = "hard", !.writes = {{x}}, !.sync = {TRUE}],
   [Plain EXCEPT !.max_batches = 3, !.max_write_buffers = 2, !.max_errors = 1,
                 !.severity = "none", !.sync_fails = TRUE, !.writes = {{x}},
                 !.sync = {TRUE}]}

(* Two flush threads and Resume.                                           *)
MCRecovering ==
  {[Plain EXCEPT !.max_flushes = 2, !.max_errors = 1, !.max_batches = 3,
                 !.severity = "hard", !.writes = {{x}}]}
=============================================================================
