----------------------------- MODULE MCManifest -----------------------------
(* Instances of Manifest.                                                  *)
EXTENDS Manifest

CONSTANTS j1, j2

MCJob == {j1, j2}

Plain == [max_file |-> 6, max_crash |-> 0, edit_count |-> 0,
          write_fails |-> TRUE, fsync_fails |-> FALSE]

(* Failing writes; with a crash; with a directory sync that fails.         *)
MCConfigs ==
  {Plain, [Plain EXCEPT !.max_file = 5, !.max_crash = 1],
   [Plain EXCEPT !.max_file = 5, !.fsync_fails = TRUE]}

(* Failing writes.                                                         *)
MCFailing == {Plain}
=============================================================================
