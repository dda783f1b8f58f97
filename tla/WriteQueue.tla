----------------------------- MODULE WriteQueue -----------------------------
(***************************************************************************)
(* What the write path promises its callers, whatever the batching, the    *)
(* pipelining and the stalls do underneath: the writes form one log,       *)
(* readers see a growing prefix of it, without the writes that failed      *)
(* after they were logged, a write that is answered "ok" is one that       *)
(* readers see, and one that is answered with an error they do not see.    *)
(* WriteThread implements it.                                              *)
(***************************************************************************)
EXTENDS Naturals, Sequences, FiniteSets

CONSTANT Writer     \* the threads that call DB::Write

VARIABLES
  calls,            \* the number of calls each thread has made
  pending,          \* the threads whose call has not returned
  answer,           \* what each thread's last call returned
  log,              \* the writes <<thread, call>> in the order of the log
  failed,           \* those of them whose Sync failed
  visible           \* the writes that readers see

vars == <<calls, pending, answer, log, failed, visible>>

Answer == {"ok", "incomplete", "busy", "error"}

Logged == {log[i] : i \in DOMAIN log}

Init ==
  /\ calls = [w \in Writer |-> 0]
  /\ pending = {}
  /\ answer = [w \in Writer |-> "none"]
  /\ log = <<>>
  /\ failed = {} /\ visible = {}

Call(w) ==
  /\ w \notin pending
  /\ pending' = pending \cup {w}
  /\ calls' = [calls EXCEPT ![w] = @ + 1]
  /\ answer' = [answer EXCEPT ![w] = "none"]
  /\ UNCHANGED <<log, failed, visible>>

\* A group of pending writes enters the log at once, each for the first time.
\* All of it fails or none.
AppendGroup ==
  /\ log' \in Seq(Writer \X Nat)
  /\ Len(log') > Len(log)
  /\ SubSeq(log', 1, Len(log)) = log
  /\ \A i \in Len(log) + 1 .. Len(log') :
       /\ log'[i] \notin Logged
       /\ \E w \in pending : log'[i] = <<w, calls[w]>>
       /\ \A j \in Len(log) + 1 .. i - 1 : log'[j] # log'[i]
  /\ failed' \in {failed, failed \cup {log'[i] : i \in Len(log) + 1 .. Len(log')}}
  /\ UNCHANGED <<calls, pending, answer, visible>>

Publish ==
  /\ \E n \in DOMAIN log : visible' = {log[i] : i \in 1 .. n} \ failed
  /\ visible \subseteq visible'
  /\ UNCHANGED <<calls, pending, answer, log, failed>>

\* "ok" is for a write that readers see.  Only "error" is for one that may be
\* in the log, and then it has failed.
Return(w, a) ==
  /\ w \in pending
  /\ \/ a = "ok" /\ <<w, calls[w]>> \in visible
     \/ a # "ok" /\ <<w, calls[w]>> \notin Logged
     \/ a = "error" /\ <<w, calls[w]>> \in failed
  /\ pending' = pending \ {w}
  /\ answer' = [answer EXCEPT ![w] = a]
  /\ UNCHANGED <<calls, log, failed, visible>>

Next ==
  \/ \E w \in Writer : Call(w) \/ \E a \in Answer : Return(w, a)
  \/ AppendGroup
  \/ Publish

Spec == Init /\ [][Next]_vars
=============================================================================
