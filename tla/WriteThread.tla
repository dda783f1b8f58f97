----------------------------- MODULE WriteThread -----------------------------
(***************************************************************************)
(* db/write_thread.cc with its callers in db/db_impl_write.cc: WriteImpl,  *)
(* PipelinedWriteImpl, PreprocessWrite and DelayWrite.  Writers link       *)
(* themselves into a list by a compare-and-swap on newest_writer_; the     *)
(* oldest is the leader, takes those it can into its group, writes the     *)
(* log for them and hands the lead on.  With pipelined writes the group    *)
(* moves to a second list, of memtable writers.                            *)
(*                                                                         *)
(* A Writer object lives on the stack of the thread that made it, so one   *)
(* thread's Writers have one address: a Writer is named by its thread.     *)
(***************************************************************************)
EXTENDS Naturals, Sequences, FiniteSets, SequencesExt

CONSTANTS
  Writer,     \* threads that call DB::Write, or enter the queue unbatched
  Configs,    \* the options and the callers an instance looks at
  MaxCalls    \* bound: calls of a thread

None == "none"          \* nullptr
StallDummy == "stall"   \* write_stall_dummy_
Dummy == "dummy"        \* the dummy of ExitAsBatchGroupLeader
Waiter == "waiter"      \* the Writer of WaitForMemTableWriters
Node == Writer \cup {StallDummy, Dummy, Waiter}

(* pipelined, concurrent: enable_pipelined_write and                       *)
(* allow_concurrent_memtable_write; wal_fails: the log may fail; weak_cas: *)
(* compare_exchange_weak may fail for no reason, as it does where it is    *)
(* made of a load-linked and a store-conditional; max_stalls bounds the    *)
(* write stalls.  The rest are sets of writers: the ones there are, the    *)
(* ones with sync, with no_slowdown, without a batch (EnterUnbatched),     *)
(* with a WriteCallback, and with one that has no AllowWriteBatching().    *)
ConfigType ==
  [pipelined : BOOLEAN, concurrent : BOOLEAN, wal_fails : BOOLEAN, weak_cas : BOOLEAN,
   max_stalls : Nat,
   writers : SUBSET Writer, sync : SUBSET Writer, no_slowdown : SUBSET Writer,
   unbatched : SUBSET Writer, callback : SUBSET Writer, alone : SUBSET Writer]

ASSUME WriteThreadAssumption ==
  /\ \A cf \in Configs : cf \in ConfigType
  /\ MaxCalls \in Nat \ {0}

VARIABLES
  cfg,
  newest_writer_, newest_memtable_writer_,
  link_older, link_newer,
  state,          \* Writer::state
  status,         \* Writer::FinalStatus()
  write_group,    \* Writer::write_group, by the leader whose stack it is on
  group,          \* the WriteGroup of each leader
  sequence,       \* Writer::sequence
  pc,             \* where each thread is
  local,          \* locals of the leader of the queue
  calls, stalls,  \* calls of each thread, and stalls so far
  log,            \* the writes in the log, with their sequence numbers, and
                  \* whether WriteToWAL was ok
  inserted,       \* the writes in the memtable
  last_sequence,  \* VersionSet::LastSequence()
  last_sequence_, \* WriteThread::last_sequence_
  stopped         \* ErrorHandler::IsDBStopped()

links == <<newest_writer_, newest_memtable_writer_, link_older, link_newer>>
data == <<log, inserted, last_sequence, last_sequence_, stopped, sequence>>
vars == <<cfg, links, state, status, write_group, group, pc, local, calls, stalls, data>>

NoGroup == [leader |-> None, last |-> None, size |-> 0, running |-> 0, status |-> "ok",
            last_sequence |-> 0]
NoLocal == [last |-> None, re |-> None, next |-> None]

Init ==
  /\ cfg \in Configs
  /\ newest_writer_ = None /\ newest_memtable_writer_ = None
  /\ link_older = [n \in Node |-> None] /\ link_newer = [n \in Node |-> None]
  /\ state = [n \in Node |-> "init"]
  /\ status = [w \in Writer |-> "ok"]
  /\ write_group = [w \in Writer |-> None]
  /\ group = [w \in Writer |-> NoGroup]
  /\ sequence = [w \in Writer |-> 0]
  /\ pc = [w \in Writer |-> "idle"]
  /\ local = NoLocal
  /\ calls = [w \in Writer |-> 0] /\ stalls = 0
  /\ log = <<>> /\ inserted = {}
  /\ last_sequence = 0 /\ last_sequence_ = 0
  /\ stopped = FALSE
-----------------------------------------------------------------------------
(* The lists *)

(* The nodes from n along link, to the first that is in End.               *)
RECURSIVE Walk(_, _, _)
Walk(link, n, End) ==
  IF n \in End \/ link[n] = None THEN <<n>> ELSE <<n>> \o Walk(link, link[n], End)

RECURSIVE CreateMissingNewerLinks(_, _, _)
CreateMissingNewerLinks(newer, older, head) ==
  LET next == older[head]
  IN  IF next = None \/ newer[next] # None THEN newer
      ELSE CreateMissingNewerLinks([newer EXCEPT ![next] = head], older, next)

(* Mutant: the newest of the waiting writers is taken for the next leader. *)
FindNextLeader_Newest(from, boundary) == from

(* The writer from "from" on whose link_older is boundary.                 *)
FindNextLeader(from, boundary) ==
  Last(Walk([n \in Node |-> IF link_older[n] = boundary THEN None ELSE link_older[n]],
            from, {}))

Elements(s) == {s[i] : i \in DOMAIN s}

(* Sets each member of S to v.                                             *)
SetAll(f, S, v) == [n \in DOMAIN f |-> IF n \in S THEN v ELSE f[n]]

(* A group's writers, leader first.                                        *)
Members(g) == Walk(link_newer, g.leader, {g.last})

Goto(w, label) == pc' = [pc EXCEPT ![w] = label]

(* Hands a list on to the writer after "last", whose group leaves it: the  *)
(* part that ExitAsBatchGroupLeader, ExitAsMemTableWriter and              *)
(* ExitUnbatched share.                                                    *)
PassOn(newest, last, role) ==
  IF newest = last
    THEN UNCHANGED <<link_older, link_newer, state>>
    ELSE /\ link_newer' = CreateMissingNewerLinks(link_newer, link_older, newest)
         /\ link_older' = [link_older EXCEPT ![link_newer'[last]] = None]
         /\ state' = [state EXCEPT ![link_newer'[last]] = role]
-----------------------------------------------------------------------------
(* Joining, stalling, waking *)

(* LinkOne once newest_writer_ is not the stall dummy, and what the caller *)
(* does at once with its result.                                           *)
Join(w) ==
  /\ w \in cfg.writers
  /\ (pc[w] = "idle" /\ calls[w] < MaxCalls) \/ pc[w] = "stalled"
  /\ newest_writer_ # StallDummy
  /\ newest_writer_' = w
  /\ link_older' = [link_older EXCEPT ![w] = newest_writer_]
  /\ link_newer' = [link_newer EXCEPT ![w] = None]
  /\ state' = [state EXCEPT ![w] = IF newest_writer_ = None THEN "leader" ELSE "init"]
  /\ status' = [status EXCEPT ![w] = "ok"]
  /\ write_group' = [write_group EXCEPT ![w] = None]
  /\ calls' = [calls EXCEPT ![w] = IF pc[w] = "idle" THEN @ + 1 ELSE @]
  /\ Goto(w, "wait")
  /\ UNCHANGED <<cfg, newest_memtable_writer_, group, local, stalls, data>>

(* LinkOne when it is: a no_slowdown writer is refused, others wait.       *)
JoinStalled(w) ==
  /\ w \in cfg.writers
  /\ pc[w] = "idle" /\ calls[w] < MaxCalls
  /\ newest_writer_ = StallDummy
  /\ calls' = [calls EXCEPT ![w] = @ + 1]
  /\ \/ /\ w \in cfg.no_slowdown
        /\ status' = [status EXCEPT ![w] = "incomplete"]
        /\ state' = [state EXCEPT ![w] = "completed"]
        /\ Goto(w, "wait")
     \/ /\ w \notin cfg.no_slowdown
        /\ Goto(w, "stalled")
        /\ UNCHANGED <<state, status>>
  /\ UNCHANGED <<cfg, links, write_group, group, local, stalls, data>>

(* The Writer and the WriteGroup of a thread go with its stack.            *)
Forget(w) ==
  /\ link_older' = [link_older EXCEPT ![w] = None]
  /\ link_newer' = [link_newer EXCEPT ![w] = None]
  /\ state' = [state EXCEPT ![w] = "init"]
  /\ write_group' = [write_group EXCEPT ![w] = None]
  /\ group' = [group EXCEPT ![w] = NoGroup]
  /\ sequence' = [sequence EXCEPT ![w] = 0]

Return(w) ==
  /\ pc[w] \in {"wait", "await", "finished"} /\ state[w] = "completed"
  /\ Goto(w, "idle")
  /\ Forget(w)
  /\ UNCHANGED <<cfg, newest_writer_, newest_memtable_writer_, status, local, calls, stalls, log,
                 inserted, last_sequence, last_sequence_, stopped>>

(* The queue that the stall finds, newest first, to the first writer that  *)
(* is in a group.                                                          *)
Stallable ==
  LET q == Walk(link_older, newest_writer_, {})
      grouped == {i \in DOMAIN q : write_group[q[i]] # None}
  IN  SubSeq(q, 1, IF grouped = {} THEN Len(q) ELSE Min(grouped) - 1)

Refused == Elements(Stallable) \cap cfg.no_slowdown

(* The first node older than n that is not refused.                        *)
OlderKept(older, n) ==
  LET rest == SelectSeq(Walk(older, n, {}), LAMBDA m : m = n \/ m \notin Refused)
  IN  IF Len(rest) > 1 THEN rest[2] ELSE None

(* BeginWriteStall: the dummy blocks the list, and the waiting writers     *)
(* with no_slowdown are unlinked, along link_older only, and refused.      *)
BeginWriteStall(w) ==
  /\ stalls < cfg.max_stalls
  /\ stalls' = stalls + 1
  /\ newest_writer_' = StallDummy
  /\ LET older == [link_older EXCEPT ![StallDummy] = newest_writer_]
         passed == {StallDummy} \cup (Elements(Stallable) \ Refused)
     IN  link_older' = [n \in Node |-> IF n \in passed THEN OlderKept(older, n) ELSE older[n]]
  /\ status' = SetAll(status, Refused, "incomplete")
  /\ state' = SetAll(state, Refused, "completed")
  /\ Goto(w, "delay")
  /\ UNCHANGED <<newest_memtable_writer_, link_newer>>

(* PreprocessWrite of a new leader.  With pipelined writes a callback that *)
(* allows no batching waits for the memtable writers first.                *)
LeadsNow(w) ==
  /\ w \notin cfg.unbatched
  /\ IF cfg.pipelined /\ w \in cfg.alone
       THEN pc[w] = "drained"
       ELSE pc[w] = "wait" /\ state[w] = "leader"

PreprocessWrite(w) ==
  /\ LeadsNow(w)
  /\ \/ /\ status' = [status EXCEPT ![w] = IF stopped THEN "error" ELSE "ok"]
        /\ Goto(w, "enter")
        /\ UNCHANGED <<links, state, stalls>>
     \/ /\ ~stopped /\ w \in cfg.no_slowdown       \* DelayWrite
        /\ stalls < cfg.max_stalls
        /\ stalls' = stalls + 1
        /\ status' = [status EXCEPT ![w] = "incomplete"]
        /\ Goto(w, "enter")
        /\ UNCHANGED <<links, state>>
     \/ /\ ~stopped /\ w \notin cfg.no_slowdown    \* DelayWrite
        /\ BeginWriteStall(w)
  /\ UNCHANGED <<cfg, write_group, group, local, calls, data>>

(* The rest of DelayWrite: the stall may end with a background error.      *)
EndWriteStall(w) ==
  /\ pc[w] = "delay"
  /\ newest_writer_' = link_older[StallDummy]
  /\ \E s \in {"ok", "incomplete"} : status' = [status EXCEPT ![w] = s]
  /\ Goto(w, "enter")
  /\ UNCHANGED <<cfg, newest_memtable_writer_, link_older, link_newer, state, write_group,
                 group, local, calls, stalls, data>>
-----------------------------------------------------------------------------
(* The group of a leader *)

(* Who may join the leader's group.  Sizes, disable_wal and the callbacks  *)
(* that allow batching have the same effect as sync.                       *)
Joins(leader, w) ==
  /\ w \in cfg.sync => leader \in cfg.sync
  /\ w \in cfg.no_slowdown <=> leader \in cfg.no_slowdown
  /\ w \notin cfg.unbatched \cup cfg.alone

(* EnterAsBatchGroupLeader up to the compare-and-swap: those who cannot    *)
(* join move behind those who can, in their order.                         *)
EnterAsBatchGroupLeader(w) ==
  /\ pc[w] = "enter"
  /\ LET newer == CreateMissingNewerLinks(link_newer, link_older, newest_writer_)
         queue == Walk(newer, w, {newest_writer_})
         taken == SelectSeq(queue, LAMBDA m : m = w \/ Joins(w, m))
         rest  == SelectSeq(queue, LAMBDA m : m # w /\ ~Joins(w, m))
         order == taken \o rest
         At(m) == CHOOSE i \in DOMAIN order : order[i] = m
     IN  /\ link_newer' = [n \in Node |->
                CASE n \notin Elements(queue)          -> newer[n]
                  [] At(n) = Len(order) /\ rest # <<>> -> None
                  [] At(n) = Len(order) /\ rest = <<>> -> newer[n]
                  [] OTHER                             -> order[At(n) + 1]]
         /\ link_older' = [n \in Node |->
                IF n \in Elements(queue) /\ At(n) > 1 THEN order[At(n) - 1] ELSE link_older[n]]
         /\ write_group' = SetAll(write_group, Elements(taken), w)
         /\ group' = [group EXCEPT ![w] = [NoGroup EXCEPT !.leader = w, !.last = Last(taken),
                                             !.size = Len(taken), !.status = status[w]]]
         /\ local' = IF rest = <<>> THEN NoLocal
                     ELSE [NoLocal EXCEPT !.last = newest_writer_, !.re = Last(rest)]
         /\ Goto(w, IF rest = <<>> THEN "log" ELSE "attach")
  /\ UNCHANGED <<cfg, newest_writer_, newest_memtable_writer_, state, status, calls, stalls, data>>

(* Mutant: when the compare-and-swap fails, the writer that joined keeps   *)
(* its link.                                                               *)
Attach_NoWalk(w) ==
  /\ pc[w] = "attach"
  /\ newest_writer_' = IF newest_writer_ = local.last THEN local.re ELSE newest_writer_
  /\ local' = NoLocal
  /\ Goto(w, "log")
  /\ UNCHANGED <<cfg, newest_memtable_writer_, link_older, link_newer, state, status,
                 write_group, group, calls, stalls, data>>

(* The compare-and-swap that makes the last of the rest the newest, or the *)
(* walk to the first writer that joined meanwhile.  It is not in a loop:   *)
(* if it fails and nobody has joined, the walk goes on past the leader and *)
(* ends at a null pointer.                                                 *)
Attach(w) ==
  /\ pc[w] = "attach"
  /\ \/ /\ newest_writer_ = local.last
        /\ newest_writer_' = local.re
        /\ local' = NoLocal
        /\ Goto(w, "log")
        /\ UNCHANGED link_older
     \/ /\ newest_writer_ # local.last
        /\ link_older' = [link_older EXCEPT ![FindNextLeader(newest_writer_, local.last)]
                                               = local.re]
        /\ local' = NoLocal
        /\ Goto(w, "log")
        /\ UNCHANGED newest_writer_
     \/ /\ cfg.weak_cas /\ newest_writer_ = local.last
        /\ Goto(w, "crashed")
        /\ UNCHANGED <<newest_writer_, link_older, local>>
  /\ UNCHANGED <<cfg, newest_memtable_writer_, link_newer, state, status, write_group, group,
                 calls, stalls, data>>

(* What may become of the log of a leader: AddRecord fails, or with sync   *)
(* the Sync after it does, which leaves the record in the log.             *)
LogOutcomes(w) ==
  {"ok"} \cup (IF cfg.wal_fails THEN {"not_added"} ELSE {})
         \cup (IF cfg.wal_fails /\ w \in cfg.sync THEN {"not_synced"} ELSE {})

(* CheckCallback of each member, the sequence numbers, WriteToWAL and      *)
(* WriteStatusCheck, which a leader whose own callback failed leaves out.  *)
WriteToWAL(w) ==
  /\ pc[w] = "log"
  /\ LET g == group[w]
         before == IF cfg.pipelined /\ last_sequence_ > last_sequence
                     THEN last_sequence_ ELSE last_sequence
     IN  \/ /\ g.status # "ok"
            /\ last_sequence_' = IF cfg.pipelined THEN before ELSE last_sequence_
            /\ Goto(w, "exit")
            /\ UNCHANGED <<status, sequence, log, group, stopped>>
         \/ /\ g.status = "ok"
            /\ \E failed \in SUBSET (Elements(Members(g)) \cap cfg.callback),
                  outcome \in LogOutcomes(w) :
                 LET ok == outcome = "ok"
                     good == SelectSeq(Members(g), LAMBDA m : m \notin failed)
                     NumberOf(m) == before + (CHOOSE i \in DOMAIN good : good[i] = m)
                 IN  /\ status' = SetAll(status, failed, "busy")
                     /\ sequence' = [m \in Writer |->
                                       IF m \in Elements(good) THEN NumberOf(m) ELSE sequence[m]]
                     /\ last_sequence_' = IF cfg.pipelined THEN before + Len(good)
                                                           ELSE last_sequence_
                     /\ log' = IF outcome = "not_added" THEN log
                               ELSE log \o [i \in DOMAIN good |->
                                      [write |-> <<good[i], calls[good[i]]>>, seq |-> before + i,
                                       ok |-> ok]]
                     /\ group' = [group EXCEPT ![w].status = IF ok THEN "ok" ELSE "error",
                                               ![w].last_sequence = before + Len(good)]
                     /\ stopped' = (stopped \/ (~ok /\ w \notin failed))
                     /\ Goto(w, IF ok /\ ~cfg.pipelined THEN "memtable" ELSE "exit")
  /\ UNCHANGED <<cfg, links, state, write_group, local, calls, stalls, inserted, last_sequence>>
-----------------------------------------------------------------------------
(* Memtable writers *)

Ready(w, role) == pc[w] \in {"wait", "await"} /\ state[w] = role

Writes(S) == {<<m, calls[m]>> : m \in {n \in S : status[n] = "ok"}}

(* LaunchParallelMemTableWriters.                                          *)
Launch(w, g, members) ==
  /\ state' = SetAll(state, members, "parallel")
  /\ group' = [group EXCEPT ![w] = [g EXCEPT !.running = g.size]]
  /\ Goto(w, "await")
  /\ UNCHANGED inserted

InsertSerially(w, g, members) ==
  /\ inserted' = inserted \cup Writes(members)
  /\ group' = [group EXCEPT ![w] = g]
  /\ Goto(w, "publish")
  /\ UNCHANGED state

(* The memtable part of WriteImpl.  A batch with a merge keeps the group   *)
(* serial.                                                                 *)
InsertInto(w) ==
  /\ pc[w] = "memtable"
  /\ LET g == group[w]  members == Elements(Members(g))
     IN  \/ cfg.concurrent /\ g.size > 1 /\ Launch(w, g, members)
         \/ InsertSerially(w, g, members)
  /\ UNCHANGED <<cfg, links, status, write_group, local, calls, stalls, log, last_sequence,
                 last_sequence_, stopped, sequence>>

(* EnterAsMemTableWriter, and what PipelinedWriteImpl does with the group. *)
(* It ends before the first writer without a batch, or anywhere earlier,   *)
(* for merges and sizes.                                                   *)
EnterAsMemTableWriter(w) ==
  /\ Ready(w, "memtable_leader")
  /\ LET newer == CreateMissingNewerLinks(link_newer, link_older, newest_memtable_writer_)
         queue == Walk(newer, w, {newest_memtable_writer_})
         fit   == SelectSeq(queue, LAMBDA m : m # Waiter)
     IN  /\ link_newer' = newer
         /\ \E n \in 1 .. Len(fit) :
              LET taken == SubSeq(fit, 1, n)
                  g == [NoGroup EXCEPT !.leader = w, !.last = Last(taken), !.size = n,
                                       !.last_sequence = sequence[Last(taken)]]
              IN  /\ write_group' = SetAll(write_group, Elements(taken), w)
                  /\ IF cfg.concurrent /\ n > 1 THEN Launch(w, g, Elements(taken))
                                               ELSE InsertSerially(w, g, Elements(taken))
  /\ UNCHANGED <<cfg, newest_writer_, newest_memtable_writer_, link_older, status, local, calls,
                 stalls, log, last_sequence, last_sequence_, stopped, sequence>>

InsertParallel(w) ==
  /\ Ready(w, "parallel")
  /\ inserted' = inserted \cup Writes({w})
  /\ Goto(w, "count")
  /\ UNCHANGED <<cfg, links, state, status, write_group, group, local, calls, stalls, log,
                 last_sequence, last_sequence_, stopped, sequence>>

(* Mutant: an off-by-one, the last but one goes on.                        *)
CompleteParallelMemTableWriter_Early(w) ==
  /\ pc[w] = "count"
  /\ LET o == write_group[w]
     IN  /\ group' = [group EXCEPT ![o].running = @ - 1]
         /\ Goto(w, IF group[o].running > 2 THEN "finished" ELSE "publish")
  /\ UNCHANGED <<cfg, links, state, status, write_group, local, calls, stalls, data>>

(* The last to finish goes on; the others wait to be completed.            *)
CompleteParallelMemTableWriter(w) ==
  /\ pc[w] = "count"
  /\ LET o == write_group[w]
     IN  /\ group' = [group EXCEPT ![o].running = @ - 1]
         /\ Goto(w, IF group[o].running > 1 THEN "finished" ELSE "publish")
  /\ UNCHANGED <<cfg, links, state, status, write_group, local, calls, stalls, data>>

(* VersionSet::SetLastSequence with the group's last sequence number.      *)
SetLastSequence(w) ==
  /\ pc[w] = "publish"
  /\ last_sequence' = group[write_group[w]].last_sequence
  /\ Goto(w, IF cfg.pipelined THEN "memtable_exit" ELSE "exit")
  /\ UNCHANGED <<cfg, links, state, status, write_group, group, local, calls, stalls, log,
                 inserted, last_sequence_, stopped, sequence>>

ExitAsMemTableWriter(w) ==
  /\ pc[w] = "memtable_exit"
  /\ LET g == group[write_group[w]]
     IN  /\ newest_memtable_writer_' = IF newest_memtable_writer_ = g.last THEN None
                                       ELSE newest_memtable_writer_
         /\ PassOn(newest_memtable_writer_, g.last, "memtable_leader")
  /\ Goto(w, "complete")
  /\ UNCHANGED <<cfg, newest_writer_, status, write_group, group, local, calls, stalls, data>>
-----------------------------------------------------------------------------
(* Leaving the queue *)

(* ExitAsBatchGroupLeader without pipelined writes, by the leader or, in   *)
(* ExitAsBatchGroupFollower, by the last parallel memtable writer.         *)
ExitAsBatchGroupLeader(w) ==
  /\ pc[w] = "exit" /\ ~cfg.pipelined
  /\ LET g == group[write_group[w]]
     IN  /\ newest_writer_' = IF newest_writer_ = g.last THEN None ELSE newest_writer_
         /\ PassOn(newest_writer_, g.last, "leader")
  /\ Goto(w, "complete")
  /\ UNCHANGED <<cfg, newest_memtable_writer_, status, write_group, group, local, calls, stalls,
                 data>>

(* Mutant: the error of the log is not passed to the group.                *)
Final_Own(g, m) == status[m]

(* What FinalStatus returns: the status that ExitAsBatchGroupLeader gives  *)
(* each member comes before the member's own.  A build with assertions     *)
(* stops in FinalStatus when the log and a member's callback both failed.  *)
Final(g, m) == IF g.status # "ok" THEN g.status ELSE status[m]

(* The loops that tell the group's writers, the leader last.               *)
CompleteGroup(w) ==
  /\ pc[w] = "complete"
  /\ LET g == group[write_group[w]]  members == Elements(Members(g))
     IN  /\ status' = [m \in Writer |-> IF m \in members THEN Final(g, m) ELSE status[m]]
         /\ state' = SetAll(state, members, "completed")
  /\ Goto(w, "finished")
  /\ UNCHANGED <<cfg, links, write_group, group, local, calls, stalls, data>>

(* With pipelined writes: CompleteFollower and CompleteLeader for those    *)
(* that write nothing to the memtable.                                     *)
ExitPipelined(w) ==
  /\ pc[w] = "exit" /\ cfg.pipelined
  /\ LET g == group[w]
         members == Members(g)
         kept == SelectSeq(members, LAMBDA m : Final(g, m) = "ok")
         gone == Elements(members) \ Elements(kept)
         At(m) == CHOOSE i \in DOMAIN kept : kept[i] = m
     IN  /\ status' = [m \in Writer |-> IF m \in Elements(members) THEN Final(g, m) ELSE status[m]]
         /\ state' = SetAll(state, gone, "completed")
         /\ link_older' = [n \in Node |->
              IF n \in Elements(kept) THEN IF At(n) > 1 THEN kept[At(n) - 1] ELSE None
              ELSE link_older[n]]
         /\ link_newer' = [n \in Node |->
              IF n \in Elements(kept) THEN IF At(n) < Len(kept) THEN kept[At(n) + 1] ELSE None
              ELSE link_newer[n]]
         /\ group' = [group EXCEPT ![w].leader = IF kept = <<>> THEN None ELSE kept[1],
                                   ![w].last = IF kept = <<>> THEN None ELSE Last(kept),
                                   ![w].size = Len(kept)]
         /\ local' = [NoLocal EXCEPT !.last = g.last]
  /\ Goto(w, "unlink")
  /\ UNCHANGED <<cfg, newest_writer_, newest_memtable_writer_, write_group, calls, stalls, data>>

(* The dummy takes the group's place when it is the newest.                *)
Unlink(w) ==
  /\ pc[w] = "unlink"
  /\ IF newest_writer_ = local.last
       THEN newest_writer_' = Dummy /\ UNCHANGED local
       ELSE /\ local' = [local EXCEPT !.next = FindNextLeader(newest_writer_, local.last)]
            /\ UNCHANGED newest_writer_
  /\ Goto(w, "link")
  /\ UNCHANGED <<cfg, newest_memtable_writer_, link_older, link_newer, state, status, write_group,
                 group, calls, stalls, data>>

LinkGroup(w) ==
  /\ pc[w] = "link"
  /\ LET g == group[w]
     IN  \/ /\ g.size = 0
            /\ UNCHANGED <<newest_memtable_writer_, link_older, link_newer, state, write_group>>
         \/ /\ g.size > 0
            /\ link_newer' = SetAll(link_newer, Elements(Members(g)), None)
            /\ write_group' = SetAll(write_group, Elements(Members(g)), None)
            /\ link_older' = [link_older EXCEPT ![g.leader] = newest_memtable_writer_]
            /\ newest_memtable_writer_' = g.last
            /\ state' = IF newest_memtable_writer_ = None
                          THEN [state EXCEPT ![g.leader] = "memtable_leader"] ELSE state
  /\ Goto(w, "pass")
  /\ UNCHANGED <<cfg, newest_writer_, status, group, local, calls, stalls, data>>

(* The dummy leaves, and the next leader is told.                          *)
PassLead(w) ==
  /\ pc[w] = "pass"
  /\ LET next == CASE local.next # None       -> local.next
                   [] newest_writer_ # Dummy  -> FindNextLeader(newest_writer_, Dummy)
                   [] OTHER                   -> None
     IN  /\ newest_writer_' = IF next = None THEN None ELSE newest_writer_
         /\ link_older' = IF next = None THEN link_older ELSE [link_older EXCEPT ![next] = None]
         /\ state' = IF next = None THEN state ELSE [state EXCEPT ![next] = "leader"]
  /\ local' = NoLocal
  /\ Goto(w, "await")
  /\ UNCHANGED <<cfg, newest_memtable_writer_, link_newer, status, write_group, group, calls,
                 stalls, data>>
-----------------------------------------------------------------------------
(* Unbatched writers *)

(* Mutant: an unbatched writer does not wait for the memtable writers.     *)
Drain_NoWait(w) ==
  /\ cfg.pipelined /\ w \in cfg.unbatched \cup cfg.alone
  /\ pc[w] = "wait" /\ state[w] = "leader"
  /\ Goto(w, "drained")
  /\ UNCHANGED <<cfg, links, state, status, write_group, group, local, calls, stalls, data>>

(* WaitForMemTableWriters: it looks, links its own Writer behind them, and *)
(* is told when it is the first.                                           *)
Drain(w) ==
  /\ cfg.pipelined /\ w \in cfg.unbatched \cup cfg.alone
  /\ pc[w] = "wait" /\ state[w] = "leader"
  /\ Goto(w, IF newest_memtable_writer_ = None THEN "drained" ELSE "drain")
  /\ UNCHANGED <<cfg, links, state, status, write_group, group, local, calls, stalls, data>>

LinkWaiter(w) ==
  /\ pc[w] = "drain"
  /\ newest_memtable_writer_' = Waiter
  /\ link_older' = [link_older EXCEPT ![Waiter] = newest_memtable_writer_]
  /\ link_newer' = [link_newer EXCEPT ![Waiter] = None]
  /\ state' = [state EXCEPT ![Waiter] = IF newest_memtable_writer_ = None
                                          THEN "memtable_leader" ELSE "init"]
  /\ Goto(w, "draining")
  /\ UNCHANGED <<cfg, newest_writer_, status, write_group, group, local, calls, stalls, data>>

Drained(w) ==
  /\ pc[w] = "draining" /\ state[Waiter] = "memtable_leader"
  /\ newest_memtable_writer_' = None
  /\ Goto(w, "drained")
  /\ UNCHANGED <<cfg, newest_writer_, link_older, link_newer, state, status, write_group, group,
                 local, calls, stalls, data>>

(* An unbatched writer has the queue to itself from here to ExitUnbatched. *)
Inside(w) ==
  /\ w \in cfg.unbatched
  /\ IF cfg.pipelined THEN pc[w] = "drained" ELSE pc[w] = "wait" /\ state[w] = "leader"

ExitUnbatched(w) ==
  /\ Inside(w)
  /\ newest_writer_' = IF newest_writer_ = w THEN None ELSE newest_writer_
  /\ PassOn(newest_writer_, w, "leader")
  /\ Goto(w, "idle")
  /\ UNCHANGED <<cfg, newest_memtable_writer_, status, write_group, group, local, calls, stalls,
                 data>>
-----------------------------------------------------------------------------
Step(w) ==
  \/ Join(w) \/ JoinStalled(w) \/ Return(w)
  \/ PreprocessWrite(w) \/ EndWriteStall(w)
  \/ EnterAsBatchGroupLeader(w) \/ Attach(w) \/ WriteToWAL(w)
  \/ InsertInto(w) \/ EnterAsMemTableWriter(w) \/ InsertParallel(w)
  \/ CompleteParallelMemTableWriter(w) \/ SetLastSequence(w) \/ ExitAsMemTableWriter(w)
  \/ ExitAsBatchGroupLeader(w) \/ CompleteGroup(w)
  \/ ExitPipelined(w) \/ Unlink(w) \/ LinkGroup(w) \/ PassLead(w)
  \/ Drain(w) \/ LinkWaiter(w) \/ Drained(w) \/ ExitUnbatched(w)

(* A thread that follows a null pointer takes the process with it.         *)
Crashed == \E w \in Writer : pc[w] = "crashed"

Next == ~Crashed /\ \E w \in Writer : Step(w)

(* While some call can go on, one of them does; a thread need not call     *)
(* again.  A stall ends, as DelayWrite waits for a time, for background    *)
(* work or for a background error.  Calls are bounded and no call loops,   *)
(* so fairness to each thread would add nothing.                           *)
Fairness == WF_vars(~Crashed /\ \E w \in Writer : pc[w] # "idle" /\ Step(w))

Spec == Init /\ [][Next]_vars /\ Fairness
-----------------------------------------------------------------------------
(* A writer's link_newer, once set, is the writer whose link_older it is:  *)
(* what CreateMissingNewerLinks asserts of the first link that it finds,   *)
(* and what every walk along link_newer relies on.                         *)
NewerLinksMatch ==
  (\A w \in Writer : pc[w] # "attach") =>
    \A newest \in {newest_writer_, newest_memtable_writer_} \ {None} :
      \A n \in Elements(Walk(link_older, newest, {})) \ {StallDummy} :
        link_older[n] # None => link_newer[link_older[n]] \in {None, n}

Writing(w) ==
  \/ pc[w] \in {"delay", "enter", "attach", "log", "memtable", "count", "publish", "exit"}
  \/ Ready(w, "parallel") \/ Ready(w, "memtable_leader")
  \/ Inside(w)

(* Between EnterUnbatched and ExitUnbatched nobody else writes the log or  *)
(* the memtable, parallel and pipelined memtable writers included: a       *)
(* memtable switch or an ingestion relies on it.                           *)
UnbatchedAlone ==
  \A w, v \in Writer : Inside(w) /\ v # w => ~Writing(v)

(* Whatever LastSequence() covers of the writes that WriteToWAL was ok for *)
(* is in the memtable, also with several memtable writers at once: a       *)
(* reader at that sequence number misses none.  A group whose Sync failed  *)
(* has sequence numbers that a later group may have again.                 *)
PublishedInserted ==
  \A i \in DOMAIN log : log[i].ok /\ log[i].seq <= last_sequence => log[i].write \in inserted

(* The calls of Write that are made all return: no writer is lost from a   *)
(* list, by being moved behind a group, by a stall or by a dummy, and no   *)
(* two wait for each other.  Only where compare_exchange_weak fails for no *)
(* reason the process may crash instead, in EnterAsBatchGroupLeader.       *)
EveryWriteAnswered ==
  (\E w \in Writer : pc[w] # "idle")
    ~> (\A w \in Writer : pc[w] = "idle") \/ (cfg.weak_cas /\ Crashed)

Callers == Writer \ cfg.unbatched

(* The threads, their groups and their lists implement one log, with a     *)
(* prefix that readers see and writes that failed: see WriteQueue.         *)
Queue == INSTANCE WriteQueue WITH
  calls   <- [w \in Writer |-> IF w \in Callers THEN calls[w] ELSE 0],
  pending <- {w \in Callers : pc[w] # "idle"},
  answer  <- [w \in Writer |-> IF w \in Callers /\ pc[w] = "idle" /\ calls[w] > 0
                                 THEN status[w] ELSE "none"],
  log     <- [i \in DOMAIN log |-> log[i].write],
  failed  <- {log[i].write : i \in {j \in DOMAIN log : ~log[j].ok}},
  visible <- {log[i].write : i \in {j \in DOMAIN log : log[j].ok /\ log[j].seq <= last_sequence}}

ImplementsWriteQueue == Queue!Spec
=============================================================================
