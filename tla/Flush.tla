------------------------------- MODULE Flush -------------------------------
(***************************************************************************)
(* Log, memtables and flush: SwitchMemtable, MemTableList, FlushJob, the   *)
(* background flush threads, Resume, the deletion of obsolete logs, and    *)
(* recovery from the logs after a machine crash (db/db_impl_write.cc,      *)
(* db/memtable_list.cc, db/flush_job.cc, db/db_impl_compaction_flush.cc,   *)
(* db/db_impl_files.cc, db/db_impl_open.cc).                               *)
(*                                                                         *)
(* A write batch is its number; what matters is in which logs, memtables   *)
(* and table files of which column families it is.  Atomic flush groups,   *)
(* two-phase commit, dropped column families and                           *)
(* avoid_flush_during_recovery are left out.                               *)
(***************************************************************************)
EXTENDS Integers, FiniteSets, FiniteSetsExt, Sequences, SequencesExt, TLC

CONSTANTS CF,        \* column families
          Configs    \* options, faults and bounds of the instances

ASSUME FlushAssumption ==
  /\ CF # {} /\ IsFiniteSet(CF)
  /\ \A c \in Configs :
       /\ c.max_flushes \in Nat \ {0} /\ c.merge \in Nat \ {0}
       /\ c.max_batches \in Nat \ {0} /\ c.max_requests \in Nat
       /\ c.max_errors \in Nat /\ c.max_crashes \in Nat
       /\ c.severity \in {"none", "hard", "fatal"} /\ c.sync_fails \in BOOLEAN
       /\ c.max_write_buffers \in Nat \ {0}
       /\ c.writes \subseteq SUBSET CF /\ c.sync \subseteq BOOLEAN

VARIABLES
  cfg,                    \* the chosen member of Configs
  batches,                \* history: the column families of each batch
  acked,                  \* history: batches that a synced write covered
  gone,                   \* history: batches that crashes took
  log, synced,            \* records of each log file, and how many are durable
  logfile_number_,        \* the log being written
  mem, imm,               \* memtable, immutable memtables (oldest first)
  num_flush_not_started_, imm_flush_needed, flush_requested_,
  commit_in_progress_,
  stopped,                \* column families that hold a stop token
  stalled,                \* whether the write leader waits in DelayWrite
  log_number,             \* ColumnFamilyData::log_number_
  files, saved_log,       \* the MANIFEST: table contents, log number
  flush_queue_,           \* column families with a requested flush
  scheduled,              \* flush threads scheduled that have not begun
  job,                    \* the flush threads at work
  bg_error_,              \* severity of the background error
  recovery,               \* where RecoverFromBGError is
  recovery_error_,
  opening,                \* column families RecoverLogFiles has still to do
  open,                   \* whether DB::Open has returned
  errors, requests, crashes \* how often each has happened

lists  == <<num_flush_not_started_, imm_flush_needed, flush_requested_,
            commit_in_progress_>>
wal    == <<log, synced, logfile_number_>>
saved  == <<files, saved_log>>
state  == <<bg_error_, recovery, recovery_error_>>
stall  == <<stopped, stalled>>
hist   == <<batches, acked, gone>>
counts == <<errors, requests, crashes>>
vars   == <<cfg, hist, wal, mem, imm, lists, stall, log_number, saved, flush_queue_,
            scheduled, job, state, opening, open, counts>>

Written == DOMAIN batches
Job     == 1 .. Max({c.max_flushes : c \in Configs})

NoEdit == [log |-> 0, add |-> {}]
Idle   == [pc |-> "idle", cf |-> CHOOSE c \in CF : TRUE, mems |-> {}, upto |-> 0,
           count |-> 0]

-----------------------------------------------------------------------------
Init ==
  /\ cfg \in Configs
  /\ batches = <<>> /\ acked = {} /\ gone = {}
  /\ log = (1 :> <<>>) /\ synced = (1 :> 0) /\ logfile_number_ = 1
  /\ mem = [c \in CF |-> {}] /\ imm = [c \in CF |-> <<>>]
  /\ num_flush_not_started_ = [c \in CF |-> 0]
  /\ imm_flush_needed = [c \in CF |-> FALSE]
  /\ flush_requested_ = [c \in CF |-> FALSE]
  /\ commit_in_progress_ = [c \in CF |-> FALSE]
  /\ stopped = {} /\ stalled = FALSE
  /\ log_number = [c \in CF |-> 0]
  /\ files = [c \in CF |-> {}] /\ saved_log = [c \in CF |-> 0]
  /\ flush_queue_ = <<>>
  /\ scheduled = 0 /\ job = [j \in Job |-> Idle]
  /\ bg_error_ = "ok" /\ recovery = "no" /\ recovery_error_ = FALSE
  /\ opening = {} /\ open = TRUE
  /\ errors = 0 /\ requests = 0 /\ crashes = 0

-----------------------------------------------------------------------------
(* Scheduling of the flush threads.                                        *)

IsFlushPending(c) ==
  \/ flush_requested_[c] /\ num_flush_not_started_[c] > 0
  \/ num_flush_not_started_[c] >= cfg.merge

(* Background work goes on after an error only for a recovery.             *)
Stopped(error) == error # "ok" /\ recovery = "no"

(* bg_flush_scheduled_: as long as a request is queued every free slot     *)
(* gets a thread.                                                          *)
Busy(jobs) == Cardinality({j \in Job : jobs[j].pc # "idle"})

MaybeScheduleFlush(waiting, jobs, queue, error) ==
  IF queue # <<>> /\ ~Stopped(error) THEN cfg.max_flushes - Busy(jobs) ELSE waiting

-----------------------------------------------------------------------------
(* The foreground: writes, memtable switches, flush requests.              *)

(* PreprocessWrite: the leader of a write group goes no further while too  *)
(* many memtables wait for their flush.  Nothing else enters the write     *)
(* thread until a signal finds that they no longer do, or an error.        *)
DelayWrite ==
  /\ open /\ bg_error_ = "ok" /\ ~stalled /\ stopped # {}
  /\ Len(batches) < cfg.max_batches
  /\ stalled' = TRUE
  /\ UNCHANGED <<cfg, hist, wal, mem, imm, lists, stopped, log_number, saved,
                 flush_queue_, scheduled, job, state, opening, open, counts>>

(* bg_cv_.SignalAll.                                                       *)
SignalAll(stop, error) == stalled' = (stalled /\ stop # {} /\ error = "ok")

(* RecalculateWriteStallConditions, in InstallSuperVersion.                *)
Stops(stop, c, list) ==
  IF Len(list) >= cfg.max_write_buffers THEN stop \union {c} ELSE stop \ {c}

Write(cs, sync) ==
  /\ open /\ bg_error_ = "ok" /\ ~stalled /\ stopped = {}
  /\ Len(batches) < cfg.max_batches
  /\ LET b   == Len(batches) + 1
         new == [log EXCEPT ![logfile_number_] = Append(@, b)]
     IN  /\ batches' = Append(batches, cs)
         /\ log' = new
         /\ synced' = IF sync THEN [l \in DOMAIN log |-> Len(new[l])] ELSE synced
         /\ acked' = IF sync THEN acked \union ((1 .. b) \ gone) ELSE acked
         /\ mem' = [c \in CF |-> IF c \in cs THEN mem[c] \union {b} ELSE mem[c]]
  /\ UNCHANGED <<cfg, gone, logfile_number_, imm, lists, stall, log_number, saved,
                 flush_queue_, scheduled, job, state, opening, open, counts>>

(* SwitchMemtable for each of cs: the first switch starts a new log unless *)
(* the current one is empty, and moves the column families without data    *)
(* on to it.                                                               *)
NewLogNumber ==
  IF log[logfile_number_] = <<>> THEN logfile_number_ ELSE logfile_number_ + 1

(* A plausible slip: the column families that wait for a flush move too.   *)
SwitchedLogNumber_WithImm(c, new) ==
  IF new # logfile_number_ /\ mem[c] = {} THEN new ELSE log_number[c]

SwitchedLogNumber(c, new) ==
  IF new # logfile_number_ /\ mem[c] = {} /\ imm[c] = <<>> THEN new ELSE log_number[c]

(* A plausible slip: the number is taken before the log is switched.       *)
NextLogNumber_Before(new) == logfile_number_

NextLogNumber(new) == new

SwitchMemtable(cs) ==
  LET new == IF cs = {} THEN logfile_number_ ELSE NewLogNumber
      m(c) == [id |-> Min(mem[c]), data |-> mem[c],
               next_log |-> NextLogNumber(new),
               in_progress |-> FALSE, completed |-> FALSE, file |-> {},
               edit |-> NoEdit]
  IN  /\ logfile_number_' = new
      /\ log' = IF new \in DOMAIN log THEN log ELSE log @@ (new :> <<>>)
      /\ synced' = IF new \in DOMAIN log THEN synced ELSE synced @@ (new :> 0)
      /\ log_number' = [c \in CF |-> SwitchedLogNumber(c, new)]
      /\ imm' = [c \in CF |-> IF c \in cs THEN Append(imm[c], m(c)) ELSE imm[c]]
      /\ mem' = [c \in CF |-> IF c \in cs THEN {} ELSE mem[c]]
      /\ num_flush_not_started_' =
           [c \in CF |-> num_flush_not_started_[c] + (IF c \in cs THEN 1 ELSE 0)]
      /\ imm_flush_needed' =
           [c \in CF |-> imm_flush_needed[c]
                         \/ (c \in cs /\ num_flush_not_started_[c] = 0)]
      /\ stopped' = {c \in CF : IF c \in cs THEN Len(imm'[c]) >= cfg.max_write_buffers
                                ELSE c \in stopped}

(* The first switch fails, if it needs a new log: in NewLogWriter, or in   *)
(* WriteBuffer or Frozen of the old log when the new one is in use already *)
(* (the assertion that there is none is not in a release build).  No       *)
(* memtable is switched and none is flushed.                               *)
SwitchFails ==
  /\ log[logfile_number_] # <<>>
  /\ errors < cfg.max_errors /\ errors' = errors + 1
  /\ logfile_number_' \in {logfile_number_, logfile_number_ + 1}
  /\ log' = log @@ (logfile_number_' :> <<>>)
  /\ synced' = synced @@ (logfile_number_' :> 0)
  /\ UNCHANGED <<mem, imm, lists, stopped, log_number, flush_queue_, scheduled>>

(* The severity of a background error; without paranoid_checks an error of *)
(* a flush has none and leaves bg_error_ as it is.                         *)
Worse(error) ==
  IF cfg.severity = "none" \/ error = "fatal" THEN error ELSE cfg.severity

Request(cs) ==
  /\ flush_queue_' = flush_queue_ \o SetToSeq(cs)
  /\ scheduled' = MaybeScheduleFlush(scheduled, job, flush_queue_', bg_error_)

(* Memtables that are full are switched by the next write; WriteStatus-    *)
(* Check sets the background error when that fails.                        *)
ScheduleFlushes(cs) ==
  /\ open /\ bg_error_ = "ok" /\ ~stalled
  /\ cs # {} /\ \A c \in cs : mem[c] # {}
  /\ \/ /\ SwitchMemtable(cs)
        /\ Request(cs)
        /\ UNCHANGED <<flush_requested_, commit_in_progress_, bg_error_, errors>>
     \/ /\ SwitchFails
        /\ bg_error_' = Worse(bg_error_)
  /\ UNCHANGED <<cfg, hist, stalled, saved, job, recovery, recovery_error_, opening,
                 open, requests, crashes>>

FlushMemTable(cs) ==
  LET full   == {c \in cs : mem[c] # {}}
      needed == \E c \in cs : mem[c] # {} \/ imm[c] # <<>>
  IN  /\ SwitchMemtable(full)
      /\ IF needed
           THEN /\ flush_requested_' = [c \in CF |-> flush_requested_[c] \/ c \in cs]
                /\ Request(cs)
           ELSE UNCHANGED <<flush_requested_, flush_queue_, scheduled>>

(* DB::Flush, also while the background work is stopped.                   *)
Flush(cs) ==
  /\ open /\ ~stalled /\ requests < cfg.max_requests
  /\ \E c \in cs : mem[c] # {} \/ imm[c] # <<>>
  /\ \/ FlushMemTable(cs) /\ UNCHANGED <<commit_in_progress_, errors>>
     \/ SwitchFails /\ \E c \in cs : mem[c] # {}
  /\ requests' = requests + 1
  /\ UNCHANGED <<cfg, hist, stalled, saved, job, state, opening, open, crashes>>

-----------------------------------------------------------------------------
(* A flush thread.                                                         *)

Obsolete(numbers) == {l \in DOMAIN log : l < Min({numbers[c] : c \in CF})}

Without(f, ls) == [l \in DOMAIN f \ ls |-> f[l]]

(* BackgroundCallFlush after BackgroundFlush: FindObsoleteFiles, then      *)
(* another round of scheduling.                                            *)
EndFlush(waiting, jobs, queue, numbers) ==
  LET dead == Obsolete(numbers)
  IN  /\ log' = Without(log, dead)
      /\ synced' = Without(synced, dead)
      /\ log_number' = numbers
      /\ flush_queue_' = queue
      /\ job' = jobs
      /\ scheduled' = MaybeScheduleFlush(waiting, jobs, queue, bg_error_)
      /\ SignalAll(stopped', bg_error_)
      /\ UNCHANGED logfile_number_

Ended(j) == [job EXCEPT ![j] = Idle]

(* The first queued request that still has something to flush.             *)
NeedsFlush(c) == IsFlushPending(c) \/ flush_requested_[c]

Pickable(c) == {i \in DOMAIN imm[c] : ~imm[c][i].in_progress}

(* PickMemTable: the edit of the oldest picked memtable stands for all.    *)
Picked(c, picks) ==
  [i \in DOMAIN imm[c] |->
     IF i \notin picks THEN imm[c][i]
     ELSE [imm[c][i] EXCEPT
             !.in_progress = TRUE,
             !.edit = IF i = Min(picks)
                        THEN [@ EXCEPT !.log = imm[c][Max(picks)].next_log]
                        ELSE @]]

(* A plausible slip: the closed logs are left as they are.                 *)
SyncsLogs_Never == FALSE

(* Logs below the current one are synced when batches span families.       *)
SyncsLogs == Cardinality(CF) > 1

BackgroundFlush ==
  /\ open /\ scheduled > 0
  /\ LET needed == {i \in DOMAIN flush_queue_ : NeedsFlush(flush_queue_[i])}
         j      == Min({i \in Job : job[i].pc = "idle"})
     IN \/ /\ Stopped(bg_error_)
           /\ UNCHANGED <<imm, lists, stopped>>
           /\ EndFlush(scheduled - 1, job, flush_queue_, log_number)
        \/ /\ ~Stopped(bg_error_) /\ needed = {}
           /\ UNCHANGED <<imm, lists, stopped>>
           /\ EndFlush(scheduled - 1, job, <<>>, log_number)
        \/ /\ ~Stopped(bg_error_) /\ needed # {}
           /\ LET at    == Min(needed)
                  c     == flush_queue_[at]
                  picks == Pickable(c)
              IN  /\ flush_queue_' = SubSeq(flush_queue_, at + 1, Len(flush_queue_))
                  /\ imm' = [imm EXCEPT ![c] = Picked(c, picks)]
                  /\ num_flush_not_started_' =
                       [num_flush_not_started_ EXCEPT ![c] = @ - Cardinality(picks)]
                  /\ imm_flush_needed' =
                       [imm_flush_needed EXCEPT
                          ![c] = @ /\ ~(picks # {} /\ num_flush_not_started_'[c] = 0)]
                  /\ flush_requested_' = [flush_requested_ EXCEPT ![c] = FALSE]
                  /\ job' = [job EXCEPT ![j] =
                       [Idle EXCEPT !.pc = IF SyncsLogs THEN "sync" ELSE "write",
                                    !.cf = c,
                                    !.mems = {imm[c][i].id : i \in picks},
                                    !.upto = logfile_number_ - 1]]
           /\ scheduled' = scheduled - 1
           /\ UNCHANGED <<commit_in_progress_, wal, stall, log_number>>
  /\ UNCHANGED <<cfg, hist, mem, saved, state, opening, open, counts>>

(* SetBGError: the thread signals, sleeps, and ends with pc "end".         *)
SetBGError(j) ==
  /\ errors < cfg.max_errors /\ errors' = errors + 1
  /\ bg_error_' = Worse(bg_error_)
  /\ recovery_error_' = (recovery_error_ \/ recovery # "no")
  /\ job' = [job EXCEPT ![j] = [Idle EXCEPT !.pc = "end"]]
  /\ SignalAll(stopped, bg_error_')
  /\ UNCHANGED <<recovery, wal, flush_queue_, scheduled, log_number, stopped, requests,
                 crashes>>

AfterError(j) ==
  /\ open /\ job[j].pc = "end"
  /\ UNCHANGED stopped
  /\ EndFlush(scheduled, Ended(j), flush_queue_, log_number)
  /\ UNCHANGED <<cfg, hist, mem, imm, lists, saved, state, opening, open, counts>>

(* SyncClosedLogs, and FlushJob::Cancel when it fails: the memtables stay  *)
(* marked.  (Cancel of a job that picked nothing dereferences a null       *)
(* base_; that case is not a step here.)                                   *)
SyncClosedLogs(j) ==
  /\ open /\ job[j].pc = "sync"
  /\ \/ /\ synced' = [l \in DOMAIN log |-> IF l <= job[j].upto THEN Len(log[l])
                                             ELSE synced[l]]
        /\ job' = [job EXCEPT ![j].pc = "write"]
        /\ UNCHANGED <<log, logfile_number_, flush_queue_, scheduled, log_number, stall,
                       state, counts>>
     \/ /\ cfg.sync_fails /\ job[j].mems # {}
        /\ SetBGError(j)
  /\ UNCHANGED <<cfg, hist, mem, imm, lists, saved, opening, open>>

(* A plausible slip: whatever has completed is recorded.                   *)
Completed_AnyOrder(list) == Cardinality({i \in DOMAIN list : list[i].completed})

Completed(list) == Cardinality({i \in DOMAIN list : \A k \in 1 .. i : list[k].completed})

Committing(j, c, n, numbers) ==
  /\ job' = [job EXCEPT ![j] = [Idle EXCEPT !.pc = "commit", !.cf = c, !.count = n]]
  /\ commit_in_progress_' = [commit_in_progress_ EXCEPT ![c] = TRUE]
  /\ log_number' = numbers
  /\ UNCHANGED <<wal, flush_queue_, scheduled, stall>>

(* TryInstallMemtableFlushResults: the completed memtables at the old end  *)
(* of the list are recorded, unless another thread is recording.           *)
TryInstall(j, c, list) ==
  LET n == Completed(list)
  IN  \/ /\ commit_in_progress_[c] \/ n = 0
         /\ stopped' = Stops(stopped, c, list)
         /\ EndFlush(scheduled, Ended(j), flush_queue_, log_number)
         /\ UNCHANGED commit_in_progress_
      \/ /\ ~commit_in_progress_[c] /\ n > 0
         /\ Committing(j, c, n, log_number)

(* RollbackMemtableFlush and the failure of an install: flush again.       *)
Reset(m) == [m EXCEPT !.in_progress = FALSE, !.completed = FALSE, !.file = {},
                      !.edit = NoEdit]

(* A plausible slip: the count is not restored.                            *)
ResetAll_Uncounted(c, is) ==
  /\ imm' = [imm EXCEPT ![c] =
               [i \in DOMAIN @ |-> IF i \in is THEN Reset(@[i]) ELSE @[i]]]
  /\ UNCHANGED num_flush_not_started_
  /\ imm_flush_needed' = [imm_flush_needed EXCEPT ![c] = TRUE]

ResetAll(c, is) ==
  /\ imm' = [imm EXCEPT ![c] =
               [i \in DOMAIN @ |-> IF i \in is THEN Reset(@[i]) ELSE @[i]]]
  /\ num_flush_not_started_' =
       [num_flush_not_started_ EXCEPT ![c] = @ + Cardinality(is)]
  /\ imm_flush_needed' = [imm_flush_needed EXCEPT ![c] = TRUE]

(* FlushJob::Run.                                                          *)
Run(j) ==
  /\ open /\ job[j].pc = "write"
  /\ LET c    == job[j].cf
         is   == {i \in DOMAIN imm[c] : imm[c][i].id \in job[j].mems}
         out  == UNION {imm[c][i].data : i \in is}
         done == [i \in DOMAIN imm[c] |->
                    IF i \notin is THEN imm[c][i]
                    ELSE [imm[c][i] EXCEPT
                            !.completed = TRUE, !.file = out,
                            !.edit = IF i = Min(is) THEN [@ EXCEPT !.add = out] ELSE @]]
     IN \/ /\ imm' = [imm EXCEPT ![c] = done]
           /\ TryInstall(j, c, done)
           /\ UNCHANGED <<num_flush_not_started_, imm_flush_needed, state, counts>>
        \/ /\ job[j].mems # {}
           /\ ResetAll(c, is)
           /\ SetBGError(j)
           /\ UNCHANGED commit_in_progress_
  /\ UNCHANGED <<cfg, hist, mem, flush_requested_, saved, opening, open>>

(* The edits of the batch: one for each file, that of its first memtable.  *)
Edits(list, n) ==
  {list[i].edit : i \in {k \in 1 .. n : k = 1 \/ list[k].file # list[k - 1].file}}

LogAfter(edits, number) ==
  LET newest == Max({e.log : e \in edits})
  IN  IF newest # 0 THEN newest ELSE number

(* A plausible slip: no second look after the MANIFEST is written.         *)
CompletedMeanwhile_Unseen(rest) == 0

(* Flushes that finished while the MANIFEST was written.                   *)
CompletedMeanwhile(rest) == Completed(rest)

(* LogAndApply with the callback of TryInstallMemtableFlushResults, and    *)
(* the rest of its loop.                                                   *)
Install(j) ==
  /\ open /\ job[j].pc = "commit"
  /\ LET c     == job[j].cf
         n     == job[j].count
         edits == Edits(imm[c], n)
         rest  == SubSeq(imm[c], n + 1, Len(imm[c]))
         more  == CompletedMeanwhile(rest)
         new   == [log_number EXCEPT ![c] = LogAfter(edits, @)]
     IN \/ /\ files' = [files EXCEPT ![c] = @ \union UNION {e.add : e \in edits}]
           /\ saved_log' = [saved_log EXCEPT ![c] = Max({@, LogAfter(edits, @)})]
           /\ imm' = [imm EXCEPT ![c] = rest]
           /\ \/ /\ more = 0
                 /\ commit_in_progress_' = [commit_in_progress_ EXCEPT ![c] = FALSE]
                 /\ stopped' = Stops(stopped, c, rest)
                 /\ EndFlush(scheduled, Ended(j), flush_queue_, new)
              \/ /\ more > 0
                 /\ Committing(j, c, more, new)
              \/ /\ more > 0 \* install timeout
                 /\ commit_in_progress_' = [commit_in_progress_ EXCEPT ![c] = FALSE]
                 /\ stopped' = Stops(stopped, c, rest)
                 /\ job' = [job EXCEPT ![j] = [Idle EXCEPT !.pc = "rejoin", !.cf = c]]
                 /\ log_number' = new
                 /\ UNCHANGED <<wal, flush_queue_, scheduled, stalled>>
           /\ UNCHANGED <<num_flush_not_started_, imm_flush_needed, state, counts>>
        \/ /\ ResetAll(c, 1 .. n)
           /\ commit_in_progress_' = [commit_in_progress_ EXCEPT ![c] = FALSE]
           /\ SetBGError(j)
           /\ UNCHANGED saved
  /\ UNCHANGED <<cfg, hist, mem, flush_requested_, opening, open>>

(* After an install timeout the rest is requested again from within the    *)
(* write thread, which the flush thread enters when no leader is stalled.  *)
Rejoin(j) ==
  /\ open /\ job[j].pc = "rejoin" /\ ~stalled
  /\ flush_requested_' = [flush_requested_ EXCEPT ![job[j].cf] = TRUE]
  /\ UNCHANGED stopped
  /\ EndFlush(scheduled, Ended(j), Append(flush_queue_, job[j].cf), log_number)
  /\ UNCHANGED <<cfg, hist, mem, imm, num_flush_not_started_, imm_flush_needed,
                 commit_in_progress_, saved, state, opening, open, counts>>

-----------------------------------------------------------------------------
(* DB::Resume after a hard error: RecoverFromBGError and ResumeImpl.       *)

Resume ==
  /\ open /\ bg_error_ # "ok" /\ recovery = "no"
  /\ recovery' = "wait" /\ recovery_error_' = FALSE
  /\ UNCHANGED <<cfg, hist, wal, mem, imm, lists, stall, log_number, saved, flush_queue_,
                 scheduled, job, bg_error_, opening, open, counts>>

(* FindObsoleteFiles and PurgeObsoleteFiles, whatever came before.         *)
DeleteLogs ==
  LET dead == Obsolete(log_number)
  IN  log' = Without(log, dead) /\ synced' = Without(synced, dead)

ResumeFlush ==
  /\ open /\ recovery = "wait"
  /\ scheduled + Busy(job) = 0
  /\ \/ /\ bg_error_ = "fatal"
        /\ recovery' = "no"
        /\ DeleteLogs
        /\ UNCHANGED <<logfile_number_, mem, imm, lists, stopped, log_number,
                       flush_queue_, scheduled, errors>>
     \/ /\ bg_error_ = "hard"
        /\ recovery' = "flush"
        /\ FlushMemTable(CF)
        /\ UNCHANGED <<commit_in_progress_, errors>>
     \/ /\ bg_error_ = "hard"
        /\ recovery' = "failed"
        /\ SwitchFails /\ \E c \in CF : mem[c] # {}
  /\ UNCHANGED <<cfg, hist, stalled, saved, job, bg_error_, recovery_error_, opening,
                 open, requests, crashes>>

(* No write runs while the error lasts, so the memtables to wait for are   *)
(* all there are, unless DB::Flush adds one meanwhile.                     *)
ResumeDone ==
  /\ open
  /\ \/ recovery = "flush" /\ (recovery_error_ \/ \A c \in CF : imm[c] = <<>>)
     \/ recovery = "failed"
  /\ LET ok == recovery = "flush" /\ ~recovery_error_
     IN  /\ bg_error_' = IF ok THEN "ok" ELSE bg_error_
         /\ scheduled' = IF ok /\ flush_queue_ # <<>>
                           THEN cfg.max_flushes - Busy(job) ELSE scheduled
  /\ recovery' = "no"
  /\ DeleteLogs
  /\ UNCHANGED <<cfg, hist, logfile_number_, mem, imm, lists, stall, log_number, saved,
                 flush_queue_, job, recovery_error_, opening, open, counts>>

-----------------------------------------------------------------------------
(* A machine crash keeps of each log at least what was synced; then        *)
(* DBImpl::Recover replays the logs into memtables.                        *)

Records(logs, numbers, c) ==
  {b \in Written : /\ c \in batches[b]
                   /\ \E l \in DOMAIN logs : /\ l >= numbers[c]
                                             /\ b \in Range(logs[l])}

Crash ==
  /\ crashes < cfg.max_crashes /\ crashes' = crashes + 1
  /\ \E kept \in [DOMAIN log -> 0 .. cfg.max_batches] :
       /\ \A l \in DOMAIN log : kept[l] \in synced[l] .. Len(log[l])
       /\ LET logs == [l \in DOMAIN log |-> SubSeq(log[l], 1, kept[l])]
          IN  /\ log' = logs
              /\ synced' = kept
              /\ mem' = [c \in CF |-> Records(logs, saved_log, c)]
              /\ gone' = {b \in Written : \A c \in batches[b] :
                            b \notin files[c] \union mem'[c]}
  /\ imm' = [c \in CF |-> <<>>]
  /\ num_flush_not_started_' = [c \in CF |-> 0]
  /\ imm_flush_needed' = [c \in CF |-> FALSE]
  /\ flush_requested_' = [c \in CF |-> FALSE]
  /\ commit_in_progress_' = [c \in CF |-> FALSE]
  /\ stopped' = {} /\ stalled' = FALSE
  /\ log_number' = saved_log
  /\ flush_queue_' = <<>> /\ scheduled' = 0 /\ job' = [j \in Job |-> Idle]
  /\ bg_error_' = "ok" /\ recovery' = "no" /\ recovery_error_' = FALSE
  /\ opening' = CF /\ open' = FALSE
  /\ UNCHANGED <<cfg, batches, acked, logfile_number_, saved, errors, requests>>

MaxLog == Max(DOMAIN log)

(* The end of RecoverLogFiles, one column family after the other: the      *)
(* replayed memtable becomes a table, logs up to the last are done with.   *)
RecoverLogFiles(c) ==
  /\ c \in opening
  /\ opening' = opening \ {c}
  /\ IF log_number[c] > MaxLog
       THEN UNCHANGED <<mem, saved, log_number>>
       ELSE /\ files' = [files EXCEPT ![c] = @ \union mem[c]]
            /\ mem' = [mem EXCEPT ![c] = {}]
            /\ saved_log' = [saved_log EXCEPT ![c] = MaxLog + 1]
            /\ log_number' = [log_number EXCEPT ![c] = MaxLog + 1]
  /\ UNCHANGED <<cfg, hist, wal, imm, lists, stall, flush_queue_, scheduled, job, state,
                 open, counts>>

(* The end of DB::Open: a new log, and the obsolete ones deleted.          *)
OpenDone ==
  /\ ~open /\ opening = {}
  /\ open' = TRUE
  /\ LET new  == MaxLog + 2
         dead == Obsolete(log_number)
     IN  /\ logfile_number_' = new
         /\ log' = Without(log, dead) @@ (new :> <<>>)
         /\ synced' = Without(synced, dead) @@ (new :> 0)
  /\ UNCHANGED <<cfg, hist, mem, imm, lists, stall, log_number, saved, flush_queue_,
                 scheduled, job, state, opening, counts>>

-----------------------------------------------------------------------------
FlushThread(j) ==
  SyncClosedLogs(j) \/ Run(j) \/ Install(j) \/ Rejoin(j) \/ AfterError(j)

Opening == OpenDone \/ \E c \in CF : RecoverLogFiles(c)

Next ==
  \/ \E cs \in cfg.writes, sync \in cfg.sync : Write(cs, sync)
  \/ DelayWrite
  \/ \E cs \in SUBSET CF : ScheduleFlushes(cs) \/ Flush(cs)
  \/ BackgroundFlush \/ \E j \in Job : FlushThread(j)
  \/ Resume \/ ResumeFlush \/ ResumeDone
  \/ Crash \/ Opening

(* The thread pool runs every flush job to its end, and DB::Open returns.  *)
Fairness == WF_vars(BackgroundFlush \/ (\E j \in Job : FlushThread(j)) \/ Opening)

Spec == Init /\ [][Next]_vars /\ Fairness

-----------------------------------------------------------------------------
(* The number of memtables whose flush has not started, which decides      *)
(* whether anything is pending (IsFlushPending) and which                  *)
(* MemTableList::Add asserts to be at most the length of the list, is kept *)
(* by picks, rollbacks and failed installs of several threads;             *)
(* imm_flush_needed agrees with it.                                        *)
CountsMatch ==
  \A c \in CF : /\ num_flush_not_started_[c] = Cardinality(Pickable(c))
                /\ imm_flush_needed[c] <=> num_flush_not_started_[c] > 0

(* What a machine crash at this moment leaves of a column family.          *)
OnDisk(c) ==
  files[c] \union Records([l \in DOMAIN log |-> SubSeq(log[l], 1, synced[l])],
                          saved_log, c)

(* A write that was acknowledged as synced survives a machine crash at any *)
(* time, in all its column families: no flush, no deletion of logs and no  *)
(* recovery lets go of it.                                                 *)
AckedSurvive ==
  \A b \in acked : \A c \in batches[b] : b \in OnDisk(c)

(* No crash splits a batch: once one column family has its part in a table *)
(* the others have theirs on disk too, which is what FlushMemTableToOutput-*)
(* File syncs the closed logs for.                                         *)
BatchesWhole ==
  \A b \in Written : \A c, d \in batches[b] : b \in files[c] => b \in OnDisk(d)

(* A read of the open database finds every write that no crash took, in a  *)
(* memtable or in a table.                                                 *)
NothingForgotten ==
  open => \A b \in Written \ gone : \A c \in batches[b] :
            b \in files[c] \union mem[c] \union UNION {imm[c][i].data : i \in DOMAIN imm[c]}

(* "Memtables are always committed in the order that they were created":   *)
(* a column family's tables hold all of its writes up to some point.       *)
CommittedInOrder ==
  \A c \in CF : \A b \in files[c], d \in Written \ gone :
    d < b /\ c \in batches[d] => d \in files[c]

(* Recovery replays no write that a table already holds: merge operands    *)
(* would be applied twice.                                                 *)
ReplayedOnce ==
  \A c \in CF : files[c] \intersect Records(log, saved_log, c) = {}

(* A flush thread that entered the write thread after an install timeout   *)
(* waits for the leader, which waits in DelayWrite for a flush to end.     *)
Deadlocked == stalled /\ \E j \in Job : job[j].pc = "rejoin"

(* With min_write_buffer_number_to_merge 1 every immutable memtable gets   *)
(* flushed and recorded, also when the thread that completes it leaves the *)
(* recording to another, or the recording times out, and then no writer is *)
(* left stalled.  The exceptions are an error that stops the background    *)
(* work, errors without paranoid_checks, after which nothing asks for the  *)
(* memtable again, and the deadlock above.                                 *)
EverythingFlushed ==
  (cfg.merge = 1 /\ cfg.severity # "none" /\ \E c \in CF : imm[c] # <<>>)
    ~> (((\A c \in CF : imm[c] = <<>>) /\ ~stalled) \/ bg_error_ # "ok" \/ Deadlocked)
=============================================================================
