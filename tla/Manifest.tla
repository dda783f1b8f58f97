------------------------------ MODULE Manifest ------------------------------
(***************************************************************************)
(* How a version becomes durable and how its files go away: the group      *)
(* commit of VersionSet::LogAndApply / ProcessManifestWrites, the MANIFEST  *)
(* and CURRENT files it writes, VersionSet::Recover, and the deletion of    *)
(* obsolete files at the end of every background job                       *)
(* (DBImpl::FindObsoleteFiles, PurgeObsoleteFiles).                        *)
(*                                                                         *)
(* Flushes, compactions and collections are all the same here: a job that  *)
(* writes one table file, submits an edit that deletes its inputs and adds *)
(* the file, waits, and cleans up.  A version is the set of its files, of   *)
(* one column family.  Every action is one stretch of code between two      *)
(* points where the DB mutex is released, or one call on the file system.  *)
(*                                                                         *)
(* The file system is external: what is appended and not synced may be lost *)
(* from its end in a crash, and a rename is durable once the directory is   *)
(* synced.                                                                 *)
(***************************************************************************)
EXTENDS Naturals, FiniteSets, Sequences, FiniteSetsExt, SequencesExt, TLC

CONSTANTS
  Job,             \* background jobs
  Configs          \* options, faults and bounds of the instances:
                   \*   max_file    bound on the numbers of table files
                   \*   max_crash   bound on the number of crashes
                   \*   edit_count  max_manifest_edit_count
                   \*   write_fails may writing or syncing a MANIFEST, or the
                   \*               rename, fail?
                   \*   fsync_fails may the directory Fsync after it fail?

ASSUME ManifestAssumption ==
  \A c \in Configs :
    /\ c.max_file \in Nat \ {0} /\ c.max_crash \in Nat /\ c.edit_count \in Nat
    /\ {c.write_fails, c.fsync_fails} \subseteq BOOLEAN

VARIABLES
  cfg,                   \* the chosen member of Configs
  disk,                  \* table files in the directory
  manifests,             \* MANIFEST files: number -> [log, synced]
  CURRENT,               \* the MANIFEST that CURRENT names
  durable,               \* the one it names after a crash that undoes the rename
  next_file_number_,
  version,               \* files of the current version
  descriptor_log_,       \* number of the MANIFEST open for writing, 0 if none
  manifest_file_number_,
  manifest_edit_count_,
  obsolete_files_,
  obsolete_manifests_,
  manifest_writers_,     \* queue of jobs
  leader,                \* the ProcessManifestWrites call that is running
  job,
  delete_obsolete_files_lock_,
  open,                  \* "up", "down" or "failed" (Recover returned an error)
  torn,                  \* history: MANIFESTs that CURRENT named when a group failed
  crashes

storage == <<disk, manifests, CURRENT, durable>>
versionSet == <<version, descriptor_log_, manifest_file_number_,
                manifest_edit_count_, obsolete_files_, obsolete_manifests_>>
vars == <<storage, versionSet, next_file_number_, manifest_writers_, leader, job,
          delete_obsolete_files_lock_, open, torn, crashes, cfg>>

\* Each output may need one MANIFEST number, and Recover skips one number.
MaxNumber == cfg.max_file + Cardinality(Job) + cfg.max_crash + 1

(***************************************************************************)
(* Edits and their replay.                                                 *)
(***************************************************************************)
Apply(v, e) == (v \ e.del) \cup e.add

Replay(v, log) == FoldLeft(Apply, v, log)

NewDB == [n \in {1} |->
            [log |-> <<[del |-> {}, add |-> {}, next |-> 2]>>, synced |-> 1]]

IdleJob == [pc |-> "idle", pending |-> 0, refs |-> {}, inputs |-> {}, out |-> 0,
            ok |-> TRUE, scan |-> FALSE, files |-> {}, manifests |-> {}]

NoLeader == [pc |-> "none", batch |-> <<>>, log |-> <<>>, i |-> 0,
             new_log |-> FALSE, pending |-> 0, ok |-> TRUE]

\* The versions alive are the current one and those that jobs hold references on.
References(jb, v) == v \cup UNION {jb[j].refs : j \in Job}

\* ~Version queues a file when its last reference goes.
Dropped(jb, v) == References(job, version) \ References(jb, v)

Init ==
  /\ cfg \in Configs
  /\ disk = {} /\ manifests = NewDB /\ CURRENT = 1 /\ durable = 1
  /\ next_file_number_ = 3
  /\ version = {} /\ descriptor_log_ = 0 /\ manifest_file_number_ = 1
  /\ manifest_edit_count_ = 1 /\ obsolete_files_ = {} /\ obsolete_manifests_ = {}
  /\ manifest_writers_ = <<>> /\ leader = NoLeader
  /\ job = [j \in Job |-> IdleJob]
  /\ delete_obsolete_files_lock_ = FALSE /\ open = "up"
  /\ torn = {} /\ crashes = 0

(***************************************************************************)
(* A background job up to LogAndApply.                                     *)
(***************************************************************************)
\* CaptureCurrentFileNumberInPendingOutputs, and the inputs the picker marks
\* being_compacted: no other running job has them.
StartJob(j) ==
  /\ open = "up" /\ job[j].pc = "idle"
  /\ \E in \in SUBSET (version \ UNION {job[k].inputs : k \in Job}) :
       job' = [job EXCEPT ![j] = [IdleJob EXCEPT !.pc = "running",
                 !.pending = next_file_number_, !.refs = version, !.inputs = in]]
  /\ UNCHANGED <<storage, versionSet, next_file_number_, manifest_writers_, leader,
                 delete_obsolete_files_lock_, open, torn, crashes, cfg>>

OpenOutput(j) ==
  /\ open = "up" /\ job[j].pc = "running" /\ next_file_number_ <= cfg.max_file
  /\ next_file_number_' = next_file_number_ + 1
  /\ disk' = disk \cup {next_file_number_}
  /\ job' = [job EXCEPT ![j].pc = "written", ![j].out = next_file_number_]
  /\ UNCHANGED <<manifests, CURRENT, durable, versionSet, manifest_writers_, leader,
                 delete_obsolete_files_lock_, open, torn, crashes, cfg>>

\* The job fails before it has an edit; its output stays behind.
FailJob(j) ==
  /\ open = "up" /\ job[j].pc = "written"
  /\ job' = [job EXCEPT ![j].pc = "done", ![j].ok = FALSE]
  /\ UNCHANGED <<storage, versionSet, next_file_number_, manifest_writers_, leader,
                 delete_obsolete_files_lock_, open, torn, crashes, cfg>>

LogAndApply(j) ==
  /\ open = "up" /\ job[j].pc = "written"
  /\ manifest_writers_' = Append(manifest_writers_, j)
  /\ job' = [job EXCEPT ![j].pc = "queued"]
  /\ UNCHANGED <<storage, versionSet, next_file_number_, leader,
                 delete_obsolete_files_lock_, open, torn, crashes, cfg>>

(***************************************************************************)
(* ProcessManifestWrites, by the writer at the head of the queue.          *)
(***************************************************************************)
NeedsNewDescriptor == descriptor_log_ = 0 \/ manifest_edit_count_ > cfg.edit_count

\* Mutant: an edit carries the number its job saw when it started.
BatchEdits_StampedEarly(next) ==
  [i \in DOMAIN manifest_writers_ |->
     LET w == job[manifest_writers_[i]] IN
     [del |-> w.inputs, add |-> {w.out}, next |-> w.pending]]

\* The edits of the group.  LogAndApplyHelper stamps each with the next file
\* number; the last one is stamped again after a MANIFEST number is taken.
BatchEdits(next) ==
  [i \in DOMAIN manifest_writers_ |->
     LET w == job[manifest_writers_[i]] IN
     [del |-> w.inputs, add |-> {w.out},
      next |-> IF i = Len(manifest_writers_) THEN next ELSE next_file_number_]]

\* Under the mutex: everything queued so far becomes the group.
GroupWriters ==
  /\ leader.pc = "none" /\ manifest_writers_ # <<>>
  /\ next_file_number_' =
       IF NeedsNewDescriptor THEN next_file_number_ + 1 ELSE next_file_number_
  /\ leader' = [NoLeader EXCEPT
       !.pc = IF NeedsNewDescriptor THEN "snapshot" ELSE "records",
       !.batch = manifest_writers_, !.log = BatchEdits(next_file_number_'),
       !.new_log = NeedsNewDescriptor,
       !.pending = IF NeedsNewDescriptor THEN next_file_number_
                   ELSE manifest_file_number_]
  /\ UNCHANGED <<storage, versionSet, manifest_writers_, job,
                 delete_obsolete_files_lock_, open, torn, crashes, cfg>>

Fails(pc) == leader' = [leader EXCEPT !.pc = pc, !.ok = FALSE]

\* NewWritableFile and WriteSnapshot.  The snapshot of the version has no next
\* file number of its own.
WriteSnapshot ==
  /\ leader.pc = "snapshot"
  /\ \/ /\ cfg.write_fails /\ Fails("install")
        /\ UNCHANGED <<manifests, descriptor_log_>>
     \/ /\ descriptor_log_' = leader.pending
        /\ \/ /\ manifests' = (leader.pending :>
                   [log |-> <<[del |-> {}, add |-> version, next |-> 0]>>,
                    synced |-> 0]) @@ manifests
              /\ leader' = [leader EXCEPT !.pc = "records"]
           \/ /\ cfg.write_fails /\ Fails("install")
              /\ manifests' = (leader.pending :> [log |-> <<>>, synced |-> 0])
                              @@ manifests
  /\ UNCHANGED <<disk, CURRENT, durable, version, manifest_file_number_,
                 manifest_edit_count_, obsolete_files_, obsolete_manifests_,
                 next_file_number_, manifest_writers_, job,
                 delete_obsolete_files_lock_, open, torn, crashes, cfg>>

\* AddRecord of the next edit; a failed one may or may not be in the file.
AddRecord ==
  /\ leader.pc = "records" /\ leader.i < Len(leader.log)
  /\ \/ /\ manifests' = [manifests EXCEPT ![descriptor_log_].log =
                           Append(@, leader.log[leader.i + 1])]
        /\ \/ leader' = [leader EXCEPT !.i = @ + 1]
           \/ cfg.write_fails /\ Fails("install")
     \/ cfg.write_fails /\ Fails("install") /\ UNCHANGED manifests
  /\ UNCHANGED <<disk, CURRENT, durable, versionSet, next_file_number_,
                 manifest_writers_, job, delete_obsolete_files_lock_,
                 open, torn, crashes, cfg>>

\* Mutant: only a new MANIFEST is synced.
SyncedManifest_OnCreation ==
  IF leader.new_log
  THEN [manifests EXCEPT ![descriptor_log_].synced =
          Len(manifests[descriptor_log_].log)]
  ELSE manifests

SyncedManifest ==
  [manifests EXCEPT ![descriptor_log_].synced = Len(manifests[descriptor_log_].log)]

SyncManifest ==
  /\ leader.pc = "records" /\ leader.i = Len(leader.log)
  /\ \/ /\ manifests' = SyncedManifest
        /\ leader' = [leader EXCEPT !.pc = IF leader.new_log THEN "current"
                                           ELSE "install"]
     \/ cfg.write_fails /\ Fails("install") /\ UNCHANGED manifests
  /\ UNCHANGED <<disk, CURRENT, durable, versionSet, next_file_number_,
                 manifest_writers_, job, delete_obsolete_files_lock_,
                 open, torn, crashes, cfg>>

\* Write and rename the temporary file.
RenameCurrent ==
  /\ leader.pc = "current"
  /\ \/ CURRENT' = leader.pending /\ leader' = [leader EXCEPT !.pc = "fsync"]
     \/ cfg.write_fails /\ Fails("install") /\ UNCHANGED CURRENT
  /\ UNCHANGED <<disk, manifests, durable, versionSet, next_file_number_,
                 manifest_writers_, job, delete_obsolete_files_lock_,
                 open, torn, crashes, cfg>>

FsyncDirectory ==
  /\ leader.pc = "fsync"
  /\ \/ durable' = CURRENT /\ leader' = [leader EXCEPT !.pc = "install"]
     \/ cfg.fsync_fails /\ Fails("install") /\ UNCHANGED durable
  /\ UNCHANGED <<disk, manifests, CURRENT, versionSet, next_file_number_,
                 manifest_writers_, job, delete_obsolete_files_lock_,
                 open, torn, crashes, cfg>>

\* Mutant: only the first writer is told.
WakeWriters_HeadOnly ==
  [job EXCEPT ![Head(leader.batch)] = [@ EXCEPT !.pc = "done", !.ok = leader.ok]]

WakeWriters ==
  [j \in Job |-> IF \E i \in DOMAIN leader.batch : leader.batch[i] = j
                 THEN [job[j] EXCEPT !.pc = "done", !.ok = leader.ok] ELSE job[j]]

DescriptorAfterFailure == IF leader.new_log THEN 0 ELSE descriptor_log_

\* The mutex is taken again: install the version, or take the new MANIFEST back;
\* answer every writer of the group.
Install ==
  /\ leader.pc = "install"
  /\ manifest_writers_' = SubSeq(manifest_writers_, Len(leader.batch) + 1,
                                 Len(manifest_writers_))
  /\ job' = WakeWriters /\ leader' = NoLeader
  /\ LET v == Replay(version, leader.log) IN
     IF leader.ok
     THEN /\ version' = v
          /\ obsolete_files_' = obsolete_files_ \cup Dropped(job, v)
          /\ obsolete_manifests_' = IF leader.new_log
               THEN obsolete_manifests_ \cup {manifest_file_number_}
               ELSE obsolete_manifests_
          /\ manifest_file_number_' = leader.pending
          /\ manifest_edit_count_' = IF leader.new_log THEN 0
               ELSE manifest_edit_count_ + Len(leader.log)
          /\ UNCHANGED <<manifests, descriptor_log_, torn>>
     ELSE /\ obsolete_files_' = obsolete_files_ \cup (v \ References(job, version))
          /\ descriptor_log_' = DescriptorAfterFailure
          /\ manifests' = IF leader.new_log
               THEN [m \in DOMAIN manifests \ {leader.pending} |-> manifests[m]]
               ELSE manifests
          /\ torn' = torn \cup ({leader.pending} \cap {CURRENT})
          /\ UNCHANGED <<version, manifest_file_number_, manifest_edit_count_,
                         obsolete_manifests_>>
  /\ UNCHANGED <<disk, CURRENT, durable, next_file_number_,
                 delete_obsolete_files_lock_, open, crashes, cfg>>

(***************************************************************************)
(* The end of a job: FindObsoleteFiles and PurgeObsoleteFiles.             *)
(***************************************************************************)
min_pending_output(jb) ==
  LET p == {jb[j].pending : j \in Job} \ {0} IN
  IF p = {} THEN MaxNumber + 1 ELSE Min(p)

\* Mutant: only the current version counts.
sst_live_CurrentOnly(jb) == version

sst_live(jb) == References(jb, version)

\* Mutant: the current MANIFEST goes with the older ones.
KeepDescriptor_NewerOnly(m) == m > manifest_file_number_

KeepDescriptor(m) == m >= manifest_file_number_

\* The part of FindObsoleteFiles after the scan, under the mutex, with what
\* PurgeObsoleteFiles will decide from it.  jb is job as the caller leaves it,
\* with what a full scan listed.
GetObsoleteFiles(j, jb) ==
  LET limit == min_pending_output(jb)
      queued == obsolete_files_ \cup Dropped(jb, version)
      taken == {f \in queued : f < limit}
      files == jb[j].files \cup taken
      descriptors == jb[j].manifests \cup obsolete_manifests_
  IN  /\ obsolete_files_' = queued \ taken
      /\ obsolete_manifests_' = {}
      /\ job' = [jb EXCEPT ![j] =
           IF files \cup descriptors = {} THEN IdleJob
           ELSE [jb[j] EXCEPT !.pc = "purge", !.refs = References(jb, version),
                   !.files = {f \in files : f \notin sst_live(jb) /\ f < limit},
                   !.manifests = {m \in descriptors : ~KeepDescriptor(m)}]]

\* A job that failed lets its inputs and its version go, and sleeps for a second
\* without the mutex before it gives up its pending output number.
ReleaseFailed(j) ==
  /\ open = "up" /\ job[j].pc = "done" /\ ~job[j].ok
  /\ job' = [job EXCEPT ![j] = [IdleJob EXCEPT !.pc = "sleep",
                                                   !.pending = job[j].pending]]
  /\ obsolete_files_' = obsolete_files_ \cup Dropped(job', version)
  /\ UNCHANGED <<storage, version, descriptor_log_, manifest_file_number_,
                 manifest_edit_count_, obsolete_manifests_, next_file_number_,
                 manifest_writers_, leader, delete_obsolete_files_lock_,
                 open, torn, crashes, cfg>>

\* Then it asks for a full scan, for which the mutex is released, unless another
\* job is at one.
FinishFailed(j) ==
  /\ open = "up" /\ job[j].pc = "sleep"
  /\ IF delete_obsolete_files_lock_
     THEN /\ GetObsoleteFiles(j, [job EXCEPT ![j] = IdleJob])
          /\ UNCHANGED delete_obsolete_files_lock_
     ELSE /\ job' = [job EXCEPT ![j] = [IdleJob EXCEPT !.pc = "scan", !.scan = TRUE]]
          /\ delete_obsolete_files_lock_' = TRUE
          /\ UNCHANGED <<obsolete_files_, obsolete_manifests_>>
  /\ UNCHANGED <<storage, version, descriptor_log_, manifest_file_number_,
                 manifest_edit_count_, next_file_number_, manifest_writers_, leader,
                 open, torn, crashes, cfg>>

\* A job that succeeded lets everything go at once.
FinishJob(j) ==
  /\ open = "up" /\ job[j].pc = "done" /\ job[j].ok
  /\ GetObsoleteFiles(j, [job EXCEPT ![j] = IdleJob])
  /\ UNCHANGED <<storage, version, descriptor_log_, manifest_file_number_,
                 manifest_edit_count_, next_file_number_, manifest_writers_, leader,
                 delete_obsolete_files_lock_, open, torn, crashes, cfg>>

\* GetChildren, without the mutex.
ScanDirectory(j) ==
  /\ open = "up" /\ job[j].pc = "scan"
  /\ job' = [job EXCEPT ![j].pc = "scanned", ![j].files = disk,
                        ![j].manifests = DOMAIN manifests]
  /\ UNCHANGED <<storage, versionSet, next_file_number_, manifest_writers_, leader,
                 delete_obsolete_files_lock_, open, torn, crashes, cfg>>

FindObsoleteFiles(j) ==
  /\ open = "up" /\ job[j].pc = "scanned"
  /\ GetObsoleteFiles(j, job)
  /\ UNCHANGED <<storage, version, descriptor_log_, manifest_file_number_,
                 manifest_edit_count_, next_file_number_, manifest_writers_, leader,
                 delete_obsolete_files_lock_, open, torn, crashes, cfg>>

\* Deletes what was chosen and drops the references on the versions.
PurgeObsoleteFiles(j) ==
  /\ open = "up" /\ job[j].pc = "purge"
  /\ disk' = disk \ job[j].files
  /\ manifests' = [m \in DOMAIN manifests \ job[j].manifests |-> manifests[m]]
  /\ delete_obsolete_files_lock_' = (delete_obsolete_files_lock_ /\ ~job[j].scan)
  /\ job' = [job EXCEPT ![j] = IdleJob]
  /\ obsolete_files_' = obsolete_files_ \cup Dropped(job', version)
  /\ UNCHANGED <<CURRENT, durable, version, descriptor_log_, manifest_file_number_,
                 manifest_edit_count_, obsolete_manifests_, next_file_number_,
                 manifest_writers_, leader, open, torn, crashes, cfg>>

(***************************************************************************)
(* Crash and recovery.                                                     *)
(***************************************************************************)
\* What may be left of the MANIFEST files.
Truncated ==
  {t \in [DOMAIN manifests -> 0..Max({Len(manifests[m].log) : m \in DOMAIN manifests})] :
     \A m \in DOMAIN manifests : t[m] \in manifests[m].synced..Len(manifests[m].log)}

Crash ==
  /\ open = "up" /\ crashes < cfg.max_crash
  /\ crashes' = crashes + 1 /\ open' = "down"
  /\ \E c \in {CURRENT, durable} : CURRENT' = c /\ durable' = c
  /\ \E t \in Truncated :
       manifests' = [m \in DOMAIN manifests |->
                       [log |-> SubSeq(manifests[m].log, 1, t[m]), synced |-> t[m]]]
  /\ manifest_writers_' = <<>> /\ leader' = NoLeader
  /\ job' = [j \in Job |-> IdleJob] /\ delete_obsolete_files_lock_' = FALSE
  /\ version' = {} /\ descriptor_log_' = 0 /\ manifest_file_number_' = 0
  /\ manifest_edit_count_' = 0 /\ obsolete_files_' = {} /\ obsolete_manifests_' = {}
  /\ next_file_number_' = 0
  /\ UNCHANGED <<disk, torn, cfg>>

\* The next file number of the last record; 0: "no meta-nextfile entry".
NextFile(log) == IF log = <<>> THEN 0 ELSE Last(log).next

\* VersionSet::Recover, CheckConsistency, and the DeleteObsoleteFiles that
\* DBImpl::Open ends with.
Recover ==
  /\ open = "down"
  /\ LET m == manifests[CURRENT]
         v == Replay({}, m.log)
     IN  IF CURRENT \in DOMAIN manifests /\ NextFile(m.log) # 0 /\ v \subseteq disk
         THEN /\ open' = "up" /\ version' = v
              /\ next_file_number_' = NextFile(m.log) + 1
              /\ manifest_file_number_' = CURRENT
              /\ manifest_edit_count_' = Len(m.log)
              /\ disk' = v
              /\ manifests' = [n \in {n \in DOMAIN manifests : n >= CURRENT} |->
                                 manifests[n]]
              /\ torn' = {}
         ELSE /\ open' = "failed"
              /\ UNCHANGED <<version, next_file_number_, manifest_file_number_,
                             manifest_edit_count_, disk, manifests, torn>>
  /\ UNCHANGED <<CURRENT, durable, descriptor_log_, obsolete_files_,
                 obsolete_manifests_, manifest_writers_, leader, job,
                 delete_obsolete_files_lock_, crashes, cfg>>

Writing == \/ GroupWriters \/ WriteSnapshot \/ AddRecord \/ SyncManifest
           \/ RenameCurrent \/ FsyncDirectory \/ Install

Next ==
  \/ \E j \in Job : \/ StartJob(j) \/ OpenOutput(j) \/ FailJob(j) \/ LogAndApply(j)
                    \/ FinishJob(j) \/ ReleaseFailed(j) \/ FinishFailed(j)
                    \/ ScanDirectory(j) \/ FindObsoleteFiles(j)
                    \/ PurgeObsoleteFiles(j)
  \/ Writing
  \/ Crash \/ Recover

Spec == Init /\ [][Next]_vars

\* The thread that leads the group keeps running.
FairSpec == Spec /\ WF_vars(Writing)

(***************************************************************************)
(* Properties.                                                             *)
(***************************************************************************)
\* What a crash now could leave of the log in the MANIFEST m.
Survivors(m) == {SubSeq(manifests[m].log, 1, n) :
                   n \in manifests[m].synced..Len(manifests[m].log)}

\* Whatever the moment of a crash, Recover rebuilds the current version, or the
\* current version and a first part of the group that is being written: an edit
\* that LogAndApply answered with OK is never lost, one that it has not answered
\* is applied whole and in queue order or not at all.  A failed group leaves its
\* records in a MANIFEST that was in use before; of that one nothing is said
\* until the next recovery.
RecoveryIsPrefix ==
  open = "up" =>
    \A m \in {CURRENT, durable} \ torn :
      /\ m \in DOMAIN manifests
      /\ \A log \in Survivors(m) :
           \E n \in 0..Len(leader.log) :
             Replay({}, log) = Replay(version, SubSeq(leader.log, 1, n))

\* No purge and no full scan deletes a file in use: one of the current version or
\* of a version that a job still holds a reference on, or one that a running job
\* has written and not installed yet, which only pending_outputs_ protects.
FilesInUseExist ==
  /\ References(job, version) \subseteq disk
  /\ \A j \in Job : job[j].pc \in {"written", "queued"} => job[j].out \in disk

\* CURRENT names a MANIFEST that exists, after any crash too, whatever rolls and
\* purges are under way and whatever write fails.  The exception is a directory
\* sync that fails: ProcessManifestWrites then deletes the MANIFEST that CURRENT
\* names already.
CurrentExists ==
  {CURRENT, durable} \subseteq DOMAIN manifests \cup (torn \ {manifest_file_number_})

\* No number is handed out twice among what is alive: next_file_number_ is above
\* every file of the version and every MANIFEST that CURRENT can name.
NumbersFresh ==
  open = "up" => \A f \in version \cup {CURRENT, durable} : f < next_file_number_

\* db_io_failure_test.cc tests for "(b) Log record containing F is written to
\* MANIFEST file, but Sync() fails (c) GC deletes F (d) After reopening DB, reads
\* fail since deleted F is named in log record".  It does not happen if every file
\* that the MANIFEST would name after a crash is on disk.
NamedFilesExist ==
  open = "up" =>
    \A m \in {CURRENT, durable} \cap DOMAIN manifests :
      \A log \in Survivors(m) : Replay({}, log) \subseteq disk

\* Every writer that LogAndApply queued is answered, in whatever group.
WritersAnswered ==
  \A j \in Job : (job[j].pc = "queued") ~> (job[j].pc # "queued")
=============================================================================
