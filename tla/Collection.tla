----------------------------- MODULE Collection -----------------------------
(***************************************************************************)
(* db/compaction_job.cc: the record loops of a garbage collection, put     *)
(* together with what runs beside them: writes, flushes, compactions,      *)
(* snapshots, reads through the FileMap, and a reopen of the store.        *)
(*                                                                         *)
(* A collection reads a set of blobs of the version it started from and    *)
(* writes their live records to new blobs.  It leaves the LSM entries      *)
(* alone: an entry keeps the number of the blob its record was first       *)
(* written to, and a read asks the FileMap for the blob that has it now.   *)
(* The two loops in use are ProcessGarbageCollection ("partition") and     *)
(* ProcessZNSNonPartitionGarbageCollectionWithNoLookback ("zone").         *)
(***************************************************************************)
EXTENDS Integers, Sequences, FiniteSets, TLC, SequencesExt, FiniteSetsExt, Functions

CONSTANTS
  Key,         \* user keys as numbers in their order; 0 is the empty key
  MaxSeq,      \* bound: sequence numbers 1..MaxSeq are given out
  MaxFile,     \* bound: blob numbers 1..MaxFile are given out
  MaxSnapshot, \* bound: snapshots held at a time
  MaxReopen,   \* bound: times the store is closed and opened
  MayFail      \* whether writing the outputs of a collection may fail

ASSUME CollectionAssumption ==
  /\ Key \subseteq Nat
  /\ {MaxSeq, MaxFile, MaxSnapshot, MaxReopen} \subseteq Nat
  /\ MayFail \in BOOLEAN

VARIABLES
  last_sequence,
  snapshots,         \* sequence numbers of the snapshots held
  index,             \* entries of the SSTs of the current version
  blobs,             \* the blobs that were installed and their records
  collected,         \* the inputs of installed collections
  nodes_,            \* the FileMap
  version_number,    \* of the current version
  next_file_number_,
  compaction,        \* the compaction running: the entries it reads and writes
  collection,        \* the collection running: its inputs and outputs
  stopped,           \* background work stopped by an unrecoverable error
  lost,              \* a version was given up after SaveTo since the last open
  reopens

vars == <<last_sequence, snapshots, index, blobs, collected, nodes_, version_number,
          next_file_number_, compaction, collection, stopped, lost, reopens>>

EmptyKey == 0
NoFile == 0
Kind == {"partition", "zone"}
None == [pc |-> "none"]

(* The FileMap as FileMap.tla has it.  SaveTo fills it node by node before *)
(* the version is current; here it is one step, which readers of installed *)
(* versions cannot tell (FileMapProofs, MultiVersion).                     *)
Map == INSTANCE FileMap WITH
         Key <- {<<k, 0>> : k \in Key}, MaxVersion <- MaxFile, MaxOutputs <- MaxFile,
         MaxOpen <- MaxReopen, ManifestMayFail <- FALSE, Reserved <- 32, Reader <- {},
         current_version_number_ <- version_number, builder <- << >>, installed <- {},
         lost <- {}, blobs <- {}, opens <- 1, first_file <- 1, query <- << >>

(* Reads and compactions compare user keys.  A collection passes the       *)
(* internal comparator: the keys here differ before their last 8 bytes.    *)
QueryFileMeta(fn, k, cmp) == Map!QueryFileMeta(fn, <<k, 0>>, cmp, version_number)
----------------------------------------------------------------------------
(* Blobs and versions *)

Keys(recs) == {r.k : r \in recs}
NewNode(recs, v) ==
  [version_num |-> v, children |-> << >>,
   range |-> [lo |-> <<Min(Keys(recs)), 0>>, hi |-> <<Max(Keys(recs)), 0>>]]

(* VersionBuilder::SaveTo: AddNode for each new blob, then AddDerivedNode  *)
(* for each input and output.  An input of before the last open has no     *)
(* node; its edge is left out (FileMap, SaveToAsserts).                    *)
SaveTo(outs, inputs, v) ==
  LET order == SetToSortSeq(DOMAIN outs, <)
      derived == [f \in DOMAIN nodes_ |->
                    IF f \in inputs THEN [nodes_[f] EXCEPT !.children = @ \o order]
                    ELSE nodes_[f]]
  IN  [f \in DOMAIN nodes_ \cup DOMAIN outs |->
         IF f \in DOMAIN outs THEN NewNode(outs[f].recs, v) ELSE derived[f]]

(* current_version_number_++.  A version without new blobs shares the      *)
(* greatest number in the tree, as no query could tell another from it.    *)
NextVersion(outs) ==
  LET latest == Max({version_number} \cup {nodes_[f].version_num : f \in DOMAIN nodes_})
  IN  IF outs = << >> THEN latest ELSE latest + 1

(* CompactionIterator without merges: the newest entry of a key in each    *)
(* snapshot stripe stays.  A deletion that no snapshot needs goes, as the  *)
(* output is the bottommost level.                                         *)
Stripe(e, snaps) == {s \in snaps : e.seq <= s}
Hidden(e, es, snaps) ==
  \E f \in es : f.k = e.k /\ f.seq > e.seq /\ Stripe(f, snaps) = Stripe(e, snaps)
Surviving(es, snaps) ==
  {e \in es :
     /\ ~Hidden(e, es, snaps)
     /\ ~(e.type = "deletion" /\ Stripe(e, snaps) = snaps)}

Init ==
  /\ last_sequence = 0
  /\ snapshots = {}
  /\ index = {}
  /\ blobs = << >> /\ collected = {}
  /\ nodes_ = << >>
  /\ version_number = 0
  /\ next_file_number_ = 1
  /\ compaction = None /\ collection = None
  /\ stopped = FALSE /\ lost = FALSE
  /\ reopens = 0
----------------------------------------------------------------------------
(* Writes, snapshots and flushes *)

(* One memtable is written and flushed: each of the keys is put or deleted *)
(* once.  BuildTable writes the values to a blob and entries with its      *)
(* number to an SST.                                                       *)
Flush(ks, puts) ==
  LET seqOf(k) == last_sequence + Cardinality({j \in ks : j <= k})
      f == next_file_number_
      outs == IF puts = {} THEN << >>
              ELSE f :> [recs |-> {[k |-> k, seq |-> seqOf(k)] : k \in puts},
                         finished |-> TRUE]
  IN  /\ ~stopped
      /\ ks # {}
      /\ last_sequence + Cardinality(ks) <= MaxSeq
      /\ f <= MaxFile
      /\ last_sequence' = last_sequence + Cardinality(ks)
      /\ index' = index \cup {[k |-> k, seq |-> seqOf(k),
                              type |-> IF k \in puts THEN "index" ELSE "deletion",
                              fn |-> IF k \in puts THEN f ELSE NoFile] : k \in ks}
      /\ version_number' = NextVersion(outs)
      /\ nodes_' = SaveTo(outs, {}, version_number')
      /\ blobs' = outs @@ blobs
      /\ next_file_number_' = f + Cardinality(DOMAIN outs)
      /\ UNCHANGED <<snapshots, collected, compaction, collection, stopped, lost, reopens>>

GetSnapshot ==
  /\ Cardinality(snapshots) < MaxSnapshot
  /\ last_sequence > 0
  /\ snapshots' = snapshots \cup {last_sequence}
  /\ UNCHANGED <<last_sequence, index, blobs, collected, nodes_, version_number,
                 next_file_number_, compaction, collection, stopped, lost, reopens>>

ReleaseSnapshot ==
  /\ \E s \in snapshots : snapshots' = snapshots \ {s}
  /\ UNCHANGED <<last_sequence, index, blobs, collected, nodes_, version_number,
                 next_file_number_, compaction, collection, stopped, lost, reopens>>
----------------------------------------------------------------------------
(* Compactions *)

(* A compaction takes the entries of some keys from the current version.   *)
(* An entry goes to the output with the number of the blob in which its    *)
(* value was found (TransToCombined, then TransToSeparate).  One that      *)
(* would change no entry is left out.                                      *)
StartCompaction ==
  /\ compaction = None /\ ~stopped
  /\ \E ks \in SUBSET Key :
       LET ins == {e \in index : e.k \in ks}
           outs == {[e EXCEPT !.fn = IF e.type = "index" THEN QueryFileMeta(e.fn, e.k, "user")
                                     ELSE @] : e \in Surviving(ins, snapshots)}
       IN
       /\ \A e \in ins : e.type = "index" => QueryFileMeta(e.fn, e.k, "user") # Map!Corruption
       /\ ins # outs
       /\ compaction' = [pc |-> "run", ins |-> ins, outs |-> outs]
  /\ UNCHANGED <<last_sequence, snapshots, index, blobs, collected, nodes_,
                 version_number, next_file_number_, collection, stopped, lost, reopens>>

InstallCompaction ==
  /\ compaction.pc = "run"
  /\ version_number' = NextVersion(<< >>)
  /\ index' = (index \ compaction.ins) \cup compaction.outs
  /\ compaction' = None
  /\ UNCHANGED <<last_sequence, snapshots, blobs, collected, nodes_, next_file_number_,
                 collection, stopped, lost, reopens>>
----------------------------------------------------------------------------
(* Collections *)

(* The merging iterator over the inputs: by key, newest first.             *)
Before(a, b) == a.k < b.k \/ (a.k = b.k /\ a.seq > b.seq)
InputRecords(inputs) ==
  LET all == UNION {{[k |-> r.k, seq |-> r.seq, fn |-> f] : r \in blobs[f].recs} : f \in inputs}
  IN  [i \in 1 .. Cardinality(all) |->
         CHOOSE r \in all : Cardinality({q \in all : Before(q, r)}) = i - 1]

(* GetKey with a record's own sequence number.                             *)
EntriesOf(r) == {e \in index : e.k = r.k /\ e.seq = r.seq /\ e.type = "index"}

(* Mutant: the number in the entry is compared, not the FileMap's answer.  *)
EntryLeadsTo_ByNumber(r) == \E e \in EntriesOf(r) : e.fn = r.fn

(* ProcessGarbageCollection keeps a record when the entry with its very    *)
(* sequence number leads to this very file.                                *)
EntryLeadsTo(r) ==
  \E e \in EntriesOf(r) : QueryFileMeta(e.fn, e.k, "internal") = r.fn
KeptByPartition(recs) == SelectSeq(recs, EntryLeadsTo)

(* The no-look-back loop does not ask the LSM tree: it goes on with the    *)
(* newest record of each key.  prev_user_key is empty before the first     *)
(* record, so the record of the empty key is overwritten by the next key.  *)
NewestRecords(recs) ==
  SelectSeq(recs, LAMBDA r :
    /\ \A q \in Range(recs) : q.k = r.k => q.seq <= r.seq
    /\ r.k = EmptyKey => \A q \in Range(recs) : q.k = r.k)
KeptByZone(recs) ==
  SelectSeq(NewestRecords(recs), LAMBDA r : QueryFileMeta(r.fn, r.k, "internal") = r.fn)

(* What a loop asks the FileMap, failing with Corruption on one that it    *)
(* does not know: each input it meets, by the first key it meets it with,  *)
(* then the number in the entry of each record, or, without looking back,  *)
(* the input again.                                                        *)
InputsFound(kind, recs) ==
  LET met == IF kind = "partition" THEN recs ELSE NewestRecords(recs)
      first == {i \in DOMAIN met : \A j \in 1 .. i - 1 : met[j].fn # met[i].fn}
      asked == IF kind = "partition" THEN UNION {EntriesOf(r) : r \in Range(met)}
               ELSE Range(met)
  IN  \A x \in {met[i] : i \in first} \cup asked :
        QueryFileMeta(x.fn, x.k, "internal") # Map!Corruption

Kept(kind, recs) == IF kind = "partition" THEN KeptByPartition(recs) ELSE KeptByZone(recs)

(* An output is closed after the record that takes it past the target size *)
(* and the next one is opened at once: when that was the last record, the  *)
(* last output is empty.                                                   *)
Cut(kept, S) ==
  LET ends == SetToSortSeq(S \cup {0}, <) \o <<Len(kept)>>
  IN  [i \in 1 .. Cardinality(S) + 1 |-> SubSeq(kept, ends[i] + 1, ends[i + 1])]

(* Nothing to gain: a single unmarked input that lost no record, or no     *)
(* record left.  Only the first output is looked at.                       *)
Dropped(inputs, marked, recs, cut) ==
  \/ ~marked /\ Cardinality(inputs) = 1 /\ Len(recs) = Len(cut[1])
  \/ cut[1] = << >>

(* The outputs, which stay in the list whatever happened to them:          *)
(* "finished" tells a table from an abandoned file.  An empty output is    *)
(* abandoned by the partition loop and finished by the other.              *)
Outputs(kind, cut) ==
  [f \in next_file_number_ .. next_file_number_ + Len(cut) - 1 |->
     LET recs == Range(cut[f - next_file_number_ + 1]) IN
     [recs |-> {[k |-> r.k, seq |-> r.seq] : r \in recs},
      finished |-> recs # {} \/ kind = "zone"]]

(* A fault in the partition loop: an early return leaves no output and no  *)
(* error; an error in the loop abandons the last output; a failed Sync of  *)
(* the last output leaves the table.  Its status is lost in every case, as *)
(* ProcessZNSGarbageCollection overwrites it.                              *)
PartitionFaults(outs) ==
  {<< >>, [outs EXCEPT ![Max(DOMAIN outs)].finished = FALSE], outs}

(* Mutant: paranoid_checks off, the outputs are not read back.             *)
VerifyFiles_Skipped(outs) == TRUE

VerifyFiles(outs) == \A f \in DOMAIN outs : outs[f].finished

(* Failures: lack of space is a soft error, after which background work    *)
(* goes on; Corruption is not recoverable.                                 *)
Failed(error) == [pc |-> "failed", error |-> error]

(* A collection up to Install.  Its inputs are blobs that no installed     *)
(* collection has taken: such a blob leaves the version, as VersionBuilder *)
(* has it (where OutputsKept tells when it does not).  The loop reads      *)
(* immutable files, the version it holds and the answers of the FileMap    *)
(* for it, so that it does not matter when in its course it is run.        *)
(* Numbers of outputs that come to nothing are given out again here, as    *)
(* nothing is left of them, and a collection without outputs ends at once, *)
(* as it installs an empty edit.                                           *)
StartCollection(kind) ==
  /\ collection = None /\ ~stopped
  /\ next_file_number_ <= MaxFile
  /\ \E inputs \in SUBSET (DOMAIN blobs \ collected) :
       /\ Cardinality(inputs) \in {1, 2}
       /\ LET recs == InputRecords(inputs)
              kept == Kept(kind, recs)
              Fails(error) == /\ collection' = Failed(error)
                              /\ UNCHANGED next_file_number_
              Ends(outs) ==
                IF outs = << >> THEN UNCHANGED <<collection, next_file_number_>>
                ELSE IF VerifyFiles(outs)
                THEN /\ collection' = [pc |-> "install", kind |-> kind, inputs |-> inputs,
                                       outs |-> outs]
                     /\ next_file_number_' = next_file_number_ + Cardinality(DOMAIN outs)
                ELSE Fails("corruption")
          IN  \E S \in SUBSET DOMAIN kept, marked \in BOOLEAN :
                LET cut == Cut(kept, S)
                    outs == IF Dropped(inputs, marked, recs, cut) THEN << >>
                            ELSE Outputs(kind, cut)
                IN  /\ next_file_number_ + Len(cut) <= MaxFile + 1
                    /\ \/ InputsFound(kind, recs) /\ Ends(outs)
                       \/ ~InputsFound(kind, recs) /\ Fails("corruption")
                       \/ MayFail /\ kind = "zone" /\ Fails("no space")
                       \/ /\ MayFail /\ kind = "partition" /\ InputsFound(kind, recs) /\ outs # << >>
                          /\ \E o \in PartitionFaults(outs) : Ends(o)
  /\ UNCHANGED <<last_sequence, snapshots, index, blobs, collected, nodes_, version_number,
                 compaction, stopped, lost, reopens>>

(* EncodeTo refuses a file without a smallest and a largest key.           *)
Encodes(outs) == \A f \in DOMAIN outs : outs[f].recs # {}

(* InstallCompactionResults: the outputs and their dependence on every     *)
(* input.                                                                  *)
InstallCollection ==
  LET outs == collection.outs IN
  /\ collection.pc = "install"
  /\ Encodes(outs)
  /\ version_number' = NextVersion(outs)
  /\ nodes_' = SaveTo(outs, collection.inputs, version_number')
  /\ blobs' = outs @@ blobs
  /\ collected' = collected \cup collection.inputs
  /\ collection' = None
  /\ UNCHANGED <<last_sequence, snapshots, index, next_file_number_, compaction, stopped, lost,
                 reopens>>

(* The same edit when it cannot be encoded: SaveTo has already run, so the *)
(* nodes of the version that is given up stay in the tree.                 *)
LoseCollection ==
  LET outs == collection.outs
      tables == Restrict(outs, {f \in DOMAIN outs : outs[f].recs # {}}) IN
  /\ collection.pc = "install"
  /\ ~Encodes(outs)
  /\ nodes_' = SaveTo(tables, collection.inputs, NextVersion(outs))
  /\ collection' = None
  /\ stopped' = TRUE /\ lost' = TRUE
  /\ UNCHANGED <<last_sequence, snapshots, index, blobs, collected, version_number,
                 next_file_number_, compaction, reopens>>

(* The collection failed: its files are removed.                           *)
AbortCollection ==
  /\ collection.pc = "failed"
  /\ collection' = None
  /\ stopped' = (stopped \/ collection.error = "corruption")
  /\ UNCHANGED <<last_sequence, snapshots, index, blobs, collected, nodes_, version_number,
                 next_file_number_, compaction, lost, reopens>>
----------------------------------------------------------------------------
(* The store is closed and opened.  Recover replays the edits, but calls   *)
(* the SaveTo that does not fill the FileMap.                              *)
Reopen ==
  /\ reopens < MaxReopen
  /\ compaction = None /\ collection = None
  /\ reopens' = reopens + 1
  /\ nodes_' = << >>
  /\ version_number' = 1
  /\ stopped' = FALSE /\ lost' = FALSE
  /\ snapshots' = {}
  /\ UNCHANGED <<last_sequence, index, blobs, collected, next_file_number_, compaction,
                 collection>>

Next ==
  \/ \E ks \in SUBSET Key : \E puts \in SUBSET ks : Flush(ks, puts)
  \/ GetSnapshot \/ ReleaseSnapshot
  \/ StartCompaction \/ InstallCompaction
  \/ \E kind \in Kind : StartCollection(kind)
  \/ InstallCollection \/ LoseCollection \/ AbortCollection
  \/ Reopen

Spec == Init /\ [][Next]_vars
----------------------------------------------------------------------------
(* Properties *)

(* What a read at a sequence number sees.                                  *)
Visible(k, s) == {e \in index : e.k = k /\ e.seq <= s}
Newest(k, s) == CHOOSE e \in Visible(k, s) : \A f \in Visible(k, s) : f.seq <= e.seq

(* TransToCombined and fetch_buffer: the blob the FileMap names was        *)
(* installed, no collection has taken it since, and it has a record with   *)
(* this sequence number.                                                   *)
Readable(e) ==
  e.type = "index" =>
    LET f == QueryFileMeta(e.fn, e.k, "user") IN
    f \in DOMAIN blobs \ collected /\ [k |-> e.k, seq |-> e.seq] \in blobs[f].recs

ReadsAt(s, Known(_)) ==
  \A k \in Key : Visible(k, s) # {} /\ Known(Newest(k, s)) => Readable(Newest(k, s))

(* A Get of the present state finds its value, whatever flushes,           *)
(* compactions and collections of either kind ran beside each other since  *)
(* it was written.  Two cases are left out, in which the code does fail:   *)
(* entries of before the last open, whose number the FileMap does not      *)
(* know, and the time after a version was given up that SaveTo had run     *)
(* for, when a compaction that was under way still installs a version that *)
(* finds the nodes it left behind.                                         *)
LatestReadable == ~lost => ReadsAt(last_sequence, LAMBDA e : e.fn \in DOMAIN nodes_)

(* The partition loop looks back: when its outputs are about to be         *)
(* installed, every record that an SST leads to in an input is in one of   *)
(* them, the versions that only a snapshot reads included, although        *)
(* flushes and compactions changed the SSTs since the loop looked at them. *)
(* That a read finds it there is not said for the older of two versions    *)
(* that an output was closed between: the FileMap knows files by user      *)
(* keys, and names the first output for both.                              *)
PartitionKeepsVersions ==
  collection.pc = "install" /\ collection.kind = "partition" =>
    \A e \in index :
      LET f == QueryFileMeta(e.fn, e.k, "user")
          r == [k |-> e.k, seq |-> e.seq] IN
      e.type = "index" /\ f \in collection.inputs /\ r \in blobs[f].recs =>
        \E g \in DOMAIN collection.outs : r \in collection.outs[g].recs

(* Faults of a collection, whose status the partition loop loses, never    *)
(* make a file part of a version that is no table or has no records.       *)
InstalledTables ==
  \A b \in DOMAIN blobs : blobs[b].finished /\ blobs[b].recs # {}

(* "observe a stable snapshot of the current DB state": a read at a        *)
(* snapshot that is held finds its value too.                              *)
SnapshotsReadable ==
  \A s \in snapshots : ReadsAt(s, LAMBDA e : e.fn \in DOMAIN nodes_)
============================================================================
