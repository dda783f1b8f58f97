------------------------- MODULE CompactionIterator -------------------------
(***************************************************************************)
(* db/compaction_iterator.cc with db/merge_helper.cc, driven by the loop   *)
(* of CompactionJob::ProcessKeyValueCompaction: which versions of a key a  *)
(* compaction keeps, what it makes of them, and how they are cut into      *)
(* files.                                                                  *)
(*                                                                         *)
(* A record is [k, seq, type, sep, val, fn, bseq].  "sep" tells the index  *)
(* types (kTypeValueIndex, kTypeMergeIndex) from the plain ones.  "val" is *)
(* the writes a value is made of, oldest first.  "fn" is the file the      *)
(* value is in (file_number() of the LazyBuffer) and "bseq" the sequence   *)
(* number it has there.                                                    *)
(***************************************************************************)
EXTENDS Integers, Sequences, FiniteSets, SequencesExt, FiniteSetsExt

CONSTANTS
  KeySeqs,      \* the keys of the records of an input, in order: a set of sequences
  MaxSnapshots  \* bound: snapshots held

ASSUME IteratorAssumption ==
  /\ \A ks \in KeySeqs :
       ks \in Seq(Nat \ {0}) /\ \A i, j \in DOMAIN ks : i < j => ks[i] <= ks[j]
  /\ MaxSnapshots \in Nat

VARIABLES
  input,       \* the merged input of the compaction
  opt,         \* the compaction and its options
  pos,         \* where the input iterator is
  key,         \* current_user_key_, 0 when has_current_user_key_ is false
  snapshot,    \* current_user_key_snapshot_
  has_outputted_key_,
  clear_and_output_next_key_,
  merge_out,   \* what the merge_out_iter_ has still to return
  files,       \* finished outputs: their records and their dependence
  output,      \* records of the output that is open
  dependence,  \* files its index records depend on
  counts       \* iter_stats_: num_input_records and deprecated_count

vars == <<input, opt, pos, key, snapshot, has_outputted_key_, clear_and_output_next_key_,
          merge_out, files, output, dependence, counts>>
iter == <<pos, key, snapshot, has_outputted_key_, clear_and_output_next_key_, merge_out, counts>>

kMaxSequenceNumber == 99
NoFile == -1
NewBlob == 98
BelowWrite == -1   \* the write a lower level has of each key
ChangedByFilter == -2

Type == {"value", "merge", "deletion", "single"}
Holds(r) == r.type \in {"value", "merge"}
----------------------------------------------------------------------------
(* Inputs *)

(* A key that SingleDelete is used on has no deletes and no merges, and no *)
(* put over a put.  h is the key's history.                                *)
SingleDeletesPaired(h) ==
  (\E i \in DOMAIN h : h[i] = "single") =>
    \A i \in DOMAIN h :
      /\ h[i] \in {"value", "single"}
      /\ i > 1 /\ h[i] = "value" => h[i - 1] = "single"

(* The records of a key come newest first.                                 *)
Inputs(ks, sep, below) ==
  LET seqOf(i) == Cardinality({j \in DOMAIN ks : ks[j] > ks[i] \/ (ks[j] = ks[i] /\ j >= i)})
      history(ts, k) == (IF below = "put" THEN <<"value">> ELSE << >>)
                          \o [j \in 1 .. Cardinality({i \in DOMAIN ks : ks[i] = k}) |->
                                ts[Max({i \in DOMAIN ks : ks[i] = k}) + 1 - j]]
      record(i, t) == LET holds == t \in {"value", "merge"} IN
        [k |-> ks[i], seq |-> seqOf(i), type |-> t, sep |-> sep /\ holds,
         val |-> IF holds THEN <<seqOf(i)>> ELSE << >>,
         fn |-> IF holds THEN seqOf(i) ELSE NoFile, bseq |-> seqOf(i)]
  IN  {[i \in DOMAIN ks |-> record(i, ts[i])] :
         ts \in {t \in [DOMAIN ks -> Type] :
                   \A k \in Range(ks) : SingleDeletesPaired(history(t, k))}}

(* The compaction: what there is of the keys below its output, how values  *)
(* are separated, what the merge operator returns, the snapshots, the      *)
(* earliest one that a transaction checks writes against, the sequence     *)
(* number from which deletes are preserved, and whether there is a         *)
(* compaction filter.                                                      *)
Below == {"bottommost", "nothing", "range", "put"}

(* A merge operator builds a new value or returns one it was given: the    *)
(* newest, as PutOperator does, or an older one, as MaxOperator may.       *)
Operator == {"build", "newest", "oldest"}

Options(below, n) ==
  {o \in [below : {below}, separation : {"separate", "rebuild", "combine"}, operator : Operator,
          snapshots : {S \in SUBSET (1 .. n) : Cardinality(S) <= MaxSnapshots},
          conflict : 1 .. n \cup {kMaxSequenceNumber}, preserve : {3, kMaxSequenceNumber},
          filter : BOOLEAN] :
     /\ o.conflict \in o.snapshots \cup {kMaxSequenceNumber}
     /\ \/ o.operator = "build"
        \/ /\ o.separation = "separate" /\ ~o.filter
           /\ o.conflict = kMaxSequenceNumber /\ o.preserve = kMaxSequenceNumber
     /\ \/ o.conflict = kMaxSequenceNumber /\ o.preserve = kMaxSequenceNumber
        \/ o.conflict = kMaxSequenceNumber /\ ~o.filter /\ o.separation = "separate"
        \/ o.preserve = kMaxSequenceNumber /\ ~o.filter /\ o.separation = "separate"}

Init ==
  /\ \E ks \in KeySeqs, below \in Below, sep \in BOOLEAN :
       /\ input \in Inputs(ks, sep, below)
       /\ opt \in Options(below, Len(ks))
       /\ opt.operator # "build" => \E i \in DOMAIN input : input[i].type = "merge"
  /\ pos = 1
  /\ key = 0 /\ snapshot = 0
  /\ has_outputted_key_ = FALSE /\ clear_and_output_next_key_ = FALSE
  /\ merge_out = << >>
  /\ files = << >> /\ output = << >> /\ dependence = {}
  /\ counts = [num_input_records |-> 0, deprecated |-> 0]
----------------------------------------------------------------------------
(* Snapshots *)

earliest_snapshot_ == IF opt.snapshots = {} THEN kMaxSequenceNumber ELSE Min(opt.snapshots)
latest_snapshot_ == IF opt.snapshots = {} THEN 0 ELSE Max(opt.snapshots)
bottommost_level_ == opt.below = "bottommost"
KeyNotExistsBeyondOutputLevel == opt.below \in {"bottommost", "nothing"}

(* Mutant: a snapshot does not see the write with its own number.          *)
findEarliestVisibleSnapshot_Strict(seq) ==
  LET later == {s \in opt.snapshots : s > seq}
      earlier == {s \in opt.snapshots : s <= seq}
  IN  [cur |-> IF later = {} THEN kMaxSequenceNumber ELSE Min(later),
       prev |-> IF earlier = {} THEN 0 ELSE Max(earlier)]

(* The earliest snapshot that sees a write, and the one before it.         *)
findEarliestVisibleSnapshot(seq) ==
  LET later == {s \in opt.snapshots : s >= seq}
      earlier == {s \in opt.snapshots : s < seq}
  IN  [cur |-> IF later = {} THEN kMaxSequenceNumber ELSE Min(later),
       prev |-> IF earlier = {} THEN 0 ELSE Max(earlier)]

(* Mutant: preserve_deletes is forgotten.                                  *)
ikeyNotNeeded_Always(r) == TRUE

(* ikeyNotNeededForIncrementalSnapshot *)
ikeyNotNeeded(r) == r.seq < opt.preserve
----------------------------------------------------------------------------
(* PrepareOutput *)

(* Mutant: the latest snapshot decides.                                    *)
zero_sequence_Latest(r) ==
  IF /\ bottommost_level_ /\ ikeyNotNeeded(r) /\ r.type # "merge"
     /\ (opt.snapshots = {} \/ r.seq <= latest_snapshot_)
  THEN [r EXCEPT !.seq = 0] ELSE r

zero_sequence(r) ==
  IF /\ bottommost_level_ /\ ikeyNotNeeded(r) /\ r.type # "merge"
     /\ r.seq <= earliest_snapshot_
  THEN [r EXCEPT !.seq = 0] ELSE r

(* Mutant: the sequence number is zeroed although the blob keeps its own.  *)
InputAsBlob_Zeroed(r) == [zero_sequence(r) EXCEPT !.sep = TRUE]

(* The input that has the value becomes its blob.                          *)
InputAsBlob(r) == [r EXCEPT !.sep = TRUE]
Combined(r) == zero_sequence([r EXCEPT !.sep = FALSE])

(* A value goes to a new blob with the key as it is after zeroing.  A      *)
(* table builder that needs a second pass does not support this.           *)
ToNewBlob(r) ==
  LET z == Combined(r) IN {z, [z EXCEPT !.sep = TRUE, !.fn = NewBlob, !.bseq = z.seq]}

(* What may become of r: small values stay combined, and the blobs to      *)
(* rebuild are some of the input's.                                        *)
PrepareOutput(r) ==
  IF ~Holds(r) THEN {zero_sequence(r)}
  ELSE IF ~r.sep
  THEN IF opt.separation = "combine" THEN {zero_sequence(r)}
       ELSE {zero_sequence(r)}
              \cup (IF opt.separation = "rebuild" \/ r.fn = NoFile THEN ToNewBlob(r) ELSE {})
              \cup (IF r.fn # NoFile THEN {InputAsBlob(r)} ELSE {})
  ELSE IF opt.separation = "combine" THEN {Combined(r)}
  ELSE {r} \cup (IF opt.separation = "rebuild" /\ r.fn # NoFile THEN ToNewBlob(r) ELSE {})
----------------------------------------------------------------------------
(* The loop of ProcessKeyValueCompaction *)

(* Mutant: a full output is closed even when its last key goes on.         *)
EndsOutput_AnyKey(r) == output # << >>

(* A full output is not closed before another version of its last key.     *)
EndsOutput(r) == output # << >> /\ Last(output).k # r.k

(* A record is added to the open output, or to a new one.                  *)
Add(r) ==
  LET dep == IF r.sep THEN {r.fn} ELSE {} IN
  \/ /\ output' = Append(output, r)
     /\ dependence' = dependence \cup dep
     /\ UNCHANGED files
  \/ /\ EndsOutput(r)
     /\ files' = Append(files, [recs |-> output, dep |-> dependence])
     /\ output' = <<r>>
     /\ dependence' = dep

(* The iterator returns r.  The first record returned is not noted.        *)
Return(r) ==
  /\ \E p \in PrepareOutput(r) : Add(p)
  /\ has_outputted_key_' = (output # << >>)

(* The iterator drops the record it is at.                                 *)
Skip(r) ==
  /\ has_outputted_key_' = (has_outputted_key_ /\ r.k = key)
  /\ UNCHANGED <<files, output, dependence>>
----------------------------------------------------------------------------
(* NextFromInput *)

Here == input[pos]
FirstOfKey == key # Here.k
LastSnapshot == IF FirstOfKey THEN 0 ELSE snapshot
Stripe == findEarliestVisibleSnapshot(Here.seq)

(* Whether the record at i is of the current key, and whether no earlier   *)
(* snapshot sees it.                                                       *)
SameKey(i) == i \in DOMAIN input /\ input[i].k = Here.k

SameStripe(i) == SameKey(i) /\ input[i].seq > Stripe.prev

(* InvokeFilterIfNeeded: the newest version of a key, when no snapshot     *)
(* sees it, may be turned into a deletion or given another value.          *)
Filtered ==
  IF opt.filter /\ FirstOfKey /\ Here.type = "value" /\ Here.seq > latest_snapshot_
  THEN {Here,
        [Here EXCEPT !.type = "deletion", !.sep = FALSE, !.val = << >>, !.fn = NoFile],
        [Here EXCEPT !.sep = FALSE, !.val = <<ChangedByFilter>>, !.fn = NoFile]}
  ELSE {Here}

(* What every turn of the loop begins with.                                *)
Turn ==
  /\ merge_out = << >>
  /\ pos \in DOMAIN input
  /\ snapshot' = Stripe.cur
  /\ counts' = [num_input_records |-> counts.num_input_records + 1,
                deprecated |-> counts.deprecated
                  + IF ~FirstOfKey /\ Here.sep /\ Here.type = "value" THEN 1 ELSE 0]
  /\ UNCHANGED <<input, opt>>

(* Optimization 3: the put under a SingleDelete that was kept is kept      *)
(* without its value.  The code asserts that the put is not separated and  *)
(* that the two are in one stripe.  A build without assertions goes on     *)
(* with an index entry whose value is in no file.                          *)
ClearedPut ==
  /\ Turn
  /\ clear_and_output_next_key_
  /\ Return([Here EXCEPT !.val = << >>, !.fn = NoFile])
  /\ pos' = pos + 1
  /\ key' = Here.k
  /\ clear_and_output_next_key_' = FALSE
  /\ UNCHANGED merge_out

(* Mutant: a SingleDelete and its put go whoever checks for conflicts.     *)
Rule2_Dropped(r) == TRUE

(* Rule 2: the write need not leave a trace for write-conflict checks.     *)
Rule2(r) == (has_outputted_key_ /\ ~FirstOfKey) \/ r.seq <= opt.conflict

SingleDelete ==
  /\ Turn
  /\ ~clear_and_output_next_key_
  /\ Here.type = "single"
  /\ UNCHANGED merge_out
  /\ \/ /\ SameStripe(pos + 1)
        /\ input[pos + 1].type = "single"
        /\ Skip(Here)
        /\ pos' = pos + 1 /\ key' = Here.k
        /\ UNCHANGED clear_and_output_next_key_
     \/ /\ SameStripe(pos + 1)
        /\ input[pos + 1].type # "single"
        /\ Rule2(Here)
        /\ Skip(Here)
        /\ pos' = pos + 2 /\ key' = Here.k
        /\ UNCHANGED clear_and_output_next_key_
     \/ /\ SameStripe(pos + 1)
        /\ input[pos + 1].type # "single"
        /\ ~Rule2(Here)
        /\ Return(Here)
        /\ pos' = pos + 1 /\ key' = Here.k
        /\ clear_and_output_next_key_' = TRUE
     \/ /\ SameKey(pos + 1) /\ ~SameStripe(pos + 1)
        /\ Return(Here)
        /\ pos' = pos + 1 /\ key' = Here.k
        /\ UNCHANGED clear_and_output_next_key_
     \/ /\ ~SameKey(pos + 1)
        /\ IF Here.seq <= earliest_snapshot_ /\ KeyNotExistsBeyondOutputLevel
           THEN Skip(Here) ELSE Return(Here)
        /\ pos' = pos + 1 /\ key' = 0
        /\ UNCHANGED clear_and_output_next_key_

(* The remaining cases are tried in this order.                            *)
Plain(r) == ~clear_and_output_next_key_ /\ r.type # "single"
(* Mutant: only a version of an earlier stripe hides.                      *)
HiddenByNewer_Earlier == LastSnapshot < Stripe.cur /\ ~FirstOfKey
HiddenByNewer == LastSnapshot = Stripe.cur
ObsoleteDeletion(r) ==
  /\ r.type = "deletion" /\ r.seq <= earliest_snapshot_ /\ ikeyNotNeeded(r)
  /\ KeyNotExistsBeyondOutputLevel
BottommostDeletion(r) == r.type = "deletion" /\ bottommost_level_ /\ ikeyNotNeeded(r)

(* Rule (A), and a deletion with nothing left to delete.                   *)
Drop ==
  /\ Turn
  /\ \E r \in Filtered :
       /\ Plain(r)
       /\ HiddenByNewer \/ ObsoleteDeletion(r)
       /\ Skip(r)
  /\ pos' = pos + 1 /\ key' = Here.k
  /\ UNCHANGED <<clear_and_output_next_key_, merge_out>>

(* A deletion in the bottommost level that a snapshot does not see: what   *)
(* it hides goes, and it goes itself unless an older version stays.        *)
DropDeletion ==
  LET rest == Min({i \in pos + 1 .. Len(input) + 1 : ~SameStripe(i)}) IN
  /\ Turn
  /\ \E r \in Filtered :
       /\ Plain(r) /\ ~HiddenByNewer /\ ~ObsoleteDeletion(r) /\ BottommostDeletion(r)
       /\ IF SameKey(rest) THEN Return(r) ELSE Skip(r)
  /\ pos' = rest /\ key' = Here.k
  /\ UNCHANGED <<clear_and_output_next_key_, merge_out>>

(* Any other put or deletion is kept.                                      *)
Keep ==
  /\ Turn
  /\ \E r \in Filtered :
       /\ Plain(r) /\ ~HiddenByNewer /\ ~ObsoleteDeletion(r) /\ ~BottommostDeletion(r)
       /\ r.type # "merge"
       /\ Return(r)
  /\ pos' = pos + 1 /\ key' = Here.k
  /\ UNCHANGED <<clear_and_output_next_key_, merge_out>>
----------------------------------------------------------------------------
(* Merges *)

(* What the operator makes of values, oldest first.                        *)
MergeOf(vals) ==
  CASE opt.operator = "build"  -> FlattenSeq(vals)
    [] opt.operator = "newest" -> Last(vals)
    [] opt.operator = "oldest" -> Head(vals)

(* existing_operand: the buffer that is moved into the result.             *)
Returned(sources) == IF opt.operator = "newest" THEN Last(sources) ELSE Head(sources)

(* TimedFullMerge and PartialMergeMulti: operands, newest first, on top of *)
(* an existing value, if there is one.  The result has the key of the      *)
(* newest operand.  A value that is built is in no file, and one that is   *)
(* returned stays in the file it was in.                                   *)
MergedInto(ops, type, existing) ==
  LET sources == existing \o Reverse(ops)
      from == IF opt.operator = "build" THEN [ops[1] EXCEPT !.fn = NoFile] ELSE Returned(sources)
  IN  <<[ops[1] EXCEPT !.type = type, !.sep = FALSE,
                       !.val = MergeOf([i \in DOMAIN sources |-> sources[i].val]),
                       !.fn = from.fn, !.bseq = from.bseq]>>

(* surely_seen_the_beginning, where the operands end at i                  *)
SurelySeenTheBeginning(i) == bottommost_level_ /\ ~SameKey(i)

(* The positions of some of S, in order.                                   *)
Increasing(S) ==
  {f \in UNION {[1 .. n -> S] : n \in 0 .. Cardinality(S)} :
     \A i, j \in DOMAIN f : i < j => f[i] < f[j]}

(* MergeUntil: the operands up to the first put or deletion, an older      *)
(* snapshot or the next key.  The filter may remove operands that no       *)
(* snapshot sees.                                                          *)
Merge ==
  LET Operand(i) == SameStripe(i) /\ input[i].type = "merge"
      rest == Min({i \in pos + 1 .. Len(input) + 1 : ~Operand(i)})
      removable == {i \in pos .. rest - 1 : opt.filter /\ input[i].seq > latest_snapshot_} IN
  /\ Turn
  /\ Plain(Here) /\ ~HiddenByNewer /\ Here.type = "merge"
  /\ \E left \in Increasing(pos .. rest - 1) :
       LET ops == [j \in DOMAIN left |-> input[left[j]]] IN
       /\ (pos .. rest - 1) \ removable \subseteq Range(left)
       /\ \/ /\ left = << >>
             /\ merge_out' = << >>
             /\ pos' = rest /\ key' = 0
          \/ /\ left # << >> /\ SameStripe(rest)
             /\ merge_out' = MergedInto(ops, "value", IF input[rest].type = "value"
                                                      THEN <<input[rest]>> ELSE << >>)
             /\ pos' = rest + 1 /\ key' = Here.k
          \/ /\ left # << >> /\ ~SameStripe(rest) /\ SurelySeenTheBeginning(rest)
             /\ merge_out' = MergedInto(ops, "value", << >>)
             /\ pos' = rest /\ key' = Here.k
          \/ /\ left # << >> /\ ~SameStripe(rest) /\ ~SurelySeenTheBeginning(rest)
             /\ merge_out' \in {ops} \cup (IF Len(ops) >= 2 THEN {MergedInto(ops, "merge", << >>)}
                                          ELSE {})
             /\ pos' = rest /\ key' = Here.k
  /\ Skip(Here)
  /\ UNCHANGED clear_and_output_next_key_

(* The next record of the merge's output.                                  *)
ReturnMerged ==
  /\ merge_out # << >>
  /\ Return(Head(merge_out))
  /\ merge_out' = Tail(merge_out)
  /\ UNCHANGED <<input, opt, pos, key, snapshot, clear_and_output_next_key_, counts>>

(* The end: the last output is closed.                                     *)
Finish ==
  /\ pos = Len(input) + 1 /\ merge_out = << >>
  /\ output # << >>
  /\ files' = Append(files, [recs |-> output, dep |-> dependence])
  /\ output' = << >> /\ dependence' = {}
  /\ UNCHANGED <<input, opt, iter>>

Next ==
  ClearedPut \/ SingleDelete \/ Drop \/ DropDeletion \/ Keep \/ Merge \/ ReturnMerged \/ Finish

Spec == Init /\ [][Next]_vars
----------------------------------------------------------------------------
(* Properties *)

Done == pos > Len(input) /\ merge_out = << >> /\ output = << >>
Result == FlattenSeq([i \in DOMAIN files |-> files[i].recs])

(* What a read at s makes of records, above what a lower level has.        *)
Get(recs, k, s) ==
  LET seen == {r \in Range(recs) : r.k = k /\ r.seq <= s}
      bases == {r \in seen : r.type # "merge"}
      base == CHOOSE r \in bases : \A q \in bases : q.seq <= r.seq
      ops == {r \in seen : r.type = "merge" /\ (bases # {} => r.seq > base.seq)}
      sorted == [i \in 1 .. Cardinality(ops) |->
                   CHOOSE r \in ops : Cardinality({q \in ops : q.seq < r.seq}) = i - 1]
      existing == IF bases = {} THEN IF opt.below = "put" THEN <<<<BelowWrite>>>> ELSE << >>
                  ELSE IF base.type = "value" THEN <<base.val>> ELSE << >>
      vals == existing \o [i \in DOMAIN sorted |-> sorted[i].val]
  IN  IF vals = << >> THEN [found |-> FALSE] ELSE [found |-> TRUE, val |-> MergeOf(vals)]

(* A compaction changes no read: at every snapshot held, and at present    *)
(* when no compaction filter has a say, its output gives the value its     *)
(* input gave, merges and lower levels included.                           *)
ReadsUnchanged ==
  Done => \A i \in DOMAIN input :
            \A s \in opt.snapshots \cup (IF opt.filter THEN {} ELSE {kMaxSequenceNumber}) :
              Get(Result, input[i].k, s) = Get(input, input[i].k, s)

(* The output is in the order of internal keys and has none twice, with    *)
(* zeroed sequence numbers and merged operands as well.                    *)
OutputOrdered ==
  Done => \A i \in 1 .. Len(Result) - 1 :
            LET r == Result[i] q == Result[i + 1] IN
            r.k < q.k \/ (r.k = q.k /\ r.seq > q.seq)

(* The assertion of Optimization 3, of an input: a put that may be cleared *)
(* under a SingleDelete is not separated.                                  *)
ClearsPlainPuts ==
  \A i \in DOMAIN input :
    /\ i > 1 /\ input[i].k = input[i - 1].k
    /\ input[i - 1].type = "single" /\ ~(input[i - 1].seq <= opt.conflict)
    => ~input[i].sep

(* fetch_buffer takes the record of a blob only if it has the sequence     *)
(* number of the index entry: every separated entry names a file, and has  *)
(* the number its record has there.  This takes that the merge operator    *)
(* returns no operand but the newest: another one would be looked up under *)
(* the newest one's number.  It also takes the assertion of ClearedPut.    *)
SeparatedSequence ==
  opt.operator \in {"build", "newest"} /\ ClearsPlainPuts
    => \A r \in Range(output) : r.sep => r.fn # NoFile /\ r.seq = r.bseq

Newest(i) == \A j \in DOMAIN input : input[j].k = input[i].k => input[j].seq <= input[i].seq

(* Rule 2: a transaction can tell that a key was written after its         *)
(* snapshot.  The bottommost level forgets deletions of keys that no       *)
(* snapshot has.                                                           *)
ConflictsSeen ==
  Done => \A i \in DOMAIN input :
            /\ Newest(i) /\ input[i].seq > opt.conflict
            /\ ~(input[i].type = "deletion" /\ bottommost_level_)
            => \E r \in Range(Result) : r.k = input[i].k /\ r.seq > opt.conflict

(* "DB will only process deletes with sequence number less than" the one   *)
(* set: a later delete that is not overwritten is in the output.           *)
DeletesPreserved ==
  Done => \A i \in DOMAIN input :
            Newest(i) /\ input[i].type = "deletion" /\ input[i].seq >= opt.preserve
            => \E r \in Range(Result) : r.k = input[i].k /\ r.seq = input[i].seq

(* The outputs share no user key, and each is recorded as depending on     *)
(* the files its separated entries name, no more and no less.  All of them *)
(* are files, as the assertion next to dependence.emplace says, when the   *)
(* one of ClearedPut holds.                                                *)
OutputFiles ==
  \A i \in DOMAIN files :
    /\ files[i].dep = {r.fn : r \in {q \in Range(files[i].recs) : q.sep}}
    /\ ClearsPlainPuts => NoFile \notin files[i].dep
    /\ \A j \in DOMAIN files :
         i # j => {r.k : r \in Range(files[i].recs)} \cap {r.k : r \in Range(files[j].recs)} = {}

(* compaction_job.cc: every record read is either counted as deprecated or *)
(* an output, where "all value in this compaction job are of type          *)
(* kTypeValueIndex".  This takes that no snapshot keeps an older version,  *)
(* which would be counted and put out as well.                             *)
ObsoleteCounted ==
  Done /\ ~opt.filter /\ opt.snapshots = {} /\ (\A i \in DOMAIN input : input[i].sep /\ input[i].type = "value")
    => counts.num_input_records = counts.deprecated + Len(Result)
============================================================================
