------------------------------ MODULE FileMap ------------------------------
(***************************************************************************)
(* db/filemap.{h,cc}: the tree that tracks which blob file a garbage       *)
(* collected blob was rewritten into, read in a multi-version manner, with *)
(* the part of VersionBuilder::SaveTo and of VersionSet that writes to it. *)
(*                                                                         *)
(* One FileMap is shared by all versions of a column family.  The builder  *)
(* of a new version appends to it outside the DB mutex and before the      *)
(* MANIFEST write, while readers of older versions walk it without a lock. *)
(***************************************************************************)
EXTENDS Integers, Sequences, FiniteSets

CONSTANTS
  Key,          \* user keys <<prefix, last 8 bytes>>
  MaxFile,      \* bound: file numbers 1..MaxFile are handed out
  MaxVersion,   \* bound: version numbers 0..MaxVersion are handed out
  MaxOutputs,   \* bound: blobs one edit may add
  MaxOpen,      \* bound: times the store is opened
  ManifestMayFail, \* whether a MANIFEST write can fail and its version be dropped
  Reserved,     \* bound: children of a node, the capacity children.reserve(...) gives it
  Reader        \* threads inside QueryFileMeta

ASSUME KeyAssumption == Key \subseteq Nat \X Nat
ASSUME BoundAssumption ==
  /\ MaxFile \in Nat /\ MaxVersion \in Nat /\ MaxOutputs \in Nat /\ MaxOpen \in Nat
  /\ Reserved \in Nat /\ ManifestMayFail \in BOOLEAN

VARIABLES
  nodes_,                   \* file number -> MapNode
  next_file_number_,
  current_version_number_,  \* number the next Version gets
  builder,                  \* the version under construction
  installed,                \* numbers of the versions that were installed
  lost,                     \* numbers of the versions whose MANIFEST write failed
  blobs,                    \* blobs that an installed version added
  opens, first_file,        \* times opened, next_file_number_ at the last one
  query                     \* reader -> its QueryFileMeta frame

store == <<installed, lost, blobs, opens, first_file>>
vars == <<nodes_, next_file_number_, current_version_number_, builder, store, query>>

File == 1 .. MaxFile
Version == 0 .. MaxVersion

(* The bytewise order of user keys, and the order InternalKeyComparator    *)
(* gives the same bytes: it takes the last 8 for a sequence number and     *)
(* sorts those downwards.                                                  *)
UserLE(a, b) == a[1] < b[1] \/ (a[1] = b[1] /\ a[2] <= b[2])
InternalLE(a, b) == a[1] < b[1] \/ (a[1] = b[1] /\ a[2] >= b[2])
LE(cmp, a, b) == IF cmp = "user" THEN UserLE(a, b) ELSE InternalLE(a, b)

KeyRange == {r \in [lo : Key, hi : Key] : UserLE(r.lo, r.hi)}

MapNode == [version_num : Version, range : KeyRange, children : Seq(File)]

IsLeaf(n) == nodes_[n].children = << >>
(* Mutant: a version also sees the files of the version after it.          *)
Accessible_NextToo(n, v) == nodes_[n].version_num <= v + 1
Accessible(n, v) == nodes_[n].version_num <= v
Contain(n, k, cmp) ==
  LE(cmp, nodes_[n].range.lo, k) /\ LE(cmp, k, nodes_[n].range.hi)

----------------------------------------------------------------------------
(* QueryFileMeta / QueryFileNumber *)

(* Positions of the children the scan would accept; it takes the first.    *)
Matches(n, k, cmp, v) ==
  {i \in 1 .. Len(nodes_[n].children) :
     LET c == nodes_[n].children[i] IN Accessible(c, v) /\ Contain(c, k, cmp)}

FirstOf(S) == CHOOSE i \in S : \A j \in S : i <= j

NextHop(n, k, cmp, v) ==
  IF ~IsLeaf(n) /\ Accessible(n, v) /\ Matches(n, k, cmp, v) # {}
  THEN nodes_[n].children[FirstOf(Matches(n, k, cmp, v))]
  ELSE n

Corruption == 0

Walk(k, cmp, v) ==
  LET w[n \in DOMAIN nodes_] ==
        IF NextHop(n, k, cmp, v) = n THEN n ELSE w[NextHop(n, k, cmp, v)]
  IN  w

(* The file a query returns when nothing runs beside it.                   *)
QueryFileMeta(fn, k, cmp, v) ==
  IF fn \notin DOMAIN nodes_ THEN Corruption
  ELSE LET n == Walk(k, cmp, v)[fn]
       IN  IF Contain(n, k, cmp) /\ Accessible(n, v) THEN n ELSE Corruption
----------------------------------------------------------------------------
(* The version under construction: its number, the new_blobs_ and          *)
(* blob_dependence_ SaveTo still has to add, and the ranges of its blobs.  *)
None == -1
Idle == [num |-> None, blobs |-> {}, deps |-> {}, range |-> << >>]

(* A reader's frame: outside the query, at the while condition, in the for *)
(* loop with its iterator, or about to return.                             *)
NoQuery == [pc |-> "idle"]
Frame ==
  {NoQuery}
    \cup [pc : {"loop"}, fn : File, k : Key, v : Version, at : File]
    \cup [pc : {"scan"}, fn : File, k : Key, v : Version, at : File, i : Nat \ {0}]
    \cup [pc : {"done"}, fn : File, k : Key, v : Version, ret : File \cup {Corruption}]

Init ==
  /\ nodes_ = << >>
  /\ next_file_number_ = 1
  /\ current_version_number_ = 1
  /\ builder = Idle
  /\ installed = {0} /\ lost = {} /\ blobs = {}
  /\ opens = 1 /\ first_file = 1
  /\ query = [r \in Reader |-> NoQuery]

(* The inputs of the jobs that write new blobs: blobs of the version for a *)
(* garbage collection, key SSTs, which never get a node, for a compaction  *)
(* that separates values (in debug builds an assertion excludes it).       *)
KeySst == 0
InputSets == {S \in SUBSET (blobs \cup {KeySst}) : KeySst \in S => S = {KeySst}}

(* Mutant: the version number is read but not incremented.                 *)
NewVersion_SameNumber ==
  /\ builder = Idle
  /\ \E f \in File \cap {next_file_number_}, from \in SUBSET blobs, r \in KeyRange :
       builder' = [num |-> current_version_number_, blobs |-> {f},
                   deps |-> from \X {f}, range |-> [g \in {f} |-> r]]
  /\ next_file_number_' = next_file_number_ + 1
  /\ UNCHANGED <<nodes_, current_version_number_, store, query>>

(* ProcessManifestWrites creates a Version and applies a group of edits to *)
(* its builder: new blobs, of flushes (no inputs), of garbage collections  *)
(* and of compactions, each output depending on each input of its job.     *)
NewVersion ==
  /\ builder = Idle
  /\ current_version_number_ \in Version
  /\ \E m \in 0 .. MaxOutputs :
       LET outs == next_file_number_ .. next_file_number_ + m - 1 IN
       /\ outs \subseteq File
       /\ \E from \in [outs -> InputSets], rng \in [outs -> KeyRange] :
            builder' = [num |-> current_version_number_, blobs |-> outs,
                        deps |-> {d \in (blobs \cup {KeySst}) \X outs : d[1] \in from[d[2]]},
                        range |-> rng]
       /\ next_file_number_' = next_file_number_ + m
  /\ current_version_number_' = current_version_number_ + 1
  /\ UNCHANGED <<nodes_, store, query>>

(* SaveTo, one new blob: FileMap::AddNode of its smallest pending number.  *)
AddNodeAt(num) ==
  \E f \in builder.blobs :
    /\ \A g \in builder.blobs : f <= g
    /\ nodes_' = [g \in DOMAIN nodes_ \cup {f} |->
                    IF g \in DOMAIN nodes_ THEN nodes_[g]
                    ELSE [version_num |-> num, range |-> builder.range[f],
                          children |-> << >>]]
    /\ builder' = [builder EXCEPT !.blobs = @ \ {f}]
    /\ UNCHANGED <<next_file_number_, current_version_number_, store, query>>

(* Mutant: the version number is left to its default, which no version     *)
(* reaches.                                                                *)
AddNode_Default == AddNodeAt(MaxVersion + 1)
AddNode == AddNodeAt(builder.num)

(* Mutant: the parent is made its own child.                               *)
AddDerivedNode_Self ==
  /\ builder.blobs = {}
  /\ \E d \in builder.deps :
       /\ d[1] \in DOMAIN nodes_
       /\ nodes_' = [nodes_ EXCEPT ![d[1]].children = Append(@, d[1])]
       /\ builder' = [builder EXCEPT !.deps = @ \ {d}]
  /\ UNCHANGED <<next_file_number_, current_version_number_, store, query>>

(* SaveTo, one dependence <<p, c>>, the child's node being there already:  *)
(* FileMap::AddDerivedNode.  For a parent without a node it returns        *)
(* Corruption, which SaveTo only asserts not to happen: a release build    *)
(* goes on without the edge.  One child more than reserved would move the  *)
(* vector under its readers, which is undefined and out of bounds here.    *)
AddDerivedNode ==
  /\ builder.blobs = {}
  /\ \E d \in builder.deps :
       /\ \A e \in builder.deps : d[2] <= e[2]
       /\ \/ /\ d[1] \in DOMAIN nodes_
             /\ Len(nodes_[d[1]].children) < Reserved
             /\ nodes_' = [nodes_ EXCEPT ![d[1]].children = Append(@, d[2])]
          \/ /\ d[1] \notin DOMAIN nodes_
             /\ UNCHANGED nodes_
       /\ builder' = [builder EXCEPT !.deps = @ \ {d}]
  /\ UNCHANGED <<next_file_number_, current_version_number_, store, query>>

Saved == builder # Idle /\ builder.blobs = {} /\ builder.deps = {}

(* The MANIFEST write succeeded: AppendVersion makes the version current.  *)
AppendVersion ==
  /\ Saved
  /\ installed' = installed \cup {builder.num}
  /\ blobs' = blobs \cup DOMAIN builder.range
  /\ builder' = Idle
  /\ UNCHANGED <<nodes_, next_file_number_, current_version_number_, lost, opens, first_file,
                 query>>

(* The MANIFEST write failed: the version is deleted, its nodes stay.      *)
DropVersion ==
  /\ ManifestMayFail
  /\ Saved
  /\ lost' = lost \cup {builder.num}
  /\ builder' = Idle
  /\ UNCHANGED <<nodes_, next_file_number_, current_version_number_, installed, blobs, opens,
                 first_file, query>>

(* Mutant: the numbers start again below those of the files there are.     *)
Recover_Restarted ==
  /\ opens < MaxOpen /\ opens' = opens + 1
  /\ nodes_' = << >> /\ builder' = Idle /\ current_version_number_' = 1
  /\ installed' = {0} /\ lost' = {}
  /\ first_file' = 1 /\ next_file_number_' = 1
  /\ query' = [r \in Reader |-> NoQuery]
  /\ UNCHANGED blobs

(* The process ends and VersionSet::Recover builds version 0 of another    *)
(* one from the MANIFEST, with the SaveTo that leaves the FileMap alone:   *)
(* the blobs are back without nodes.  Numbers that no edit recorded are    *)
(* handed out again.                                                       *)
Recover ==
  /\ opens < MaxOpen /\ opens' = opens + 1
  /\ nodes_' = << >> /\ builder' = Idle /\ current_version_number_' = 1
  /\ installed' = {0} /\ lost' = {}
  /\ blobs' \in {blobs, IF Saved THEN blobs \cup DOMAIN builder.range ELSE blobs}
  /\ first_file' \in {n \in 1 .. next_file_number_ : \A f \in blobs' : f < n}
  /\ next_file_number_' = first_file'
  /\ query' = [r \in Reader |-> NoQuery]

(* A reader of an installed version enters QueryFileMeta with the number   *)
(* of the blob that a key SST's entry was written with.                    *)
StartQuery(r) ==
  /\ query[r].pc = "idle"
  /\ \E fn \in blobs, k \in Key, v \in installed :
       query' = [query EXCEPT ![r] =
                   IF fn \in DOMAIN nodes_
                   THEN [pc |-> "loop", fn |-> fn, k |-> k, v |-> v, at |-> fn]
                   ELSE [pc |-> "done", fn |-> fn, k |-> k, v |-> v,
                         ret |-> Corruption]]
  /\ UNCHANGED <<nodes_, next_file_number_, current_version_number_, builder, store>>

Finish(q) ==
  [pc |-> "done", fn |-> q.fn, k |-> q.k, v |-> q.v,
   ret |-> IF Contain(q.at, q.k, "user") /\ Accessible(q.at, q.v)
           THEN q.at ELSE Corruption]

(* The while condition; when it holds the loop takes children.begin().     *)
EnterLoop(r) ==
  LET q == query[r] IN
  /\ q.pc = "loop"
  /\ query' = [query EXCEPT ![r] =
                 IF ~IsLeaf(q.at) /\ Accessible(q.at, q.v)
                 THEN [pc |-> "scan", fn |-> q.fn, k |-> q.k, v |-> q.v,
                       at |-> q.at, i |-> 1]
                 ELSE Finish(q)]
  /\ UNCHANGED <<nodes_, next_file_number_, current_version_number_, builder, store>>

(* One turn of the for loop over the children: children.end() is read      *)
(* again each time.                                                        *)
ScanChild(r) ==
  LET q == query[r]
      children == nodes_[q.at].children IN
  /\ q.pc = "scan"
  /\ query' = [query EXCEPT ![r] =
                 IF q.i > Len(children) THEN Finish(q)
                 ELSE IF Accessible(children[q.i], q.v) /\ Contain(children[q.i], q.k, "user")
                 THEN [pc |-> "loop", fn |-> q.fn, k |-> q.k, v |-> q.v,
                       at |-> children[q.i]]
                 ELSE [q EXCEPT !.i = @ + 1]]
  /\ UNCHANGED <<nodes_, next_file_number_, current_version_number_, builder, store>>

Return(r) ==
  /\ query[r].pc = "done"
  /\ query' = [query EXCEPT ![r] = NoQuery]
  /\ UNCHANGED <<nodes_, next_file_number_, current_version_number_, builder, store>>

Write ==
  NewVersion \/ AddNode \/ AddDerivedNode \/ AppendVersion \/ DropVersion \/ Recover
Read(r) == StartQuery(r) \/ EnterLoop(r) \/ ScanChild(r) \/ Return(r)

Next == Write \/ \E r \in Reader : Read(r)

(* A thread inside QueryFileMeta keeps running: it takes no lock.          *)
Fairness == \A r \in Reader : WF_vars(EnterLoop(r)) /\ WF_vars(ScanChild(r))

Spec == Init /\ [][Next]_vars /\ Fairness
----------------------------------------------------------------------------
(* Properties *)

(* Every variable has the shape the code gives it.                         *)
TypeOK ==
  /\ DOMAIN nodes_ \subseteq File /\ nodes_ \in [DOMAIN nodes_ -> MapNode]
  /\ next_file_number_ \in 1 .. MaxFile + 1
  /\ current_version_number_ \in 1 .. MaxVersion + 1
  /\ installed \subseteq Version /\ lost \subseteq Version /\ blobs \subseteq File
  /\ opens \in Nat /\ first_file \in 1 .. MaxFile + 1
  /\ builder.num \in Version \cup {None}
  /\ builder.deps \subseteq (File \cup {KeySst}) \X File
  /\ builder.blobs \subseteq DOMAIN builder.range /\ DOMAIN builder.range \subseteq File
  /\ \A f \in DOMAIN builder.range : builder.range[f] \in KeyRange
  /\ query \in [Reader -> Frame]

(* The asserts of AddDerivedNode, on every edge: a child is newer than its *)
(* parent, so no walk can go round.                                        *)
EdgesClimb ==
  \A p \in DOMAIN nodes_ : \A i \in 1 .. Len(nodes_[p].children) :
    LET c == nodes_[p].children[i] IN
    c \in DOMAIN nodes_ /\ nodes_[p].version_num < nodes_[c].version_num

(* The asserts of SaveTo and AddDerivedNode, across lost versions and      *)
(* reopens that hand numbers out again: a new blob never has a node yet,   *)
(* and a parent that has one is older than its child.  assert(s.ok()) does *)
(* not hold: a parent has no node exactly when it is a key SST or a blob   *)
(* of before the last open, and only then is the edge missing.             *)
SaveToAsserts ==
  /\ \A f \in builder.blobs : f \notin DOMAIN nodes_
  /\ \A d \in builder.deps :
       /\ d[1] \in DOMAIN nodes_ <=> d[1] >= first_file
       /\ d[1] \in DOMAIN nodes_ => nodes_[d[1]].version_num < builder.num
       /\ \/ d[2] \in builder.blobs
          \/ d[2] \in DOMAIN nodes_ /\ nodes_[d[2]].version_num = builder.num

(* What the numbering rests on: file and version numbers are handed out in *)
(* order, and the version under construction is newer than all installed   *)
(* ones and no older than any node.                                        *)
NumbersOrdered ==
  /\ \A n \in DOMAIN nodes_ :
       n < next_file_number_ /\ nodes_[n].version_num < current_version_number_
  /\ \A v \in installed : v < current_version_number_
  /\ \A f \in builder.blobs : f < next_file_number_
  /\ builder # Idle =>
       /\ builder.num \in Version /\ builder.num < current_version_number_
       /\ \A v \in installed : v < builder.num
       /\ \A n \in DOMAIN nodes_ : nodes_[n].version_num <= builder.num

(* A reader inside the loop stands on a node of the tree: nodes_[fn] was   *)
(* looked up after find() succeeded, and children are nodes.               *)
ReadersOnTree ==
  \A r \in Reader :
    query[r].pc \in {"loop", "scan"} => query[r].at \in DOMAIN nodes_

(* Multi-version reads, one hop at a time: the child a reader of an        *)
(* installed version goes to from a node never changes, whatever SaveTo    *)
(* appends for the version being built, until the process ends.            *)
HopStable ==
  [][opens' = opens =>
       \A v \in installed, n \in DOMAIN nodes_, k \in Key :
         NextHop(n, k, "user", v)' = NextHop(n, k, "user", v)]_vars

(* A query that ran beside appends returns what an undisturbed one does.   *)
QueryAtomic ==
  \A r \in Reader :
    query[r].pc = "done" =>
      query[r].ret = QueryFileMeta(query[r].fn, query[r].k, "user", query[r].v)

(* A query of an installed version answers with a blob of an installed     *)
(* version, never with one of the version being built.  After a failed     *)
(* MANIFEST write this is only so for the versions before the lost one:    *)
(* its nodes are never removed, and the versions after it find them.       *)
AnswersInstalled ==
  \A r \in Reader :
    LET q == query[r] IN
    q.pc = "done" /\ (\A d \in lost : q.v < d) => q.ret \in blobs \cup {Corruption}

(* Every query that starts returns, unless the process ends first: the     *)
(* hops go up in version number.                                           *)
QueryTerminates ==
  \A r \in Reader : query[r].pc = "loop" ~> query[r].pc \in {"done", "idle"}
============================================================================
