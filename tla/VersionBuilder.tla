--------------------------- MODULE VersionBuilder ---------------------------
(***************************************************************************)
(* db/version_builder.cc: which blob files a new version keeps.            *)
(*                                                                         *)
(* Key SSTs name the blobs they depend on by the number the blob had when  *)
(* the SST was written.  A garbage collection writes new blobs that        *)
(* "inherit" the numbers of its inputs.  The builder's context maps a      *)
(* number to the items that inherit it by slot positions of a chash_map,   *)
(* stamps the items the SSTs reach, and drops the rest.                    *)
(*                                                                         *)
(* Flushes, compactions and garbage collections run beside each other; a   *)
(* job reads the version that was current when it started.  No map SSTs    *)
(* (enable_lazy_compaction is off, its default).                           *)
(***************************************************************************)
EXTENDS Integers, FiniteSets, SequencesExt

CONSTANTS
  MaxFile,         \* bound: file numbers 1..MaxFile are handed out
  MaxOutputs,      \* bound: blobs one garbage collection writes
  MaxGroup,        \* bound: edits committed in one MANIFEST write
  ManifestMayFail  \* whether a MANIFEST write can fail

ASSUME BoundAssumption ==
  /\ MaxFile \in Nat /\ MaxOutputs \in Nat /\ MaxGroup \in Nat \ {0}
  /\ ManifestMayFail \in BOOLEAN

VARIABLES
  next_file_number_,
  tree,        \* blob -> inheritance_tree of its table properties
  derived,     \* blob -> every number it was collected from, nothing purged
  levels,      \* key SST -> prop.dependence, of the builder's context
  context_,    \* dependence_map and inheritance_counter, slot by slot
  builder,     \* edits applied and not saved yet; .blobs is new_blobs_
  version,     \* the current version
  gc,          \* the running garbage collection
  compaction,  \* the running key compaction
  known,       \* blobs some installed version added
  collected    \* blobs an installed garbage collection has rewritten

vars == <<next_file_number_, tree, derived, levels, context_, builder, version,
          gc, compaction, known, collected>>

File == 1 .. MaxFile
Free == 0      \* an empty slot
NoGC == [inputs |-> {}, outs |-> {}]
NoCompaction == [inputs |-> {}, deps |-> {}]

----------------------------------------------------------------------------
(* compaction.cc: BuildInheritanceTree and InheritanceTreeToSet *)

(* Mutant: a leaf is popped whether or not the version needs it.           *)
PurgeTree_EveryLeaf(f, t, live) ==
  FoldLeft(LAMBDA acc, fn : IF Last(acc) = fn THEN Front(acc) ELSE Append(acc, fn),
           <<f>>, t) \o <<f>>

(* A leaf that the input version has no file for is popped, recursively.   *)
PurgeTree(f, t, live) ==
  FoldLeft(LAMBDA acc, fn : IF Last(acc) = fn /\ fn \notin live
                            THEN Front(acc) ELSE Append(acc, fn),
           <<f>>, t) \o <<f>>

BuildInheritanceTree(inputs, live) ==
  FoldLeft(LAMBDA acc, f : acc \o PurgeTree(f, tree[f], live),
           << >>, SetToSortSeq(inputs, <))

InheritanceTreeToSet(t) == SetToSortSeq(Range(t), <)

(* prop.inheritance: the numbers a blob inherits, sorted.                  *)
Inheritance(f) == IF f \in DOMAIN tree THEN InheritanceTreeToSet(tree[f]) ELSE << >>

(* Mutant: the item's own number is not put after the inherited ones.      *)
Numbers_InheritedOnly(f) == Inheritance(f)

Numbers(f) == Append(Inheritance(f), f)

----------------------------------------------------------------------------
(* util/chash.h: a value goes to the slot freed last, or to a new one. *)

SlotFor(slots, free) == IF free = << >> THEN Len(slots) + 1 ELSE Head(free)
Fill(slots, free, x) ==
  IF free = << >> THEN Append(slots, x) ELSE [slots EXCEPT ![Head(free)] = x]
Popped(free) == IF free = << >> THEN free ELSE Tail(free)

EmptyContext == [dep |-> << >>, depFree |-> << >>, inh |-> << >>, inhFree |-> << >>]

NoItem == [file |-> Free, count |-> 0, vec |-> << >>]

(* Slots of the dependence_map and inheritance_counter entries of f.       *)
DepSlots(ctx, f) == {p \in DOMAIN ctx.dep : ctx.dep[p] = f}
InhSlots(ctx, f) == {p \in DOMAIN ctx.inh : ctx.inh[p].file = f}

(* PutInheritance for one number.                                          *)
EmplaceInheritance(ctx, fn, pos, replace) ==
  IF InhSlots(ctx, fn) = {}
  THEN [ctx EXCEPT !.inh = Fill(@, ctx.inhFree, [file |-> fn, count |-> 1, vec |-> <<pos>>]),
                   !.inhFree = Popped(@)]
  ELSE LET p == CHOOSE p \in InhSlots(ctx, fn) : TRUE IN
       [ctx EXCEPT !.inh[p].count = @ + 1,
                   !.inh[p].vec = IF replace THEN Append(@, pos) ELSE @]

PutSst(ctx, f) ==
  IF DepSlots(ctx, f) # {} THEN ctx
  ELSE LET pos == SlotFor(ctx.dep, ctx.depFree)
           replace == InhSlots(ctx, f) = {}
           put == [ctx EXCEPT !.dep = Fill(@, ctx.depFree, f), !.depFree = Popped(@)]
       IN  FoldLeft(LAMBDA c, fn : EmplaceInheritance(c, fn, pos, replace), put, Numbers(f))

(* Mutant: only the item's own number is given back.                       *)
DelInheritance_OwnOnly(ctx, f) ==
  LET p == CHOOSE p \in InhSlots(ctx, f) : TRUE IN
  IF ctx.inh[p].count > 1 THEN [ctx EXCEPT !.inh[p].count = @ - 1]
  ELSE [ctx EXCEPT !.inh[p] = NoItem, !.inhFree = <<p>> \o @]

DelInheritance(ctx, f) ==
  FoldLeft(LAMBDA c, fn :
             LET p == CHOOSE p \in InhSlots(c, fn) : TRUE IN
             IF c.inh[p].count > 1 THEN [c EXCEPT !.inh[p].count = @ - 1]
             ELSE [c EXCEPT !.inh[p] = NoItem, !.inhFree = <<p>> \o @],
           ctx, Numbers(f))
----------------------------------------------------------------------------
(* SetDependence: the slots the dependences of the SSTs in lv stamp.  The  *)
(* item a number's own slot is compared with is a slot of the other map.   *)
Reached(ctx, d) ==
  {p \in DOMAIN ctx.dep : \E i \in InhSlots(ctx, d) :
     /\ p \in Range(ctx.inh[i].vec)
     /\ ~(Len(ctx.inh[i].vec) > 1 /\ p = i)}

Depended(lv) == UNION {lv[s] : s \in DOMAIN lv}

Stamped(ctx, lv) ==
  {p \in DOMAIN ctx.dep : ctx.dep[p] # Free} \cap
    (UNION {DepSlots(ctx, s) : s \in DOMAIN lv}
       \cup UNION {Reached(ctx, d) : d \in Depended(lv)})

(* CalculateDependence(finish): items without a stamp are erased, in slot  *)
(* order.                                                                  *)
CalculateDependence(ctx, lv) ==
  LET stamped == Stamped(ctx, lv)
      erase(c, p) == IF c.dep[p] = Free \/ p \in stamped THEN c
                     ELSE [DelInheritance(c, c.dep[p]) EXCEPT
                             !.dep[p] = Free, !.depFree = <<p>> \o @]
  IN  FoldLeft(erase, ctx, [p \in DOMAIN ctx.dep |-> p])

(* Files of level -1, in the order SaveTo adds them.                       *)
BlobsOf(ctx, lv) == SelectSeq(ctx.dep, LAMBDA f : f # Free /\ f \notin DOMAIN lv)

(* VersionStorageInfo::dependence_map: the files, and the inherited        *)
(* numbers an SST depends on.                                              *)
KeysOf(ctx, lv) ==
  DOMAIN lv \cup Range(BlobsOf(ctx, lv)) \cup
    {d \in Depended(lv) :
       /\ Reached(ctx, d) # {}
       /\ \E f \in Range(BlobsOf(ctx, lv)) : d \in Range(Inheritance(f))}

(* VersionBuilder::Init without a context to take over: the files of the   *)
(* version are put again, level -1 first.                                  *)
Rebuild(v) ==
  FoldLeft(PutSst, EmptyContext, v.blobs \o SetToSortSeq(DOMAIN v.ssts, >))
----------------------------------------------------------------------------
NoEdits == [edits |-> 0, blobs |-> {}, inputs |-> {}, deleted |-> {}]

Init ==
  /\ next_file_number_ = 1
  /\ tree = << >> /\ derived = << >>
  /\ levels = << >>
  /\ context_ = EmptyContext
  /\ builder = NoEdits
  /\ version = [ssts |-> << >>, blobs |-> << >>, keys |-> {}]
  /\ gc = NoGC /\ compaction = NoCompaction
  /\ known = {} /\ collected = {}

(* The next m file numbers; the files written under them, with the tree t  *)
(* in their properties.                                                    *)
NextFiles(m) == next_file_number_ .. next_file_number_ + m - 1

WriteFiles(files, t, ancestors) ==
  /\ files \subseteq File
  /\ next_file_number_' = next_file_number_ + Cardinality(files)
  /\ tree' = [f \in DOMAIN tree \cup files |-> IF f \in files THEN t ELSE tree[f]]
  /\ derived' = [f \in DOMAIN derived \cup files |->
                   IF f \in files THEN ancestors ELSE derived[f]]

(* FlushJob: an L0 SST and, when some value is large, its blob.  The edit  *)
(* lists the SST first.                                                    *)
ApplyFlush ==
  /\ builder.edits < MaxGroup
  /\ \E m \in 0 .. 1 :
       LET sst == next_file_number_
           blobs == IF m = 0 THEN {} ELSE {sst + 1} IN
       /\ context_' = FoldLeft(PutSst, context_, <<sst>> \o SetToSeq(blobs))
       /\ levels' = [f \in DOMAIN levels \cup {sst} |-> IF f = sst THEN blobs ELSE levels[f]]
       /\ WriteFiles({sst} \cup blobs, << >>, {})
       /\ builder' = [builder EXCEPT !.edits = @ + 1, !.blobs = @ \cup blobs]
  /\ UNCHANGED <<version, gc, compaction, known, collected>>

(* A garbage collection reads the current version and writes its outputs.  *)
StartGarbageCollection ==
  /\ gc = NoGC
  /\ \E inputs \in SUBSET (Range(version.blobs) \ builder.inputs), m \in 1 .. MaxOutputs :
       LET outs == NextFiles(m) IN
       /\ inputs # {}
       /\ gc' = [inputs |-> inputs, outs |-> outs]
       /\ WriteFiles(outs, BuildInheritanceTree(inputs, version.keys),
                     inputs \cup UNION {derived[i] : i \in inputs})
  /\ UNCHANGED <<levels, context_, builder, version, compaction, known, collected>>

ApplyGarbageCollection ==
  /\ gc # NoGC
  /\ builder.edits < MaxGroup
  /\ context_' = FoldLeft(PutSst, context_, SetToSortSeq(gc.outs, <))
  /\ builder' = [builder EXCEPT !.edits = @ + 1, !.blobs = @ \cup gc.outs,
                                !.inputs = @ \cup gc.inputs]
  /\ gc' = NoGC
  /\ UNCHANGED <<next_file_number_, tree, derived, levels, version, compaction,
                 known, collected>>

(* Where FileMap takes the records an SST has in d: to the blobs collected *)
(* from d that have not been collected themselves.                         *)
Resolve(d) == {b \in known \ collected : b = d \/ d \in derived[b]}

(* A key compaction reads the current version; what it keeps of its inputs *)
(* it writes with the numbers the records have there.  TransToCombined     *)
(* refuses a number that the version's dependence_map does not have.       *)
StartCompaction ==
  /\ compaction = NoCompaction
  /\ \E inputs \in SUBSET (DOMAIN version.ssts \ builder.deleted) :
       /\ inputs # {}
       /\ \E D \in SUBSET UNION {Resolve(d) : d \in version.keys \cap
                                       UNION {version.ssts[s] : s \in inputs}} :
            compaction' = [inputs |-> inputs, deps |-> D]
  /\ UNCHANGED <<next_file_number_, tree, derived, levels, context_, builder, version,
                 gc, known, collected>>

(* Its edit deletes the inputs (DelSst) and adds the output, if any.       *)
ApplyCompaction ==
  /\ compaction # NoCompaction
  /\ builder.edits < MaxGroup
  /\ LET outs == IF compaction.deps = {} THEN {} ELSE {next_file_number_} IN
     /\ levels' = [f \in (DOMAIN levels \ compaction.inputs) \cup outs |->
                     IF f \in outs THEN compaction.deps ELSE levels[f]]
     /\ context_' = FoldLeft(PutSst, context_, SetToSeq(outs))
     /\ WriteFiles(outs, << >>, {})
  /\ builder' = [builder EXCEPT !.edits = @ + 1, !.deleted = @ \cup compaction.inputs]
  /\ compaction' = NoCompaction
  /\ UNCHANGED <<version, gc, known, collected>>

(* SaveTo and a MANIFEST write that succeeds.                              *)
SaveTo ==
  /\ builder.edits > 0
  /\ context_' = CalculateDependence(context_, levels)
  /\ version' = [ssts |-> levels, blobs |-> BlobsOf(context_', levels),
                 keys |-> KeysOf(context_', levels)]
  /\ known' = known \cup builder.blobs
  /\ collected' = collected \cup builder.inputs
  /\ builder' = NoEdits
  /\ UNCHANGED <<next_file_number_, tree, derived, levels, gc, compaction>>

(* SaveTo and a MANIFEST write that fails: the version and the context are *)
(* deleted, and the next builder starts from the files of the current one. *)
LoseVersion ==
  /\ ManifestMayFail
  /\ builder.edits > 0
  /\ context_' = Rebuild(version)
  /\ levels' = version.ssts
  /\ builder' = NoEdits
  /\ UNCHANGED <<next_file_number_, tree, derived, version, gc, compaction, known, collected>>

Next ==
  \/ ApplyFlush
  \/ StartGarbageCollection \/ ApplyGarbageCollection
  \/ StartCompaction \/ ApplyCompaction
  \/ SaveTo \/ LoseVersion

Spec == Init /\ [][Next]_vars
----------------------------------------------------------------------------
(* Properties *)

(* The count PutInheritance and DelInheritance keep of a number is the     *)
(* number of items that are it or inherit it; none is missing or left over.*)
CountsMatch ==
  \A n \in File :
    LET items == {p \in DOMAIN context_.dep :
                    context_.dep[p] # Free /\ n \in Range(Numbers(context_.dep[p]))}
    IN  IF items = {} THEN InhSlots(context_, n) = {}
        ELSE \E i \in InhSlots(context_, n) : /\ InhSlots(context_, n) = {i}
                                              /\ context_.inh[i].count = Cardinality(items)

(* The assertion of CalculateDependence on every item it keeps: its slot   *)
(* is among the positions recorded for its own number.                     *)
KeptItemOwnsSlot ==
  \A p \in Stamped(context_, levels) :
    \E i \in InhSlots(context_, context_.dep[p]) : p \in Range(context_.inh[i].vec)

(* Purging the inheritance tree against the version a collection started   *)
(* from loses no number that an SST of the builder depends on, or that a   *)
(* compaction running beside it is about to write into one.                *)
NoNumberLost ==
  \A d \in Depended(levels) \cup compaction.deps :
    \A b \in Range(version.blobs) \cup gc.outs :
      d \in derived[b] => d \in Range(Inheritance(b))

(* What SetDependence is for: the blobs that hold the records of a number  *)
(* an SST depends on are files of the version.                             *)
OutputsKept ==
  \A s \in DOMAIN version.ssts : \A d \in version.ssts[s] :
    Resolve(d) \subseteq Range(version.blobs)
=============================================================================
