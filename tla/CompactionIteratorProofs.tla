---------------------- MODULE CompactionIteratorProofs ----------------------
(***************************************************************************)
(* CompactionIterator for every input, snapshot set and option: what a     *)
(* compaction writes of separated values can be read back, and its outputs *)
(* are disjoint and know the files they depend on.                         *)
(***************************************************************************)
EXTENDS CompactionIterator, SequenceTheorems, FiniteSetTheorems, WellFoundedInduction, TLAPS

(* A sequence, of whatever elements.                                       *)
IsSeq(s) == s \in Seq(Range(s))

Shape(r) ==
  /\ {"k", "seq", "type", "sep", "val", "fn", "bseq"} \subseteq DOMAIN r
  /\ r.k \in Nat

(* ClearsPlainPuts of an input and options.                                *)
PutsPlain(in, o) ==
  \A i \in DOMAIN in :
    /\ i > 1 /\ in[i].k = in[i - 1].k
    /\ in[i - 1].type = "single" /\ ~(in[i - 1].seq <= o.conflict)
    => ~in[i].sep

(* A record as the iterator finds it: only a value or an operand can be    *)
(* separated, and the file has it under the sequence number of the key.    *)
Found(r, in, o) ==
  /\ Shape(r)
  /\ r.sep => Holds(r) /\ (PutsPlain(in, o) => r.fn # NoFile)
  /\ o.operator \in {"build", "newest"} /\ r.fn # NoFile => r.seq = r.bseq

(* A record as the output has it.                                          *)
Written(r, in, o) ==
  /\ Shape(r)
  /\ r.sep /\ PutsPlain(in, o) => r.fn # NoFile
  /\ r.sep /\ o.operator \in {"build", "newest"} /\ r.fn # NoFile => r.seq = r.bseq

FilesOf(recs) == {r.fn : r \in {q \in Range(recs) : q.sep}}

InputOK ==
  /\ IsSeq(input)
  /\ \A i \in DOMAIN input : Found(input[i], input, opt)
  /\ \A i, j \in DOMAIN input : i < j => input[i].k <= input[j].k

(* What the merge has still to return is of one key, and no later than the *)
(* rest of the input.                                                      *)
MergeOK(p, ms) ==
  /\ IsSeq(ms)
  /\ \A m \in Range(ms) :
       /\ Found(m, input, opt)
       /\ \A n \in Range(ms) : m.k = n.k
       /\ \A i \in p .. Len(input) : m.k <= input[i].k

OutputOK(out, dep, fs, in, o) ==
  /\ IsSeq(out) /\ IsSeq(fs)
  /\ \A r \in Range(out) : Written(r, in, o)
  /\ \A i, j \in DOMAIN out : i < j => out[i].k <= out[j].k
  /\ dep = FilesOf(out)
  /\ \A f \in DOMAIN fs : /\ fs[f].dep = FilesOf(fs[f].recs)
                          /\ PutsPlain(in, o) => NoFile \notin fs[f].dep
                          /\ \A r \in Range(fs[f].recs) : r.k \in Nat
  /\ \A f, g \in DOMAIN fs : f < g =>
       \A r \in Range(fs[f].recs), q \in Range(fs[g].recs) : r.k < q.k
  /\ \A f \in DOMAIN fs : \A r \in Range(fs[f].recs), q \in Range(out) : r.k < q.k

(* What was written comes before a key, and what was closed strictly so.   *)
Precede(out, fs, n) ==
  /\ \A r \in Range(out) : r.k <= n
  /\ \A f \in DOMAIN fs : \A r \in Range(fs[f].recs) : r.k < n

(* The keys that are still to come.                                        *)
Ahead(p, ms) == {input[i].k : i \in p .. Len(input)} \cup {m.k : m \in Range(ms)}

(* A put to clear is under a SingleDelete that was kept for a snapshot.    *)
ClearOK ==
  clear_and_output_next_key_ =>
    /\ pos > 1 /\ input[pos].k = input[pos - 1].k
    /\ input[pos - 1].type = "single" /\ ~(input[pos - 1].seq <= opt.conflict)

Inv ==
  /\ InputOK
  /\ ClearOK
  /\ pos \in Nat \ {0}
  /\ MergeOK(pos, merge_out)
  /\ OutputOK(output, dependence, files, input, opt)
  /\ \A n \in Ahead(pos, merge_out) : Precede(output, files, n)
----------------------------------------------------------------------------
(* Sequences *)

(* The elements of a sequence and its range.                               *)
LEMMA SeqFacts ==
  ASSUME NEW s, IsSeq(s)
  PROVE  /\ Len(s) \in Nat /\ DOMAIN s = 1 .. Len(s)
         /\ \A i \in 1 .. Len(s) : s[i] \in Range(s)
         /\ \A r \in Range(s) : \E i \in 1 .. Len(s) : s[i] = r
  BY DEF IsSeq, Range

(* A function on 1 .. n is a sequence.                                     *)
LEMMA FunctionIsSeq ==
  ASSUME NEW n \in Nat, NEW s, s = [i \in 1 .. n |-> s[i]]
  PROVE  IsSeq(s) /\ Len(s) = n
  BY IsASeq DEF IsSeq, Range

(* Appending to a sequence of whatever elements.                           *)
LEMMA AppendSeq ==
  ASSUME NEW s, IsSeq(s), NEW e
  PROVE  /\ IsSeq(Append(s, e))
         /\ Range(Append(s, e)) = Range(s) \cup {e}
         /\ Len(Append(s, e)) = Len(s) + 1
         /\ \A i \in 1 .. Len(s) : Append(s, e)[i] = s[i]
         /\ Append(s, e)[Len(s) + 1] = e
<1> DEFINE T == Range(s) \cup {e}
           t == Append(s, e)
<1>1. s \in Seq(T) /\ e \in T
  BY SeqMonotonic DEF IsSeq
<1>2. /\ t \in Seq(T) /\ Len(t) = Len(s) + 1 /\ Len(s) \in Nat
      /\ \A i \in 1 .. Len(s) : t[i] = s[i]
      /\ t[Len(s) + 1] = e
      /\ DOMAIN t = 1 .. Len(s) + 1 /\ DOMAIN s = 1 .. Len(s)
  BY <1>1
<1> HIDE DEF t
<1>3. Range(t) = T
  BY <1>2 DEF Range
<1>4. IsSeq(t)
  BY <1>2, <1>3 DEF IsSeq
<1> QED BY <1>2, <1>3, <1>4 DEF t

(* The empty sequence.                                                     *)
LEMMA EmptyIsSeq ==
  IsSeq(<< >>) /\ Range(<< >>) = {} /\ DOMAIN << >> = {}
  BY DEF IsSeq, Range

(* A sequence of one element.                                              *)
LEMMA SingletonSeq ==
  ASSUME NEW e
  PROVE  /\ IsSeq(<<e>>) /\ Range(<<e>>) = {e} /\ Len(<<e>>) = 1 /\ <<e>>[1] = e
         /\ DOMAIN <<e>> = {1}
  BY DEF IsSeq, Range

(* The rest of a sequence has no other elements.                           *)
LEMMA TailSeq ==
  ASSUME NEW s, IsSeq(s), s # << >>
  PROVE  /\ IsSeq(Tail(s)) /\ Range(Tail(s)) \subseteq Range(s)
         /\ Head(s) \in Range(s)
<1>1. s \in Seq(Range(s))
  BY DEF IsSeq
<1>2. Tail(s) \in Seq(Range(s)) /\ Head(s) \in Range(s)
  BY <1>1, HeadTailProperties
<1> QED BY ZenonT(30), <1>2, SeqOfRange, RangeOfSeq DEF IsSeq
----------------------------------------------------------------------------
(* What the iterator returns *)

(* TimedFullMerge: a value that the operator returns is that of the newest *)
(* operand, whose key it gets, unless the operator returns an older one.   *)
LEMMA MergedIsFound ==
  ASSUME NEW ops, IsSeq(ops), ops # << >>, Found(ops[1], input, opt),
         NEW ex, IsSeq(ex), NEW t \in {"value", "merge"}
  PROVE  LET ms == MergedInto(ops, t, ex) IN
         IsSeq(ms) /\ \A m \in Range(ms) : Found(m, input, opt) /\ m.k = ops[1].k
<1> DEFINE sources == ex \o Reverse(ops)
           from == IF opt.operator = "build" THEN [ops[1] EXCEPT !.fn = NoFile]
                   ELSE Returned(sources)
           v == MergeOf([i \in DOMAIN sources |-> sources[i].val])
           m == [ops[1] EXCEPT !.type = t, !.sep = FALSE, !.val = v,
                               !.fn = from.fn, !.bseq = from.bseq]
<1>1. opt.operator = "newest" => from = ops[1]
  <2>1. /\ Len(ops) \in Nat \ {0} /\ DOMAIN ops = 1 .. Len(ops)
        /\ \A i \in 1 .. Len(ops) : ops[i] \in Range(ops)
    BY SeqFacts, EmptySeq DEF IsSeq
  <2>2. Reverse(ops) \in Seq(Range(ops)) /\ Len(Reverse(ops)) = Len(ops)
        /\ Reverse(ops)[Len(ops)] = ops[1]
    BY <2>1 DEF Reverse
  <2> DEFINE R == Reverse(ops)
             T == Range(ex) \cup Range(ops)
  <2>3. ex \in Seq(T) /\ R \in Seq(T)
    BY <2>2, SeqMonotonic DEF IsSeq
  <2> HIDE DEF R, T
  <2>4. Len(ex \o R) = Len(ex) + Len(R) /\ (ex \o R)[Len(ex) + Len(R)] = R[Len(R)]
    <3>1. Len(ex) \in Nat /\ Len(R) \in Nat \ {0}
      BY <2>1, <2>2, SeqFacts DEF R
    <3> QED BY <3>1, <2>3, ConcatProperties
  <2>5. Last(sources) = ops[1]
    BY <2>2, <2>4 DEF Last, R
  <2> QED BY <2>5 DEF Returned
<1> HIDE DEF v, sources
<1>3. Shape(m) /\ m.k = ops[1].k /\ m.sep = FALSE
  BY DEF Found, Shape
<1>4. opt.operator \in {"build", "newest"} /\ m.fn # NoFile => m.seq = m.bseq
  BY <1>1 DEF Found, Shape
<1>5. MergedInto(ops, t, ex) = <<m>>
  BY DEF MergedInto, v, sources
<1> HIDE DEF m
<1>6. Found(m, input, opt)
  BY <1>3, <1>4 DEF Found
<1> QED BY <1>3, <1>5, <1>6, SingletonSeq

(* zero_sequence changes nothing but a sequence number.                    *)
LEMMA ZeroSequence ==
  ASSUME NEW r, Shape(r)
  PROVE  /\ Shape(zero_sequence(r)) /\ zero_sequence(r).k = r.k
         /\ zero_sequence(r).sep = r.sep /\ zero_sequence(r).fn = r.fn
  BY DEF Shape, zero_sequence

(* PrepareOutput keeps the key of a record, and what it separates has the  *)
(* sequence number that the blob has.                                      *)
LEMMA PreparedIsWritten ==
  ASSUME NEW r, Found(r, input, opt), NEW p \in PrepareOutput(r)
  PROVE  Written(p, input, opt) /\ p.k = r.k
<1>1. /\ Shape(r)
      /\ r.sep => Holds(r) /\ (PutsPlain(input, opt) => r.fn # NoFile)
      /\ opt.operator \in {"build", "newest"} /\ r.fn # NoFile => r.seq = r.bseq
  BY DEF Found
<1>2. CASE p = zero_sequence(r) /\ ~r.sep
  BY <1>1, <1>2, ZeroSequence DEF Written
<1>3. CASE p = r
  BY <1>1, <1>3 DEF Written
<1>4. CASE p = InputAsBlob(r) /\ r.fn # NoFile
  BY <1>1, <1>4 DEF Written, InputAsBlob, Shape
<1> DEFINE c == [r EXCEPT !.sep = FALSE]
           z == zero_sequence(c)
<1>5. Shape(c) /\ c.k = r.k /\ c.sep = FALSE
  BY <1>1 DEF Shape
<1>6. Shape(z) /\ z.k = r.k /\ z.sep = FALSE
  <2> HIDE DEF c
  <2> QED BY <1>5, ZeroSequence
<1>7. CASE p = Combined(r)
  BY <1>6, <1>7 DEF Combined, Written
<1>8. CASE p \in ToNewBlob(r)
  <2>1. p = z \/ p = [z EXCEPT !.sep = TRUE, !.fn = NewBlob, !.bseq = z.seq]
    BY <1>8 DEF ToNewBlob, Combined
  <2> HIDE DEF z
  <2>2. NewBlob # NoFile
    BY DEF NewBlob, NoFile
  <2> QED BY ZenonT(30), <2>1, <2>2, <1>6 DEF Written, Shape
<1> QED BY <1>1, <1>2, <1>3, <1>4, <1>7, <1>8 DEF PrepareOutput

(* Adding a record that comes after all that was written keeps the outputs *)
(* in order, and a closed one apart from what follows.                     *)
LEMMA AddKeeps ==
  ASSUME NEW p, Written(p, input, opt), OutputOK(output, dependence, files, input, opt),
         Precede(output, files, p.k), Add(p)
  PROVE  /\ OutputOK(output', dependence', files', input, opt)
         /\ \A n \in Nat : n >= p.k => Precede(output', files', n)
<1> DEFINE dep == IF p.sep THEN {p.fn} ELSE {}
<1>1. CASE /\ output' = Append(output, p)
           /\ dependence' = dependence \cup dep
           /\ UNCHANGED files
  <2>1. /\ IsSeq(output') /\ Range(output') = Range(output) \cup {p}
        /\ Len(output') = Len(output) + 1 /\ Len(output) \in Nat
        /\ \A i \in 1 .. Len(output) : output'[i] = output[i]
        /\ output'[Len(output) + 1] = p
        /\ DOMAIN output' = 1 .. Len(output) + 1 /\ DOMAIN output = 1 .. Len(output)
    BY <1>1, AppendSeq, SeqFacts DEF OutputOK
  <2>2. dependence' = FilesOf(output')
    BY <1>1, <2>1 DEF OutputOK, FilesOf
  <2>3. \A r \in Range(output') : Written(r, input, opt) /\ r.k <= p.k /\ r.k \in Nat
    BY <2>1 DEF OutputOK, Precede, Written, Shape
  <2>4. \A i, j \in DOMAIN output' : i < j => output'[i].k <= output'[j].k
    <3> SUFFICES ASSUME NEW i \in 1 .. Len(output) + 1, NEW j \in 1 .. Len(output) + 1, i < j
                 PROVE  output'[i].k <= output'[j].k
      BY <2>1
    <3>1. CASE j = Len(output) + 1
      BY <3>1, <2>1, <2>3 DEF Range
    <3>2. CASE j # Len(output) + 1
      BY <3>2, <2>1 DEF OutputOK
    <3> QED BY <3>1, <3>2
  <2>5. \A f \in DOMAIN files : \A r \in Range(files[f].recs) : r.k \in Nat /\ r.k < p.k
    BY DEF Precede, OutputOK
  <2>6. OutputOK(output', dependence', files', input, opt)
    BY SMTT(30), <1>1, <2>1, <2>2, <2>3, <2>4, <2>5 DEF OutputOK
  <2>7. \A n \in Nat : n >= p.k => Precede(output', files', n)
    BY SMTT(30), <1>1, <2>3, <2>5 DEF Precede, Written, Shape
  <2> QED BY <2>6, <2>7
<1>2. CASE /\ EndsOutput(p)
           /\ files' = Append(files, [recs |-> output, dep |-> dependence])
           /\ output' = <<p>>
           /\ dependence' = dep
  <2> DEFINE file == [recs |-> output, dep |-> dependence]
  <2>1. Range(output') = {p} /\ IsSeq(output') /\ DOMAIN output' = {1}
    BY <1>2, SingletonSeq
  <2>2. /\ IsSeq(files') /\ Len(files) \in Nat
        /\ DOMAIN files' = 1 .. Len(files) + 1 /\ DOMAIN files = 1 .. Len(files)
        /\ \A i \in DOMAIN files : files'[i] = files[i]
        /\ files'[Len(files) + 1] = file
    <3> HIDE DEF file
    <3> QED BY <1>2, AppendSeq, SeqFacts DEF OutputOK, file
  <2>3. file.recs = output /\ file.dep = dependence
    OBVIOUS
  <2>4. \A r \in Range(output) : r.k \in Nat /\ r.k < p.k
    <3>1. /\ Len(output) \in Nat /\ DOMAIN output = 1 .. Len(output) /\ output # << >>
          /\ output[Len(output)].k # p.k
      BY <1>2, SeqFacts DEF EndsOutput, OutputOK, Last
    <3>2. \A r \in Range(output) : r.k \in Nat /\ r.k <= p.k /\ p.k \in Nat
      BY DEF OutputOK, Precede, Written, Shape
    <3>3. Len(output) # 0
      BY <3>1, EmptySeq DEF OutputOK, IsSeq
    <3>4. SUFFICES ASSUME NEW i \in 1 .. Len(output) PROVE output[i].k \in Nat /\ output[i].k < p.k
      BY <3>1 DEF Range
    <3>5. output[i] \in Range(output) /\ output[Len(output)] \in Range(output)
      BY <3>1, <3>3, <3>4 DEF Range
    <3>6. output[i].k <= output[Len(output)].k
      BY SMTT(30), <3>1, <3>2, <3>3, <3>4, <3>5 DEF OutputOK
    <3> QED BY <3>1, <3>2, <3>5, <3>6
  <2> HIDE DEF file
  <2>11. PutsPlain(input, opt) => NoFile \notin dependence
    BY DEF OutputOK, FilesOf, Written
  <2>5. \A f \in DOMAIN files' :
          /\ files'[f].dep = FilesOf(files'[f].recs)
          /\ PutsPlain(input, opt) => NoFile \notin files'[f].dep
          /\ \A r \in Range(files'[f].recs) : r.k \in Nat /\ r.k < p.k
    <3> SUFFICES ASSUME NEW f \in 1 .. Len(files) + 1
                 PROVE  /\ files'[f].dep = FilesOf(files'[f].recs)
                        /\ PutsPlain(input, opt) => NoFile \notin files'[f].dep
                        /\ \A r \in Range(files'[f].recs) : r.k \in Nat /\ r.k < p.k
      BY <2>2
    <3>1. CASE f = Len(files) + 1
      BY <3>1, <2>2, <2>3, <2>4, <2>11 DEF OutputOK
    <3>2. CASE f # Len(files) + 1
      BY <3>2, <2>2 DEF OutputOK, Precede
    <3> QED BY <3>1, <3>2
  <2>6. \A f, g \in DOMAIN files' : f < g =>
          \A r \in Range(files'[f].recs), q \in Range(files'[g].recs) : r.k < q.k
    <3> SUFFICES ASSUME NEW f \in 1 .. Len(files) + 1, NEW g \in 1 .. Len(files) + 1, f < g
                 PROVE  \A r \in Range(files'[f].recs), q \in Range(files'[g].recs) : r.k < q.k
      BY <2>2
    <3>1. CASE g = Len(files) + 1
      BY <3>1, <2>2, <2>3 DEF OutputOK
    <3>2. CASE g # Len(files) + 1
      BY <3>2, <2>2 DEF OutputOK
    <3> QED BY <3>1, <3>2
  <2>7. dependence' = FilesOf(output')
    BY <1>2, <2>1 DEF FilesOf
  <2>8. \A i, j \in DOMAIN output' : i < j => output'[i].k <= output'[j].k
    BY <2>1
  <2>9. OutputOK(output', dependence', files', input, opt)
    BY SMTT(30), <2>1, <2>2, <2>5, <2>6, <2>7, <2>8 DEF OutputOK
  <2>10. \A n \in Nat : n >= p.k => Precede(output', files', n)
    BY <2>1, <2>5 DEF Precede, Written, Shape
  <2> QED BY <2>9, <2>10
<1> QED BY <1>1, <1>2 DEF Add
----------------------------------------------------------------------------
(* The steps *)

(* What an action needs: the rest of the input comes after the record it   *)
(* is at.                                                                  *)
LEMMA HereFacts ==
  ASSUME Inv, pos \in DOMAIN input
  PROVE  /\ Found(Here, input, opt) /\ Here.k \in Nat /\ pos \in 1 .. Len(input) /\ Len(input) \in Nat
         /\ DOMAIN input = 1 .. Len(input)
         /\ Precede(output, files, Here.k)
         /\ \A i \in pos .. Len(input) : Found(input[i], input, opt) /\ input[i].k \in Nat
                                         /\ Here.k <= input[i].k
<1>1. /\ pos \in 1 .. Len(input) /\ Len(input) \in Nat /\ DOMAIN input = 1 .. Len(input)
      /\ \A i \in 1 .. Len(input) : Found(input[i], input, opt) /\ input[i].k \in Nat
  BY SeqFacts DEF Inv, InputOK, Found, Shape
<1>2. Here.k \in Ahead(pos, merge_out)
  BY <1>1 DEF Ahead, Here
<1>3. \A i \in pos .. Len(input) : Here.k <= input[i].k
  <2> SUFFICES ASSUME NEW i \in pos .. Len(input) PROVE input[pos].k <= input[i].k
    BY DEF Here
  <2>1. CASE i = pos
    BY <2>1, <1>1
  <2>2. CASE i # pos
    BY <2>2, <1>1 DEF Inv, InputOK
  <2> QED BY <2>1, <2>2
<1> QED BY <1>1, <1>2, <1>3 DEF Inv, Here

(* An action that returns a record of the key it is at.                    *)
LEMMA ReturnKeeps ==
  ASSUME Inv, pos \in DOMAIN input, NEW r, Found(r, input, opt), r.k = Here.k, Return(r),
         pos' \in Nat, pos' > pos, merge_out = << >>, UNCHANGED <<input, opt, merge_out>>, ClearOK'
  PROVE  Inv'
<1>1. PICK p \in PrepareOutput(r) : Add(p)
  BY DEF Return
<1>2. Written(p, input, opt) /\ p.k = Here.k
  BY PreparedIsWritten
<1>3. /\ OutputOK(output', dependence', files', input, opt)
      /\ \A n \in Nat : n >= Here.k => Precede(output', files', n)
  BY <1>1, <1>2, HereFacts, AddKeeps DEF Inv
<1>4. \A n \in Ahead(pos, merge_out)' : n \in Nat /\ n >= Here.k
  BY HereFacts DEF Ahead, Range
<1>5. MergeOK(pos, merge_out)'
  BY HereFacts DEF MergeOK, Inv, Range
<1> QED BY <1>3, <1>4, <1>5 DEF Inv, InputOK

(* An action that drops the record it is at.                               *)
LEMMA SkipKeeps ==
  ASSUME Inv, pos \in DOMAIN input, UNCHANGED <<files, output, dependence>>,
         pos' \in Nat, pos' > pos, merge_out = << >>, UNCHANGED <<input, opt, merge_out>>, ClearOK'
  PROVE  Inv'
<1>1. \A n \in Ahead(pos, merge_out)' : n \in Ahead(pos, merge_out)
  BY HereFacts DEF Ahead, Range
<1>2. MergeOK(pos, merge_out)'
  BY HereFacts DEF MergeOK, Inv, Range
<1> QED BY <1>1, <1>2 DEF Inv, InputOK, OutputOK, Precede

(* Optimization 3 and the five cases of a SingleDelete.                    *)
LEMMA SingleDeleteInv == Inv /\ (ClearedPut \/ SingleDelete) => Inv'
<1> SUFFICES ASSUME Inv, ClearedPut \/ SingleDelete PROVE Inv'
  OBVIOUS
<1>1. pos \in DOMAIN input /\ merge_out = << >> /\ UNCHANGED <<input, opt, merge_out>>
  BY DEF ClearedPut, SingleDelete, Turn
<1>2. Found(Here, input, opt) /\ pos \in Nat
  BY <1>1, HereFacts
<1> DEFINE cleared == [Here EXCEPT !.val = << >>, !.fn = NoFile]
<1>3. cleared.k = Here.k /\ Shape(cleared) /\ cleared.sep = Here.sep /\ cleared.fn = NoFile
      /\ cleared.type = Here.type
  BY <1>2 DEF Found, Shape
<1>4. CASE ClearedPut
  <2>1. Return(cleared) /\ pos' = pos + 1 /\ clear_and_output_next_key_
        /\ clear_and_output_next_key_' = FALSE
    BY <1>4 DEF ClearedPut
  <2>2. PutsPlain(input, opt) => ~Here.sep
    BY <2>1, <1>1 DEF Inv, ClearOK, PutsPlain, Here
  <2> HIDE DEF cleared
  <2>3. Found(cleared, input, opt)
    BY <2>2, <1>2, <1>3 DEF Found, Holds
  <2>4. ClearOK'
    BY <2>1 DEF ClearOK
  <2> QED BY SMTT(30), <2>1, <2>3, <2>4, <1>1, <1>2, <1>3, ReturnKeeps
<1>5. CASE SingleDelete
  <2>1. pos' \in Nat /\ pos' > pos
    BY <1>2, <1>5 DEF SingleDelete
  <2>2. Return(Here) \/ UNCHANGED <<files, output, dependence>>
    BY <1>5 DEF SingleDelete, Skip
  <2>3. ClearOK'
    <3>1. CASE ~clear_and_output_next_key_'
      BY <3>1 DEF ClearOK
    <3>2. CASE clear_and_output_next_key_'
      <4>1. /\ Here.type = "single" /\ SameStripe(pos + 1) /\ ~Rule2(Here) /\ pos' = pos + 1
        BY Zenon, <3>2, <1>5 DEF SingleDelete
      <4>2. input[pos + 1].k = input[pos].k
        BY Zenon, <4>1 DEF SameStripe, SameKey, Here
      <4>3. ~(input[pos].seq <= opt.conflict) /\ input[pos].type = "single"
        BY Zenon, <4>1 DEF Rule2, Here
      <4>4. pos' > 1 /\ pos' - 1 = pos
        BY <4>1, <1>1, <1>2, HereFacts
      <4> QED BY <4>1, <4>2, <4>3, <4>4, <1>1 DEF ClearOK
    <3> QED BY <3>1, <3>2
  <2> QED BY <2>1, <2>2, <2>3, <1>1, <1>2, ReturnKeeps, SkipKeeps
<1> QED BY <1>4, <1>5

(* The least element of a set of naturals.                                 *)
LEMMA MinExists ==
  ASSUME NEW S \in SUBSET Nat, S # {}
  PROVE  Min(S) \in S /\ \A n \in S : Min(S) <= n
<1> DEFINE Less == {ss \in Nat \X Nat : ss[1] < ss[2]}
<1>1. IsWellFoundedOn(Less, Nat)
  BY NatLessThanWellFounded, Zenon DEF OpToRel
<1>2. PICK m \in S : \A n \in S : <<n, m>> \notin Less
  <2> HIDE DEF Less
  <2> QED BY <1>1, WFMin
<1>3. \A n \in S : m <= n
  <2> SUFFICES ASSUME NEW n \in S, ~(m <= n) PROVE FALSE
    OBVIOUS
  <2>1. n \in Nat /\ m \in Nat /\ n < m
    OBVIOUS
  <2>2. <<n, m>> \in Less
    BY <2>1
  <2> QED BY <2>2, <1>2
<1> QED BY <1>3 DEF Min

(* The other puts and deletions, which a filter may have changed.          *)
LEMMA FilteredIsFound ==
  ASSUME Inv, pos \in DOMAIN input, NEW r \in Filtered
  PROVE  Found(r, input, opt) /\ r.k = Here.k
<1>1. Found(Here, input, opt)
  BY HereFacts
<1> QED BY ZenonT(30), <1>1 DEF Filtered, Found, Shape, Holds

(* Rule (A), the deletions with nothing left to delete, and what is kept.  *)
LEMMA DropInv == Inv /\ (Drop \/ DropDeletion \/ Keep) => Inv'
<1> SUFFICES ASSUME Inv, Drop \/ DropDeletion \/ Keep PROVE Inv'
  OBVIOUS
<1>1. pos \in DOMAIN input /\ merge_out = << >> /\ UNCHANGED <<input, opt, merge_out>>
  BY DEF Drop, DropDeletion, Keep, Turn
<1>2. pos \in 1 .. Len(input) /\ Len(input) \in Nat /\ DOMAIN input = 1 .. Len(input)
  BY <1>1, HereFacts
<1>3. pos' \in Nat /\ pos' > pos
  <2> DEFINE S == {i \in pos + 1 .. Len(input) + 1 : ~SameStripe(i)}
  <2>1. S \in SUBSET Nat /\ Len(input) + 1 \in S
    BY <1>2 DEF SameStripe, SameKey
  <2>2. Min(S) \in S
    <3> HIDE DEF S
    <3> QED BY <2>1, MinExists
  <2>3. pos' = pos + 1 \/ pos' = Min(S)
    BY DEF Drop, DropDeletion, Keep
  <2> QED BY <2>2, <2>3, <1>2
<1>4. PICK r \in Filtered : Return(r) \/ UNCHANGED <<files, output, dependence>>
  BY DEF Drop, DropDeletion, Keep, Skip
<1>5. Found(r, input, opt) /\ r.k = Here.k
  BY <1>1, FilteredIsFound
<1>6. ClearOK'
  <2>1. ~clear_and_output_next_key_'
    BY Zenon DEF Drop, DropDeletion, Keep, Plain
  <2> QED BY <2>1 DEF ClearOK
<1> QED BY <1>1, <1>3, <1>4, <1>5, <1>6, ReturnKeeps, SkipKeeps

(* MergeUntil: what it returns is of the key it started at.                *)
LEMMA MergeInv == Inv /\ Merge => Inv'
<1> SUFFICES ASSUME Inv, Merge PROVE Inv'
  OBVIOUS
<1> DEFINE Operand(i) == SameStripe(i) /\ input[i].type = "merge"
           S == {i \in pos + 1 .. Len(input) + 1 : ~Operand(i)}
           rest == Min(S)
<1>1. /\ pos \in DOMAIN input /\ merge_out = << >>
      /\ UNCHANGED <<input, opt, files, output, dependence>>
  BY DEF Merge, Turn, Skip
<1>2. /\ pos \in 1 .. Len(input) /\ Len(input) \in Nat /\ DOMAIN input = 1 .. Len(input)
      /\ Here.k \in Nat /\ Precede(output, files, Here.k)
      /\ \A i \in pos .. Len(input) : Found(input[i], input, opt) /\ input[i].k \in Nat
                                      /\ Here.k <= input[i].k
  BY <1>1, HereFacts
<1>3. rest \in pos + 1 .. Len(input) + 1 /\ \A i \in pos + 1 .. rest - 1 : Operand(i)
  <2>1. S \in SUBSET Nat /\ Len(input) + 1 \in S
    BY <1>2 DEF SameStripe, SameKey
  <2>2. Min(S) \in S /\ \A n \in S : Min(S) <= n
    <3> HIDE DEF S
    <3> QED BY <2>1, MinExists
  <2>3. rest \in pos + 1 .. Len(input) + 1
    BY <2>2
  <2>4. ASSUME NEW i \in pos + 1 .. rest - 1 PROVE Operand(i)
    <3>1. i \in pos + 1 .. Len(input) + 1 /\ ~(rest <= i)
      BY SMTT(30), <2>3, <2>4, <1>2
    <3>2. i \notin S
      BY <3>1, <2>2
    <3> QED BY <3>1, <3>2
  <2> QED BY <2>3, <2>4
<1>4. \A i \in pos .. rest - 1 : Found(input[i], input, opt) /\ input[i].k = Here.k
  <2> HIDE DEF rest
  <2> QED BY <1>2, <1>3 DEF SameStripe, SameKey, Here
<1>5. PICK left \in Increasing(pos .. rest - 1) :
        LET ops == [j \in DOMAIN left |-> input[left[j]]] IN
        \/ merge_out' = << >>
        \/ left # << >> /\ merge_out' = ops
        \/ /\ left # << >>
           /\ \E t \in {"value", "merge"}, ex \in {<< >>, <<input[rest]>>} :
                merge_out' = MergedInto(ops, t, ex)
  BY Zenon DEF Merge
<1>6. pos' \in Nat /\ pos' > pos
  <2>1. pos' \in {rest, rest + 1}
    BY Zenon DEF Merge
  <2> HIDE DEF rest
  <2> QED BY <2>1, <1>2, <1>3
<1> DEFINE ops == [j \in DOMAIN left |-> input[left[j]]]
<1>7. PICK n \in Nat : left \in [1 .. n -> pos .. rest - 1]
  <2> HIDE DEF rest
  <2>1. PICK n \in 0 .. Cardinality(pos .. rest - 1) : left \in [1 .. n -> pos .. rest - 1]
    BY DEF Increasing
  <2> QED BY <2>1
<1>8. IsSeq(ops) /\ \A m \in Range(ops) : Found(m, input, opt) /\ m.k = Here.k
  <2> HIDE DEF rest
  <2>1. ops = [j \in 1 .. n |-> ops[j]]
    BY <1>7
  <2>2. \A j \in 1 .. n : Found(ops[j], input, opt) /\ ops[j].k = Here.k
    BY <1>4, <1>7
  <2> HIDE DEF ops
  <2> QED BY <2>1, <2>2, FunctionIsSeq DEF Range
<1>9. left # << >> => ops[1] \in Range(ops)
  <2> HIDE DEF rest
  <2> QED BY <1>7 DEF Range
<1>10. ASSUME NEW ex \in {<< >>, <<input[rest]>>}, NEW t \in {"value", "merge"}, left # << >>
       PROVE  LET ms == MergedInto(ops, t, ex) IN
              IsSeq(ms) /\ \A m \in Range(ms) : Found(m, input, opt) /\ m.k = Here.k
  <2>1. Found(ops[1], input, opt) /\ ops[1].k = Here.k /\ IsSeq(ops) /\ ops # << >>
    BY <1>7, <1>8, <1>9, <1>10
  <2>2. IsSeq(ex)
    BY SMTT(30), <1>10, SingletonSeq, EmptyIsSeq
  <2> HIDE DEF ops
  <2> QED BY <2>1, <2>2, MergedIsFound
<1> HIDE DEF ops, rest
<1>11. IsSeq(merge_out') /\ \A m \in Range(merge_out') : Found(m, input, opt) /\ m.k = Here.k
  <2> QED BY SMTT(30), EmptyIsSeq, <1>5, <1>8, <1>10 DEF ops
<1>12. MergeOK(pos, merge_out)'
  BY <1>1, <1>2, <1>6, <1>11 DEF MergeOK
<1>13. \A n_ \in Ahead(pos, merge_out)' : n_ \in Ahead(pos, merge_out)
  BY <1>1, <1>2, <1>6, <1>11 DEF Ahead, Here
<1>14. ClearOK'
  <2>1. ~clear_and_output_next_key_'
    BY Zenon DEF Merge, Plain
  <2> QED BY <2>1 DEF ClearOK
<1> QED BY <1>1, <1>6, <1>12, <1>13, <1>14 DEF Inv, InputOK, Precede

(* A record of the merge's output is returned.                             *)
LEMMA ReturnMergedInv == Inv /\ ReturnMerged => Inv'
<1> SUFFICES ASSUME Inv, ReturnMerged PROVE Inv'
  OBVIOUS
<1> DEFINE r == Head(merge_out)
<1>1. /\ IsSeq(merge_out) /\ merge_out # << >> /\ merge_out' = Tail(merge_out)
      /\ Return(r) /\ UNCHANGED <<input, opt, pos, clear_and_output_next_key_>>
  BY DEF Inv, MergeOK, ReturnMerged
<1>2. r \in Range(merge_out) /\ IsSeq(merge_out') /\ Range(merge_out') \subseteq Range(merge_out)
  BY SMTT(30), <1>1, TailSeq
<1>3. Found(r, input, opt) /\ r.k \in Ahead(pos, merge_out) /\ r.k \in Nat
  BY <1>2 DEF Inv, MergeOK, Ahead, Found, Shape
<1> HIDE DEF r
<1>4. PICK p \in PrepareOutput(r) : Add(p)
  BY <1>1 DEF Return
<1>5. Written(p, input, opt) /\ p.k = r.k
  BY <1>3, PreparedIsWritten
<1>6. /\ OutputOK(output', dependence', files', input, opt)
      /\ \A n \in Nat : n >= r.k => Precede(output', files', n)
  BY SMTT(30), <1>3, <1>4, <1>5, AddKeeps DEF Inv
<1>7. \A i \in pos .. Len(input) : input[i].k \in Nat /\ r.k <= input[i].k
  <2>1. Len(input) \in Nat /\ DOMAIN input = 1 .. Len(input)
    BY SMTT(30), SeqFacts DEF Inv, InputOK
  <2> QED BY <2>1, <1>2 DEF Inv, InputOK, MergeOK, Found, Shape
<1>8. \A n \in Ahead(pos, merge_out)' : n \in Nat /\ n >= r.k
  BY SMTT(30), <1>1, <1>2, <1>3, <1>7 DEF Ahead, Inv, MergeOK
<1>9. MergeOK(pos, merge_out)'
  BY <1>1, <1>2 DEF Inv, MergeOK
<1>10. ClearOK'
  BY <1>1 DEF Inv, ClearOK
<1> QED BY <1>1, <1>6, <1>8, <1>9, <1>10 DEF Inv, InputOK

(* The last output is closed.                                              *)
LEMMA FinishInv == Inv /\ Finish => Inv'
<1> SUFFICES ASSUME Inv, Finish PROVE Inv'
  OBVIOUS
<1> DEFINE file == [recs |-> output, dep |-> dependence]
<1>1. /\ pos = Len(input) + 1 /\ merge_out = << >> 
      /\ UNCHANGED <<input, opt, pos, merge_out, clear_and_output_next_key_>>
      /\ files' = Append(files, file) /\ output' = << >> /\ dependence' = {}
  BY DEF Finish, iter
<1>2. IsSeq(<< >>) /\ Range(<< >>) = {} /\ FilesOf(<< >>) = {} /\ DOMAIN << >> = {}
  BY DEF IsSeq, Range, FilesOf
<1>3. file.recs = output /\ file.dep = dependence
  OBVIOUS
<1> HIDE DEF file
<1>4. /\ IsSeq(files') /\ Len(files) \in Nat
      /\ DOMAIN files' = 1 .. Len(files) + 1 /\ DOMAIN files = 1 .. Len(files)
      /\ \A i \in DOMAIN files : files'[i] = files[i]
      /\ files'[Len(files) + 1] = file
  BY <1>1, AppendSeq, SeqFacts DEF Inv, OutputOK
<1>10. PutsPlain(input, opt) => NoFile \notin dependence
  BY DEF Inv, OutputOK, FilesOf, Written
<1>5. \A f \in DOMAIN files' : /\ files'[f].dep = FilesOf(files'[f].recs)
                               /\ PutsPlain(input, opt) => NoFile \notin files'[f].dep
                               /\ \A r \in Range(files'[f].recs) : r.k \in Nat
  <2> SUFFICES ASSUME NEW f \in 1 .. Len(files) + 1
               PROVE  /\ files'[f].dep = FilesOf(files'[f].recs)
                      /\ PutsPlain(input, opt) => NoFile \notin files'[f].dep
                      /\ \A r \in Range(files'[f].recs) : r.k \in Nat
    BY <1>4
  <2>1. CASE f = Len(files) + 1
    BY <2>1, <1>3, <1>4, <1>10 DEF Inv, OutputOK, Written, Shape
  <2>2. CASE f # Len(files) + 1
    BY <2>2, <1>4 DEF Inv, OutputOK
  <2> QED BY <2>1, <2>2
<1>6. \A f, g \in DOMAIN files' : f < g =>
        \A r \in Range(files'[f].recs), q \in Range(files'[g].recs) : r.k < q.k
  <2> SUFFICES ASSUME NEW f \in 1 .. Len(files) + 1, NEW g \in 1 .. Len(files) + 1, f < g
               PROVE  \A r \in Range(files'[f].recs), q \in Range(files'[g].recs) : r.k < q.k
    BY <1>4
  <2>1. CASE g = Len(files) + 1
    BY SMTT(30), <2>1, <1>3, <1>4 DEF Inv, OutputOK
  <2>2. CASE g # Len(files) + 1
    BY SMTT(30), <2>2, <1>4 DEF Inv, OutputOK
  <2> QED BY <2>1, <2>2
<1>7. OutputOK(output', dependence', files', input, opt)
  BY SMTT(30), <1>1, <1>2, <1>4, <1>5, <1>6 DEF OutputOK
<1>8. Ahead(pos, merge_out)' = {}
  <2>1. Len(input) \in Nat
    BY SeqFacts DEF Inv, InputOK
  <2> QED BY SMTT(30), <2>1, <1>1, <1>2 DEF Ahead
<1>9. MergeOK(pos, merge_out)'
  BY <1>1, <1>2 DEF MergeOK
<1>11. ClearOK'
  BY <1>1 DEF Inv, ClearOK
<1> QED BY <1>1, <1>7, <1>8, <1>9, <1>11 DEF Inv, InputOK

(* An input is sorted by key, and its blobs have its records under their   *)
(* sequence numbers.                                                       *)
LEMMA InitInv == Init => Inv
<1> SUFFICES ASSUME Init PROVE Inv
  OBVIOUS
<1>1. PICK ks \in KeySeqs, below \in Below, sep \in BOOLEAN : input \in Inputs(ks, sep, below)
  BY DEF Init
<1>2. /\ ks \in Seq(Nat \ {0}) /\ \A i, j \in DOMAIN ks : i < j => ks[i] <= ks[j]
      /\ Len(ks) \in Nat /\ DOMAIN ks = 1 .. Len(ks)
  BY IteratorAssumption
<1>3. /\ input = [i \in 1 .. Len(ks) |-> input[i]]
      /\ \A i \in 1 .. Len(ks) : Found(input[i], input, opt) /\ input[i].k = ks[i]
  <2> DEFINE seqOf(i) == Cardinality({j \in DOMAIN ks : ks[j] > ks[i] \/ (ks[j] = ks[i] /\ j >= i)})
             record(i, t) == LET holds == t \in {"value", "merge"} IN
               [k |-> ks[i], seq |-> seqOf(i), type |-> t, sep |-> sep /\ holds,
                val |-> IF holds THEN <<seqOf(i)>> ELSE << >>,
                fn |-> IF holds THEN seqOf(i) ELSE NoFile, bseq |-> seqOf(i)]
  <2>1. PICK ts \in [DOMAIN ks -> Type] : input = [i \in DOMAIN ks |-> record(i, ts[i])]
    BY <1>1, Zenon DEF Inputs
  <2>2. ASSUME NEW i \in 1 .. Len(ks) PROVE Found(record(i, ts[i]), input, opt) /\ record(i, ts[i]).k = ks[i]
    <3>1. ks[i] \in Nat
      BY <1>2
    <3>2. seqOf(i) # NoFile
      <4>1. IsFiniteSet({j \in DOMAIN ks : ks[j] > ks[i] \/ (ks[j] = ks[i] /\ j >= i)})
        <5>1. {j \in DOMAIN ks : ks[j] > ks[i] \/ (ks[j] = ks[i] /\ j >= i)} \subseteq 1 .. Len(ks)
          BY <1>2
        <5>2. IsFiniteSet(1 .. Len(ks))
          BY <1>2, FS_Interval
        <5> QED BY Zenon, <5>1, <5>2, FS_Subset
      <4> QED BY <4>1, FS_CardinalityType DEF NoFile
    <3> HIDE DEF seqOf
    <3> QED BY ZenonT(30), <3>1, <3>2 DEF Found, Shape, Holds
  <2> HIDE DEF record
  <2> QED BY <2>1, <2>2, <1>2
<1>4. IsSeq(input) /\ Len(input) = Len(ks) /\ DOMAIN input = 1 .. Len(ks)
  BY <1>2, <1>3, FunctionIsSeq
<1>5. InputOK
  <2>1. \A i, j \in DOMAIN input : i < j => input[i].k <= input[j].k
    BY <1>2, <1>3, <1>4
  <2> QED BY <2>1, <1>3, <1>4 DEF InputOK
<1>6. IsSeq(<< >>) /\ Range(<< >>) = {} /\ FilesOf(<< >>) = {} /\ DOMAIN << >> = {}
  BY DEF IsSeq, Range, FilesOf
<1>7. /\ output = << >> /\ files = << >> /\ merge_out = << >> /\ dependence = {} /\ pos = 1
      /\ clear_and_output_next_key_ = FALSE
  BY DEF Init
<1>8. OutputOK(output, dependence, files, input, opt) /\ MergeOK(pos, merge_out)
  BY <1>6, <1>7 DEF OutputOK, MergeOK
<1>9. \A n \in Ahead(pos, merge_out) : Precede(output, files, n)
  BY <1>6, <1>7 DEF Precede
<1> QED BY <1>5, <1>7, <1>8, <1>9 DEF Inv, ClearOK
----------------------------------------------------------------------------
(* The invariant, and what follows from it *)

(* Every step keeps the invariant.                                         *)
LEMMA NextInv == Inv /\ [Next]_vars => Inv'
<1>1. Inv /\ UNCHANGED vars => Inv'
  BY DEF Inv, InputOK, MergeOK, ClearOK, Ahead, Precede, vars
<1> QED BY <1>1, SingleDeleteInv, DropInv, MergeInv, ReturnMergedInv, FinishInv DEF Next

(* Inv: the input is sorted, what the merge holds back is of one key, and  *)
(* all that CompactionIterator has returned comes before what is to come.  *)
THEOREM Invariance == Spec => []Inv
<1> QED BY InitInv, NextInv, PTL DEF Spec

(* SeparatedSequence: whatever PrepareOutput separates is in a file, under *)
(* the sequence number of the entry, so that fetch_buffer accepts it.      *)
THEOREM SeparatedReadable == Spec => []SeparatedSequence
<1>1. ClearsPlainPuts => PutsPlain(input, opt)
  BY DEF ClearsPlainPuts, PutsPlain
<1>2. Inv => SeparatedSequence
  BY SMTT(30), <1>1 DEF Inv, OutputOK, Written, SeparatedSequence
<1> QED BY <1>2, Invariance, PTL

(* OutputFiles: the outputs that ProcessKeyValueCompaction closes share no *)
(* user key, and each depends on the files of its separated entries, all   *)
(* of which exist.                                                         *)
THEOREM OutputsDisjoint == Spec => []OutputFiles
<1>1. Inv => OutputFiles
  <2> SUFFICES ASSUME Inv PROVE OutputFiles
    OBVIOUS
  <2>1. DOMAIN files = 1 .. Len(files) /\ Len(files) \in Nat
    BY SeqFacts DEF Inv, OutputOK
  <2>2. \A f \in DOMAIN files : files[f].dep = {r.fn : r \in {q \in Range(files[f].recs) : q.sep}}
    BY DEF Inv, OutputOK, FilesOf
  <2>3. ASSUME NEW f \in DOMAIN files, NEW g \in DOMAIN files, f # g,
               NEW r \in Range(files[f].recs), NEW q \in Range(files[g].recs)
        PROVE  r.k # q.k
    <3>1. r.k \in Nat /\ q.k \in Nat
      BY <2>3 DEF Inv, OutputOK
    <3>2. CASE f < g
      BY SMTT(30), <3>1, <3>2, <2>3 DEF Inv, OutputOK
    <3>3. CASE g < f
      BY SMTT(30), <3>1, <3>3, <2>3 DEF Inv, OutputOK
    <3> QED BY SMTT(30), <2>1, <2>3, <3>2, <3>3
  <2>4. ASSUME NEW f \in DOMAIN files, NEW g \in DOMAIN files, f # g
        PROVE  {r.k : r \in Range(files[f].recs)} \cap {r.k : r \in Range(files[g].recs)} = {}
    BY <2>3, <2>4
  <2>5. ClearsPlainPuts => \A f \in DOMAIN files : NoFile \notin files[f].dep
    BY DEF Inv, OutputOK, ClearsPlainPuts, PutsPlain
  <2> QED BY <2>2, <2>4, <2>5 DEF OutputFiles
<1> QED BY <1>1, Invariance, PTL
=============================================================================
