--------------------------- MODULE FileMapProofs ---------------------------
(***************************************************************************)
(* FileMap for every set of keys, every number of files, versions and      *)
(* readers: the invariant of the run "filemap" is inductive, and appending *)
(* to the tree never redirects a reader of an installed version.           *)
(***************************************************************************)
EXTENDS FileMap, TLAPS, WellFoundedInduction

(* What a reopen leaves: the nodes and the blobs that have one are those   *)
(* numbered since, and no number of a blob is handed out again.            *)
SinceOpened ==
  /\ first_file <= next_file_number_
  /\ \A n \in DOMAIN nodes_ : n >= first_file
  /\ \A f \in blobs : f < next_file_number_ /\ (f >= first_file => f \in DOMAIN nodes_)
  /\ \A f \in DOMAIN builder.range :
       /\ first_file <= f /\ f < next_file_number_
       /\ f \in DOMAIN nodes_ \cup builder.blobs

Inv ==
  TypeOK /\ EdgesClimb /\ SaveToAsserts /\ NumbersOrdered /\ ReadersOnTree /\ SinceOpened

(* What the types say of a node, of the version numbers and of a builder.  *)
LEMMA NodeTypes ==
  ASSUME TypeOK, NEW n \in DOMAIN nodes_
  PROVE  /\ n \in 1 .. MaxFile
         /\ nodes_[n].version_num \in 0 .. MaxVersion
         /\ nodes_[n].range \in KeyRange
         /\ nodes_[n].children \in Seq(1 .. MaxFile)
  BY DEF TypeOK, MapNode, File, Version

(* Appending to a sequence keeps the elements it had.                      *)
LEMMA AppendFacts ==
  ASSUME NEW S, NEW s \in Seq(S), NEW e \in S
  PROVE  /\ Append(s, e) \in Seq(S) /\ Len(Append(s, e)) = Len(s) + 1
         /\ \A i \in 1 .. Len(s) : Append(s, e)[i] = s[i]
         /\ Append(s, e)[Len(s) + 1] = e /\ Len(s) \in Nat
  OBVIOUS

(* The initial state, an empty tree under version 0, satisfies it.         *)
LEMMA InitInv == Init => Inv
<1> SUFFICES ASSUME Init PROVE Inv
  OBVIOUS
<1>1. DOMAIN nodes_ = {} /\ DOMAIN builder.range = {}
  BY DEF Init, Idle
<1>2. nodes_ \in [DOMAIN nodes_ -> MapNode]
  BY <1>1 DEF Init
<1>3. TypeOK
  BY <1>1, <1>2, BoundAssumption DEF Init, TypeOK, Idle, None, Version, File, Frame
<1>4. EdgesClimb /\ SaveToAsserts /\ NumbersOrdered /\ ReadersOnTree /\ SinceOpened
  BY <1>1 DEF Init, EdgesClimb, SaveToAsserts, NumbersOrdered, Idle, ReadersOnTree, NoQuery,
              SinceOpened
<1> QED BY <1>3, <1>4 DEF Inv

(* A group of edits only asks for what SaveTo can add.                     *)
LEMMA NewVersionInv == Inv /\ NewVersion => Inv'
<1> SUFFICES ASSUME Inv, NewVersion PROVE Inv'
  OBVIOUS
<1> USE BoundAssumption DEF Inv, File, Version
<1> DEFINE parents == blobs \cup {KeySst}
<1>1. PICK m \in 0 .. MaxOutputs :
        LET outs == next_file_number_ .. next_file_number_ + m - 1 IN
        /\ outs \subseteq File
        /\ \E from \in [outs -> InputSets], rng \in [outs -> KeyRange] :
             builder' = [num |-> current_version_number_, blobs |-> outs,
                         deps |-> {d \in parents \X outs : d[1] \in from[d[2]]},
                         range |-> rng]
        /\ next_file_number_' = next_file_number_ + m
  BY DEF NewVersion
<1> DEFINE outs == next_file_number_ .. next_file_number_ + m - 1
<1>2. PICK from \in [outs -> InputSets], rng \in [outs -> KeyRange] :
             builder' = [num |-> current_version_number_, blobs |-> outs,
                         deps |-> {d \in parents \X outs : d[1] \in from[d[2]]},
                         range |-> rng]
  BY <1>1
<1>3. /\ outs \subseteq 1 .. MaxFile
      /\ next_file_number_' = next_file_number_ + m
      /\ current_version_number_ \in 0 .. MaxVersion
      /\ current_version_number_' = current_version_number_ + 1
      /\ UNCHANGED <<nodes_, installed, lost, blobs, opens, first_file, query>>
  BY <1>1 DEF NewVersion, store
<1>4. /\ builder'.num = current_version_number_
      /\ builder'.blobs = outs
      /\ builder'.deps \subseteq parents \X outs
      /\ builder'.range = rng /\ DOMAIN rng = outs
  BY <1>2
<1>5. next_file_number_' \in 1 .. MaxFile + 1
  <2>1. CASE m = 0 BY <2>1, <1>3 DEF TypeOK
  <2>2. CASE m # 0
    <3>1. next_file_number_ + m - 1 \in outs BY <2>2, <1>3 DEF TypeOK
    <3>2. next_file_number_ + m - 1 \in 1 .. MaxFile BY <3>1, <1>3
    <3>3. next_file_number_ \in Nat /\ m \in Nat BY DEF TypeOK
    <3> QED BY <3>2, <3>3, <1>3
  <2> QED BY <2>1, <2>2
<1>6. TypeOK'
  <2>2. builder'.deps \subseteq (File \cup {KeySst}) \X File
    BY <1>3, <1>4 DEF TypeOK
  <2>3. \A f \in DOMAIN builder'.range : builder'.range[f] \in KeyRange
    BY <1>4
  <2>4. /\ DOMAIN nodes_' \subseteq File /\ nodes_' \in [DOMAIN nodes_' -> MapNode]
        /\ installed' \subseteq Version /\ lost' \subseteq Version /\ blobs' \subseteq File
        /\ opens' \in Nat /\ first_file' \in 1 .. MaxFile + 1
        /\ query' \in [Reader -> Frame]
    BY <1>3 DEF TypeOK
  <2>5. /\ current_version_number_' \in 1 .. MaxVersion + 1
        /\ builder'.num \in Version \cup {None}
    BY <1>3, <1>4 DEF TypeOK
  <2>6. builder'.blobs \subseteq DOMAIN builder'.range /\ DOMAIN builder'.range \subseteq File
    BY <1>3, <1>4
  <2> HIDE DEF outs, parents
  <2> QED BY <1>5, <2>2, <2>3, <2>4, <2>5, <2>6 DEF TypeOK
<1>7. EdgesClimb'
  BY <1>3 DEF EdgesClimb
<1>8. SaveToAsserts'
  <2>1. \A f \in builder'.blobs : f \notin DOMAIN nodes_
    BY <1>3, <1>4, NodeTypes DEF NumbersOrdered, TypeOK
  <2>2. \A d \in builder'.deps : d[1] \in parents /\ d[2] \in builder'.blobs
    BY <1>4
  <2>3. \A p \in parents : p \in DOMAIN nodes_ <=> p >= first_file
    <3>1. \A p \in blobs : p \in DOMAIN nodes_ <=> p >= first_file
      BY DEF SinceOpened
    <3>2. \A n \in DOMAIN nodes_ : n # 0
      BY NodeTypes
    <3>3. ~(0 >= first_file)
      <4>1. first_file \in 1 .. MaxFile + 1 BY DEF TypeOK
      <4> QED BY <4>1
    <3> QED BY <3>1, <3>2, <3>3 DEF KeySst
  <2>4. \A n \in DOMAIN nodes_ : nodes_[n].version_num < builder'.num
    BY <1>4 DEF NumbersOrdered
  <2> HIDE DEF outs, parents
  <2> QED BY <2>1, <2>2, <2>3, <2>4, <1>3 DEF SaveToAsserts
<1>9. NumbersOrdered'
  <2>0. next_file_number_ \in Int /\ m \in Nat
    BY DEF TypeOK
  <2>1. ASSUME NEW n \in DOMAIN nodes_
        PROVE  n < next_file_number_' /\ nodes_[n].version_num <= builder'.num
    <3>1. n \in Int /\ nodes_[n].version_num \in Int BY NodeTypes
    <3>2. n < next_file_number_ /\ nodes_[n].version_num < current_version_number_
      BY DEF NumbersOrdered
    <3> QED BY <3>1, <3>2, <2>0, <1>3, <1>4
  <2>2. \A v \in installed : v < builder'.num /\ v < current_version_number_'
    BY <1>3, <1>4 DEF NumbersOrdered, TypeOK
  <2>3. \A n \in DOMAIN nodes_ : nodes_[n].version_num < current_version_number_'
    BY <2>1, <1>3, <1>4, NodeTypes
  <2>4. \A f \in builder'.blobs : f < next_file_number_'
    BY <1>3, <1>4 DEF TypeOK
  <2> QED BY <2>1, <2>2, <2>3, <2>4, <1>3, <1>4 DEF NumbersOrdered
<1>10. ReadersOnTree'
  BY <1>3 DEF ReadersOnTree
<1>11. SinceOpened'
  <2>1. /\ next_file_number_ \in Int /\ first_file \in Int /\ m \in Nat
        /\ first_file <= next_file_number_
    BY DEF TypeOK, SinceOpened
  <2>2. \A f \in outs : first_file <= f /\ f < next_file_number_'
    BY <2>1, <1>3
  <2>3. ASSUME NEW f \in blobs PROVE f < next_file_number_'
    <3>1. f \in Int /\ f < next_file_number_ BY DEF TypeOK, SinceOpened
    <3> QED BY <3>1, <2>1, <1>3
  <2>4. first_file' <= next_file_number_'
    BY <2>1, <1>3
  <2> HIDE DEF outs
  <2> QED BY <2>2, <2>3, <2>4, <1>3, <1>4 DEF SinceOpened
<1> QED BY <1>6, <1>7, <1>8, <1>9, <1>10, <1>11

(* A builder with something left to add is a builder.                      *)
LEMMA BuilderBusy ==
  ASSUME builder.blobs # {} \/ builder.deps # {}
  PROVE  builder # Idle
  BY DEF Idle

(* A new leaf disturbs no edge and no pending dependence.                  *)
LEMMA AddNodeInv == Inv /\ AddNode => Inv'
<1> SUFFICES ASSUME Inv, AddNode PROVE Inv'
  OBVIOUS
<1> USE DEF Inv
<1>1. PICK f \in builder.blobs :
        /\ nodes_' = [g \in DOMAIN nodes_ \cup {f} |->
                        IF g \in DOMAIN nodes_ THEN nodes_[g]
                        ELSE [version_num |-> builder.num, range |-> builder.range[f],
                              children |-> << >>]]
        /\ builder' = [builder EXCEPT !.blobs = @ \ {f}]
        /\ UNCHANGED <<next_file_number_, current_version_number_, installed, lost, blobs,
                       opens, first_file, query>>
  BY DEF AddNode, AddNodeAt, store
<1>0. f \notin DOMAIN nodes_
  BY DEF SaveToAsserts
<1>2. builder # Idle
  BY <1>1, BuilderBusy
<1>3. builder.num \in Version /\ builder.num < current_version_number_
  BY <1>2 DEF NumbersOrdered
<1>4. /\ builder'.num = builder.num /\ builder'.blobs = builder.blobs \ {f}
      /\ builder'.deps = builder.deps /\ builder'.range = builder.range
  BY <1>1 DEF TypeOK
<1>5. /\ DOMAIN nodes_' = DOMAIN nodes_ \cup {f}
      /\ \A g \in DOMAIN nodes_ : nodes_'[g] = nodes_[g]
      /\ nodes_'[f].version_num = builder.num /\ nodes_'[f].children = << >>
  BY <1>0, <1>1
<1>6. TypeOK'
  <2>1. f \in File /\ builder.range[f] \in KeyRange
    BY <1>1 DEF TypeOK
  <2>2. nodes_'[f] \in MapNode
    BY <2>1, <1>0, <1>1, <1>3 DEF MapNode
  <2>3. nodes_' \in [DOMAIN nodes_' -> MapNode] /\ DOMAIN nodes_' \subseteq File
    BY <2>1, <2>2, <1>1, <1>5 DEF TypeOK
  <2> QED BY <2>3, <1>1, <1>4 DEF TypeOK
<1>7. EdgesClimb'
  BY <1>1, <1>5 DEF EdgesClimb
<1>8. SaveToAsserts'
  <2>1. f >= first_file /\ f \in DOMAIN builder.range
    BY DEF SinceOpened, TypeOK
  <2>2. \A d \in builder.deps : d[1] # f
    BY <2>1, <1>0 DEF SaveToAsserts
  <2> QED BY <2>2, <1>1, <1>4, <1>5 DEF SaveToAsserts
<1>9. NumbersOrdered'
  <2>1. f < next_file_number_
    BY <1>1 DEF NumbersOrdered
  <2>2. \A n \in DOMAIN nodes_' :
          /\ n < next_file_number_ /\ nodes_'[n].version_num < current_version_number_
          /\ nodes_'[n].version_num <= builder.num
    BY <2>1, <1>2, <1>3, <1>5, BoundAssumption DEF NumbersOrdered, Version
  <2> QED BY <2>2, <1>1, <1>2, <1>3, <1>4 DEF NumbersOrdered
<1>10. ReadersOnTree'
  BY <1>1, <1>5 DEF ReadersOnTree
<1>11. SinceOpened'
  <2>1. f >= first_file
    BY DEF SinceOpened, TypeOK
  <2> QED BY <2>1, <1>1, <1>4, <1>5 DEF SinceOpened
<1> QED BY <1>6, <1>7, <1>8, <1>9, <1>10, <1>11

(* A step that appends c to the children of p, and one that leaves out the *)
(* dependence d.                                                           *)
Linked(p, c) ==
  /\ <<p, c>> \in builder.deps
  /\ nodes_[p].version_num < builder.num /\ nodes_[c].version_num = builder.num
  /\ DOMAIN nodes_' = DOMAIN nodes_
  /\ \A g \in DOMAIN nodes_ :
       /\ nodes_'[g].version_num = nodes_[g].version_num
       /\ nodes_'[g].range = nodes_[g].range
       /\ g # p => nodes_'[g].children = nodes_[g].children
  /\ nodes_'[p].children = Append(nodes_[p].children, c)
  /\ nodes_' = [nodes_ EXCEPT ![p].children = Append(@, c)]
  /\ builder' = [builder EXCEPT !.deps = @ \ {<<p, c>>}]

PassedOver(d) == nodes_' = nodes_ /\ builder' = [builder EXCEPT !.deps = @ \ {d}]

(* AddDerivedNode either appends a child, and then the parent's other      *)
(* children and all other nodes keep what they have and the new child is   *)
(* of the version being built, or passes over a parent without a node.     *)
LEMMA AddDerivedNodeFacts ==
  ASSUME Inv, AddDerivedNode
  PROVE  \/ \E p \in DOMAIN nodes_, c \in DOMAIN nodes_ : Linked(p, c)
         \/ \E d \in builder.deps : PassedOver(d)
<1> USE DEF Inv
<1>1. PICK d \in builder.deps :
        /\ \/ /\ d[1] \in DOMAIN nodes_
              /\ nodes_' = [nodes_ EXCEPT ![d[1]].children = Append(@, d[2])]
           \/ nodes_' = nodes_
        /\ builder' = [builder EXCEPT !.deps = @ \ {d}]
  BY DEF AddDerivedNode
<1>2. d = <<d[1], d[2]>>
  BY DEF TypeOK
<1>3. CASE nodes_' = nodes_
  BY <1>1, <1>3 DEF PassedOver
<1>4. CASE /\ d[1] \in DOMAIN nodes_
           /\ nodes_' = [nodes_ EXCEPT ![d[1]].children = Append(@, d[2])]
  <2>1. /\ nodes_[d[1]].version_num < builder.num
        /\ d[2] \in DOMAIN nodes_ /\ nodes_[d[2]].version_num = builder.num
    BY <1>4 DEF SaveToAsserts, AddDerivedNode
  <2>2. DOMAIN nodes_' = DOMAIN nodes_
    BY <1>4 DEF TypeOK
  <2>3. \A g \in DOMAIN nodes_ :
          /\ nodes_'[g].version_num = nodes_[g].version_num
          /\ nodes_'[g].range = nodes_[g].range
          /\ g # d[1] => nodes_'[g].children = nodes_[g].children
    BY <1>4 DEF TypeOK, MapNode
  <2>4. nodes_'[d[1]].children = Append(nodes_[d[1]].children, d[2])
    BY <1>4 DEF TypeOK, MapNode
  <2>5. /\ <<d[1], d[2]>> \in builder.deps
        /\ builder' = [builder EXCEPT !.deps = @ \ {<<d[1], d[2]>>}]
    BY <1>1, <1>2
  <2>6. Linked(d[1], d[2])
    BY <2>1, <2>2, <2>3, <2>4, <2>5, <1>4 DEF Linked
  <2> QED BY <2>1, <2>6, <1>4
<1> QED BY <1>1, <1>3, <1>4

(* An edge that is left out disturbs nothing.                              *)
LEMMA PassedOverInv ==
  ASSUME Inv, AddDerivedNode, NEW d \in builder.deps, PassedOver(d)
  PROVE  Inv'
<1> USE DEF Inv
<1>1. UNCHANGED <<nodes_, next_file_number_, current_version_number_, installed, lost, blobs,
                  opens, first_file, query>>
  BY DEF AddDerivedNode, PassedOver, store
<1>2. /\ builder'.num = builder.num /\ builder'.blobs = builder.blobs
      /\ builder'.deps = builder.deps \ {d} /\ builder'.range = builder.range
  BY DEF TypeOK, PassedOver
<1>3. builder # Idle
  BY BuilderBusy
<1>4. TypeOK' BY <1>1, <1>2 DEF TypeOK
<1>5. EdgesClimb' BY <1>1 DEF EdgesClimb
<1>6. SaveToAsserts' BY <1>1, <1>2 DEF SaveToAsserts
<1>7. NumbersOrdered' BY <1>1, <1>2, <1>3 DEF NumbersOrdered
<1>8. ReadersOnTree' BY <1>1 DEF ReadersOnTree
<1>9. SinceOpened' BY <1>1, <1>2 DEF SinceOpened
<1> QED BY <1>4, <1>5, <1>6, <1>7, <1>8, <1>9

(* A new edge climbs, because its child is of the version being built.     *)
LEMMA LinkedInv ==
  ASSUME Inv, AddDerivedNode, NEW p \in DOMAIN nodes_, NEW c \in DOMAIN nodes_, Linked(p, c)
  PROVE  Inv'
<1> USE DEF Inv
<1>1. Linked(p, c)!1 /\ Linked(p, c)!2 /\ Linked(p, c)!3 /\ Linked(p, c)!4
        /\ Linked(p, c)!5 /\ Linked(p, c)!7
  BY DEF Linked
<1>2. UNCHANGED <<next_file_number_, current_version_number_, installed, lost, blobs, opens,
                  first_file, query>>
  BY DEF AddDerivedNode, store
<1>3. /\ builder'.num = builder.num /\ builder'.blobs = builder.blobs
      /\ builder'.deps = builder.deps \ {<<p, c>>} /\ builder'.range = builder.range
  BY <1>1 DEF TypeOK
<1>4. builder # Idle
  BY <1>1, BuilderBusy
<1>5. TypeOK'
  <2>1. nodes_' = [nodes_ EXCEPT ![p].children = Append(@, c)]
    BY DEF Linked
  <2>2. c \in File /\ nodes_[p] \in MapNode
    BY DEF TypeOK
  <2>3. Append(nodes_[p].children, c) \in Seq(File)
    BY <2>2, AppendFacts DEF MapNode
  <2>4. nodes_' \in [DOMAIN nodes_' -> MapNode]
    <3> DEFINE t == Append(nodes_[p].children, c)
    <3>1. nodes_' = [nodes_ EXCEPT ![p] = [nodes_[p] EXCEPT !.children = t]]
      BY <2>1
    <3>2. [nodes_[p] EXCEPT !.children = t] \in MapNode
      BY SMTT(30), <2>2, <2>3 DEF MapNode
    <3> HIDE DEF t
    <3> QED BY <3>1, <3>2, <2>1 DEF TypeOK
  <2> QED BY <2>4, <1>1, <1>2, <1>3 DEF TypeOK
<1>6. EdgesClimb'
  <2> SUFFICES ASSUME NEW q \in DOMAIN nodes_', NEW i \in 1 .. Len(nodes_'[q].children)
               PROVE  /\ nodes_'[q].children[i] \in DOMAIN nodes_'
                      /\ nodes_'[q].version_num
                           < nodes_'[nodes_'[q].children[i]].version_num
    BY DEF EdgesClimb
  <2>1. q \in DOMAIN nodes_ /\ nodes_[q].children \in Seq(1 .. MaxFile)
    BY <1>1, NodeTypes
  <2> c \in 1 .. MaxFile
    BY NodeTypes
  <2>2. CASE i \in 1 .. Len(nodes_[q].children)
    <3>1. nodes_'[q].children[i] = nodes_[q].children[i]
      <4>1. CASE q = p
        <5>1. nodes_'[q].children = Append(nodes_[q].children, c)
          BY <4>1, <1>1
        <5> QED BY <5>1, <2>1, <2>2, AppendFacts
      <4>2. CASE q # p BY <4>2, <2>1, <1>1
      <4> QED BY <4>1, <4>2
    <3> QED BY SMTT(30), <3>1, <2>1, <2>2, <1>1 DEF EdgesClimb
  <2>3. CASE i \notin 1 .. Len(nodes_[q].children)
    <3>1. q = p
      BY <2>1, <2>3, <1>1
    <3>2. i = Len(nodes_[p].children) + 1
      BY <3>1, <2>1, <2>3, <1>1, AppendFacts
    <3>3. nodes_'[q].children[i] = c
      BY <3>1, <3>2, <2>1, <1>1, AppendFacts
    <3> QED BY <3>1, <3>3, <1>1
  <2> QED BY <2>2, <2>3
<1>7. SaveToAsserts'
  BY SMTT(30), <1>1, <1>2, <1>3 DEF SaveToAsserts
<1>8. NumbersOrdered'
  BY <1>1, <1>2, <1>3, <1>4 DEF NumbersOrdered
<1>9. ReadersOnTree'
  BY <1>1, <1>2 DEF ReadersOnTree
<1>10. SinceOpened'
  BY <1>1, <1>2, <1>3 DEF SinceOpened
<1> QED BY <1>5, <1>6, <1>7, <1>8, <1>9, <1>10

(* Both ways AddDerivedNode can go preserve the invariant.                 *)
LEMMA AddDerivedNodeInv == Inv /\ AddDerivedNode => Inv'
  BY AddDerivedNodeFacts, LinkedInv, PassedOverInv

(* Installing or dropping the version touches no node.                     *)
LEMMA InstallInv == Inv /\ (AppendVersion \/ DropVersion) => Inv'
<1> SUFFICES ASSUME Inv, AppendVersion \/ DropVersion PROVE Inv'
  OBVIOUS
<1> USE DEF Inv
<1>1. /\ builder # Idle /\ builder' = Idle
      /\ installed' \subseteq installed \cup {builder.num}
      /\ lost' \subseteq lost \cup {builder.num}
      /\ blobs' \subseteq blobs \cup DOMAIN builder.range
      /\ builder.blobs = {}
      /\ UNCHANGED <<nodes_, next_file_number_, current_version_number_, opens, first_file,
                     query>>
  BY DEF AppendVersion, DropVersion, Saved
<1>2. builder.num \in Version /\ builder.num < current_version_number_
  BY <1>1 DEF NumbersOrdered
<1>3. /\ builder'.num = None /\ builder'.blobs = {} /\ builder'.deps = {}
      /\ DOMAIN builder'.range = {}
  BY <1>1 DEF Idle
<1>4. TypeOK' BY <1>1, <1>2, <1>3 DEF TypeOK
<1>5. EdgesClimb' BY <1>1 DEF EdgesClimb
<1>6. SaveToAsserts' BY <1>3 DEF SaveToAsserts
<1>7. NumbersOrdered' BY <1>1, <1>2, <1>3 DEF NumbersOrdered
<1>8. ReadersOnTree' BY <1>1 DEF ReadersOnTree
<1>9. SinceOpened' BY <1>1, <1>3 DEF SinceOpened
<1> QED BY <1>4, <1>5, <1>6, <1>7, <1>8, <1>9

(* A reopen starts with an empty tree and numbers above every blob.        *)
LEMMA RecoverInv == Inv /\ Recover => Inv'
<1> SUFFICES ASSUME Inv, Recover PROVE Inv'
  OBVIOUS
<1> USE DEF Inv
<1>1. /\ nodes_' = << >> /\ builder' = Idle /\ current_version_number_' = 1
      /\ installed' = {0} /\ lost' = {} /\ opens' = opens + 1
      /\ blobs' \subseteq blobs \cup DOMAIN builder.range
      /\ first_file' \in 1 .. next_file_number_ /\ \A f \in blobs' : f < first_file'
      /\ next_file_number_' = first_file'
      /\ query' = [r \in Reader |-> NoQuery]
  BY DEF Recover
<1>2. DOMAIN nodes_' = {} /\ nodes_' \in [DOMAIN nodes_' -> MapNode]
  BY <1>1
<1>3. /\ builder'.num = None /\ builder'.blobs = {} /\ builder'.deps = {}
      /\ DOMAIN builder'.range = {}
  BY <1>1 DEF Idle
<1>4. TypeOK'
  <2>1. first_file' \in 1 .. MaxFile + 1 /\ next_file_number_' \in 1 .. MaxFile + 1
    BY <1>1, BoundAssumption DEF TypeOK
  <2>2. blobs' \subseteq File
    BY <1>1 DEF TypeOK
  <2>3. installed' \subseteq Version /\ current_version_number_' \in 1 .. MaxVersion + 1
    BY <1>1, BoundAssumption DEF Version
  <2>4. query' \in [Reader -> Frame]
    BY <1>1 DEF Frame
  <2> QED BY <2>1, <2>2, <2>3, <2>4, <1>1, <1>2, <1>3 DEF TypeOK
<1>5. EdgesClimb' BY <1>2 DEF EdgesClimb
<1>6. SaveToAsserts' BY <1>3 DEF SaveToAsserts
<1>7. NumbersOrdered' BY <1>1, <1>2, <1>3 DEF NumbersOrdered
<1>8. ReadersOnTree' BY <1>1 DEF ReadersOnTree, NoQuery
<1>9. SinceOpened'
  <2>1. first_file' \in Int /\ \A f \in blobs' : f \in Int
    BY <1>4 DEF TypeOK, File
  <2>2. \A f \in blobs' : f < first_file' /\ ~(f >= first_file')
    BY <2>1, <1>1
  <2>3. first_file' <= first_file'
    BY <2>1
  <2> QED BY <2>2, <2>3, <1>1, <1>2, <1>3 DEF SinceOpened
<1> QED BY <1>4, <1>5, <1>6, <1>7, <1>8, <1>9

(* A reader only changes its own frame.                                    *)
LEMMA ReadInv == ASSUME Inv, NEW r \in Reader, Read(r) PROVE Inv'
<1> USE DEF Inv
<1>1. UNCHANGED <<nodes_, next_file_number_, current_version_number_, builder, installed, lost,
                  blobs, opens, first_file>>
  BY DEF Read, StartQuery, EnterLoop, ScanChild, Return, store
<1>2. query' \in [Reader -> Frame]
  <2>1. CASE StartQuery(r)
    BY <2>1 DEF StartQuery, TypeOK, Frame, File, Version
  <2>2. CASE EnterLoop(r)
    <3>1. query[r] \in [pc : {"loop"}, fn : File, k : Key, v : Version, at : File]
      BY <2>2 DEF EnterLoop, TypeOK, Frame, NoQuery
    <3>3. Finish(query[r]) \in Frame
      BY <3>1 DEF Finish, Frame
    <3>4. [pc |-> "scan", fn |-> query[r].fn, k |-> query[r].k, v |-> query[r].v,
           at |-> query[r].at, i |-> 1] \in Frame
      BY <3>1 DEF Frame
    <3> QED BY <3>3, <3>4, <2>2 DEF EnterLoop, TypeOK
  <2>3. CASE ScanChild(r)
    <3> DEFINE q == query[r]
               children == nodes_[q.at].children
    <3>1. q \in [pc : {"scan"}, fn : File, k : Key, v : Version, at : File,
                 i : Nat \ {0}]
      BY <2>3 DEF ScanChild, TypeOK, Frame, NoQuery
    <3>2. children \in Seq(File)
      BY <2>3, NodeTypes DEF ScanChild, ReadersOnTree, File
    <3>3. Finish(q) \in Frame
      BY <3>1 DEF Finish, Frame
    <3>4. [q EXCEPT !.i = @ + 1] \in Frame
      BY <3>1 DEF Frame
    <3>5. ~(q.i > Len(children)) =>
            [pc |-> "loop", fn |-> q.fn, k |-> q.k, v |-> q.v, at |-> children[q.i]] \in Frame
      BY <3>1, <3>2 DEF Frame
    <3> QED BY <3>3, <3>4, <3>5, <2>3 DEF ScanChild, TypeOK
  <2>4. CASE Return(r)
    BY <2>4 DEF Return, TypeOK, Frame
  <2> QED BY <2>1, <2>2, <2>3, <2>4 DEF Read
<1>3. TypeOK' BY <1>1, <1>2 DEF TypeOK
<1>4. EdgesClimb' /\ SaveToAsserts' /\ NumbersOrdered' /\ SinceOpened'
  BY <1>1 DEF EdgesClimb, SaveToAsserts, NumbersOrdered, SinceOpened
<1>5. ReadersOnTree'
  <2>1. query'[r].pc \in {"loop", "scan"} => query'[r].at \in DOMAIN nodes_
    <3>1. CASE StartQuery(r)
      BY <3>1 DEF StartQuery, TypeOK
    <3>2. CASE EnterLoop(r)
      BY <3>2 DEF EnterLoop, TypeOK, ReadersOnTree, Finish
    <3>3. CASE ScanChild(r)
      <4>1. query[r] \in [pc : {"scan"}, fn : File, k : Key, v : Version, at : File,
                          i : Nat \ {0}]
        BY <3>3 DEF ScanChild, TypeOK, Frame, NoQuery
      <4>2. query[r].at \in DOMAIN nodes_
        BY <4>1 DEF ReadersOnTree
      <4>3. nodes_[query[r].at].children \in Seq(1 .. MaxFile)
        BY <4>2, NodeTypes
      <4>4. ~(query[r].i > Len(nodes_[query[r].at].children))
              => nodes_[query[r].at].children[query[r].i] \in DOMAIN nodes_
        BY <4>1, <4>2, <4>3 DEF EdgesClimb
      <4> QED BY <4>1, <4>2, <4>4, <3>3 DEF ScanChild, TypeOK, Finish
    <3>4. CASE Return(r)
      BY <3>4 DEF Return, TypeOK, NoQuery
    <3> QED BY <3>1, <3>2, <3>3, <3>4 DEF Read
  <2>2. \A s \in Reader \ {r} : query'[s] = query[s]
    BY DEF Read, StartQuery, EnterLoop, ScanChild, Return, TypeOK
  <2> QED BY <2>1, <2>2, <1>1 DEF ReadersOnTree
<1> QED BY <1>3, <1>4, <1>5

(* Every step of the system preserves the invariant.                       *)
LEMMA NextInv == Inv /\ [Next]_vars => Inv'
<1> SUFFICES ASSUME Inv, [Next]_vars PROVE Inv'
  OBVIOUS
<1>1. CASE NewVersion BY <1>1, NewVersionInv
<1>2. CASE AddNode BY <1>2, AddNodeInv
<1>3. CASE AddDerivedNode BY <1>3, AddDerivedNodeInv
<1>4. CASE AppendVersion \/ DropVersion BY <1>4, InstallInv
<1>5. CASE \E r \in Reader : Read(r) BY <1>5, ReadInv
<1>6. CASE UNCHANGED vars
  BY <1>6 DEF vars, store, Inv, TypeOK, EdgesClimb, SaveToAsserts, NumbersOrdered,
              ReadersOnTree, SinceOpened
<1>7. CASE Recover BY <1>7, RecoverInv
<1> QED BY <1>1, <1>2, <1>3, <1>4, <1>5, <1>6, <1>7 DEF Next, Write

(* The invariant holds in every reachable state.                           *)
THEOREM Invariance == Spec => []Inv
<1>1. Init => Inv BY InitInv
<1>2. Inv /\ [Next]_vars => Inv' BY NextInv
<1> QED BY <1>1, <1>2, PTL DEF Spec

(* TypeOK: every variable keeps the shape the code gives it.               *)
THEOREM TypeCorrect == Spec => []TypeOK
<1>1. Inv => TypeOK BY DEF Inv
<1> QED BY <1>1, Invariance, PTL

(* EdgesClimb: the assertions in FileMap::AddDerivedNode never fail, so a  *)
(* walk over children never comes back to a node.                          *)
THEOREM EdgesAlwaysClimb == Spec => []EdgesClimb
<1>1. Inv => EdgesClimb BY DEF Inv
<1> QED BY <1>1, Invariance, PTL

(* SaveToAsserts: AddNode and the assertions of AddDerivedNode never fail, *)
(* whatever versions were lost and however often the store was reopened,   *)
(* and the parents SaveTo finds no node for are known exactly.             *)
THEOREM SaveToAlwaysAsserts == Spec => []SaveToAsserts
<1>1. Inv => SaveToAsserts BY DEF Inv
<1> QED BY <1>1, Invariance, PTL

(* NumbersOrdered: the version that ProcessManifestWrites builds is newer  *)
(* than every installed one and no older than any node of the tree, also   *)
(* after versions were dropped.                                            *)
THEOREM NumbersAlwaysOrdered == Spec => []NumbersOrdered
<1>1. Inv => NumbersOrdered BY DEF Inv
<1> QED BY <1>1, Invariance, PTL

(* ReadersOnTree: QueryFileMeta never stands on a number without a node.   *)
THEOREM ReadersAlwaysOnTree == Spec => []ReadersOnTree
<1>1. Inv => ReadersOnTree BY DEF Inv
<1> QED BY <1>1, Invariance, PTL
----------------------------------------------------------------------------
(* Multi-version reads *)

(* A nonempty set of positions has a first one.                            *)
LEMMA FirstOfExists ==
  ASSUME NEW S \in SUBSET Nat, S # {}
  PROVE  FirstOf(S) \in S
<1> DEFINE Less == {ss \in Nat \X Nat : ss[1] < ss[2]}
<1>1. IsWellFoundedOn(Less, Nat)
  BY NatLessThanWellFounded, Zenon DEF OpToRel
<1>2. PICK x \in S : \A y \in S : ~(<<y, x>> \in Less)
  BY <1>1, WFMin
<1>3. ASSUME NEW y \in S PROVE x <= y
  <2>1. x \in Nat /\ y \in Nat
    OBVIOUS
  <2>2. ~(y < x)
    BY <2>1, <1>2
  <2> QED BY <2>1, <2>2
<1> QED BY <1>3 DEF FirstOf

(* If a step leaves a node's version and the set of its matching children, *)
(* and those children, alone, it leaves the next hop from it alone.        *)
LEMMA SameHop ==
  ASSUME Inv, NEW n \in DOMAIN nodes_, NEW k, NEW v,
         nodes_'[n].version_num = nodes_[n].version_num,
         Matches(n, k, "user", v)' = Matches(n, k, "user", v),
         \A i \in Matches(n, k, "user", v) : nodes_'[n].children[i] = nodes_[n].children[i],
         nodes_[n].children # << >> => nodes_'[n].children # << >>
  PROVE  NextHop(n, k, "user", v)' = NextHop(n, k, "user", v)
<1> DEFINE M == Matches(n, k, "user", v)
<1>1. nodes_[n].children \in Seq(1 .. MaxFile)
  BY NodeTypes DEF Inv
<1>2. M \subseteq 1 .. Len(nodes_[n].children) /\ Len(nodes_[n].children) \in Nat
  BY <1>1 DEF Matches
<1>3. CASE M = {}
  BY <1>3 DEF NextHop
<1>4. CASE M # {}
  <2>1. FirstOf(M) \in M
    BY <1>2, <1>4, FirstOfExists
  <2>2. nodes_[n].children # << >>
    BY <1>1, <1>2, <1>4
  <2>3. nodes_'[n].children[FirstOf(M)] = nodes_[n].children[FirstOf(M)]
    BY <2>1
  <2> HIDE DEF M
  <2>4. NextHop(n, k, "user", v)
          = IF Accessible(n, v) THEN nodes_[n].children[FirstOf(M)] ELSE n
    BY <2>2, <1>4 DEF NextHop, IsLeaf, M
  <2>5. NextHop(n, k, "user", v)'
          = IF Accessible(n, v)' THEN nodes_'[n].children[FirstOf(M)] ELSE n
    BY <2>2, <1>4 DEF NextHop, IsLeaf, M
  <2> QED BY <2>3, <2>4, <2>5 DEF Accessible
<1> QED BY <1>3, <1>4

(* A child's place in the scan depends on its version and range only.      *)
LEMMA SameMatches ==
  ASSUME Inv, NEW n \in DOMAIN nodes_, NEW k, NEW v,
         nodes_'[n].children = nodes_[n].children,
         \A g \in DOMAIN nodes_ : /\ nodes_'[g].version_num = nodes_[g].version_num
                                  /\ nodes_'[g].range = nodes_[g].range
  PROVE  Matches(n, k, "user", v)' = Matches(n, k, "user", v)
<1>1. \A i \in 1 .. Len(nodes_[n].children) : nodes_[n].children[i] \in DOMAIN nodes_
  BY DEF Inv, EdgesClimb
<1>2. \A c \in DOMAIN nodes_ :
        /\ Accessible(c, v)' <=> Accessible(c, v)
        /\ Contain(c, k, "user")' <=> Contain(c, k, "user")
  BY DEF Accessible, Contain
<1> QED BY <1>1, <1>2 DEF Matches

(* A child of the version under construction is accessible to no installed *)
(* version, so appending it leaves the matches of an installed version.    *)
LEMMA AppendedChildHidden ==
  ASSUME Inv, NEW p \in DOMAIN nodes_, NEW c \in DOMAIN nodes_, Linked(p, c),
         NEW n \in DOMAIN nodes_, NEW k, NEW v \in installed
  PROVE  NextHop(n, k, "user", v)' = NextHop(n, k, "user", v)
<1>1. Linked(p, c)!1 /\ Linked(p, c)!2 /\ Linked(p, c)!4 /\ Linked(p, c)!5
  BY DEF Linked
<1>2. CASE n # p
  <2>1. Matches(n, k, "user", v)' = Matches(n, k, "user", v)
    BY <1>1, <1>2, SameMatches
  <2> QED BY <2>1, <1>1, <1>2, SameHop
<1>3. CASE n = p
  <2> DEFINE s == nodes_[n].children
             t == nodes_'[n].children
             Sees(x) == /\ nodes_[x].version_num <= v
                        /\ LE("user", nodes_[x].range.lo, k) /\ LE("user", k, nodes_[x].range.hi)
             SeesNow(x) == /\ nodes_'[x].version_num <= v
                           /\ LE("user", nodes_'[x].range.lo, k)
                           /\ LE("user", k, nodes_'[x].range.hi)
  <2>1. s \in Seq(1 .. MaxFile) /\ c \in 1 .. MaxFile
    BY NodeTypes DEF Inv
  <2>2. /\ t = Append(s, c) /\ Len(t) = Len(s) + 1 /\ Len(s) \in Nat
        /\ \A i \in 1 .. Len(s) : t[i] = s[i]
        /\ t[Len(s) + 1] = c
    BY <2>1, <1>1, <1>3, AppendFacts
  <2>3. builder # Idle /\ v < builder.num /\ v \in 0 .. MaxVersion /\ builder.num \in 0 .. MaxVersion
    BY <1>1, BuilderBusy DEF Inv, NumbersOrdered, TypeOK, Version
  <2>4. ~(nodes_'[c].version_num <= v)
    BY <2>3, <1>1
  <2>5. \A i \in 1 .. Len(s) : s[i] \in DOMAIN nodes_
    BY DEF Inv, EdgesClimb
  <2>6. \A g \in DOMAIN nodes_ : SeesNow(g) <=> Sees(g)
    BY <1>1
  <2>7. Matches(n, k, "user", v)' = {i \in 1 .. Len(t) : SeesNow(t[i])}
    BY DEF Matches, Accessible, Contain
  <2>8. Matches(n, k, "user", v) = {i \in 1 .. Len(s) : Sees(s[i])}
    BY DEF Matches, Accessible, Contain
  <2>9. ~SeesNow(c)
    BY <2>4
  <2> HIDE DEF s, t, Sees, SeesNow
  <2>10. Matches(n, k, "user", v)' = Matches(n, k, "user", v)
    <3>1. 1 .. Len(t) = 1 .. Len(s) \cup {Len(s) + 1}
      BY <2>2
    <3>2. \A i \in 1 .. Len(s) : SeesNow(t[i]) <=> Sees(s[i])
      BY <2>2, <2>5, <2>6
    <3> QED BY ZenonT(30), <3>1, <3>2, <2>2, <2>7, <2>8, <2>9
  <2>11. t # << >>
    BY <2>2
  <2> QED BY <2>2, <2>8, <2>10, <2>11, <1>1, SameHop DEF s, t
<1> QED BY <1>2, <1>3

(* One step never redirects a reader of an installed version.              *)
LEMMA HopStep ==
  ASSUME Inv, [Next]_vars, opens' = opens,
         NEW v \in installed, NEW n \in DOMAIN nodes_, NEW k \in Key
  PROVE  NextHop(n, k, "user", v)' = NextHop(n, k, "user", v)
<1>0. CASE nodes_' = nodes_
  BY <1>0 DEF NextHop, Matches, IsLeaf, Accessible, Contain
<1>1. CASE AddDerivedNode
  <2>1. ASSUME NEW p \in DOMAIN nodes_, NEW c \in DOMAIN nodes_, Linked(p, c)
        PROVE  NextHop(n, k, "user", v)' = NextHop(n, k, "user", v)
    BY <2>1, AppendedChildHidden
  <2>2. (\E d \in builder.deps : PassedOver(d)) => nodes_' = nodes_
    BY DEF PassedOver
  <2> QED BY <2>1, <2>2, <1>0, <1>1, AddDerivedNodeFacts
<1>2. CASE AddNode
  <2>1. \A g \in DOMAIN nodes_ : nodes_'[g] = nodes_[g]
    BY <1>2 DEF AddNode, AddNodeAt
  <2>2. Matches(n, k, "user", v)' = Matches(n, k, "user", v)
    BY <2>1, SameMatches
  <2> QED BY <2>1, <2>2, SameHop
<1>3. ~Recover
  <2>1. opens' # opens + 1 BY DEF Inv, TypeOK
  <2> QED BY <2>1 DEF Recover
<1>4. AddDerivedNode \/ AddNode \/ nodes_' = nodes_
  BY <1>3 DEF Next, Write, NewVersion, AppendVersion, DropVersion, Read, StartQuery,
              EnterLoop, ScanChild, Return, vars
<1> QED BY <1>0, <1>1, <1>2, <1>4

(* HopStable: the tree is multi-versioned.  Whatever VersionBuilder        *)
(* appends, the child that QueryFileMeta goes to from a node on behalf of  *)
(* an installed version stays the same, until the store is reopened.       *)
THEOREM MultiVersion == Spec => HopStable
<1>1. Inv /\ [Next]_vars =>
        [opens' = opens =>
           \A v \in installed, n \in DOMAIN nodes_, k \in Key :
             NextHop(n, k, "user", v)' = NextHop(n, k, "user", v)]_vars
  BY HopStep
<1> QED BY <1>1, Invariance, PTL DEF Spec, HopStable
----------------------------------------------------------------------------
(* Where the answers come from *)

(* A node belongs to an installed version, to a lost one, or to the one    *)
(* being built; a finished query names a node its version may see.         *)
Provenance ==
  /\ \A n \in DOMAIN nodes_ :
       \/ n \in blobs
       \/ nodes_[n].version_num \in lost
       \/ /\ builder # Idle /\ n \in DOMAIN builder.range
          /\ nodes_[n].version_num = builder.num
  /\ \A r \in Reader : query[r].pc # "idle" => query[r].v \in installed
  /\ \A r \in Reader : query[r].pc = "done" =>
       \/ query[r].ret = Corruption
       \/ /\ query[r].ret \in DOMAIN nodes_
          /\ nodes_[query[r].ret].version_num <= query[r].v

(* The steps of a version's construction preserve it.                      *)
LEMMA WriteProvenance == ASSUME Inv, Provenance, Write PROVE Provenance'
<1> USE DEF Inv
<1>1. CASE NewVersion
  <2>1. builder = Idle /\ UNCHANGED <<nodes_, installed, lost, blobs, query>>
    BY <1>1 DEF NewVersion, store
  <2> QED BY <2>1 DEF Provenance
<1>2. CASE AddNode
  <2>1. PICK f \in builder.blobs :
          /\ nodes_' = [g \in DOMAIN nodes_ \cup {f} |->
                          IF g \in DOMAIN nodes_ THEN nodes_[g]
                          ELSE [version_num |-> builder.num, range |-> builder.range[f],
                                children |-> << >>]]
          /\ builder' = [builder EXCEPT !.blobs = @ \ {f}]
    BY <1>2 DEF AddNode, AddNodeAt
  <2>2. UNCHANGED <<installed, lost, blobs, query>>
    BY <1>2 DEF AddNode, AddNodeAt, store
  <2>3. builder # Idle /\ builder.num \in Version
    BY <2>1, BuilderBusy DEF NumbersOrdered
  <2>4. builder'.num = builder.num /\ builder'.range = builder.range
    BY <2>1 DEF TypeOK
  <2>5. builder' # Idle
    BY <2>3, <2>4 DEF Idle, Version, None
  <2>6. /\ DOMAIN nodes_' = DOMAIN nodes_ \cup {f}
        /\ \A g \in DOMAIN nodes_ : nodes_'[g] = nodes_[g]
        /\ f \notin DOMAIN nodes_ => nodes_'[f].version_num = builder.num
        /\ f \in DOMAIN builder.range
    BY <2>1 DEF TypeOK
  <2> QED BY <2>2, <2>3, <2>4, <2>5, <2>6 DEF Provenance
<1>3. CASE AddDerivedNode
  <2>1. /\ DOMAIN nodes_' = DOMAIN nodes_
        /\ \A g \in DOMAIN nodes_ : nodes_'[g].version_num = nodes_[g].version_num
    BY <1>3, AddDerivedNodeFacts DEF Linked, PassedOver
  <2>2. UNCHANGED <<installed, lost, blobs, query>>
    BY <1>3 DEF AddDerivedNode, store
  <2>3. builder'.num = builder.num /\ builder'.range = builder.range
    BY <1>3 DEF AddDerivedNode, TypeOK
  <2>4. builder # Idle /\ builder.num \in Version
    BY <1>3, BuilderBusy DEF AddDerivedNode, NumbersOrdered
  <2>5. builder' # Idle
    BY <2>3, <2>4 DEF Idle, Version, None
  <2> QED BY <2>1, <2>2, <2>3, <2>5 DEF Provenance
<1>4. CASE AppendVersion
  <2>1. /\ UNCHANGED <<nodes_, lost, query>>
        /\ installed' = installed \cup {builder.num}
        /\ blobs' = blobs \cup DOMAIN builder.range
    BY <1>4 DEF AppendVersion
  <2> QED BY <2>1 DEF Provenance
<1>5. CASE DropVersion
  <2>1. UNCHANGED <<nodes_, installed, blobs, query>> /\ lost' = lost \cup {builder.num}
    BY <1>5 DEF DropVersion
  <2> QED BY <2>1 DEF Provenance
<1>6. CASE Recover
  <2>1. DOMAIN nodes_' = {} /\ \A r \in Reader : query'[r].pc = "idle"
    BY <1>6 DEF Recover, NoQuery
  <2> QED BY <2>1 DEF Provenance
<1> QED BY <1>1, <1>2, <1>3, <1>4, <1>5, <1>6 DEF Write

(* So do the steps of a reader.                                            *)
LEMMA ReadProvenance == ASSUME Inv, Provenance, NEW r \in Reader, Read(r) PROVE Provenance'
<1> USE DEF Inv
<1>1. UNCHANGED <<nodes_, builder, installed, lost, blobs>>
  BY DEF Read, StartQuery, EnterLoop, ScanChild, Return, store
<1>2. \A s \in Reader \ {r} : query'[s] = query[s]
  BY DEF Read, StartQuery, EnterLoop, ScanChild, Return, TypeOK
<1> DEFINE Good(q) ==
      /\ q.pc # "idle" => q.v \in installed
      /\ q.pc = "done" => \/ q.ret = Corruption
                          \/ q.ret \in DOMAIN nodes_ /\ nodes_[q.ret].version_num <= q.v
<1>3. ASSUME query[r].pc \in {"loop", "scan"} PROVE Good(Finish(query[r]))
  <2>1. query[r].at \in DOMAIN nodes_ /\ query[r].v \in installed
    BY <1>3 DEF ReadersOnTree, Provenance
  <2> QED BY <2>1 DEF Finish, Accessible
<1>4. Good(query'[r])
  <2>1. CASE StartQuery(r)
    BY <2>1 DEF StartQuery, TypeOK
  <2>2. CASE EnterLoop(r)
    BY <2>2, <1>3 DEF EnterLoop, TypeOK, Provenance
  <2>3. CASE ScanChild(r)
    <3>1. query[r] \in [pc : {"scan"}, fn : File, k : Key, v : Version, at : File,
                        i : Nat \ {0}]
      BY <2>3 DEF ScanChild, TypeOK, Frame, NoQuery
    <3>2. query[r].v \in installed
      BY <3>1 DEF Provenance
    <3>3. query'[r] = Finish(query[r]) \/ (query'[r].pc \in {"loop", "scan"} /\ query'[r].v = query[r].v)
      BY <2>3, <3>1 DEF ScanChild, TypeOK
    <3> QED BY <3>1, <3>2, <3>3, <1>3
  <2>4. CASE Return(r)
    BY <2>4 DEF Return, TypeOK, NoQuery
  <2> QED BY <2>1, <2>2, <2>3, <2>4 DEF Read
<1> QED BY <1>1, <1>2, <1>4 DEF Provenance

(* AnswersInstalled: before the first lost version, QueryFileMeta answers  *)
(* with blobs of installed versions only, though the nodes of a version    *)
(* enter the tree before its MANIFEST record is written.                   *)
THEOREM AnswersAlwaysInstalled == Spec => []AnswersInstalled
<1>1. Init => Provenance
  <2> SUFFICES ASSUME Init PROVE Provenance
    OBVIOUS
  <2>1. DOMAIN nodes_ = {}
    BY DEF Init
  <2>2. \A r \in Reader : query[r].pc = "idle"
    BY DEF Init, NoQuery
  <2> QED BY <2>1, <2>2 DEF Provenance
<1>2. Inv /\ Provenance /\ [Next]_vars => Provenance'
  <2> SUFFICES ASSUME Inv, Provenance, [Next]_vars PROVE Provenance'
    OBVIOUS
  <2>1. CASE UNCHANGED vars BY <2>1 DEF vars, store, Provenance
  <2> QED BY <2>1, WriteProvenance, ReadProvenance DEF Next
<1>3. Inv /\ Provenance => AnswersInstalled
  <2> SUFFICES ASSUME Inv, Provenance, NEW r \in Reader, query[r].pc = "done",
                      \A d \in lost : query[r].v < d, query[r].ret # Corruption
               PROVE  query[r].ret \in blobs
    BY DEF AnswersInstalled
  <2> DEFINE n == query[r].ret
  <2>1. /\ n \in DOMAIN nodes_ /\ nodes_[n].version_num <= query[r].v
        /\ query[r].v \in installed
    BY DEF Provenance
  <2>2. query[r].v \in Int /\ nodes_[n].version_num \in Int
    <3>1. TypeOK
      BY DEF Inv
    <3>2. nodes_[n].version_num \in 0 .. MaxVersion
      BY <3>1, <2>1, NodeTypes
    <3>3. query[r].v \in 0 .. MaxVersion
      BY <3>1, <2>1 DEF TypeOK, Version
    <3> QED BY <3>2, <3>3
  <2>3. nodes_[n].version_num \notin lost
    BY <2>1, <2>2
  <2>4. builder # Idle => builder.num \in Int /\ query[r].v < builder.num
    BY <2>1 DEF Inv, NumbersOrdered, Version
  <2>5. ~(builder # Idle /\ nodes_[n].version_num = builder.num)
    BY <2>1, <2>2, <2>4
  <2> QED BY <2>1, <2>3, <2>5 DEF Provenance
<1> QED BY <1>1, <1>2, <1>3, Invariance, PTL DEF Spec
============================================================================
