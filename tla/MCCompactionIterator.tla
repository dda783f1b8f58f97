------------------------ MODULE MCCompactionIterator ------------------------
(* Instances of CompactionIterator.                                        *)
EXTENDS CompactionIterator

(* A key with four versions; two keys with one and with two.               *)
MCKeySeqs == {<<1, 1, 1, 1>>, <<1, 2, 2>>}
============================================================================
