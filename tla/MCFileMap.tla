---------------------------- MODULE MCFileMap ----------------------------
(* Instances of FileMap for TLC.                                           *)
EXTENDS FileMap

(* Two keys that differ before their last 8 bytes.                         *)
PlainKeys == {<<1, 0>>, <<2, 0>>}
==========================================================================
