---------------------------- MODULE MCTableMerge ----------------------------
(* An instance of TableMerge for TLC.  Two neighbours have one byte, the    *)
(* last key is too long for a footer, hashes collide.  Records of 13 and 14 *)
(* bytes, tombstones of 10 and 11, meet both block sizes exactly and exceed *)
(* them.                                                                    *)
EXTENDS TableMerge

MCKeySize == <<2, 1, 1, 5>>
MCHash == << <<3, 4>>, <<12, 7>>, <<5, 4>>, <<14, 2>> >>
=============================================================================
