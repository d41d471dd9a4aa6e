--------------------------- MODULE MCSharedTracefs ----------------------------
(* A small instance of SharedTracefs for TLC: the pid of b begins with the    *)
(* digits of that of a.                                                       *)
EXTENDS SharedTracefs

CONSTANTS a, b, c

MCExtends == {<<b, a>>}
=============================================================================
