------------------------------- MODULE MCSnoop ----------------------------------
(* Small instances of Snoop.                                                 *)
EXTENDS Snoop
=============================================================================
