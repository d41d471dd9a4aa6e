----------------------------- MODULE MCSdmaSnoop ------------------------------
(* Small instances of SdmaSnoop for TLC: a ring of a few dwords, a packet     *)
(* that carries its length in its second dword (as a WRITE does in its        *)
(* fourth) and one with an unknown opcode.                                    *)
EXTENDS SdmaSnoop

Write == [len |-> 3, need |-> 2, known |-> TRUE]
Alien == [len |-> 2, need |-> 1, known |-> FALSE]

KnownAndUnknown == {Write, Alien}
=============================================================================
