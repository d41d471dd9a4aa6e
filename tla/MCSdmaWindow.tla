----------------------------- MODULE MCSdmaWindow -----------------------------
(* Every opcode the tables name and two they do not (3, 33), every           *)
(* sub-opcode with an entry and one without (2).                             *)
EXTENDS SdmaWindow

\* gfx942, gfx1030, gfx1100, gfx1201, a node without a target, and the CPU's; a
\* queue may be of a GPU that has no node.
MCTopology ==
    {[gpu_id |-> 1, target |-> 90402], [gpu_id |-> 2, target |-> 100300],
     [gpu_id |-> 3, target |-> 110000], [gpu_id |-> 4, target |-> 120001],
     [gpu_id |-> 5, target |-> 0], [gpu_id |-> 0, target |-> 0]}
MCGpuIds == 1 .. 6
Ops == (0 .. 17) \cup {32, 33}
SubOps == (0 .. 8) \cup {16, 17, 20, 21, 22, 36}
\* The 20-bit WRITE count is 0, full and 3.
Dwords == {0, 4194303, 67108867}
\* One byte, a 22-bit COUNT that is full, one byte more, and a 30-bit COUNT that is full.
ByteCounts == {1, 4194304, 4194305, 1073741824}

\* Every header, the fields an opcode does not have being zero.
MCHeaders ==
    {p \in [op : Ops, sub : SubOps, bit27 : BOOLEAN, nop : {0, 9}, dw : Dwords,
          bytes : ByteCounts, rest : {0, 1}] :
        /\ p.op # NOP => p.nop = 0
        /\ p.op # COPY => ~p.bit27
        /\ p.op # WRITE => p.dw = 0
        /\ p.op # COPY => p.bytes = 1 /\ p.rest = 0}
=============================================================================
