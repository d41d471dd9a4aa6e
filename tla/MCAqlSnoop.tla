------------------------------ MODULE MCAqlSnoop ------------------------------
(* Small instances of AqlSnoop for TLC.                                     *)
EXTENDS AqlSnoop

Dispatch == [type |-> "KernelDispatch", barrier |-> TRUE, kobj |-> TRUE]
\* A barrier packet with fewer than four dependencies.
Barrier3 == [type |-> "Other", barrier |-> TRUE, kobj |-> FALSE]

DispatchOnly == {Dispatch}
DispatchBarrier == {Dispatch, Barrier3}
=============================================================================
