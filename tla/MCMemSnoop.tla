------------------------------ MODULE MCMemSnoop -------------------------------
(* Small instance of MemSnoop for TLC: two addresses with the same low bits,  *)
(* one of which the GPU sees elsewhere; kernels with and without a declared   *)
(* size of their arguments, two buffers, and arguments that name a buffer     *)
(* twice or point into it and are longer than the fixed window.               *)
EXTENDS MemSnoop, TLC

MCGpu == 1 :> 1 @@ 5 :> 13
MCDeclared == "foo" :> 2 @@ "bar" :> 0
MCArgLists == {<<Base("b1"), Base("b1")>>,
               <<Inner("b1"), Inner("b1"), Inner("b1"), Base("b2")>>}
=============================================================================
