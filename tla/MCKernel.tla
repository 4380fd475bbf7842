------------------------------- MODULE MCKernel -------------------------------
(* Small instances of Kernel: two applications of one draw manager, and one of  *)
(* another.                                                                     *)
EXTENDS Kernel

CONSTANTS appA, appB, appC, gl, d3d

MCDrawManagerOf == [x \in Apps |-> IF x = appC THEN d3d ELSE gl]
=============================================================================
