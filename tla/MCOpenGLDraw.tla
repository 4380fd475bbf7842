--------------------------- MODULE MCOpenGLDraw ---------------------------
(* Small instances of OpenGLDraw: two pipes, and windows on both of them. *)
EXTENDS OpenGLDraw, TLC

CONSTANTS w0, w1, w2

\* w0 is on pipe 0; w1 and w2 share pipe 1.
MCPipeOf == [w \in Windows |-> IF w = w0 THEN 0 ELSE 1]

\* The applications are alike, and so are the two windows of pipe 1.
MCSymmetry == Permutations(Apps) \cup Permutations({w1, w2})
=============================================================================
