--------------------------- MODULE MCCtaPipeline ---------------------------
(* Two warps, one ahead of the other: a slice of a buffer has one writer,  *)
(* and every hazard is between that warp and one reader.                   *)
EXTENDS CtaPipeline
=============================================================================
