---------------------------- MODULE MCPagedCopy ----------------------------
(* Instances of PagedCopy: four slices of two rows per key block, pages    *)
(* smaller than, as large as, and not a divisor or multiple of a block.    *)
EXTENDS PagedCopy
=============================================================================
