--------------------------- MODULE MCVolumeLocks ---------------------------
(***************************************************************************)
(* Four clients and two lock IDs: a volume and the volume on a node, the   *)
(* two IDs a publish holds together.  No symmetry: the refinement is a     *)
(* temporal property.                                                      *)
(***************************************************************************)
EXTENDS VolumeLocks
=============================================================================
