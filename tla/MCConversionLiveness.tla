------------------------ MODULE MCConversionLiveness ------------------------
(***************************************************************************)
(* The instances of MCDiskTypeConversion, for ConversionLiveness.          *)
(***************************************************************************)
EXTENDS ConversionLiveness, MCDiskTypeConversion
=============================================================================
