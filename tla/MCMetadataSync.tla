--------------------------- MODULE MCMetadataSync ---------------------------
(* Model checking of MetadataSync.                                          *)
EXTENDS MetadataSync
=============================================================================
