----------------------------- MODULE MCProcessingQueue ----------------------------
(***************************************************************************)
(* Small instances of ProcessingQueue for TLC.  No symmetry: the safety    *)
(* run checks liveness too.                                                *)
(***************************************************************************)
EXTENDS ProcessingQueue, TLC

===================================================================================
