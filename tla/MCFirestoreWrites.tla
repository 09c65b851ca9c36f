------------------------- MODULE MCFirestoreWrites -------------------------
(* Constants of FirestoreWrites for TLC.                                   *)
EXTENDS FirestoreWrites

CONSTANTS a1, a2
=============================================================================
