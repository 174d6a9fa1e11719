-------------------------- MODULE MCBlobRecovery --------------------------
(* Instances of BlobRecovery for TLC. *)
EXTENDS BlobRecovery
=============================================================================
