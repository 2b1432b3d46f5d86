----------------------------- MODULE MCArchiver -----------------------------
(***************************************************************************)
(* Instances of the archiver and the alert manager.                        *)
(***************************************************************************)
EXTENDS ArchiverProperties

=============================================================================
