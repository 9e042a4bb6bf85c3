----------------------------- MODULE MCUploads -----------------------------
(***************************************************************************)
(* A small instance of Uploads: two handles, two sends.                    *)
(***************************************************************************)
EXTENDS Uploads
=============================================================================
