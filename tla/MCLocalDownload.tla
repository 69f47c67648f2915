-------------------------- MODULE MCLocalDownload --------------------------
(***************************************************************************)
(* Small instance of LocalDownload: one streamed source and the weather    *)
(* source, three versions of two chunks, one chunk and none.               *)
(***************************************************************************)
EXTENDS LocalDownload

CONSTANTS tlc, weather

MCLength == <<2, 1, 0>>
MCSelection == <<tlc, weather>>
=============================================================================
