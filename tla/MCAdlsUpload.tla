---------------------------- MODULE MCAdlsUpload ----------------------------
(***************************************************************************)
(* Small instance of AdlsUpload: the trip file and the optional weather    *)
(* file, two versions of different size.                                   *)
(***************************************************************************)
EXTENDS AdlsUpload

CONSTANTS tlc, weather

MCSize == <<1, 2>>
MCSelection == <<tlc, weather>>
=============================================================================
