------------------------- MODULE MCMetadataDownload -------------------------
(***************************************************************************)
(* MetadataDownload for TLC: sizes just below, at and above a multiple of  *)
(* the piece size and of the largest metadata that is accepted.            *)
(***************************************************************************)
EXTENDS MetadataDownload
=============================================================================
