----------------------------- MODULE MCFileData -----------------------------
(***************************************************************************)
(* FileData for TLC: files of at most three bytes.  A file that starts     *)
(* with one byte has records of two, so that it can grow into a second     *)
(* record; a larger one starts as a single record of up to four.           *)
(***************************************************************************)
EXTENDS FileData

MCLimits == <<2>>
MCSizes == <<2, 4>>
MCChunks == {<<1>>, <<1, 0>>}
MCBlobs == {<<0, 1, 1>>}
=============================================================================
