----------------------------- MODULE MCIterator -----------------------------
(* Tables of up to four entries, under each of the drivers.                  *)
EXTENDS SliceIterator
=============================================================================
