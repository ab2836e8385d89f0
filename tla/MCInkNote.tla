----------------------------- MODULE MCInkNote -----------------------------
(* InkNote on three notes: two of two pages, one of a single page.         *)
EXTENDS InkNote

ThreeNotes == <<2, 2, 1>>
=============================================================================
