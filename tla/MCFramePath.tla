----------------------------- MODULE MCFramePath -----------------------------
(* Both kinds of worker, and chunks that do and do not fill a window. *)
EXTENDS FramePath

MCKind == {"streaming", "windowed"}
MCChunkLens == {1, 2}
=============================================================================
