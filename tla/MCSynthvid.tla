----------------------------- MODULE MCSynthvid -----------------------------
(* Synthvid with a program that reports its picture by rows. *)
EXTENDS Synthvid

MCRects == {<<0, y, Width, 1>> : y \in 0 .. Height - 1}
=============================================================================
