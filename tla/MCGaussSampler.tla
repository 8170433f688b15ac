--------------------------- MODULE MCGaussSampler ---------------------------
(* Degree 2, a small generator buffer, and the extreme steps and bytes. *)
EXTENDS GaussSampler

MCSteps == {0, 10}
MCBytes == {0, 255}
MCSigns == {0, 1, 2}
=============================================================================
