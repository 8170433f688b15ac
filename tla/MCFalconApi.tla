----------------------------- MODULE MCFalconApi ----------------------------
(* Degree 512: the padded format holds 625 bytes of value, CT 768. *)
EXTENDS FalconApi

MCCompSizes == {0, 600, 625, 626}
MCCaps      == {40, 41, 641, 666, 809}
MCLens      == {40, 641, 666, 667, 809}
=============================================================================
