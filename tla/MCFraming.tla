------------------------------ MODULE MCFraming ------------------------------
(***************************************************************************)
(* An instance of Framing for TLC: a request, one that may be none, and    *)
(* one whose length no buffer can have; a frame is longer than what the    *)
(* kernel holds.                                                           *)
(***************************************************************************)
EXTENDS Framing

Lengths      == <<6, 2, 1, -1>>
Starts       == <<0, 10, 16, 21, 25>>
ReplyLengths == <<4, 7, 1, 1>>
ReplyStarts  == <<0, 8, 19, 24, 29>>
=============================================================================
