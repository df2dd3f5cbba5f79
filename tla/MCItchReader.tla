---------------------------- MODULE MCItchReader ----------------------------
(***************************************************************************)
(* ItchReader for TLC: a frame of every message the reader decodes, with   *)
(* the size the ITCH specification gives it, and one that it skips.        *)
(***************************************************************************)
EXTENDS ItchReader

MCFrames == {[code |-> c, size |-> ItchSize[c]] : c \in DOMAIN ItchSize}
=============================================================================
