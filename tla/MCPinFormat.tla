---------------------------- MODULE MCPinFormat ----------------------------
(* Model-checking instance of PinFormat: a few types that others propose. *)
EXTENDS PinFormat

CONSTANTS small, large

TwoSizes == {small, large}
TwoFrames == {1, 2}

RGB32Type == [video |-> TRUE, subtype |-> "RGB32", kind |-> "rgb32", size |-> small,
              frame |-> 1, format |-> "VideoInfo"]

\* Acceptable types of either size, with and without a frame length; then types
\* with one thing wrong each.
SomeTypes ==
    { RGB32Type,
      [RGB32Type EXCEPT !.size = large, !.frame = NoFrame],
      [RGB32Type EXCEPT !.subtype = "RGB24", !.kind = "rgb24", !.frame = 2],
      [RGB32Type EXCEPT !.kind = "pal8"],
      [RGB32Type EXCEPT !.subtype = "RGB8", !.kind = "pal8"],
      [RGB32Type EXCEPT !.size = NoSize],
      [RGB32Type EXCEPT !.format = "other"],
      [RGB32Type EXCEPT !.format = "none"],
      [RGB32Type EXCEPT !.video = FALSE] }
=============================================================================
