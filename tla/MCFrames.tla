------------------------------ MODULE MCFrames -------------------------------
(* Commands for Frames: with no argument, an empty one, one that holds a   *)
(* line end, and several.                                                  *)
EXTENDS Frames

X == 120
SomeCommands ==
  {<<<<X>>>>, <<<<X, X>>, <<>>>>, <<<<X>>, CRLF, <<X, CR, LF, Dollar>>>>}
=============================================================================
