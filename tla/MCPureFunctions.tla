--------------------------- MODULE MCPureFunctions --------------------------
(* Bounds of PureFunctions for TLC: one era of the calendar, after which   *)
(* it repeats, images of a few layers, and references as long as a         *)
(* registry with a port, a repository and a tag.                           *)
EXTENDS PureFunctions

CONSTANTS f, g, v, w

MCDays == 0..Era
=============================================================================
