--------------------------- MODULE MCAskSession ---------------------------
(***************************************************************************)
(* AskSession for TLC: two questions at once with room for one transcript, *)
(* records larger and smaller than a page, and one restart.                *)
(***************************************************************************)
EXTENDS AskSession
=============================================================================
