------------------------- MODULE MCWorkflowService -------------------------
(***************************************************************************)
(* A small instance of WorkflowService.  The first workflow of the walk is *)
(* started, paused and cancelled in any order; the second is the one that  *)
(* the reconciliation comes to after it.                                   *)
(***************************************************************************)
EXTENDS WorkflowService

CallBudget == <<5, 0>>
=============================================================================
