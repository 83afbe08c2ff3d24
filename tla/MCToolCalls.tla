---------------------------- MODULE MCToolCalls ----------------------------
(***************************************************************************)
(* Finite instances of ToolCalls: the deadline of a call is shorter than a *)
(* detached fetch may take, as in the deployment.                          *)
(***************************************************************************)
EXTENDS ToolCalls
=============================================================================
