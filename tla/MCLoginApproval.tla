-------------------------- MODULE MCLoginApproval ---------------------------
(* LoginApproval on small instances.                                       *)
EXTENDS LoginApproval
=============================================================================
