--------------------------- MODULE MCApprovalDispatch ---------------------------
(* Instances of ApprovalDispatch: one request, one user and two monitors. *)
EXTENDS ApprovalDispatch, TLC
CONSTANTS m1, m2, r1, u1
================================================================================
