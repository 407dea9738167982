---------------------------- MODULE MCDashboard ----------------------------
(* A connection for Dashboard.                                             *)
EXTENDS Dashboard

CONSTANT c1
=============================================================================
