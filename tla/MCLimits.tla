------------------------------- MODULE MCLimits -------------------------------
(* ConcurrencyLimits with an account whose limit and hard cap are reported. *)
EXTENDS ConcurrencyLimits

MCReports == {[limit |-> 2, hardCap |-> 3]}
===============================================================================
