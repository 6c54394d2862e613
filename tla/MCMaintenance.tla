---------------------------- MODULE MCMaintenance ----------------------------
(* Instances of Maintenance for TLC.                                        *)
EXTENDS Maintenance

CONSTANTS t1, r1, l1, o1, o2
=============================================================================
