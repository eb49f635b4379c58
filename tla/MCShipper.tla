------------------------------ MODULE MCShipper ------------------------------
(* Named events for the configurations of Shipper.                           *)
EXTENDS Shipper

CONSTANTS e1, e2, e3
=============================================================================
