---------------------------- MODULE MCLicensing ----------------------------
(* Two keys, two commands beside the loop: the values are in the cfgs.      *)
EXTENDS Licensing
=============================================================================
