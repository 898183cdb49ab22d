---------------------------- MODULE MCCloudSession ----------------------------
(* Instances of CloudSession for TLC.                                        *)
EXTENDS CloudSession
=============================================================================
