-------------------------- MODULE MCHgsProvisioning --------------------------
(***************************************************************************)
(* Instances of HgsPunctuality for TLC.                                    *)
(***************************************************************************)
EXTENDS HgsPunctuality

CONSTANTS m1

=============================================================================
