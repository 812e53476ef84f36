-------------------------------- MODULE MCX11 --------------------------------
(***************************************************************************)
(* Instances of X11Resolution for TLC.                                     *)
(***************************************************************************)
EXTENDS X11Resolution
=============================================================================
