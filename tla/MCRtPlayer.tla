----------------------------- MODULE MCRtPlayer -----------------------------
(* Model checking RtPlayer: the configurations give its constants values.   *)
EXTENDS RtPlayer
=============================================================================
