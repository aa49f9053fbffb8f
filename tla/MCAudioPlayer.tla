---------------------------- MODULE MCAudioPlayer ----------------------------
(* Values for model checking AudioPlayer.                                   *)
EXTENDS AudioPlayer

ApiOps    == {"play", "stop", "pause", "resume"}
DeleteOps == {"play", "destroy"}
AllOps    == ApiOps \cup DeleteOps
CmdOps    == {"play"}
=============================================================================
