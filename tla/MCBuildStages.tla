--------------------------- MODULE MCBuildStages ---------------------------
(***************************************************************************)
(* Two packages: alsa-lib, an archive with a patch file, and lzUtils,      *)
(* whose source is in ../app and which needs it.  mk.sh is asked for       *)
(* lzUtils, with what it needs or alone (-n).                              *)
(***************************************************************************)
EXTENDS BuildStages

CONSTANTS alsa, lzutils

MCPackages == {alsa, lzutils}
MCDeps == [p \in MCPackages |-> IF p = lzutils THEN {alsa} ELSE {}]
MCNoDeps == [p \in {alsa} |-> {}]
MCLists == {<<lzutils>>, <<alsa, lzutils>>}
MCOneList == {<<alsa>>}
MCArchives == {alsa}
=============================================================================
