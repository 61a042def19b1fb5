---------------------------- MODULE MCConfigStore ----------------------------
(***************************************************************************)
(* A remote layer that carries the values with its notifications, below a  *)
(* file that is read again.                                                *)
(***************************************************************************)
EXTENDS ConfigStore

CONSTANTS v1, v2

RemoteAndFile == <<"remote", "file">>
OnlyFile == {"file"}
OnlyRemote == {"remote"}
NoLayer == {}
RemoteOnly == {[l \in {"remote", "file"} |-> IF l = "remote" THEN v1 ELSE Absent]}
RemoteFirst == {[l \in {"remote"} |-> v1]}
JustRemote == <<"remote">>
=============================================================================
