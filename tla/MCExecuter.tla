---------------------------- MODULE MCExecuter ----------------------------
(***************************************************************************)
(* Small instances of Executer: a plugin of every kind.  The PRE plugin is *)
(* like scripts/plugins/launch-clients-local.sh, which polls for the start *)
(* file; the first monitor is perf or sar, the second one mpstat.          *)
(***************************************************************************)
EXTENDS Executer

OneOfEachTime == <<"pre", "with", "post", "cleanup">>
KillTheFirst == <<TRUE, FALSE, FALSE, FALSE>>
PreAndCleanup == <<"pre", "cleanup">>
KillPre == <<TRUE, FALSE>>
=============================================================================
