------------------------------- MODULE MCTools -------------------------------
(***************************************************************************)
(* Instances for TLC of what runs to an end by itself: the commands, and   *)
(* the finalization of the archive that the recorder leaves.  They share   *)
(* no variable, so the archive is explored when no command is run.         *)
(***************************************************************************)
EXTENDS MCCommands, ArchiveFinalization

tools_vars == <<all_vars, archive_vars>>

ToolsInit == CommandsInit /\ ArchiveInit

RunCommands == CommandsNext /\ UNCHANGED archive_vars
RunArchive == command = "none" /\ ArchiveNext /\ UNCHANGED all_vars

ToolsNext == RunCommands \/ RunArchive

\* No step of an archive that has not been launched is fair.
ToolsSpec ==
  /\ ToolsInit /\ [][ToolsNext]_tools_vars
  /\ CommandsFairness /\ ArchiveFairness

-----------------------------------------------------------------------------
MCForeign == {<<"foreign", 1>>}
=============================================================================
