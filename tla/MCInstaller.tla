----------------------------- MODULE MCInstaller --------------------------
(***************************************************************************)
(* Every layout of the state files and every command.                      *)
(***************************************************************************)
EXTENDS Installer
MCLayouts == Paths
MCCommands == {"install", "uninstall", "reinstall"}

\* agent_config.example.json: the queue has moved, the UUID has not.
ExampleLayout == {[queue |-> "state", id |-> "install"]}
Reinstall == {"reinstall"}
===========================================================================
