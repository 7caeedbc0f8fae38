------------------------------- MODULE Processes --------------------------------
(***************************************************************************)
(* What a process of agent-service makes of its surroundings when it starts   *)
(* and keeps while it runs: the graph it compiles (Wiring), the tables it      *)
(* migrates (Schema), the configuration and the skills it caches (Snapshots). *)
(* They share nothing but the process; what they promise together is here.     *)
(***************************************************************************)
EXTENDS Wiring, Schema, Snapshots

ProcessesSpec == WiringSpec /\ SchemaSpec /\ SnapshotsSpec

\* A graph that compiles calls its consumers with what they declare, in the process that
\* took the instance (graph.py, emit.py); a pod that runs finds its columns, and a release
\* boots again over its own table (migrator.py); what a process was told of its configuration
\* is not out of date, and its skills are those of the files (dynamic_config.py, registry.py).
ProcessesFit ==
    /\ CompiledCallsFit /\ CompiledHttpArrives
    /\ RunningPodsFit /\ RebootsQuietly
    /\ ConfigIsFresh /\ SkillsAreCurrent
================================================================================
