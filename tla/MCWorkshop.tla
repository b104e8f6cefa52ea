------------------------------ MODULE MCWorkshop ------------------------------
(* The files of a workshop session, the summary of its conversation, the     *)
(* making of sessions, the tables of the capabilities and the routing of     *)
(* channels share no state: a behaviour of this run is one of theirs. Files: *)
(* two of them, one too big to be archived; any four of the processes and    *)
(* outside events. Summary: a live window of two turns over five instants.   *)
(* Sessions: two members, two clicks and two closings at once. Tables: every *)
(* capability, every release, three starts. Routing: the console's channel,  *)
(* one of the guild and one outside, three capabilities, two starts, two     *)
(* orders, one turn; the environment gives every setting a value, or none    *)
(* for the intake.                                                           *)
EXTENDS WorkshopFiles, WorkshopContext, WorkshopSessions, SchemaMigrations, Routing

CONSTANTS report, book

MCFiles == {report, book}
MCBudget == [k \in Kinds |-> 1]

\* At most so many of Kinds happen in a behaviour.
FilesBound == Cardinality({k \in Kinds : left[k] = 0}) <= 4

\* The capabilities of the routing, and what the environment binds.
BootOrder == <<"configuration", "calendar", "general_chat">>
BoundByEnv == [c \in {"c1"} |-> "calendar"]

VARIABLE part

MCInit ==
  /\ part \in {"files", "summary", "sessions", "tables", "routing"}
  /\ FilesInit /\ ContextInit /\ WorkshopInit /\ SchemaInit /\ RoutingInit
  /\ part = "tables" \/ whose = "configuration"
  /\ IF part = "routing" THEN setting.seed = "a" \/ setting.kind = "intake"
     ELSE setting = [kind |-> "scanner", seed |-> "a"]

recordVars == <<contextVars, sessVars, schemaVars, routingVars>>
MCNext ==
  /\ \/ part = "files" /\ FilesNext /\ FilesBound' /\ UNCHANGED recordVars
     \/ part = "summary" /\ ContextNext
        /\ UNCHANGED <<vars, sessVars, schemaVars, routingVars>>
     \/ part = "sessions" /\ WorkshopNext
        /\ UNCHANGED <<vars, contextVars, schemaVars, routingVars>>
     \/ part = "tables" /\ SchemaNext
        /\ UNCHANGED <<vars, contextVars, sessVars, routingVars>>
     \/ part = "routing" /\ RoutingNext
        /\ UNCHANGED <<vars, contextVars, sessVars, schemaVars>>
  /\ UNCHANGED part

\* In the other parts none of the steps that fairness is about is enabled.
MCSpec == MCInit /\ [][MCNext]_<<vars, recordVars, part>> /\ FilesFairness
=============================================================================
