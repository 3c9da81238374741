----------------------------- MODULE MCStartup -----------------------------
(* Constants for model-checking Startup. *)
EXTENDS Startup

CONSTANTS w1, w2, g1, g2

\* Some of the tables, in create_all's order: pat refers to user.
FourTables == <<"auditlog", "oidcsettings", "user", "pat">>
=============================================================================
