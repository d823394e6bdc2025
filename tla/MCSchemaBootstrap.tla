------------------------- MODULE MCSchemaBootstrap -------------------------
(* An instance of SchemaBootstrap for TLC.                                 *)
EXTENDS SchemaBootstrap
=============================================================================
