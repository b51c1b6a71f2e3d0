--------------------------- MODULE MCServiceTables ---------------------------
(* MCServices, for a run that evaluates what the proofs assume of the      *)
(* tables.  Its mutants keep to those conditions, those of MCServices'     *)
(* other runs need not.                                                    *)
EXTENDS MCServices, ServiceTables
=============================================================================
