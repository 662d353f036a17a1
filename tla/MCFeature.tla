------------------------------ MODULE MCFeature ------------------------------
(* A small instance of FeatureWorkflow for TLC. *)
EXTENDS FeatureWorkflow

CONSTANTS s1, s2  \* the servers
=============================================================================
