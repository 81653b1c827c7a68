-------------------------- MODULE MC_RestGateway ---------------------------
(* RestGateway has no sets to instantiate; the configs choose whether the *)
(* async dispatcher's Run may fail before it is initialised.             *)
EXTENDS RestGateway, TLC

=============================================================================
