----------------------------- MODULE MCWorkflowCatalog ----------------------------
(* WorkflowCatalog for TLC: requests are interchangeable, and so are the ids not yet
   given out.  Every request is made once, so the system stops when all are done. *)
EXTENDS WorkflowCatalog, TLC

CatalogSymmetry == Permutations(Requests) \cup Permutations(Workflows \ {First})

===================================================================================
