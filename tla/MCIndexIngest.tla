--------------------------- MODULE MCIndexIngest ---------------------------
(* Up to two workers and two tenants, one of which ships a file.  The      *)
(* assumptions of MCRetrieval, on what a search makes of the index a       *)
(* worker holds, are evaluated with this model.                            *)
EXTENDS IndexIngest, MCRetrieval

MCShipped == {<<"v1", Absent>>}
=============================================================================
