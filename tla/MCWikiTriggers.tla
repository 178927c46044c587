--------------------------- MODULE MCWikiTriggers ---------------------------
(* WikiTriggers on small instances: two documents, one of them deleted.    *)
EXTENDS WikiTriggers, TLC
=============================================================================
