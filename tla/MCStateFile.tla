---------------------------- MODULE MCStateFile ----------------------------
(* StateFile with the catalog and one of the two lenient files.            *)
EXTENDS StateFile
=============================================================================
