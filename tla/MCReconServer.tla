---------------------------- MODULE MCReconServer ----------------------------
(* Small instances of ReconServer.                                         *)
EXTENDS ReconServer, TLC

MCRequests == [target: Hosts, scan: Scans]

ReconSymmetry ==
    Permutations(Servers) \cup Permutations(Ids) \cup Permutations(Scans)
=============================================================================
