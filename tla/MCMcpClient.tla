---------------------------- MODULE MCMcpClient ----------------------------
(* A small instance of McpClient: two servers that may offer the same tool *)
(* share the requests, or one is started again and answers late.           *)
EXTENDS McpClient

CONSTANTS s1, s2, t1

MCServers == {s1, s2}
MCTools   == {t1}
=============================================================================
