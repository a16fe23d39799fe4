---------------------------- MODULE MCMcpServer ------------------------------
(* Small instances of McpServer.                                           *)
EXTENDS McpServer, TLC

CONSTANTS s1, s2, p1, d1   \* model values

AllKinds == {"plugins", "list", "job"}   \* a "tool" is a "plugins" call that changes nothing
EitherSession == Permutations({s1, s2})
==============================================================================
