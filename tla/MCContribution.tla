--------------------------- MODULE MCContribution ---------------------------
\* Two threads of the application and one of the MCP server.
EXTENDS Contribution, TLC

CONSTANTS app, mcp, a1, a2, m1, old, new, x1, x2

ThreadProcs == (a1 :> app) @@ (a2 :> app) @@ (m1 :> mcp)
TwoThreads == (a1 :> app) @@ (m1 :> mcp)
DeferredOrAll == {{}, {old, new}}

=============================================================================
