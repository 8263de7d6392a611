----------------------------- MODULE MCPgGateway -----------------------------
EXTENDS PgGateway, TLC

Alike == Permutations(Conns) \cup Permutations(Identities) \cup Permutations(Pids)
=============================================================================
