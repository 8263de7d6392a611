----------------------------- MODULE MCApiSidecar -----------------------------
EXTENDS ApiSidecar, TLC

Alike == Permutations(Reloads) \cup Permutations(Calls)

\* An order has a customer and lines, both with addresses; it may also hold the
\* orders it replaces, as an address the one before.
SomeSchemas == {"order", "customer", "line", "address"}
Diamond ==
    [s \in SomeSchemas |->
        CASE s = "order" -> {"customer", "line"} [] s = "address" -> {} [] OTHER -> {"address"}]
Circle == [Diamond EXCEPT !["address"] = {"address"}]
SomeGraphs == {Diamond, Circle}
=============================================================================
