--------------------------- MODULE MCCatalogSearch ---------------------------
EXTENDS CatalogSearch

TwoUpstreams == <<"fs", "gh">>
Spellings == [name \in {"fs", "FS", "gh"} |-> IF name = "gh" THEN "gh" ELSE "fs"]

\* Every other offer has two tools.
OneOrTwo == [k \in 0..MaxChanges |-> 1 + (k % 2)]
=============================================================================
