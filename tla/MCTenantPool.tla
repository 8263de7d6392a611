---------------------------- MODULE MCTenantPool ----------------------------
(***************************************************************************)
(* Small instances of TenantPool: three requests, so that one can hold the *)
(* mutex or an instance while two others interleave with it.               *)
(***************************************************************************)
EXTENDS TenantPool, TLC

Identity(p, s, u) == [principal |-> p, session |-> s, smithUser |-> u]

\* Sessions s1 and s2, and a token without a session; when principals are the
\* tenants, the first and the last are alice and the second is the Smith user carol.
SomeIdentities ==
    {None, Identity("alice", "s1", ""), Identity("alice", "s2", "carol"), Identity("alice", "", "")}

Symmetry == Permutations(Requests)
=============================================================================
