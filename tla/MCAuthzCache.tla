---------------------------- MODULE MCAuthzCache -----------------------------
(***************************************************************************)
(* A small instance of AuthzCache: one user in two roles, who is the same  *)
(* to everything but the role in the key.                                  *)
(***************************************************************************)
EXTENDS AuthzCache, TLC

Claim(user, role) == [channel |-> "chat", principal |-> "p", user |-> user, role |-> role]

TwoRoles == {Claim("u", "admin"), Claim("u", "member")}

Symmetry == Permutations(Checks)
=============================================================================
