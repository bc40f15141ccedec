---------------------------- MODULE MCAuthzGrant ----------------------------
(***************************************************************************)
(* Small instances of AuthzGrant: two nodes, and one user who gives every  *)
(* grant.  No step looks at the address of a post, so that other users     *)
(* only matter to the properties that name it.                             *)
(***************************************************************************)
EXTENDS AuthzGrant, TLC

CONSTANTS n1, n2, u1

MCSubmitNodes == <<n1, n2>>
MCGranter == [g \in Grants |-> u1]
=============================================================================
