---------------------------- MODULE MCACLUsers ----------------------------
(* ACLUsers for TLC: one RedisUser that may take the default user's name or *)
(* u1, which an administrator has already used on the first node.           *)
EXTENDS ACLUsers

CONSTANTS c1, u1, admin

Handmade == {<<1, u1>>}
=============================================================================
