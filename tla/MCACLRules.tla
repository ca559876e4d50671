---------------------------- MODULE MCACLRules ----------------------------
(* ACLRules for TLC, on a server of four commands: get is scoped, keys and  *)
(* scan read the whole keyspace, config is administrative.                  *)
EXTENDS ACLRules

Commands4 == {"get", "keys", "scan", "config"}
Categories4 == {"all", "read", "admin", "dangerous"}
Members4 == [c \in Categories4 |->
    CASE c = "all" -> Commands4
      [] c = "read" -> {"get", "keys", "scan"}
      [] c = "admin" -> {"config"}
      [] c = "dangerous" -> {"keys", "config"}]
Scoped4 == {"get"}
Data4 == {"read"}
Floor4 == <<"scan">>
Prior4 == {<<>>,
           <<Word("nopass"), Word("allcommands"), Word("on"), Word("allkeys"), Word("allchannels")>>,
           <<[kind |-> "channel", arg |-> "app"], [kind |-> "key", arg |-> "app"]>>}
=============================================================================
