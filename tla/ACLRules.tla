----------------------------- MODULE ACLRules -----------------------------
(***************************************************************************)
(* The rules of a RedisUser (internal/controller/redisuser_controller.go): *)
(* validateRedisUserSpec, which holds every rule to the shape of its field *)
(* and grants to an allowlist, buildACLRules, which renders the spec as    *)
(* one ACL SETUSER, and what Redis makes of the rules an account was given *)
(* in its life, left to right. SETUSER changes an account, it does not     *)
(* replace it: the server applies its rules one by one to what is there,   *)
(* and nobody sees the account between two rules of a SETUSER.             *)
(*                                                                         *)
(* Abstractions: a rule is a token of one of the kinds the validation      *)
(* tells apart, with the command, category, pattern, password or keyword   *)
(* it carries; tokens that no field accepts whatever they carry (empty,    *)
(* with white space or a selector, a malformed % qualifier, an empty       *)
(* pattern or name) are "bad"; names are in lower case; ~* and &* are the  *)
(* keywords allkeys and allchannels, for which they stand on the server.   *)
(***************************************************************************)
EXTENDS Integers, Sequences

CONSTANTS
    Command,         \* commands of the server
    Category,        \* its ACL categories
    Members,         \* the commands of each category
    Scoped,          \* commands a key or channel pattern confines, or that touch neither
    AllowedCommands, \* redisAllowedCommands
    DataCategories,  \* redisACLCategories
    FloorCommands,   \* the commands of redisConfinementFloor, in order
    Pattern,         \* key and channel patterns
    Password,        \* passwords that ValidateAuthPassword accepts
    NoPw,            \* no password
    Prior,           \* the rules administrators may have created the account with
    MaxEdits,        \* bound on edits of the RedisUser and its Secret
    MaxApplied       \* bound on SETUSERs

FloorCategories == <<"admin", "dangerous">>

\* What the comments of redis_command_table.go say of the two tables: they were derived
\* from the command table of the server.
ASSUME TableAssumption ==
    /\ {"admin", "dangerous"} \subseteq Category /\ "all" \in Category
    /\ Members \in [Category -> SUBSET Command]
    /\ AllowedCommands \subseteq Scoped
    /\ DataCategories \subseteq Category \ {"all", "admin", "dangerous"}
    /\ FloorCommands \in Seq(Command)
    /\ \A c \in DataCategories : \A x \in Members[c] \ Scoped :
           \/ x \in Members["admin"] \cup Members["dangerous"]
           \/ \E i \in DOMAIN FloorCommands : FloorCommands[i] = x
ASSUME BoundAssumption ==
    NoPw \notin Password /\ MaxEdits \in Nat /\ MaxApplied \in Nat

Denied == {"nopass", "reset", "resetpass", "on", "off", "allcommands"}
Fields == {"categories", "commands", "keys", "channels"}

\* aclScopeKeywords
ScopeKeywords == [f \in Fields |->
    CASE f = "keys"     -> {"allkeys", "resetkeys"}
      [] f = "channels" -> {"allchannels", "resetchannels"}
      [] f = "commands" -> {"nocommands", "clearselectors", "sanitize-payload",
                            "nosanitize-payload"}
      [] OTHER          -> {}]

Keyword == Denied \cup {"allkeys", "resetkeys", "allchannels", "resetchannels", "nocommands",
                        "clearselectors", "sanitize-payload", "nosanitize-payload"}

Rule == [kind : {"+", "-"}, arg : Command] \cup [kind : {"+@", "-@"}, arg : Category]
        \cup [kind : {"key", "channel"}, arg : Pattern] \cup [kind : {"word"}, arg : Keyword]
        \cup [kind : {"pass"}, arg : Password] \cup [kind : {"bad"}, arg : {NoPw}]

ASSUME PriorAssumption == Prior \subseteq Seq(Rule)

Word(w) == [kind |-> "word", arg |-> w]

-----------------------------------------------------------------------------
(* validateRedisUserSpec and buildACLRules.                                *)

\* validateKeyPattern, validateChannelPattern, validateCategoryRule and
\* validateCommandRule: what a field accepts beside its keywords.
KeyPattern(r) == r.kind = "key"
ChannelPattern(r) == r.kind = "channel"
CategoryRule(r) == r.kind = "-@" \/ (r.kind = "+@" /\ r.arg \in DataCategories)
CommandRule(r) == r.kind = "-" \/ (r.kind = "+" /\ r.arg \in AllowedCommands)

\* validateACLRule
Accepts(field, r) ==
    \/ r.kind = "word" /\ r.arg \in ScopeKeywords[field] \ Denied
    \/ field = "keys" /\ KeyPattern(r)
    \/ field = "channels" /\ ChannelPattern(r)
    \/ field = "categories" /\ CategoryRule(r)
    \/ field = "commands" /\ CommandRule(r)

\* validateRedisUserSpec
Valid(s) == \A f \in Fields : \A i \in DOMAIN s.rules[f] : Accepts(f, s.rules[f][i])

\* redisConfinementFloor
Floor == [i \in 1..Len(FloorCategories) |-> [kind |-> "-@", arg |-> FloorCategories[i]]]
         \o [i \in 1..Len(FloorCommands) |-> [kind |-> "-", arg |-> FloorCommands[i]]]

\* The floor follows a category or a command.
FloorFor(s) == IF s.rules["categories"] # <<>> \/ s.rules["commands"] # <<>> THEN Floor ELSE <<>>

\* Mutant: the floor comes before the grants.
BuildFloorFirst(s, pw) ==
    <<Word("reset"), [kind |-> "pass", arg |-> pw], Word(IF s.enabled THEN "on" ELSE "off")>>
    \o FloorFor(s)
    \o s.rules["categories"] \o s.rules["commands"] \o s.rules["keys"] \o s.rules["channels"]

\* Mutant: the reset comes after the password.
BuildPasswordFirst(s, pw) ==
    <<[kind |-> "pass", arg |-> pw], Word("reset"), Word(IF s.enabled THEN "on" ELSE "off")>>
    \o s.rules["categories"] \o s.rules["commands"] \o s.rules["keys"] \o s.rules["channels"]
    \o FloorFor(s)

\* buildACLRules
BuildACLRules(s, pw) ==
    <<Word("reset"), [kind |-> "pass", arg |-> pw], Word(IF s.enabled THEN "on" ELSE "off")>>
    \o (s.rules["categories"] \o s.rules["commands"] \o s.rules["keys"] \o s.rules["channels"])
    \o FloorFor(s)

-----------------------------------------------------------------------------
(* ACL SETUSER, rule by rule.                                              *)

Accounts == [commands : SUBSET Command, passwords : SUBSET Password, open : BOOLEAN,
             on : BOOLEAN, keys : SUBSET Pattern, allKeys : BOOLEAN,
             channels : SUBSET Pattern, allChannels : BOOLEAN]
NewAccount == [commands |-> {}, passwords |-> {}, open |-> FALSE, on |-> FALSE, keys |-> {},
               allKeys |-> FALSE, channels |-> {}, allChannels |-> FALSE]

\* One rule changes the account.
ApplyRule(a, r) ==
    CASE r = Word("reset")       -> NewAccount
      [] r = Word("resetpass")   -> [a EXCEPT !.passwords = {}, !.open = FALSE]
      [] r = Word("nopass")      -> [a EXCEPT !.passwords = {}, !.open = TRUE]
      [] r = Word("on")          -> [a EXCEPT !.on = TRUE]
      [] r = Word("off")         -> [a EXCEPT !.on = FALSE]
      [] r = Word("allcommands") -> [a EXCEPT !.commands = Command]
      [] r = Word("nocommands")  -> [a EXCEPT !.commands = {}]
      [] r = Word("resetkeys")     -> [a EXCEPT !.keys = {}, !.allKeys = FALSE]
      [] r = Word("allkeys")       -> [a EXCEPT !.keys = {}, !.allKeys = TRUE]
      [] r = Word("resetchannels") -> [a EXCEPT !.channels = {}, !.allChannels = FALSE]
      [] r = Word("allchannels")   -> [a EXCEPT !.channels = {}, !.allChannels = TRUE]
      [] r.kind = "+"    -> [a EXCEPT !.commands = @ \cup {r.arg}]
      [] r.kind = "-"    -> [a EXCEPT !.commands = @ \ {r.arg}]
      [] r.kind = "+@"   -> [a EXCEPT !.commands = @ \cup Members[r.arg]]
      [] r.kind = "-@"   -> [a EXCEPT !.commands = @ \ Members[r.arg]]
      [] r.kind = "pass" -> [a EXCEPT !.passwords = @ \cup {r.arg}, !.open = FALSE]
      [] r.kind = "key"  -> [a EXCEPT !.keys = @ \cup {r.arg}]
      [] r.kind = "channel" -> [a EXCEPT !.channels = @ \cup {r.arg}]
      [] OTHER           -> a

\* The server refuses a SETUSER as a whole when one of its rules adds a pattern to an
\* account that has them all.
AddsToAll(g, all, kind, undoing) ==
    \E i, j \in DOMAIN g :
        /\ i < j /\ g[i] = all /\ g[j].kind = kind
        /\ \A k \in DOMAIN g : i < k /\ k < j => g[k] \notin undoing
Refused(g) ==
    \/ AddsToAll(g, Word("allkeys"), "key", {Word("resetkeys"), Word("reset")})
    \/ AddsToAll(g, Word("allchannels"), "channel", {Word("resetchannels"), Word("reset")})

-----------------------------------------------------------------------------
VARIABLES
    spec,     \* enabled, and the rules of each field
    secret,   \* the password in passwordSecretRef
    account,  \* the account on a node
    todo,     \* the rules of the SETUSER under way that the node has not applied yet
    given,    \* every rule the node applied to the account
    applied,  \* the spec of the last SETUSER, its password and how many there were
    edits

server == <<account, todo, given>>
vars == <<spec, secret, server, applied, edits>>

Specs == [enabled : BOOLEAN, rules : [Fields -> Seq(Rule)]]
NoRules == [f \in Fields |-> <<>>]

TypeOK ==
    /\ spec \in Specs
    /\ secret \in Password
    /\ account \in Accounts
    /\ todo \in Seq(Rule) /\ given \in Seq(Rule)
    /\ applied \in [spec : Specs, pw : Password \cup {NoPw}, times : 0..MaxApplied]
    /\ edits \in 0..MaxEdits

Init ==
    /\ spec = [enabled |-> TRUE, rules |-> NoRules]
    /\ secret \in Password
    /\ account = NewAccount /\ todo \in Prior /\ given = <<>>
    /\ applied = [spec |-> spec, pw |-> NoPw, times |-> 0]
    /\ edits = 0

\* The user edits the RedisUser or its Secret; a SETUSER is atomic for everyone else.
Edit == todo = <<>> /\ edits < MaxEdits /\ edits' = edits + 1

AddRule(f, r) ==
    /\ Edit
    /\ spec' = [spec EXCEPT !.rules[f] = Append(@, r)]
    /\ UNCHANGED <<secret, server, applied>>
ClearField(f) ==
    /\ Edit /\ spec.rules[f] # <<>>
    /\ spec' = [spec EXCEPT !.rules[f] = <<>>]
    /\ UNCHANGED <<secret, server, applied>>
Toggle ==
    /\ Edit
    /\ spec' = [spec EXCEPT !.enabled = ~@]
    /\ UNCHANGED <<secret, server, applied>>
ChangeSecret(p) ==
    /\ Edit /\ secret' = p
    /\ UNCHANGED <<spec, server, applied>>

\* A pass of the reconciler reaches the node: a spec that the validation or the server
\* refuses changes nothing there.
Apply ==
    /\ todo = <<>> /\ Valid(spec) /\ applied.times < MaxApplied
    /\ ~Refused(BuildACLRules(spec, secret))
    /\ todo' = BuildACLRules(spec, secret)
    /\ applied' = [spec |-> spec, pw |-> secret, times |-> applied.times + 1]
    /\ UNCHANGED <<spec, secret, account, given, edits>>

\* The server applies the next rule of the SETUSER under way.
SetUserRule ==
    /\ todo # <<>>
    /\ account' = ApplyRule(account, Head(todo))
    /\ given' = Append(given, Head(todo))
    /\ todo' = Tail(todo)
    /\ UNCHANGED <<spec, secret, applied, edits>>

Next ==
    \/ \E f \in Fields : ClearField(f) \/ \E r \in Rule : AddRule(f, r)
    \/ \E p \in Password : ChangeSecret(p)
    \/ Toggle \/ Apply \/ SetUserRule

Spec == Init /\ [][Next]_vars

-----------------------------------------------------------------------------
(* Properties.                                                             *)

\* The operator applied a spec, and the server is done with it.
Settled == applied.times > 0 /\ todo = <<>>

\* "these trailing removals win and hold the user inside its declared key and channel
\* scope": whatever rules an account had before and whatever valid spec was applied to
\* it, it may run no command that no pattern confines. Validation by field, the
\* allowlist, the position of the floor and its gate all carry it.
Confined == Settled => account.commands \subseteq Scoped

\* Rule r is in field f of the spec that was applied.
Declares(f, r) ==
    \E i \in DOMAIN applied.spec.rules[f] : applied.spec.rules[f][i] = r

\* "so the account ends up exactly as the spec describes": the account is protected by
\* the password of the Secret and no other, authenticates if and only if spec.enabled
\* says so, and has no key or channel pattern, and not all keys or all channels, that
\* the spec does not declare, whatever it had before.
ExactlyAsDeclared ==
    Settled =>
        /\ account.passwords = {applied.pw} /\ ~account.open
        /\ account.on <=> applied.spec.enabled
        /\ \A p \in account.keys : Declares("keys", [kind |-> "key", arg |-> p])
        /\ account.allKeys => Declares("keys", Word("allkeys"))
        /\ \A p \in account.channels : Declares("channels", [kind |-> "channel", arg |-> p])
        /\ account.allChannels => Declares("channels", Word("allchannels"))
=============================================================================
