-------------------------- MODULE ACLRulesProofs --------------------------
(***************************************************************************)
(* ACLRules for every command table, every spec and any number of edits    *)
(* and SETUSERs. What the server arrives at rule by rule is what the       *)
(* sequence of the rules means, by induction over the rules it applies.    *)
(* From there the argument is positional: the rules an account was given   *)
(* end with those of the last SETUSER, whose reset undoes everything       *)
(* before it, whose rules after the header come from a valid spec or from  *)
(* the floor, and whose floor comes after every category grant.            *)
(***************************************************************************)
EXTENDS ACLRules, TLAPS

-----------------------------------------------------------------------------
(* What the account is, from the sequence of all the rules the server was  *)
(* given: a rule has its effect unless a later one undoes it.              *)

Grants(r, x) ==
    \/ r.kind = "+" /\ r.arg = x
    \/ r.kind = "+@" /\ x \in Members[r.arg]
    \/ r = Word("allcommands")

Revokes(r, x) ==
    \/ r.kind = "-" /\ r.arg = x
    \/ r.kind = "-@" /\ x \in Members[r.arg]
    \/ r.kind = "word" /\ r.arg \in {"nocommands", "reset"}

\* Rule i of a sequence, and no later one is among those that undo it.
Lasts(g, i, undoing) == \A j \in DOMAIN g : j > i => g[j] \notin undoing

Allows(g, x) ==
    \E i \in DOMAIN g : Grants(g[i], x) /\ \A j \in DOMAIN g : j > i => ~Revokes(g[j], x)
Passwords == [kind : {"pass"}, arg : Password]
Knows(g, p) ==
    \E i \in DOMAIN g : /\ g[i] = [kind |-> "pass", arg |-> p]
                        /\ Lasts(g, i, {Word("reset"), Word("resetpass"), Word("nopass")})
Open(g) ==
    \E i \in DOMAIN g : /\ g[i] = Word("nopass")
                        /\ Lasts(g, i, {Word("reset"), Word("resetpass")} \cup Passwords)
Active(g) ==
    \E i \in DOMAIN g : g[i] = Word("on") /\ Lasts(g, i, {Word("off"), Word("reset")})
KeyPatterns(g) ==
    {p \in Pattern : \E i \in DOMAIN g :
        /\ g[i] = [kind |-> "key", arg |-> p]
        /\ Lasts(g, i, {Word("resetkeys"), Word("allkeys"), Word("reset")})}
AllKeys(g) ==
    \E i \in DOMAIN g : g[i] = Word("allkeys") /\ Lasts(g, i, {Word("resetkeys"), Word("reset")})
ChannelPatterns(g) ==
    {p \in Pattern : \E i \in DOMAIN g :
        /\ g[i] = [kind |-> "channel", arg |-> p]
        /\ Lasts(g, i, {Word("resetchannels"), Word("allchannels"), Word("reset")})}
AllChannels(g) ==
    \E i \in DOMAIN g :
        g[i] = Word("allchannels") /\ Lasts(g, i, {Word("resetchannels"), Word("reset")})

\* The account the server arrived at is what the rules it was given mean.
Meaning ==
    /\ account.commands = {x \in Command : Allows(given, x)}
    /\ account.passwords = {p \in Password : Knows(given, p)}
    /\ account.open <=> Open(given)
    /\ account.on <=> Active(given)
    /\ account.keys = KeyPatterns(given)
    /\ account.allKeys <=> AllKeys(given)
    /\ account.channels = ChannelPatterns(given)
    /\ account.allChannels <=> AllChannels(given)

-----------------------------------------------------------------------------
\* The rules the spec contributes, in the order of buildACLRules.
Middle(s) ==
    s.rules["categories"] \o s.rules["commands"] \o s.rules["keys"] \o s.rules["channels"]
Header(s, pw) ==
    <<Word("reset"), [kind |-> "pass", arg |-> pw], Word(IF s.enabled THEN "on" ELSE "off")>>

\* What may follow the header of a valid spec.
Harmless(s, r) ==
    /\ r.kind \notin {"pass", "bad"}
    /\ r.kind = "word" => r.arg \notin Denied
    /\ r.kind = "+" => r.arg \in AllowedCommands
    /\ r.kind = "+@" => r.arg \in DataCategories
    /\ r.kind = "key" \/ r = Word("allkeys") =>
           \E k \in DOMAIN s.rules["keys"] : s.rules["keys"][k] = r
    /\ r.kind = "channel" \/ r = Word("allchannels") =>
           \E k \in DOMAIN s.rules["channels"] : s.rules["channels"][k] = r

\* The rules given so far and those still to apply end with a rendered valid spec.
Rendered ==
    applied.times > 0 =>
        /\ applied.pw \in Password /\ Valid(applied.spec)
        /\ \E q \in Seq(Rule) : given \o todo = q \o BuildACLRules(applied.spec, applied.pw)

IndInv == TypeOK /\ Rendered /\ Meaning

\* w is u followed by v, by position.
Joins(w, u, v) ==
    /\ Len(u) \in Nat /\ Len(v) \in Nat /\ Len(w) = Len(u) + Len(v)
    /\ DOMAIN u = 1..Len(u) /\ DOMAIN v = 1..Len(v) /\ DOMAIN w = 1..Len(w)
    /\ \A i \in 1..Len(u) : w[i] = u[i]
    /\ \A i \in 1..Len(v) : w[Len(u) + i] = v[i]
    /\ \A i \in 1..Len(w) : \/ i \in 1..Len(u) /\ w[i] = u[i]
                            \/ i - Len(u) \in 1..Len(v) /\ w[i] = v[i - Len(u)]

LEMMA Concat ==
    ASSUME NEW S, NEW u \in Seq(S), NEW v \in Seq(S)
    PROVE  u \o v \in Seq(S) /\ Joins(u \o v, u, v)
BY DEF Joins

\* The floor removes, from what a data category grants, all that no pattern confines.
LEMMA FloorShape ==
    /\ Floor \in Seq(Rule)
    /\ \A i \in DOMAIN Floor : Floor[i].kind \in {"-@", "-"}
    /\ \A c \in DataCategories : \A x \in Members[c] \ Scoped :
           \E i \in DOMAIN Floor : Revokes(Floor[i], x)
<1> DEFINE A == [i \in 1..Len(FloorCategories) |-> [kind |-> "-@", arg |-> FloorCategories[i]]]
           B == [i \in 1..Len(FloorCommands) |-> [kind |-> "-", arg |-> FloorCommands[i]]]
<1>1. /\ Len(FloorCategories) = 2
      /\ FloorCategories[1] = "admin" /\ FloorCategories[2] = "dangerous"
  BY DEF FloorCategories
<1>2. A \in Seq(Rule) /\ Len(A) = 2
  <2>1. \A i \in 1..2 : A[i] \in Rule
    BY <1>1, TableAssumption DEF Rule
  <2> QED BY <2>1, <1>1
<1>3. B \in Seq(Rule) /\ Len(B) = Len(FloorCommands)
  <2>1. \A i \in 1..Len(FloorCommands) : B[i] \in Rule
    BY TableAssumption DEF Rule
  <2> QED BY <2>1, TableAssumption
<1>4. Floor = A \o B
  BY DEF Floor
<1>a. /\ A[1].kind = "-@" /\ A[2].kind = "-@" /\ A[1].arg = "admin" /\ A[2].arg = "dangerous"
      /\ \A i \in 1..Len(FloorCommands) : B[i].kind = "-" /\ B[i].arg = FloorCommands[i]
  BY <1>1
<1> HIDE DEF A, B
<1>b. Floor \in Seq(Rule) /\ Joins(Floor, A, B)
  BY <1>2, <1>3, <1>4, Concat
<1>c. Len(FloorCommands) \in Nat
  BY TableAssumption
<1>5. ASSUME NEW i \in DOMAIN Floor
      PROVE  Floor[i].kind \in {"-@", "-"}
  <2>1. \/ i \in 1..2 /\ Floor[i] = A[i]
        \/ i - 2 \in 1..Len(FloorCommands) /\ Floor[i] = B[i - 2]
    BY <1>2, <1>3, <1>b DEF Joins
  <2>2. CASE i \in 1..2 /\ Floor[i] = A[i]
    <3>1. i = 1 \/ i = 2 BY <2>2
    <3> QED BY <2>2, <3>1, <1>a
  <2>3. CASE i - 2 \in 1..Len(FloorCommands) /\ Floor[i] = B[i - 2]
    BY <2>3, <1>a
  <2> QED BY <2>1, <2>2, <2>3
<1>6. ASSUME NEW c \in DataCategories, NEW x \in Members[c] \ Scoped
      PROVE  \E i \in DOMAIN Floor : Revokes(Floor[i], x)
  <2>1. 1 \in DOMAIN Floor /\ 2 \in DOMAIN Floor /\ Floor[1] = A[1] /\ Floor[2] = A[2]
    BY <1>2, <1>3, <1>b, <1>c DEF Joins
  <2>2. CASE x \in Members["admin"]
    <3>1. Revokes(Floor[1], x) BY <2>1, <2>2, <1>a DEF Revokes
    <3> QED BY <3>1, <2>1
  <2>3. CASE x \in Members["dangerous"]
    <3>1. Revokes(Floor[2], x) BY <2>1, <2>3, <1>a DEF Revokes
    <3> QED BY <3>1, <2>1
  <2>4. CASE \E k \in DOMAIN FloorCommands : FloorCommands[k] = x
    <3>1. PICK k \in DOMAIN FloorCommands : FloorCommands[k] = x BY <2>4
    <3>2. k \in 1..Len(FloorCommands) BY TableAssumption
    <3>3. 2 + k \in DOMAIN Floor /\ Floor[2 + k] = B[k]
      BY <3>2, <1>2, <1>3, <1>b, <1>c DEF Joins
    <3>4. Revokes(Floor[2 + k], x) BY <3>1, <3>2, <3>3, <1>a DEF Revokes
    <3> QED BY <3>3, <3>4
  <2> QED BY <2>2, <2>3, <2>4, TableAssumption
<1> QED BY <1>b, <1>5, <1>6

\* Every rule the spec contributes comes from one of its fields.
LEMMA MiddleShape ==
    ASSUME NEW s \in Specs, Valid(s)
    PROVE  /\ Middle(s) \in Seq(Rule)
           /\ \A i \in DOMAIN Middle(s) : Harmless(s, Middle(s)[i])
           /\ \A i \in DOMAIN Middle(s) :
                  Middle(s)[i].kind = "+@" => s.rules["categories"] # <<>>
<1> DEFINE a == s.rules["categories"]
           b == s.rules["commands"]
           c == s.rules["keys"]
           d == s.rules["channels"]
<1>1. a \in Seq(Rule) /\ b \in Seq(Rule) /\ c \in Seq(Rule) /\ d \in Seq(Rule)
  BY DEF Specs, Fields
<1>2. /\ \A i \in DOMAIN a : Accepts("categories", a[i])
      /\ \A i \in DOMAIN b : Accepts("commands", b[i])
      /\ \A i \in DOMAIN c : Accepts("keys", c[i])
      /\ \A i \in DOMAIN d : Accepts("channels", d[i])
  BY DEF Valid, Fields
<1>3. /\ ScopeKeywords["categories"] = {}
      /\ ScopeKeywords["commands"] \cap Denied = {}
      /\ ScopeKeywords["keys"] \cap Denied = {}
      /\ ScopeKeywords["channels"] \cap Denied = {}
      /\ "allkeys" \notin ScopeKeywords["commands"] \cup ScopeKeywords["channels"]
      /\ "allchannels" \notin ScopeKeywords["commands"] \cup ScopeKeywords["keys"]
  BY DEF ScopeKeywords, Fields, Denied
<1>4. \A i \in DOMAIN a : Harmless(s, a[i])
  BY <1>2, <1>3 DEF Accepts, KeyPattern, ChannelPattern, CategoryRule, CommandRule, Harmless,
         Word
<1>5. \A i \in DOMAIN b : Harmless(s, b[i]) /\ b[i].kind # "+@"
  BY <1>2, <1>3 DEF Accepts, KeyPattern, ChannelPattern, CategoryRule, CommandRule, Harmless,
         Word
<1>6. \A i \in DOMAIN c : Harmless(s, c[i]) /\ c[i].kind # "+@"
  BY <1>2, <1>3 DEF Accepts, KeyPattern, ChannelPattern, CategoryRule, CommandRule, Harmless,
         Word
<1>7. \A i \in DOMAIN d : Harmless(s, d[i]) /\ d[i].kind # "+@"
  BY <1>2, <1>3 DEF Accepts, KeyPattern, ChannelPattern, CategoryRule, CommandRule, Harmless,
         Word
<1>8. Middle(s) \in Seq(Rule)
  BY <1>1 DEF Middle
<1>9. ASSUME NEW i \in DOMAIN Middle(s)
      PROVE  \/ \E j \in DOMAIN a : Middle(s)[i] = a[j]
             \/ \E j \in DOMAIN b : Middle(s)[i] = b[j]
             \/ \E j \in DOMAIN c : Middle(s)[i] = c[j]
             \/ \E j \in DOMAIN d : Middle(s)[i] = d[j]
  <2> DEFINE ab == a \o b
             abc == ab \o c
  <2>1. Middle(s) = abc \o d
    BY DEF Middle
  <2> HIDE DEF a, b, c, d
  <2>2. ab \in Seq(Rule) /\ Joins(ab, a, b)
    BY <1>1, Concat
  <2> HIDE DEF ab
  <2>3. abc \in Seq(Rule) /\ Joins(abc, ab, c)
    BY <1>1, <2>2, Concat
  <2> HIDE DEF abc
  <2>4. Joins(Middle(s), abc, d)
    BY <1>1, <2>1, <2>3, Concat
  <2>5. (\E j \in DOMAIN abc : Middle(s)[i] = abc[j]) \/ \E j \in DOMAIN d : Middle(s)[i] = d[j]
    BY <2>4 DEF Joins
  <2>6. ASSUME NEW k \in DOMAIN abc
        PROVE  (\E j \in DOMAIN ab : abc[k] = ab[j]) \/ \E j \in DOMAIN c : abc[k] = c[j]
    BY <2>3 DEF Joins
  <2>7. ASSUME NEW k \in DOMAIN ab
        PROVE  (\E j \in DOMAIN a : ab[k] = a[j]) \/ \E j \in DOMAIN b : ab[k] = b[j]
    BY <2>2 DEF Joins
  <2> QED BY <2>5, <2>6, <2>7
<1>10. ASSUME NEW i \in DOMAIN Middle(s)
       PROVE  Harmless(s, Middle(s)[i])
  BY <1>9, <1>10, <1>4, <1>5, <1>6, <1>7
<1>11. ASSUME NEW i \in DOMAIN Middle(s), Middle(s)[i].kind = "+@"
       PROVE  a # <<>>
  <2>1. PICK j \in DOMAIN a : Middle(s)[i] = a[j]
    BY <1>9, <1>11, <1>5, <1>6, <1>7
  <2> QED BY <2>1
<1> QED BY <1>8, <1>10, <1>11

\* After n other rules, g is the header of s, then harmless rules with the floor after every
\* category.
Shape(g, s, pw, n) ==
    /\ g \in Seq(Rule)
    /\ n + 3 <= Len(g)
    /\ g[n + 1] = Word("reset")
    /\ g[n + 2] = [kind |-> "pass", arg |-> pw]
    /\ g[n + 3] = Word(IF s.enabled THEN "on" ELSE "off")
    /\ \A i \in DOMAIN g : i > n + 3 => Harmless(s, g[i])
    /\ \A i \in DOMAIN g : i > n + 3 /\ g[i].kind = "+@" =>
           \A k \in DOMAIN Floor : \E j \in DOMAIN g : j > i /\ g[j] = Floor[k]

\* The rules of an account that ends with a rendered spec, by position.
LEMMA GivenShape ==
    ASSUME NEW s \in Specs, Valid(s), NEW pw \in Password, NEW q \in Seq(Rule),
           NEW g, g = q \o BuildACLRules(s, pw)
    PROVE  \E n \in Nat : Shape(g, s, pw, n)
<1> DEFINE h == Header(s, pw)
           m == Middle(s)
           f == FloorFor(s)
           n == Len(q)
<1>1. /\ h \in Seq(Rule) /\ Len(h) = 3
      /\ h[1] = Word("reset") /\ h[2] = [kind |-> "pass", arg |-> pw]
      /\ h[3] = Word(IF s.enabled THEN "on" ELSE "off")
  <2>1. Word("reset") \in Rule /\ Word("on") \in Rule /\ Word("off") \in Rule
    BY DEF Word, Rule, Keyword, Denied
  <2>2. [kind |-> "pass", arg |-> pw] \in Rule
    BY DEF Rule
  <2>3. Word(IF s.enabled THEN "on" ELSE "off") \in Rule
    BY <2>1
  <2> HIDE DEF Rule, Word
  <2> QED BY <2>1, <2>2, <2>3 DEF Header
<1>2. m \in Seq(Rule)
  BY MiddleShape
<1>3. f \in Seq(Rule)
  BY FloorShape DEF FloorFor
<1>4. g = q \o (h \o m \o f)
  BY DEF BuildACLRules, Header, Middle
<1> HIDE DEF h, m, f
<1> DEFINE hm == h \o m
           hmf == hm \o f
<1>a. hm \in Seq(Rule) /\ Joins(hm, h, m)
  BY <1>1, <1>2, Concat
<1>b. hmf \in Seq(Rule) /\ Joins(hmf, hm, f)
  BY <1>a, <1>3, Concat
<1>c. g \in Seq(Rule) /\ Joins(g, q, hmf)
  BY <1>b, <1>4, Concat
<1> HIDE DEF hm, hmf
<1>d. Len(m) \in Nat /\ Len(f) \in Nat /\ n \in Nat
  BY <1>2, <1>3
<1>e. Len(hm) = 3 + Len(m) /\ Len(hmf) = 3 + Len(m) + Len(f)
  BY <1>1, <1>a, <1>b DEF Joins
<1>5. n \in Nat /\ g \in Seq(Rule) /\ Len(g) = n + 3 + Len(m) + Len(f)
  BY <1>c, <1>d, <1>e DEF Joins
<1>6. g[n + 1] = h[1] /\ g[n + 2] = h[2] /\ g[n + 3] = h[3]
  <2>1. hmf[1] = hm[1] /\ hmf[2] = hm[2] /\ hmf[3] = hm[3]
    BY <1>b, <1>d, <1>e DEF Joins
  <2>2. hm[1] = h[1] /\ hm[2] = h[2] /\ hm[3] = h[3]
    BY <1>1, <1>a DEF Joins
  <2>3. g[n + 1] = hmf[1] /\ g[n + 2] = hmf[2] /\ g[n + 3] = hmf[3]
    BY SMTT(30), <1>c, <1>d, <1>e DEF Joins
  <2> QED BY <2>1, <2>2, <2>3
<1>7. \A i \in 1..Len(m) : g[n + 3 + i] = m[i]
  <2> TAKE i \in 1..Len(m)
  <2>1. 3 + i \in 1..Len(hm) /\ 3 + i \in 1..Len(hmf) /\ n + (3 + i) = n + 3 + i
    BY <1>d, <1>e
  <2>2. hm[3 + i] = m[i] BY <1>1, <1>a DEF Joins
  <2>3. hmf[3 + i] = hm[3 + i] BY <2>1, <1>b DEF Joins
  <2>4. g[n + (3 + i)] = hmf[3 + i] BY <2>1, <1>c DEF Joins
  <2> QED BY <2>1, <2>2, <2>3, <2>4
<1>8. \A i \in 1..Len(f) : g[n + 3 + Len(m) + i] = f[i]
  <2> TAKE i \in 1..Len(f)
  <2>1. /\ 3 + Len(m) + i \in 1..Len(hmf)
        /\ n + (3 + Len(m) + i) = n + 3 + Len(m) + i
    BY <1>d, <1>e
  <2>2. hmf[3 + Len(m) + i] = f[i] BY <1>b, <1>e DEF Joins
  <2>3. g[n + (3 + Len(m) + i)] = hmf[3 + Len(m) + i] BY <2>1, <1>c DEF Joins
  <2> QED BY <2>1, <2>2, <2>3
<1>9. \A i \in DOMAIN g : i > n + 3 =>
         \/ i - (n + 3) \in DOMAIN m /\ g[i] = m[i - (n + 3)]
         \/ i - (n + 3 + Len(m)) \in DOMAIN f /\ g[i] = f[i - (n + 3 + Len(m))]
  <2> SUFFICES ASSUME NEW i \in DOMAIN g, i > n + 3
               PROVE  \/ i - (n + 3) \in DOMAIN m /\ g[i] = m[i - (n + 3)]
                      \/ /\ i - (n + 3 + Len(m)) \in DOMAIN f
                         /\ g[i] = f[i - (n + 3 + Len(m))]
    OBVIOUS
  <2>1. i \in 1..(n + 3 + Len(m) + Len(f)) BY <1>5
  <2>2. CASE i <= n + 3 + Len(m)
    <3>1. i - (n + 3) \in 1..Len(m) BY <2>1, <2>2, <1>2, <1>5
    <3>2. g[n + 3 + (i - (n + 3))] = m[i - (n + 3)] BY <3>1, <1>7
    <3>3. n + 3 + (i - (n + 3)) = i BY <2>1, <1>5
    <3> QED BY <3>1, <3>2, <3>3, <1>2
  <2>3. CASE i > n + 3 + Len(m)
    <3>1. i - (n + 3 + Len(m)) \in 1..Len(f) BY <2>1, <2>3, <1>2, <1>3, <1>5
    <3>2. g[n + 3 + Len(m) + (i - (n + 3 + Len(m)))] = f[i - (n + 3 + Len(m))]
      BY <3>1, <1>8
    <3>3. n + 3 + Len(m) + (i - (n + 3 + Len(m))) = i BY <2>1, <1>2, <1>5
    <3> QED BY <3>1, <3>2, <3>3, <1>3
  <2> QED BY <2>1, <2>2, <2>3, <1>2, <1>5
<1>10. \A i \in DOMAIN f : f[i].kind \in {"-@", "-"}
  BY FloorShape DEF FloorFor, f
<1>11. ASSUME NEW i \in DOMAIN g, i > n + 3
       PROVE  Harmless(s, g[i])
  <2>1. CASE \E k \in DOMAIN m : g[i] = m[k]
    BY <2>1, MiddleShape DEF m
  <2>2. CASE \E k \in DOMAIN f : g[i] = f[k]
    BY <2>2, <1>10 DEF Harmless, Word
  <2> QED BY <2>1, <2>2, <1>9, <1>11
<1>12. ASSUME NEW i \in DOMAIN g, i > n + 3, g[i].kind = "+@", NEW k \in DOMAIN Floor
       PROVE  \E j \in DOMAIN g : j > i /\ g[j] = Floor[k]
  <2>1. i - (n + 3) \in DOMAIN m /\ g[i] = m[i - (n + 3)]
    BY <1>9, <1>10, <1>12
  <2>2. s.rules["categories"] # <<>>
    BY <2>1, <1>12, MiddleShape DEF m
  <2>3. f = Floor
    BY <2>2 DEF f, FloorFor
  <2>4. k \in 1..Len(f) /\ i <= n + 3 + Len(m)
    BY <2>1, <2>3, <1>2, <1>3, <1>5
  <2>5. n + 3 + Len(m) + k \in DOMAIN g /\ n + 3 + Len(m) + k > i
    BY <2>4, <1>2, <1>3, <1>5
  <2>6. g[n + 3 + Len(m) + k] = Floor[k]
    BY <2>3, <2>4, <1>8
  <2> QED BY <2>5, <2>6
<1>13. n + 3 <= Len(g) BY <1>2, <1>3, <1>5
<1> QED BY ZenonT(60), <1>1, <1>5, <1>6, <1>11, <1>12, <1>13 DEF Shape

\* buildACLRules renders rules.
LEMMA BuildType ==
    ASSUME NEW s \in Specs, Valid(s), NEW pw \in Password
    PROVE  BuildACLRules(s, pw) \in Seq(Rule)
<1>1. Header(s, pw) \in Seq(Rule)
  <2>1. Word("reset") \in Rule /\ Word("on") \in Rule /\ Word("off") \in Rule
    BY DEF Word, Rule, Keyword, Denied
  <2>2. [kind |-> "pass", arg |-> pw] \in Rule
    BY DEF Rule
  <2> QED BY <2>1, <2>2 DEF Header
<1>2. Middle(s) \in Seq(Rule) BY MiddleShape
<1>3. FloorFor(s) \in Seq(Rule) BY FloorShape DEF FloorFor
<1>4. BuildACLRules(s, pw) = Header(s, pw) \o Middle(s) \o FloorFor(s)
  BY DEF BuildACLRules, Header, Middle
<1> QED BY <1>1, <1>2, <1>3, <1>4

-----------------------------------------------------------------------------
(* One rule more.                                                          *)

\* A SETUSER moves its next rule from those to apply to those given.
LEMMA Shift ==
    ASSUME NEW g \in Seq(Rule), NEW t \in Seq(Rule), t # <<>>
    PROVE  Append(g, Head(t)) \o Tail(t) = g \o t
OBVIOUS

\* What one rule does to each part of the account.
Effect(a, b, r) ==
    /\ b \in Accounts
    /\ \A x \in Command :
         x \in b.commands <=> Grants(r, x) \/ (x \in a.commands /\ ~Revokes(r, x))
    /\ \A p \in Password :
         p \in b.passwords <=>
           \/ r = [kind |-> "pass", arg |-> p]
           \/ p \in a.passwords /\ r \notin {Word("reset"), Word("resetpass"), Word("nopass")}
    /\ b.open <=> \/ r = Word("nopass")
                  \/ a.open /\ r \notin {Word("reset"), Word("resetpass")} \cup Passwords
    /\ b.on <=> r = Word("on") \/ (a.on /\ r \notin {Word("off"), Word("reset")})
    /\ \A p \in Pattern :
         p \in b.keys <=>
           \/ r = [kind |-> "key", arg |-> p]
           \/ p \in a.keys /\ r \notin {Word("resetkeys"), Word("allkeys"), Word("reset")}
    /\ b.allKeys <=> \/ r = Word("allkeys")
                     \/ a.allKeys /\ r \notin {Word("resetkeys"), Word("reset")}
    /\ \A p \in Pattern :
         p \in b.channels <=>
           \/ r = [kind |-> "channel", arg |-> p]
           \/ /\ p \in a.channels
              /\ r \notin {Word("resetchannels"), Word("allchannels"), Word("reset")}
    /\ b.allChannels <=> \/ r = Word("allchannels")
                         \/ a.allChannels /\ r \notin {Word("resetchannels"), Word("reset")}

LEMMA RuleEffect ==
    ASSUME NEW a \in Accounts, NEW r \in Rule
    PROVE  Effect(a, ApplyRule(a, r), r)
<1> DEFINE b == ApplyRule(a, r)
           w == r.arg
<1>0. /\ a.commands \subseteq Command /\ a.passwords \subseteq Password /\ a.keys \subseteq Pattern
      /\ a.open \in BOOLEAN /\ a.on \in BOOLEAN /\ a.allKeys \in BOOLEAN
      /\ a.channels \subseteq Pattern /\ a.allChannels \in BOOLEAN
      /\ a = [commands |-> a.commands, passwords |-> a.passwords, open |-> a.open,
              on |-> a.on, keys |-> a.keys, allKeys |-> a.allKeys,
              channels |-> a.channels, allChannels |-> a.allChannels]
  BY DEF Accounts
<1>1. CASE r.kind = "word"
  <2>0. r = Word(w) /\ w \in Keyword
    BY <1>1 DEF Rule, Word
  <2>a. \A u, v : Word(u) = Word(v) <=> u = v
    BY DEF Word
  <2>b. /\ \A p : r # [kind |-> "pass", arg |-> p] /\ r # [kind |-> "key", arg |-> p]
        /\ \A p : r # [kind |-> "channel", arg |-> p]
        /\ r \notin Passwords
    BY <1>1 DEF Passwords
  <2>c. \A x : /\ Grants(r, x) <=> w = "allcommands"
               /\ Revokes(r, x) <=> w \in {"nocommands", "reset"}
    BY <1>1, <2>0 DEF Grants, Revokes, Word
  <2>1. CASE w = "reset"
    <3>1. b = NewAccount
      BY <2>1, <2>0, <2>a, <1>1 DEF ApplyRule
    <3> QED BY <2>1, <3>1, <2>0, <2>a, <2>b, <2>c, <1>0 DEF Effect, Accounts, NewAccount
  <2>2. CASE w = "resetpass"
    <3>1. b = [a EXCEPT !.passwords = {}, !.open = FALSE]
      BY <2>2, <2>0, <2>a, <1>1 DEF ApplyRule
    <3> QED BY ZenonT(60), <2>2, <3>1, <2>0, <2>a, <2>b, <2>c, <1>0 DEF Effect, Accounts
  <2>3. CASE w = "nopass"
    <3>1. b = [a EXCEPT !.passwords = {}, !.open = TRUE]
      BY <2>3, <2>0, <2>a, <1>1 DEF ApplyRule
    <3> QED BY ZenonT(60), <2>3, <3>1, <2>0, <2>a, <2>b, <2>c, <1>0 DEF Effect, Accounts
  <2>4. CASE w = "on"
    <3>1. b = [a EXCEPT !.on = TRUE]
      BY <2>4, <2>0, <2>a, <1>1 DEF ApplyRule
    <3> QED BY ZenonT(60), <2>4, <3>1, <2>0, <2>a, <2>b, <2>c, <1>0 DEF Effect, Accounts
  <2>5. CASE w = "off"
    <3>1. b = [a EXCEPT !.on = FALSE]
      BY <2>5, <2>0, <2>a, <1>1 DEF ApplyRule
    <3> QED BY <2>5, <3>1, <2>0, <2>a, <2>b, <2>c, <1>0 DEF Effect, Accounts
  <2>6. CASE w = "allcommands"
    <3>1. b = [a EXCEPT !.commands = Command]
      BY <2>6, <2>0, <2>a, <1>1 DEF ApplyRule
    <3> QED BY <2>6, <3>1, <2>0, <2>a, <2>b, <2>c, <1>0 DEF Effect, Accounts
  <2>7. CASE w = "nocommands"
    <3>1. b = [a EXCEPT !.commands = {}]
      BY <2>7, <2>0, <2>a, <1>1 DEF ApplyRule
    <3> QED BY <2>7, <3>1, <2>0, <2>a, <2>b, <2>c, <1>0 DEF Effect, Accounts
  <2>8a. CASE w = "resetkeys"
    <3>1. b = [a EXCEPT !.keys = {}, !.allKeys = FALSE]
      BY <2>8a, <2>0, <2>a, <1>1 DEF ApplyRule
    <3> QED BY ZenonT(60), <2>8a, <3>1, <2>0, <2>a, <2>b, <2>c, <1>0 DEF Effect, Accounts
  <2>8b. CASE w = "allkeys"
    <3>1. b = [a EXCEPT !.keys = {}, !.allKeys = TRUE]
      BY <2>8b, <2>0, <2>a, <1>1 DEF ApplyRule
    <3> QED BY ZenonT(60), <2>8b, <3>1, <2>0, <2>a, <2>b, <2>c, <1>0 DEF Effect, Accounts
  <2>8c. CASE w = "resetchannels"
    <3>1. b = [a EXCEPT !.channels = {}, !.allChannels = FALSE]
      BY <2>8c, <2>0, <2>a, <1>1 DEF ApplyRule
    <3> QED BY ZenonT(60), <2>8c, <3>1, <2>0, <2>a, <2>b, <2>c, <1>0 DEF Effect, Accounts
  <2>8d. CASE w = "allchannels"
    <3>1. b = [a EXCEPT !.channels = {}, !.allChannels = TRUE]
      BY <2>8d, <2>0, <2>a, <1>1 DEF ApplyRule
    <3> QED BY ZenonT(60), <2>8d, <3>1, <2>0, <2>a, <2>b, <2>c, <1>0 DEF Effect, Accounts
  <2>9. CASE w \notin {"reset", "resetpass", "nopass", "on", "off", "allcommands", "nocommands",
                       "resetkeys", "allkeys", "resetchannels", "allchannels"}
    <3>1. b = a
      BY <2>9, <2>0, <2>a, <1>1 DEF ApplyRule
    <3> QED BY <2>9, <3>1, <2>0, <2>a, <2>b, <2>c, <1>0 DEF Effect
  <2> QED BY <2>1, <2>2, <2>3, <2>4, <2>5, <2>6, <2>7, <2>8a, <2>8b, <2>8c, <2>8d, <2>9
<1>2. CASE r.kind # "word"
  <2>a. \A u : r # Word(u)
    BY <1>2 DEF Word
  <2>b. /\ r.kind = "pass" => w \in Password /\ r = [kind |-> "pass", arg |-> w]
        /\ r.kind = "key" => w \in Pattern /\ r = [kind |-> "key", arg |-> w]
        /\ r.kind = "channel" => w \in Pattern /\ r = [kind |-> "channel", arg |-> w]
        /\ r.kind \in {"+", "-"} => w \in Command
        /\ r.kind \in {"+@", "-@"} => Members[w] \subseteq Command
    BY TableAssumption DEF Rule
  <2>c. /\ r \in Passwords <=> r.kind = "pass"
        /\ \A p : r = [kind |-> "pass", arg |-> p] <=> r.kind = "pass" /\ p = w
        /\ \A p : r = [kind |-> "key", arg |-> p] <=> r.kind = "key" /\ p = w
        /\ \A p : r = [kind |-> "channel", arg |-> p] <=> r.kind = "channel" /\ p = w
    BY <2>b DEF Passwords
  <2>d. \A x : /\ Grants(r, x) <=> \/ r.kind = "+" /\ w = x
                                   \/ r.kind = "+@" /\ x \in Members[w]
               /\ Revokes(r, x) <=> \/ r.kind = "-" /\ w = x
                                    \/ r.kind = "-@" /\ x \in Members[w]
    BY <1>2, <2>a DEF Grants, Revokes
  <2>1. CASE r.kind = "+"
    <3>1. b = [a EXCEPT !.commands = @ \cup {r.arg}]
      BY <2>1, <2>a DEF ApplyRule
    <3> QED BY <2>1, <3>1, <2>a, <2>b, <2>c, <2>d, <1>0 DEF Effect, Accounts
  <2>2. CASE r.kind = "-"
    <3>1. b = [a EXCEPT !.commands = @ \ {r.arg}]
      BY <2>2, <2>a DEF ApplyRule
    <3> QED BY <2>2, <3>1, <2>a, <2>b, <2>c, <2>d, <1>0 DEF Effect, Accounts
  <2>3. CASE r.kind = "+@"
    <3>1. b = [a EXCEPT !.commands = @ \cup Members[r.arg]]
      BY <2>3, <2>a DEF ApplyRule
    <3> QED BY <2>3, <3>1, <2>a, <2>b, <2>c, <2>d, <1>0 DEF Effect, Accounts
  <2>4. CASE r.kind = "-@"
    <3>1. b = [a EXCEPT !.commands = @ \ Members[r.arg]]
      BY <2>4, <2>a DEF ApplyRule
    <3> QED BY <2>4, <3>1, <2>a, <2>b, <2>c, <2>d, <1>0 DEF Effect, Accounts
  <2>5. CASE r.kind = "pass"
    <3>1. b = [a EXCEPT !.passwords = @ \cup {r.arg}, !.open = FALSE]
      BY <2>5, <2>a DEF ApplyRule
    <3> DEFINE P == a.passwords \cup {w}
    <3>2. b = [a EXCEPT !.passwords = P, !.open = FALSE]
      BY <3>1
    <3>3. P \subseteq Password /\ \A p : p \in P <=> p \in a.passwords \/ p = w
      BY <2>5, <2>b, <1>0
    <3> HIDE DEF P, b
    <3>4. /\ b.commands = a.commands /\ b.passwords = P /\ b.keys = a.keys
          /\ b.on = a.on /\ b.open = FALSE /\ b.allKeys = a.allKeys
          /\ b.channels = a.channels /\ b.allChannels = a.allChannels
      BY <3>2, <1>0
    <3>5. b \in Accounts
      BY <3>2, <3>3, <1>0 DEF Accounts
    <3>6. /\ \A x \in Command :
               x \in b.commands <=> Grants(r, x) \/ (x \in a.commands /\ ~Revokes(r, x))
          /\ \A p \in Password :
               p \in b.passwords <=> r = [kind |-> "pass", arg |-> p] \/ p \in a.passwords
      BY <2>5, <3>3, <3>4, <2>c, <2>d
    <3>7. r \in {Word("reset"), Word("resetpass")} \cup Passwords
      BY <2>5, <2>c
    <3> QED BY <2>5, <3>4, <3>5, <3>6, <3>7, <2>a, <2>c DEF Effect, b
  <2>6. CASE r.kind = "key"
    <3>1. b = [a EXCEPT !.keys = @ \cup {r.arg}]
      BY <2>6, <2>a DEF ApplyRule
    <3> QED BY <2>6, <3>1, <2>a, <2>b, <2>c, <2>d, <1>0 DEF Effect, Accounts
  <2>9. CASE r.kind = "channel"
    <3>1. b = [a EXCEPT !.channels = @ \cup {r.arg}]
      BY <2>9, <2>a DEF ApplyRule
    <3> QED BY <2>9, <3>1, <2>a, <2>b, <2>c, <2>d, <1>0 DEF Effect, Accounts
  <2>7. CASE r.kind = "bad"
    <3>1. b = a
      BY <2>7, <2>a DEF ApplyRule
    <3> QED BY <2>7, <3>1, <2>a, <2>c, <2>d, <1>0 DEF Effect
  <2>8. r.kind \in {"+", "-", "+@", "-@", "pass", "key", "channel", "bad"}
    BY <1>2 DEF Rule
  <2> QED BY <2>1, <2>2, <2>3, <2>4, <2>5, <2>6, <2>7, <2>8, <2>9
<1> QED BY <1>1, <1>2

\* Rule s is in g and none of those that undo it comes later.
Stands(g, s, undoing) == \E i \in DOMAIN g : g[i] = s /\ Lasts(g, i, undoing)

\* A rule among a sequence and one more holds if it is the last one, or if it held before
\* and the last one does not undo it.
LEMMA OneMore ==
    ASSUME NEW g \in Seq(Rule), NEW r \in Rule
    PROVE  LET h == Append(g, r) IN
           /\ \A x : Allows(h, x) <=> Grants(r, x) \/ (Allows(g, x) /\ ~Revokes(r, x))
           /\ \A s, undoing : Stands(h, s, undoing) <=>
                                r = s \/ (Stands(g, s, undoing) /\ r \notin undoing)
<1> DEFINE h == Append(g, r)
           n == Len(g) + 1
<1>1. /\ Len(g) \in Nat /\ DOMAIN g = 1..Len(g) /\ DOMAIN h = 1..n
      /\ h[n] = r /\ \A i \in 1..Len(g) : h[i] = g[i]
  OBVIOUS
<1> HIDE DEF h
<1>2. \A i \in DOMAIN h : i = n \/ (i \in DOMAIN g /\ n > i)
  BY <1>1
<1>3. n \in DOMAIN h /\ \A i \in DOMAIN g : i \in DOMAIN h /\ n > i
  BY <1>1
<1>4. ~ \E j \in DOMAIN h : j > n
  BY <1>1
<1>5. ASSUME NEW x
      PROVE  Allows(h, x) <=> Grants(r, x) \/ (Allows(g, x) /\ ~Revokes(r, x))
  <2>1. ASSUME Grants(r, x) PROVE Allows(h, x)
    BY <2>1, <1>1, <1>3, <1>4 DEF Allows
  <2>2. ASSUME Allows(g, x), ~Revokes(r, x) PROVE Allows(h, x)
    <3>1. PICK i \in DOMAIN g : Grants(g[i], x) /\ \A j \in DOMAIN g : j > i => ~Revokes(g[j], x)
      BY <2>2 DEF Allows
    <3>2. ASSUME NEW j \in DOMAIN h, j > i PROVE ~Revokes(h[j], x)
      BY <3>1, <3>2, <2>2, <1>1, <1>2
    <3> QED BY <3>1, <3>2, <1>1, <1>3 DEF Allows
  <2>3. ASSUME Allows(h, x), ~Grants(r, x) PROVE Allows(g, x) /\ ~Revokes(r, x)
    <3>1. PICK i \in DOMAIN h : Grants(h[i], x) /\ \A j \in DOMAIN h : j > i => ~Revokes(h[j], x)
      BY <2>3 DEF Allows
    <3>2. i \in DOMAIN g /\ n > i
      BY <3>1, <2>3, <1>1, <1>2
    <3>3. \A j \in DOMAIN g : j > i => ~Revokes(g[j], x)
      BY <3>1, <1>1, <1>3
    <3> QED BY <3>1, <3>2, <3>3, <1>1, <1>3 DEF Allows
  <2> QED BY <2>1, <2>2, <2>3
<1>6. ASSUME NEW s, NEW undoing
      PROVE  Stands(h, s, undoing) <=> r = s \/ (Stands(g, s, undoing) /\ r \notin undoing)
  <2>1. ASSUME r = s PROVE Stands(h, s, undoing)
    BY <2>1, <1>1, <1>3, <1>4 DEF Stands, Lasts
  <2>2. ASSUME NEW i \in DOMAIN g, g[i] = s, Lasts(g, i, undoing), r \notin undoing
        PROVE  i \in DOMAIN h /\ h[i] = s /\ Lasts(h, i, undoing)
    BY <2>2, <1>1, <1>2, <1>3 DEF Lasts
  <2>3. ASSUME NEW i \in DOMAIN h, h[i] = s, Lasts(h, i, undoing), r # s
        PROVE  i \in DOMAIN g /\ g[i] = s /\ Lasts(g, i, undoing) /\ r \notin undoing
    <3>1. i \in DOMAIN g /\ n > i
      BY <2>3, <1>1, <1>2
    <3> QED BY <3>1, <2>3, <1>1, <1>3 DEF Lasts
  <2> QED BY <2>1, <2>2, <2>3 DEF Stands
<1> QED BY <1>5, <1>6 DEF h

\* One rule keeps the account what the rules mean.
LEMMA RuleKeepsMeaning ==
    ASSUME TypeOK, Meaning, NEW r \in Rule,
           account' = ApplyRule(account, r), given' = Append(given, r)
    PROVE  Meaning'
<1> DEFINE h == Append(given, r)
           b == ApplyRule(account, r)
<1>1. Effect(account, b, r) /\ given \in Seq(Rule)
  BY RuleEffect DEF TypeOK
<1>2. /\ b.commands \subseteq Command /\ b.passwords \subseteq Password
      /\ b.keys \subseteq Pattern /\ b.channels \subseteq Pattern
  BY <1>1 DEF Effect, Accounts
<1> HIDE DEF b, h
<1>3. b.commands = {x \in Command : Allows(h, x)}
  BY <1>1, <1>2, OneMore DEF Effect, Meaning, h
<1>4. b.passwords = {p \in Password : Knows(h, p)}
  <2>1. ASSUME NEW p
        PROVE  Knows(h, p) <=>
                 \/ r = [kind |-> "pass", arg |-> p]
                 \/ /\ Knows(given, p)
                    /\ r \notin {Word("reset"), Word("resetpass"), Word("nopass")}
    <3> DEFINE U == {Word("reset"), Word("resetpass"), Word("nopass")}
               t == [kind |-> "pass", arg |-> p]
    <3>1. (Knows(h, p) <=> Stands(h, t, U)) /\ (Knows(given, p) <=> Stands(given, t, U))
      BY DEF Knows, Stands
    <3> HIDE DEF U, t
    <3>2. Knows(h, p) <=> r = t \/ (Knows(given, p) /\ r \notin U)
      BY <3>1, <1>1, OneMore DEF h
    <3> QED BY <3>2 DEF U, t
  <2> QED BY <2>1, <1>1, <1>2 DEF Effect, Meaning
<1>5. b.open <=> Open(h)
  <2> DEFINE U == {Word("reset"), Word("resetpass")} \cup Passwords
             t == Word("nopass")
  <2>1. (Open(h) <=> Stands(h, t, U)) /\ (Open(given) <=> Stands(given, t, U))
    BY DEF Open, Stands
  <2>2. b.open <=> r = t \/ (account.open /\ r \notin U)
    BY <1>1 DEF Effect
  <2> HIDE DEF U, t
  <2>3. Open(h) <=> r = t \/ (Open(given) /\ r \notin U)
    BY <2>1, <1>1, OneMore DEF h
  <2> QED BY <2>2, <2>3 DEF Meaning
<1>6. b.on <=> Active(h)
  <2> DEFINE U == {Word("off"), Word("reset")}
             t == Word("on")
  <2>1. (Active(h) <=> Stands(h, t, U)) /\ (Active(given) <=> Stands(given, t, U))
    BY DEF Active, Stands
  <2>2. b.on <=> r = t \/ (account.on /\ r \notin U)
    BY <1>1 DEF Effect
  <2> HIDE DEF U, t
  <2>3. Active(h) <=> r = t \/ (Active(given) /\ r \notin U)
    BY <2>1, <1>1, OneMore DEF h
  <2> QED BY <2>2, <2>3 DEF Meaning
<1>7. b.keys = KeyPatterns(h)
  <2> DEFINE U == {Word("resetkeys"), Word("allkeys"), Word("reset")}
             T(p) == [kind |-> "key", arg |-> p]
  <2>1. \A p \in Pattern :
          /\ p \in KeyPatterns(h) <=> Stands(h, T(p), U)
          /\ p \in KeyPatterns(given) <=> Stands(given, T(p), U)
    BY DEF KeyPatterns, Stands
  <2>2. \A p \in Pattern : p \in b.keys <=> r = T(p) \/ (p \in account.keys /\ r \notin U)
    BY <1>1 DEF Effect
  <2> HIDE DEF U, T
  <2>3. \A p \in Pattern :
          p \in KeyPatterns(h) <=> r = T(p) \/ (p \in KeyPatterns(given) /\ r \notin U)
    BY <2>1, <1>1, OneMore DEF h
  <2>4. KeyPatterns(h) \subseteq Pattern
    BY DEF KeyPatterns
  <2> QED BY <2>2, <2>3, <2>4, <1>2 DEF Meaning
<1>8. b.allKeys <=> AllKeys(h)
  <2> DEFINE U == {Word("resetkeys"), Word("reset")}
             t == Word("allkeys")
  <2>1. (AllKeys(h) <=> Stands(h, t, U)) /\ (AllKeys(given) <=> Stands(given, t, U))
    BY DEF AllKeys, Stands
  <2>2. b.allKeys <=> r = t \/ (account.allKeys /\ r \notin U)
    BY <1>1 DEF Effect
  <2> HIDE DEF U, t
  <2>3. AllKeys(h) <=> r = t \/ (AllKeys(given) /\ r \notin U)
    BY <2>1, <1>1, OneMore DEF h
  <2> QED BY <2>2, <2>3 DEF Meaning
<1>9. b.channels = ChannelPatterns(h)
  <2> DEFINE U == {Word("resetchannels"), Word("allchannels"), Word("reset")}
             T(p) == [kind |-> "channel", arg |-> p]
  <2>1. \A p \in Pattern :
          /\ p \in ChannelPatterns(h) <=> Stands(h, T(p), U)
          /\ p \in ChannelPatterns(given) <=> Stands(given, T(p), U)
    BY DEF ChannelPatterns, Stands
  <2>2. \A p \in Pattern :
          p \in b.channels <=> r = T(p) \/ (p \in account.channels /\ r \notin U)
    BY <1>1 DEF Effect
  <2> HIDE DEF U, T
  <2>3. \A p \in Pattern :
          p \in ChannelPatterns(h) <=> r = T(p) \/ (p \in ChannelPatterns(given) /\ r \notin U)
    BY <2>1, <1>1, OneMore DEF h
  <2>4. ChannelPatterns(h) \subseteq Pattern
    BY DEF ChannelPatterns
  <2> QED BY <2>2, <2>3, <2>4, <1>2 DEF Meaning
<1>10. b.allChannels <=> AllChannels(h)
  <2> DEFINE U == {Word("resetchannels"), Word("reset")}
             t == Word("allchannels")
  <2>1. (AllChannels(h) <=> Stands(h, t, U)) /\ (AllChannels(given) <=> Stands(given, t, U))
    BY DEF AllChannels, Stands
  <2>2. b.allChannels <=> r = t \/ (account.allChannels /\ r \notin U)
    BY <1>1 DEF Effect
  <2> HIDE DEF U, t
  <2>3. AllChannels(h) <=> r = t \/ (AllChannels(given) /\ r \notin U)
    BY <2>1, <1>1, OneMore DEF h
  <2> QED BY <2>2, <2>3 DEF Meaning
<1> QED BY <1>3, <1>4, <1>5, <1>6, <1>7, <1>8, <1>9, <1>10 DEF Meaning, b, h

-----------------------------------------------------------------------------
(* The inductive invariant.                                                *)

LEMMA InitInv == Init => IndInv
<1> SUFFICES ASSUME Init PROVE IndInv OBVIOUS
<1>1. spec \in Specs
  BY DEF Init, Specs, NoRules, Fields
<1>2. applied \in [spec : Specs, pw : Password \cup {NoPw}, times : 0..MaxApplied]
  BY <1>1, BoundAssumption DEF Init
<1>3. given \in Seq(Rule) /\ todo \in Seq(Rule) /\ account \in Accounts
  BY PriorAssumption DEF Init, Accounts, NewAccount
<1>4. TypeOK
  BY <1>1, <1>2, <1>3, BoundAssumption DEF Init, TypeOK
<1>5. Meaning
  BY DEF Init, Meaning, NewAccount, Allows, Knows, Open, Active, KeyPatterns,
         AllKeys, ChannelPatterns, AllChannels
<1> QED BY <1>4, <1>5 DEF Init, IndInv, Rendered

\* An edited spec is a spec.
LEMMA Changed ==
    ASSUME NEW s \in Specs
    PROVE  /\ \A f \in Fields, q \in Seq(Rule) : [s EXCEPT !.rules[f] = q] \in Specs
           /\ \A f \in Fields : [s EXCEPT !.rules[f] = <<>>] \in Specs
           /\ [s EXCEPT !.enabled = ~@] \in Specs
<1>1. s.rules \in [Fields -> Seq(Rule)] /\ s.enabled \in BOOLEAN BY DEF Specs
<1>2. ASSUME NEW f \in Fields, NEW q \in Seq(Rule)
      PROVE  [s EXCEPT !.rules[f] = q] \in Specs
  <2> DEFINE R == [s.rules EXCEPT ![f] = q]
  <2>1. R \in [Fields -> Seq(Rule)] BY <1>1
  <2> HIDE DEF R
  <2>2. [s EXCEPT !.rules = R] \in Specs BY <2>1 DEF Specs
  <2> QED BY <2>2 DEF R
<1>3. <<>> \in Seq(Rule) OBVIOUS
<1>4. [s EXCEPT !.enabled = ~@] \in Specs
  <2> DEFINE b == ~s.enabled
  <2>1. b \in BOOLEAN OBVIOUS
  <2> HIDE DEF b
  <2>2. [s EXCEPT !.enabled = b] \in Specs BY <2>1 DEF Specs
  <2> QED BY <2>2 DEF b
<1> QED BY <1>2, <1>3, <1>4

LEMMA StepInv == IndInv /\ [Next]_vars => IndInv'
<1> SUFFICES ASSUME IndInv, [Next]_vars PROVE IndInv' OBVIOUS
<1>0. TypeOK /\ Rendered /\ Meaning BY DEF IndInv
<1>a. ASSUME Edit PROVE edits' \in 0..MaxEdits
  BY <1>0, <1>a, BoundAssumption DEF Edit, TypeOK
<1>b. ASSUME spec' \in Specs, secret' \in Password, edits' \in 0..MaxEdits,
             UNCHANGED <<server, applied>>
      PROVE  IndInv'
  <2>1. TypeOK' BY <1>0, <1>b DEF TypeOK, server
  <2>2. Rendered' BY <1>0, <1>b DEF Rendered, server
  <2>3. Meaning' BY <1>0, <1>b DEF Meaning, server
  <2> QED BY <2>1, <2>2, <2>3 DEF IndInv
<1>1. ASSUME NEW f \in Fields, ClearField(f) PROVE IndInv'
  <2>1. spec' \in Specs BY <1>0, <1>1, Changed DEF ClearField, TypeOK
  <2> QED BY <2>1, <1>0, <1>1, <1>a, <1>b DEF ClearField, TypeOK
<1>2. ASSUME NEW f \in Fields, NEW r \in Rule, AddRule(f, r) PROVE IndInv'
  <2>1. Append(spec.rules[f], r) \in Seq(Rule) BY <1>0 DEF TypeOK, Specs
  <2>2. spec' \in Specs BY <2>1, <1>0, <1>2, Changed DEF AddRule, TypeOK
  <2> QED BY <2>2, <1>0, <1>2, <1>a, <1>b DEF AddRule, TypeOK
<1>3. ASSUME NEW p \in Password, ChangeSecret(p) PROVE IndInv'
  BY <1>0, <1>3, <1>a, <1>b DEF ChangeSecret, TypeOK
<1>4. ASSUME Toggle PROVE IndInv'
  <2>1. spec' \in Specs BY <1>0, <1>4, Changed DEF Toggle, TypeOK
  <2> QED BY <2>1, <1>0, <1>4, <1>a, <1>b DEF Toggle, TypeOK
<1>5. ASSUME Apply PROVE IndInv'
  <2>1. BuildACLRules(spec, secret) \in Seq(Rule)
    BY <1>0, <1>5, BuildType DEF Apply, TypeOK
  <2>2. TypeOK'
    BY <2>1, <1>0, <1>5, BoundAssumption DEF Apply, TypeOK
  <2>3. Rendered'
    <3>1. /\ applied'.spec = spec /\ applied'.pw = secret /\ given \in Seq(Rule)
          /\ given' = given /\ todo' = BuildACLRules(applied'.spec, applied'.pw)
      BY <1>0, <1>5 DEF Apply, TypeOK
    <3>2. applied'.pw \in Password /\ Valid(applied'.spec)
      BY <3>1, <1>0, <1>5 DEF Apply, TypeOK
    <3> QED BY <3>1, <3>2 DEF Rendered
  <2>4. Meaning'
    BY <1>0, <1>5 DEF Apply, Meaning
  <2> QED BY <2>2, <2>3, <2>4 DEF IndInv
<1>7. ASSUME SetUserRule PROVE IndInv'
  <2> DEFINE r == Head(todo)
  <2>1. r \in Rule /\ Tail(todo) \in Seq(Rule) /\ Append(given, r) \in Seq(Rule)
    BY <1>0, <1>7 DEF SetUserRule, TypeOK
  <2>2. ApplyRule(account, r) \in Accounts
    BY <2>1, <1>0, RuleEffect DEF TypeOK, Effect
  <2>3. TypeOK'
    BY <2>1, <2>2, <1>0, <1>7 DEF SetUserRule, TypeOK
  <2>4. Rendered'
    <3>1. Append(given, r) \o Tail(todo) = given \o todo
      BY <1>0, <1>7, Shift DEF SetUserRule, TypeOK
    <3> QED BY <3>1, <1>0, <1>7 DEF Rendered, SetUserRule
  <2>5. Meaning'
    BY <2>1, <1>0, <1>7, RuleKeepsMeaning DEF SetUserRule, TypeOK
  <2> QED BY <2>3, <2>4, <2>5 DEF IndInv
<1>6. CASE UNCHANGED vars
  BY <1>0, <1>6, <1>b DEF vars, TypeOK
<1> QED BY <1>1, <1>2, <1>3, <1>4, <1>5, <1>6, <1>7 DEF Next

\* The state of a RedisUser and its account keeps its types, after the first SETUSER the
\* account's rules end with a rendered valid spec, and the account is what they mean.
THEOREM Invariance == Spec => []IndInv
BY InitInv, StepInv, PTL DEF Spec

-----------------------------------------------------------------------------
(* The theorems.                                                           *)

\* The shape of the account's rules, from the invariant.
LEMMA AppliedShape ==
    ASSUME IndInv, Settled
    PROVE  /\ applied.pw \in Password
           /\ \E n \in Nat : Shape(given, applied.spec, applied.pw, n)
<1>1. /\ applied.pw \in Password /\ Valid(applied.spec) /\ applied.spec \in Specs
  BY DEF IndInv, Rendered, TypeOK, Settled
<1>2. PICK q \in Seq(Rule) : given \o todo = q \o BuildACLRules(applied.spec, applied.pw)
  BY DEF IndInv, Rendered, Settled
<1>3. given \o todo = given
  BY DEF IndInv, TypeOK, Settled
<1> QED BY <1>1, <1>2, <1>3, GivenShape

LEMMA ConfinedFollows == IndInv => Confined
<1> SUFFICES ASSUME IndInv, Settled, NEW x \in Command, Allows(given, x),
                    x \notin Scoped
             PROVE  FALSE
  BY DEF Confined, IndInv, Meaning
<1>1. PICK n \in Nat : Shape(given, applied.spec, applied.pw, n)
  BY AppliedShape
<1>0. /\ given \in Seq(Rule)
      /\ n + 3 <= Len(given)
      /\ given[n + 1] = Word("reset")
      /\ given[n + 2] = [kind |-> "pass", arg |-> applied.pw]
      /\ given[n + 3] = Word(IF applied.spec.enabled THEN "on" ELSE "off")
      /\ \A i \in DOMAIN given : i > n + 3 => Harmless(applied.spec, given[i])
      /\ \A i \in DOMAIN given : i > n + 3 /\ given[i].kind = "+@" =>
             \A k \in DOMAIN Floor : \E j \in DOMAIN given : j > i /\ given[j] = Floor[k]
  BY <1>1 DEF Shape
<1>2. PICK i \in DOMAIN given :
        Grants(given[i], x) /\ \A j \in DOMAIN given : j > i => ~Revokes(given[j], x)
  BY DEF Allows
<1>3. i \in Nat /\ n + 1 \in DOMAIN given
  BY <1>0
<1>4. Revokes(given[n + 1], x)
  BY <1>0 DEF Revokes, Word
<1>5. i > n
  BY <1>2, <1>3, <1>4
<1>6. i # n + 1 /\ i # n + 2 /\ i # n + 3
  BY <1>0, <1>2 DEF Grants, Word
<1>7. Harmless(applied.spec, given[i])
  BY <1>0, <1>3, <1>5, <1>6
<1>8. CASE given[i].kind = "+@"
  <2>1. given[i].arg \in DataCategories /\ x \in Members[given[i].arg]
    BY <1>2, <1>7, <1>8 DEF Grants, Harmless, Word
  <2>2. PICK k \in DOMAIN Floor : Revokes(Floor[k], x)
    BY <2>1, FloorShape
  <2>3. PICK j \in DOMAIN given : j > i /\ given[j] = Floor[k]
    BY <1>0, <1>3, <1>5, <1>6, <1>8
  <2> QED BY <2>2, <2>3, <1>2
<1>9. CASE given[i].kind # "+@"
  BY <1>2, <1>7, <1>9, TableAssumption DEF Grants, Harmless, Word, Denied
<1> QED BY <1>8, <1>9

\* After any valid spec was applied, whatever the account was before, it may run no
\* command outside the scope of its patterns: for every command table that satisfies
\* TableAssumption.
THEOREM AccountsAreConfined == Spec => []Confined
BY Invariance, ConfinedFollows, PTL

LEMMA DeclaredFollows == IndInv => ExactlyAsDeclared
<1> SUFFICES ASSUME IndInv, Settled PROVE ExactlyAsDeclared
  BY DEF ExactlyAsDeclared
<1> SUFFICES /\ \A p \in Password : Knows(given, p) <=> p = applied.pw
             /\ ~Open(given)
             /\ Active(given) <=> applied.spec.enabled
             /\ \A p \in KeyPatterns(given) : Declares("keys", [kind |-> "key", arg |-> p])
             /\ AllKeys(given) => Declares("keys", Word("allkeys"))
             /\ \A p \in ChannelPatterns(given) :
                  Declares("channels", [kind |-> "channel", arg |-> p])
             /\ AllChannels(given) => Declares("channels", Word("allchannels"))
  <2>1. Meaning /\ applied.pw \in Password
    BY DEF IndInv, Rendered, Settled
  <2> QED BY <2>1 DEF ExactlyAsDeclared, Meaning
<1>1. PICK n \in Nat : Shape(given, applied.spec, applied.pw, n)
  BY AppliedShape
<1>0. /\ given \in Seq(Rule)
      /\ n + 3 <= Len(given)
      /\ given[n + 1] = Word("reset")
      /\ given[n + 2] = [kind |-> "pass", arg |-> applied.pw]
      /\ given[n + 3] = Word(IF applied.spec.enabled THEN "on" ELSE "off")
      /\ \A i \in DOMAIN given : i > n + 3 => Harmless(applied.spec, given[i])
  BY <1>1 DEF Shape
<1>2. applied.pw \in Password BY AppliedShape
<1>3. \A i \in DOMAIN given : i \in Nat /\ (i > n + 3 => Harmless(applied.spec, given[i]))
  BY <1>0
<1>4. n + 1 \in DOMAIN given /\ n + 2 \in DOMAIN given /\ n + 3 \in DOMAIN given
  BY <1>0
\* After the reset only the header and harmless rules can have an effect.
<1>5. ASSUME NEW i \in DOMAIN given, NEW undoing, Word("reset") \in undoing,
             Lasts(given, i, undoing), given[i] # Word("reset")
      PROVE  i = n + 2 \/ i = n + 3 \/ (i > n + 3 /\ Harmless(applied.spec, given[i]))
  <2>1. ~(n + 1 > i) BY <1>5, <1>4, <1>0 DEF Lasts
  <2>2. i # n + 1 BY <1>5, <1>0
  <2> QED BY <2>1, <2>2, <1>3, <1>0
<1>6. \A p \in Password : Knows(given, p) => p = applied.pw
  <2> SUFFICES ASSUME NEW p \in Password, Knows(given, p) PROVE p = applied.pw OBVIOUS
  <2>1. PICK i \in DOMAIN given :
          /\ given[i] = [kind |-> "pass", arg |-> p]
          /\ Lasts(given, i, {Word("reset"), Word("resetpass"), Word("nopass")})
    BY DEF Knows
  <2>2. given[i] # Word("reset") BY <2>1 DEF Word
  <2>3. i = n + 2 \/ i = n + 3 \/ (i > n + 3 /\ Harmless(applied.spec, given[i]))
    BY <2>1, <2>2, <1>5
  <2> QED BY <2>1, <2>3, <1>0 DEF Harmless, Word
<1>7. Knows(given, applied.pw)
  <2>1. Lasts(given, n + 2, {Word("reset"), Word("resetpass"), Word("nopass")})
    <3> SUFFICES ASSUME NEW j \in DOMAIN given, j > n + 2
                 PROVE  given[j] \notin {Word("reset"), Word("resetpass"), Word("nopass")}
      BY DEF Lasts
    <3>1. CASE j = n + 3 BY <3>1, <1>0 DEF Word
    <3>2. CASE j > n + 3 BY <3>2, <1>3 DEF Harmless, Word, Denied
    <3> QED BY <3>1, <3>2, <1>3, <1>0
  <2> QED BY <2>1, <1>0, <1>4 DEF Knows
<1>8. ~Open(given)
  <2> SUFFICES ASSUME Open(given) PROVE FALSE OBVIOUS
  <2>1. PICK i \in DOMAIN given :
          /\ given[i] = Word("nopass")
          /\ Lasts(given, i, {Word("reset"), Word("resetpass")} \cup Passwords)
    BY DEF Open
  <2>2. given[i] # Word("reset") BY <2>1 DEF Word
  <2>3. i = n + 2 \/ i = n + 3 \/ (i > n + 3 /\ Harmless(applied.spec, given[i]))
    BY <2>1, <2>2, <1>5
  <2> QED BY <2>1, <2>3, <1>0 DEF Harmless, Word, Denied
<1>9. ASSUME applied.spec.enabled PROVE Active(given)
  <2>1. Lasts(given, n + 3, {Word("off"), Word("reset")})
    <3> SUFFICES ASSUME NEW j \in DOMAIN given, j > n + 3
                 PROVE  given[j] \notin {Word("off"), Word("reset")}
      BY DEF Lasts
    <3> QED BY <1>3 DEF Harmless, Word, Denied
  <2> QED BY <2>1, <1>0, <1>4, <1>9 DEF Active
<1>10. ASSUME Active(given) PROVE applied.spec.enabled
  <2>1. PICK i \in DOMAIN given :
          given[i] = Word("on") /\ Lasts(given, i, {Word("off"), Word("reset")})
    BY <1>10 DEF Active
  <2>2. given[i] # Word("reset") BY <2>1 DEF Word
  <2>3. i = n + 2 \/ i = n + 3 \/ (i > n + 3 /\ Harmless(applied.spec, given[i]))
    BY <2>1, <2>2, <1>5
  <2> QED BY <2>1, <2>3, <1>0 DEF Harmless, Word, Denied
<1>11. ASSUME NEW p \in KeyPatterns(given)
       PROVE  Declares("keys", [kind |-> "key", arg |-> p])
  <2>1. PICK i \in DOMAIN given :
          /\ given[i] = [kind |-> "key", arg |-> p]
          /\ Lasts(given, i, {Word("resetkeys"), Word("allkeys"), Word("reset")})
    BY DEF KeyPatterns
  <2>2. given[i] # Word("reset") BY <2>1 DEF Word
  <2>3. i = n + 2 \/ i = n + 3 \/ (i > n + 3 /\ Harmless(applied.spec, given[i]))
    BY <2>1, <2>2, <1>5
  <2>4. Harmless(applied.spec, given[i]) BY <2>1, <2>3, <1>0 DEF Word
  <2> QED BY <2>1, <2>4 DEF Harmless, Declares
<1>12. ASSUME AllKeys(given) PROVE Declares("keys", Word("allkeys"))
  <2>1. PICK i \in DOMAIN given :
          given[i] = Word("allkeys") /\ Lasts(given, i, {Word("resetkeys"), Word("reset")})
    BY <1>12 DEF AllKeys
  <2>2. given[i] # Word("reset") BY <2>1 DEF Word
  <2>3. i = n + 2 \/ i = n + 3 \/ (i > n + 3 /\ Harmless(applied.spec, given[i]))
    BY <2>1, <2>2, <1>5
  <2>4. Harmless(applied.spec, given[i]) BY <2>1, <2>3, <1>0 DEF Word
  <2> QED BY <2>1, <2>4 DEF Harmless, Declares
<1>13. ASSUME NEW p \in ChannelPatterns(given)
       PROVE  Declares("channels", [kind |-> "channel", arg |-> p])
  <2>1. PICK i \in DOMAIN given :
          /\ given[i] = [kind |-> "channel", arg |-> p]
          /\ Lasts(given, i, {Word("resetchannels"), Word("allchannels"), Word("reset")})
    BY DEF ChannelPatterns
  <2>2. given[i] # Word("reset") BY <2>1 DEF Word
  <2>3. i = n + 2 \/ i = n + 3 \/ (i > n + 3 /\ Harmless(applied.spec, given[i]))
    BY <2>1, <2>2, <1>5
  <2>4. Harmless(applied.spec, given[i]) BY <2>1, <2>3, <1>0 DEF Word
  <2> QED BY <2>1, <2>4 DEF Harmless, Declares
<1>14. ASSUME AllChannels(given) PROVE Declares("channels", Word("allchannels"))
  <2>1. PICK i \in DOMAIN given :
          /\ given[i] = Word("allchannels")
          /\ Lasts(given, i, {Word("resetchannels"), Word("reset")})
    BY <1>14 DEF AllChannels
  <2>2. given[i] # Word("reset") BY <2>1 DEF Word
  <2>3. i = n + 2 \/ i = n + 3 \/ (i > n + 3 /\ Harmless(applied.spec, given[i]))
    BY <2>1, <2>2, <1>5
  <2>4. Harmless(applied.spec, given[i]) BY <2>1, <2>3, <1>0 DEF Word
  <2> QED BY <2>1, <2>4 DEF Harmless, Declares
<1> QED BY <1>6, <1>7, <1>8, <1>9, <1>10, <1>11, <1>12, <1>13, <1>14

\* After any valid spec was applied, the account has the password of the Secret and no
\* other, is enabled as declared and has only declared key and channel patterns.
THEOREM AccountsAreAsDeclared == Spec => []ExactlyAsDeclared
BY Invariance, DeclaredFollows, PTL
=============================================================================
