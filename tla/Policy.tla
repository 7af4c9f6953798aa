------------------------------- MODULE Policy -------------------------------
(***************************************************************************)
(* The policy document and what it decides (worker/src/policy.ts, with the *)
(* scope of minted tokens from mint.ts and the two callers' combinations:  *)
(* can of index.ts, hasAdminVerb of admin.ts).                             *)
(*                                                                         *)
(* A document is a set of rules: no decision depends on their order, as    *)
(* the loop of authorize allows when any rule does and otherwise reports   *)
(* the furthest dimension any rule reached.  A rule's key globs are split  *)
(* into those with a leading "!" (deny, the "!" dropped) and the others.   *)
(* Names and globs are sequences of characters.                            *)
(***************************************************************************)
EXTENDS Glob, FiniteSetsExt

CONSTANTS Lower,        \* toLowerCase, on the characters that have two cases
          Topology,     \* "primary" or "fallback"
          RootAdmins    \* ADMIN_EMAILS: identities that are always admins

ASSUME LowerAssumption == \A c \in DOMAIN Lower : Lower[c] \in STRING \ {"*"}

Verbs == {"read", "write", "rotate", "delete", "admin"}

ToLower(s) == [i \in DOMAIN s |-> IF s[i] \in DOMAIN Lower THEN Lower[s[i]] ELSE s[i]]

KeyGlobMatch(glob, key) == GlobMatch(ToLower(glob), ToLower(key))

ExpandVerbs(verbs) ==
  IF "*" \in verbs THEN Verbs
  ELSE (verbs \cap Verbs) \cup (IF "rotate" \in verbs THEN {"write"} ELSE {})

Selects(rule, p) ==
  \/ rule.by = "group" /\ p.kind = "human" /\ rule.name \in p.groups
  \/ rule.by = "service" /\ p.id = <<"service", rule.name>>
  \/ rule.by = "aud" /\ p.aud = rule.name

RulesFor(doc, p) == {rule \in doc : Selects(rule, p)}

NoKey == <<>>   \* an operation on the project's metadata; no key has this name

KeyAllowed(rule, key) ==
  \/ key = NoKey
  \/ /\ ~ \E g \in rule.deny : KeyGlobMatch(g, key)
     /\ \E g \in rule.allow : GlobMatch(g, key)

(* The number of dimensions of the request that the rule lets pass. *)
Reached(rule, p, project, key, verb) ==
  IF ~ Selects(rule, p) THEN 0
  ELSE IF verb \notin ExpandVerbs(rule.verbs) THEN 1
  ELSE IF ~ \E g \in rule.projects : GlobMatch(g, project) THEN 2
  ELSE IF ~ KeyAllowed(rule, key) THEN 3
  ELSE 4

Authorize(doc, p, project, key, verb) ==
  LET furthest == Max({0} \cup {Reached(rule, p, project, key, verb) : rule \in doc})
  IN  [allowed |-> furthest = 4,
       reason  |-> <<"no_rule", "verb", "project", "key_denied", "none">>[furthest + 1]]

-----------------------------------------------------------------------------
ValidRule(rule) ==
  /\ rule.by \in {"group", "service", "aud"}
  /\ rule.by = "aud" => Topology # "primary"
  /\ rule.projects # {} /\ \A g \in rule.projects : g # <<>> /\ g[1] # "!"
  /\ rule.allow # {} /\ \A g \in rule.allow \cup rule.deny : g # <<>>
  /\ rule.verbs # {} /\ rule.verbs \subseteq Verbs \cup {"*"}

ValidPolicy(doc) ==
  /\ \A rule \in doc : ValidRule(rule)
  /\ \/ \E rule \in doc : rule.by = "group" /\ "admin" \in ExpandVerbs(rule.verbs)
     \/ RootAdmins # {}

HasAdminVerb(doc, p) ==
  \/ p.id \in RootAdmins
  \/ \E rule \in RulesFor(doc, p) : "admin" \in ExpandVerbs(rule.verbs)

ScopeAllowsVerb(scope, verb) ==
  verb \in scope.verbs \/ (verb = "write" /\ "rotate" \in scope.verbs)

ScopeAllowsKey(scope, key) == key = NoKey \/ key \in scope.keys

(* A minted token narrows its service's own grants: both must allow. *)
Can(doc, p, token, project, key, verb) ==
  /\ token # {} => \E t \in token : /\ t.project = project
                                    /\ ScopeAllowsVerb(t.scope, verb)
                                    /\ ScopeAllowsKey(t.scope, key)
  /\ Authorize(doc, p, project, key, verb).allowed
-----------------------------------------------------------------------------
(* What the document grants, from SPEC section 4.3 as policy.ts quotes it: a
   rule of the principal that has the verb, covers the project and allows the
   key, where no deny glob of the same rule has the key in any case. *)
Grants(doc, p, project, key, verb) ==
  \E rule \in doc :
    /\ Selects(rule, p)
    /\ \/ {verb, "*"} \cap rule.verbs # {}
       \/ verb = "write" /\ "rotate" \in rule.verbs
    /\ \E g \in rule.projects : Matches(g, project)
    /\ key # NoKey => /\ \E g \in rule.allow : Matches(g, key)
                      /\ \A g \in rule.deny : ~ Matches(ToLower(g), ToLower(key))
=============================================================================
