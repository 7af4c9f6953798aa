----------------------------- MODULE MCGateway ------------------------------
(* An instance of Gateway: a service whose grant one document narrows, with a
   key that only a case variant of a deny glob covers. *)
EXTENDS Gateway, TLC

CONSTANTS j1

MCLower == [c \in {"A"} |-> "a"]
MCProject == <<"p">>
A == <<"a">>
B == <<"b">>

Ci   == [id |-> <<"service", "ci">>, kind |-> "service", groups |-> {}, aud |-> "none"]
Cd   == [id |-> <<"service", "cd">>, kind |-> "service", groups |-> {}, aud |-> "none"]
Root == [id |-> <<"human", "root">>, kind |-> "human", groups |-> {"devs"}, aud |-> "none"]
MCRootAdmins == {Root.id}

Rule(by, name, allow, deny, verbs) ==
  [by |-> by, name |-> name, projects |-> {<<"*">>}, allow |-> allow, deny |-> deny, verbs |-> verbs]

Wide   == {Rule("service", "ci", {<<"*">>}, {}, {"*"}), Rule("service", "cd", {A}, {}, {"read"})}
Narrow == {Rule("service", "ci", {<<"?">>}, {<<"A">>}, {"read", "rotate"}),
           Rule("group", "devs", {<<"*">>}, {}, {"read", "delete"})}
Dead   == {Rule("aud", "none", {<<"*">>}, {}, {"*"})}
MCDocs == {Wide, Narrow}

Ask(p, kind) == [p |-> p, kind |-> kind, keys |-> {}, verbs |-> {}, doc |-> None, version |-> 0, jti |-> None, bearer |-> None]

MCFirstPolicies == {EmptyPolicy, [version |-> 1, doc |-> Wide]}

Put(doc, version) == [Ask(Root, "policy") EXCEPT !.doc = doc, !.version = version]

MCRequests ==
  {[Ask(Ci, "read") EXCEPT !.keys = {A}],
   [Ask(Ci, "read") EXCEPT !.keys = {A}, !.bearer = j1],
   [Ask(Cd, "read") EXCEPT !.keys = {A}, !.bearer = j1],
   Ask(Ci, "plan"),
   [Ask(Ci, "write") EXCEPT !.keys = {A, B}],
   Ask(Root, "list"),
   [Ask(Root, "delete") EXCEPT !.keys = {A}],
   [Ask(Ci, "mint") EXCEPT !.keys = {A}, !.verbs = {"read"}],
   [Ask(Root, "revoke") EXCEPT !.jti = j1],
   Put(Narrow, 1), Put(Narrow, 2), Put(Wide, 2)}

Symmetry == {p @@ q : p \in Permutations(Handlers), q \in Permutations(Isolates)}

(* globMatch computes what its comment says, for names without "*": every
   glob up to length 3 against every name up to length 3.  GlobProofs proves it for
   all. *)
ASSUME GlobMatchIsMatches ==
  \A n \in 0 .. 3, m \in 0 .. 3 :
    \A glob \in [1 .. n -> {"a", "b", "*", "?"}], str \in [1 .. m -> {"a", "b"}] :
      GlobMatch(glob, str) <=> Matches(glob, str)
=============================================================================
