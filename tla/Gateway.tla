------------------------------ MODULE Gateway -------------------------------
(***************************************************************************)
(* The Worker's request path (worker/src/index.ts) over the policy store:  *)
(* minted tokens (mint.ts, token.ts, auth.ts), reads, writes, and the      *)
(* administrator's operations that change what others may do (admin.ts).   *)
(* One project; a commit of its writer (ProjectWriter) and an append to    *)
(* the audit log (AuditChain) are one step each here, which may fail or    *)
(* succeed without an answer; the outcome rows of a commit may come later  *)
(* than its answer, or not at all.                                         *)
(*                                                                         *)
(* Abstracted: the Access JWT and the group lookup, which give a caller    *)
(* its identity; values and the envelope; the async rows of refusals and   *)
(* metadata, which may be lost; rate limits and alerts.                    *)
(***************************************************************************)
EXTENDS PolicyStore

CONSTANTS Project,
          Requests,     \* the requests that clients make
          MaxRequests,  \* bound on how many of them
          MaxFaults,    \* bound on dropped requests and evicted isolates
          Jtis,         \* ids of tokens; bounds their number
          TokenTTL,     \* TTL_MAX_SECONDS
          Leeway,       \* CLOCK_LEEWAY
          DenyMargin,   \* what a deny entry outlives a token by
          KvLag         \* how long a KV write may stay invisible

ASSUME GatewayAssumption ==
  /\ TokenTTL \in Nat /\ KvLag \in Nat \ {0} /\ Leeway \in Nat /\ DenyMargin \in Nat
  /\ Leeway + LoadMax < DenyMargin
  /\ MaxRequests \in Nat /\ MaxFaults \in Nat /\ None \notin Jtis /\ None \notin Requests
  /\ \A r \in Requests :
       /\ r.doc \in Docs \cup {None} /\ r.version \in 0 .. MaxVersion
       /\ {r.jti, r.bearer} \subseteq Jtis \cup {None}
       /\ r.kind = "policy" => r.doc \in Docs /\ r.version > 0
       /\ r.kind = "revoke" => r.jti # None
       /\ r.keys \subseteq Names /\ NoKey \notin r.keys
  /\ Project \in Names
  /\ \A doc \in Docs : \A rule \in doc : rule.projects \cup rule.allow \cup rule.deny \subseteq Globs

VARIABLES
  call,      \* each handler: the request it serves, and its token
  tokens,    \* minted: jti -> None or the claims
  denied,    \* JTI_DENYLIST: jti -> the times it was put
  keys,      \* the keys of the project's current manifest
  ledger,    \* audit rows: [who, verb, key, jti]
  queued,    \* outcome batches of committed writes that the writer retries
  refused,   \* history: outcome rows the audit log refused for good
  left,      \* requests still to come
  faults,    \* requests and isolates that still may die
  answer,    \* history: what the last step answered, and to whom
  learned    \* history: [who, key, verb] of every plaintext a caller got or wrote
outcomes == <<queued, refused>>
gateVars == <<call, tokens, denied, keys, ledger, outcomes, left, faults, answer, learned>>
vars == <<storeVars, gateVars>>

NoCall == [r |-> None, token |-> {}, looked |-> 0]

InScope(doc, r) == \A k \in r.keys, v \in r.verbs : Authorize(doc, r.p, Project, k, v).allowed

Mintable(doc, r) ==
  /\ r.kind = "mint" /\ r.p.kind = "service"
  /\ r.verbs # {} /\ r.keys # {} /\ r.verbs \subseteq {"read", "write", "rotate"}
  /\ InScope(doc, r)

(* Mutation: the ttl a client asks for is not clamped. *)
ClaimsUnclamped(j, r) ==
  [jti |-> j, sub |-> r.p.id, project |-> Project, exp |-> now + 2 * TokenTTL,
   scope |-> [verbs |-> r.verbs, keys |-> r.keys]]

Claims(j, r) ==
  [jti |-> j, sub |-> r.p.id, project |-> Project, exp |-> now + TokenTTL,
   scope |-> [verbs |-> r.verbs, keys |-> r.keys]]

(* The project has every key; an isolate may have loaded the policy, and a
   service may have minted a token. *)
Init ==
  /\ StoreInit
  /\ call = [h \in Handlers |-> NoCall]
  /\ tokens \in {[j \in Jtis |-> None]} \cup
       {[j \in Jtis |-> Claims(j, r)] : r \in {r \in Requests : Mintable(ptr.doc, r)}}
  /\ denied = [j \in Jtis |-> {}]
  /\ keys = UNION {r.keys : r \in Requests}
  /\ ledger = {} /\ queued = {} /\ refused = {} /\ answer = {} /\ learned = {}
  /\ left = MaxRequests /\ faults = MaxFaults

At(h, pc) == req[h].pc = pc
Req(h) == call[h].r
Doc(h) == req[h].policy.doc
Jti(h) == {t.jti : t \in call[h].token}

Close(h) == End(h) /\ call' = [call EXCEPT ![h] = NoCall]

(* The append of rows answers, is refused, or lands unanswered. *)
Appended(rows) == ledger' = ledger \cup rows
RowsOf(h, verb) == {[who |-> Req(h).p.id, verb |-> verb, key |-> k, jti |-> Jti(h)] : k \in Req(h).keys}

Answer(h, verb, ks) ==
  /\ answer' = {[who |-> Req(h).p, verb |-> verb, key |-> k, token |-> call[h].token,
                 at |-> req[h].began, looked |-> call[h].looked] : k \in ks}
  /\ learned' = learned \cup
       IF verb \in {"read", "write"} THEN {[who |-> Req(h).p.id, key |-> k, verb |-> verb] : k \in ks} ELSE {}

NoAnswer == answer' = {} /\ UNCHANGED learned
-----------------------------------------------------------------------------
Arrive(h) ==
  /\ At(h, "idle") /\ left > 0 /\ left' = left - 1
  /\ \E r \in Requests, i \in Isolates :
       /\ \A j \in {r.bearer, r.jti} \ {None} : tokens[j] # None
       /\ call' = [call EXCEPT ![h].r = r]
       /\ req' = [req EXCEPT ![h].iso = i, ![h].pc = IF r.bearer = None THEN "load" ELSE "verify"]
  /\ NoAnswer /\ UNCHANGED <<now, slots, ptr, cache, past, tokens, denied, keys, ledger, outcomes, faults>>

(* resolveMachinePrincipal: expiry and binding, then the deny list. *)
VerifyToken(h) ==
  /\ At(h, "verify")
  /\ LET t == tokens[Req(h).bearer]
     IN  IF now <= t.exp + Leeway /\ t.sub = Req(h).p.id
         THEN /\ call' = [call EXCEPT ![h].token = {t}]
              /\ req' = [req EXCEPT ![h].pc = "lookup", ![h].began = now]
         ELSE Close(h)
  /\ NoAnswer /\ UNCHANGED <<now, slots, ptr, cache, past, tokens, denied, keys, ledger, outcomes, left, faults>>

(* Mutation: a deny entry lives as long as a token. *)
DenyTTLBare == TokenTTL

DenyTTL == TokenTTL + DenyMargin

(* What a KV read may answer of an entry put at these times. *)
Visible(puts) == \E d \in puts : now < d + DenyTTL
Propagated(puts) == Visible(puts) /\ \E d \in puts : now >= d + KvLag

LookupRevoked(h, hit) ==
  /\ At(h, "lookup")
  /\ LET puts == denied[Req(h).bearer]
     IN  IF hit THEN Visible(puts) /\ Close(h)
         ELSE /\ ~ Propagated(puts)
              /\ call' = [call EXCEPT ![h].looked = now] /\ Goto(h, "load")
  /\ NoAnswer /\ UNCHANGED <<now, slots, ptr, cache, past, tokens, denied, keys, ledger, outcomes, left, faults>>
-----------------------------------------------------------------------------
May(h, key, verb) == Can(Doc(h), Req(h).p, call[h].token, Project, key, verb)

(* The routes, each with the check that precedes its first await, and where
   the request goes from there.  Only a list looks at the policy again. *)
Routes ==
  {[kind |-> "read",   to |-> "manifest"], [kind |-> "list",   to |-> "manifest"],
   [kind |-> "write",  to |-> "dispatch"], [kind |-> "delete", to |-> "dispatch"],
   [kind |-> "mint",   to |-> "mint"],     [kind |-> "policy", to |-> "put"],
   [kind |-> "revoke", to |-> "deny"],     [kind |-> "plan",   to |-> "control"]}

DataAllowed(h) ==
  \/ Req(h).kind = "list" /\ May(h, NoKey, "read")
  \/ Req(h).kind \in {"read", "write", "delete"} /\ \A k \in Req(h).keys : May(h, k, Req(h).kind)

MintAllowed(h) == call[h].token = {} /\ Mintable(Doc(h), Req(h))

AdminAllowed(h) ==
  /\ Req(h).kind \in {"policy", "revoke", "plan"}
  /\ call[h].token = {} /\ HasAdminVerb(Doc(h), Req(h).p)
  /\ Req(h).kind = "policy" => ValidPolicy(Req(h).doc)

Route(h) ==
  /\ At(h, "loaded")
  /\ IF DataAllowed(h) \/ MintAllowed(h) \/ AdminAllowed(h)
     THEN /\ \E to \in {t \in Routes : t.kind = Req(h).kind} :
               req' = [req EXCEPT ![h].pc = to.to,
                                  ![h].policy = IF Req(h).kind = "list" THEN @ ELSE None,
                                  ![h].doc = Req(h).doc, ![h].version = Req(h).version]
          /\ UNCHANGED call
     ELSE Close(h)
  /\ NoAnswer /\ UNCHANGED <<now, slots, ptr, cache, past, tokens, denied, keys, ledger, outcomes, left, faults>>
-----------------------------------------------------------------------------
(* handleKeysList and handleManifestRead answer the names the caller may
   read; handleRead needs every key it asked for. *)
ReadManifest(h) ==
  /\ At(h, "manifest")
  /\ \/ /\ Req(h).kind = "list"
        /\ Answer(h, "list", {k \in keys : May(h, k, "read")}) /\ Close(h)
     \/ /\ Req(h).kind = "read"
        /\ IF Req(h).keys \subseteq keys THEN Goto(h, "audit") /\ UNCHANGED call ELSE Close(h)
        /\ NoAnswer
  /\ UNCHANGED <<now, slots, ptr, cache, past, tokens, denied, keys, ledger, outcomes, left, faults>>

(* Mutation: the row of a read is sent like those of metadata, and is lost. *)
AnswerReadAsync(h) ==
  /\ At(h, "audit")
  /\ UNCHANGED ledger /\ Answer(h, "read", Req(h).keys) /\ Close(h)
  /\ UNCHANGED <<now, slots, ptr, cache, past, tokens, denied, keys, outcomes, left, faults>>

(* Plaintext leaves after the audit log has acknowledged its rows. *)
AnswerRead(h) ==
  /\ At(h, "audit")
  /\ Appended(RowsOf(h, "value.read")) /\ Answer(h, "read", Req(h).keys) /\ Close(h)
  /\ UNCHANGED <<now, slots, ptr, cache, past, tokens, denied, keys, outcomes, left, faults>>

RefuseRead(h, landed) ==
  /\ At(h, "audit")
  /\ Appended(IF landed THEN RowsOf(h, "value.read") ELSE {}) /\ Close(h)
  /\ NoAnswer /\ UNCHANGED <<now, slots, ptr, cache, past, tokens, denied, keys, outcomes, left, faults>>

(* The outcome rows of a commit are appended; or no answer comes, whether they
   were appended or not, and the writer queues them; or they are refused on
   purpose, and it drops them. *)
Outcome(rows) ==
  \/ Appended(rows) /\ UNCHANGED outcomes
  \/ /\ Appended(rows) \/ Appended({})
     /\ queued' = queued \cup {rows} /\ UNCHANGED refused
  \/ refused' = refused \cup rows /\ UNCHANGED <<ledger, queued>>

(* dispatchWrite: the writer commits, then sees to the outcome rows and answers,
   or refuses.  If it dies after the commit nobody sees to them. *)
Dispatch(h, answered) ==
  /\ At(h, "dispatch")
  /\ \/ Outcome(RowsOf(h, IF Req(h).kind = "delete" THEN "key.delete" ELSE "key.set"))
     \/ ~ answered /\ UNCHANGED <<ledger, outcomes>>
  /\ IF Req(h).kind = "delete" THEN Req(h).keys \subseteq keys /\ keys' = keys \ Req(h).keys
     ELSE keys' = keys \cup Req(h).keys
  /\ IF answered THEN Answer(h, Req(h).kind, Req(h).keys) ELSE NoAnswer
  /\ Close(h)
  /\ UNCHANGED <<now, slots, ptr, cache, past, tokens, denied, left, faults>>

(* The writer's alarm appends a queued batch, or is refused and drops it; what
   was appended without an answer stays queued. *)
Drain ==
  /\ \E rows \in queued :
       \/ Appended(rows) /\ queued' \in {queued, queued \ {rows}} /\ UNCHANGED refused
       \/ refused' = refused \cup rows /\ queued' = queued \ {rows} /\ UNCHANGED ledger
  /\ NoAnswer /\ UNCHANGED <<storeVars, call, tokens, denied, keys, left, faults>>
-----------------------------------------------------------------------------
(* handleTokenMint: the claims are made, their row is appended, and only then
   the token leaves. *)
Mint(h) ==
  /\ At(h, "mint")
  /\ \E j \in Jtis :
       /\ tokens[j] = None
       /\ tokens' = [tokens EXCEPT ![j] = Claims(j, Req(h))]
  /\ Appended({[who |-> Req(h).p.id, verb |-> "token.mint", key |-> NoKey, jti |-> {}]})
  /\ Close(h)
  /\ NoAnswer /\ UNCHANGED <<now, slots, ptr, cache, past, denied, keys, outcomes, left, faults>>

(* revokeJti: the deny list first, then the row. *)
Deny(h) ==
  /\ At(h, "deny")
  /\ denied' = [denied EXCEPT ![Req(h).jti] = @ \cup {now}]
  /\ Goto(h, "control")
  /\ NoAnswer /\ UNCHANGED <<now, slots, ptr, cache, past, call, tokens, keys, ledger, outcomes, left, faults>>

(* The row of an administrator's operation; without it the answer is 503. *)
Control(h) ==
  /\ req[h].pc \in {"control", "stored"}
  /\ Appended({[who |-> Req(h).p.id, verb |-> Req(h).kind, key |-> NoKey, jti |-> {}]})
  /\ Answer(h, Req(h).kind, {NoKey}) /\ Close(h)
  /\ UNCHANGED <<now, slots, ptr, cache, past, tokens, denied, keys, outcomes, left, faults>>

-----------------------------------------------------------------------------
GateStep(h) ==
  \/ Arrive(h) \/ VerifyToken(h) \/ Route(h)
  \/ \E hit \in BOOLEAN : LookupRevoked(h, hit)
  \/ ReadManifest(h) \/ AnswerRead(h) \/ Mint(h) \/ Deny(h) \/ Control(h)
  \/ \E b \in BOOLEAN : RefuseRead(h, b) \/ Dispatch(h, b)

(* A call goes with its handler. *)
WithStore(A) ==
  /\ A
  /\ call' = [h \in Handlers |-> IF req'[h] = Idle THEN NoCall ELSE call[h]]
  /\ NoAnswer /\ UNCHANGED <<tokens, denied, keys, ledger, outcomes, left>>

Fault ==
  /\ faults > 0 /\ faults' = faults - 1
  /\ \/ \E h \in Handlers : WithStore(Drop(h))
     \/ \E i \in Isolates : WithStore(Evict(i))

(* A KV read takes no longer than a load. *)
LookedUp == \A h \in Handlers : At(h, "lookup") => now - req[h].began < LoadMax

(* No I/O separates a request's arrival from its first read, nor a load from
   the decision: such a handler runs on before anything else happens. *)
Running == {h \in Handlers : req[h].pc \in {"verify", "load", "loaded"}}

(* Nothing else happens after the last request: a bound. *)
Active == Running = {} /\ (left > 0 \/ \E h \in Handlers : ~ At(h, "idle"))

Next ==
  \/ \E h \in IF Running = {} THEN Handlers ELSE Running :
       GateStep(h) \/ (WithStore(HandlerStep(h)) /\ UNCHANGED faults)
  \/ Active /\ Fault
  \/ Active /\ Drain
  \/ Active /\ LookedUp /\ WithStore(Tick) /\ UNCHANGED faults

Spec == Init /\ [][Next]_vars
-----------------------------------------------------------------------------
CallType ==
  [r : Requests \cup {None}, looked : 0 .. MaxTime,
   token : {{}} \cup {{tokens[j]} : j \in {j \in Jtis : tokens[j] # None}}]

(* No more than the types of the variables; the pc of a handler fits what it
   serves. *)
TypeOK ==
  /\ now \in 0 .. MaxTime /\ left \in 0 .. MaxRequests
  /\ ptr \in Loaded /\ slots \in [1 .. MaxVersion -> Docs \cup {None}]
  /\ \A i \in Isolates : cache[i] # None => cache[i].policy \in Loaded /\ cache[i].at <= now
  /\ \A h \in Handlers : /\ call[h] \in CallType
                         /\ req[h].policy \in Loaded \cup {None}
                         /\ At(h, "idle") <=> call[h].r = None
  /\ \A j \in Jtis : tokens[j] # None => tokens[j].exp <= now + TokenTTL
  /\ keys \subseteq UNION {r.keys : r \in Requests}

(* Whatever is answered - plaintext, a name, a commit, an administrator's
   operation - was granted to the caller by a policy that was current less
   than the authz lag (CacheTTL, and the duration of a load) before the
   decision; and an operation under a minted token was in its scope as well,
   in the hands of the service it was minted for, and no administrator's
   (section 4.1 and 5.3, as policy.ts:300 and auth.ts:299 quote them). *)
JustifiedByFreshPolicy ==
  \A l \in answer :
    /\ \E p \in Reigned(l.at, CacheTTL + LoadMax) :
         CASE l.verb \in {"policy", "revoke", "plan"} -> HasAdminVerb(p.doc, l.who)
           [] l.verb = "list" -> Grants(p.doc, l.who, Project, l.key, "read")
           [] OTHER -> Grants(p.doc, l.who, Project, l.key, l.verb)
    /\ \A t \in l.token : /\ t.sub = l.who.id /\ l.key \in t.scope.keys
                          /\ l.verb \in {"read", "list", "write"}
                          /\ l.looked <= t.exp + Leeway + LoadMax

(* A token that an administrator revoked is of no use once the deny list has
   propagated, for as long as the token would have been accepted (the TTL of
   revokeJti, token.ts:99). *)
RevokedStaysRevoked ==
  \A l \in answer : \A t \in l.token : \A d \in denied[t.jti] : l.looked < d + KvLag

RotatePlanVerbs == {"value.read", "key.set"}

Planned(rows, id) == {row.key : row \in {row \in rows : row.who = id /\ row.verb \in RotatePlanVerbs}}

RotatePlan(id) == Planned(ledger, id)

(* A key its caller has read is in the plan; one he has written may still have its
   row on the writer's queue, or the audit log has refused it. *)
InPlan(l) ==
  \/ l.key \in RotatePlan(l.who)
  \/ l.verb = "write" /\ l.key \in Planned((UNION queued) \cup refused, l.who)

(* The ledger is the oracle of offboarding: rotate-plan names every key whose
   plaintext the identity has been given, directly or under a minted token, at any
   time before (admin.ts:160, section 6.3).  A key it has written is named too,
   unless the row is still on the writer's queue or the audit log refused it. *)
LearnedIsPlanned == \A l \in learned : InPlan(l)

(* The store and the caches of the isolates are one register of policies with
   a bounded lag (PolicyRegister): the current policy is replaced version by
   version, never by one that was not its successor, and every load answers
   the policy that is current or one replaced less than the lag ago. *)
ImplementsRegister == Register!Spec
=============================================================================
