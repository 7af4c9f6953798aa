---------------------------- MODULE PolicyStore -----------------------------
(***************************************************************************)
(* Storing and loading the policy (worker/src/policy.ts, loadPolicy and    *)
(* putPolicy) by the handlers of several isolates.  The store is R2: one   *)
(* object per version, written only if absent, and a pointer replaced by   *)
(* compare and swap.  Each isolate caches what it loaded for CacheTTL.     *)
(*                                                                         *)
(* An action is one R2 call with the code up to the next await, so the     *)
(* handlers of one isolate interleave between R2 calls and share its       *)
(* cache.  A handler may end anywhere (Drop): an exception, or the isolate *)
(* is gone and its cache with it (Evict).                                  *)
(***************************************************************************)
EXTENDS Policy

CONSTANTS Handlers, Isolates, None,
          Docs,         \* the documents that administrators put
          FirstPolicies, \* what may be stored at first
          CacheTTL,     \* POLICY_CACHE_MS
          LoadMax,      \* the longest a load waits for R2: a bound on the model
          MaxVersion,   \* bound on the number of versions
          MaxTime       \* bound on the clock

EmptyPolicy == [version |-> 0, doc |-> {}]
Loaded == [version : 0 .. MaxVersion, doc : Docs \cup {{}}]

ASSUME StoreAssumption ==
  /\ CacheTTL \in Nat \ {0} /\ LoadMax \in Nat /\ MaxVersion \in Nat /\ MaxTime \in Nat
  /\ None \notin Docs /\ None \notin Isolates /\ None \notin Loaded
  /\ FirstPolicies \subseteq {EmptyPolicy} \cup [version : {1} \cap 0 .. MaxVersion, doc : Docs]

VARIABLES
  now,
  slots,   \* policy/versions/<n>.json
  ptr,     \* policy/current; version 0: there is no such object
  cache,   \* policyCache of each isolate: None or [policy, at]
  req,     \* each handler: where it is, its isolate, and its locals
  past     \* history: each policy that was replaced, and when
storeVars == <<now, slots, ptr, cache, req, past>>

(* seen: the pointer read; policy: what the load answered; began: when the
   pointer was read; doc and version: what a PUT stores. *)
Idle == [pc |-> "idle", iso |-> None, seen |-> EmptyPolicy, policy |-> None, began |-> 0,
         doc |-> None, version |-> 0]

Goto(h, pc) == req' = [req EXCEPT ![h].pc = pc]
End(h) == req' = [req EXCEPT ![h] = Idle]

StoreInit ==
  /\ now = 0
  /\ ptr \in FirstPolicies
  /\ slots = [v \in 1 .. MaxVersion |-> IF v = ptr.version THEN ptr.doc ELSE None]
  /\ cache \in [Isolates -> {None, [policy |-> ptr, at |-> 0]}]
  /\ req = [h \in Handlers |-> Idle]
  /\ past = {}
-----------------------------------------------------------------------------
Cached(h) == cache[req[h].iso]

(* Mutation: the age of the cache is not looked at. *)
FreshAlways(h) == Cached(h) # None

Fresh(h) == Cached(h) # None /\ now - Cached(h).at < CacheTTL

LoadedBy(h, policy) == req' = [req EXCEPT ![h].pc = "loaded", ![h].policy = policy, ![h].began = now]

LoadCached(h) ==
  /\ req[h].pc = "load" /\ Fresh(h)
  /\ LoadedBy(h, Cached(h).policy)
  /\ UNCHANGED <<now, slots, ptr, cache, past>>

CacheAndServe(h, policy) ==
  /\ cache' = [cache EXCEPT ![req[h].iso] = [policy |-> policy, at |-> now]]
  /\ LoadedBy(h, policy)

LoadPointer(h) ==
  /\ req[h].pc = "load" /\ ~ Fresh(h)
  /\ IF ptr = EmptyPolicy THEN CacheAndServe(h, EmptyPolicy)
     ELSE /\ req' = [req EXCEPT ![h].pc = "version", ![h].seen = ptr, ![h].began = now]
          /\ UNCHANGED cache
  /\ UNCHANGED <<now, slots, ptr, past>>

(* The hash of the version object must be the pointer's, else 503. *)
Resolves(p) == p.version # 0 => slots[p.version] = p.doc

LoadVersion(h) ==
  /\ req[h].pc = "version"
  /\ IF Resolves(req[h].seen) THEN CacheAndServe(h, req[h].seen)
     ELSE End(h) /\ UNCHANGED cache
  /\ UNCHANGED <<now, slots, ptr, past>>
-----------------------------------------------------------------------------
(* putPolicy of req[h].doc as req[h].version, after its validation. *)
PutRead(h) ==
  /\ req[h].pc = "put"
  /\ IF req[h].version = ptr.version + 1
     THEN req' = [req EXCEPT ![h].pc = "slot", ![h].seen = ptr]
     ELSE End(h)
  /\ UNCHANGED <<now, slots, ptr, cache, past>>

(* Mutation: the document is cached as it is written, not dropped once it is
   current. *)
PutSlotCached(h) ==
  /\ req[h].pc = "slot" /\ slots[req[h].version] = None
  /\ slots' = [slots EXCEPT ![req[h].version] = req[h].doc] /\ Goto(h, "cas")
  /\ cache' = [cache EXCEPT ![req[h].iso] =
                 [policy |-> [version |-> req[h].version, doc |-> req[h].doc], at |-> now]]
  /\ UNCHANGED <<now, ptr, past>>

PutSlot(h) ==
  /\ req[h].pc = "slot"
  /\ IF slots[req[h].version] = None
     THEN slots' = [slots EXCEPT ![req[h].version] = req[h].doc] /\ Goto(h, "cas")
     ELSE Goto(h, "taken") /\ UNCHANGED slots
  /\ UNCHANGED <<now, ptr, cache, past>>

(* Mutation: a taken slot is always taken over. *)
PutTakenAnyway(h) ==
  /\ req[h].pc = "taken" /\ Goto(h, "cas")
  /\ UNCHANGED <<now, slots, ptr, cache, past>>

(* A slot left by a PUT that died is taken over when it has the same bytes. *)
PutTaken(h) ==
  /\ req[h].pc = "taken"
  /\ IF slots[req[h].version] = req[h].doc THEN Goto(h, "cas") ELSE End(h)
  /\ UNCHANGED <<now, slots, ptr, cache, past>>

(* Mutation: the pointer is put without If-Match. *)
UnmovedBlind(h) == TRUE

Unmoved(h) == ptr = req[h].seen

PutCas(h) ==
  /\ req[h].pc = "cas"
  /\ IF Unmoved(h)
     THEN /\ ptr' = [version |-> req[h].version, doc |-> req[h].doc]
          /\ past' = past \cup {[policy |-> ptr, until |-> now]}
          /\ cache' = [cache EXCEPT ![req[h].iso] = None]
          /\ Goto(h, "stored")
     ELSE End(h) /\ UNCHANGED <<ptr, past, cache>>
  /\ UNCHANGED <<now, slots>>
-----------------------------------------------------------------------------
Drop(h) ==
  /\ req[h].pc # "idle" /\ End(h)
  /\ UNCHANGED <<now, slots, ptr, cache, past>>

Evict(i) ==
  /\ cache[i] # None
  /\ cache' = [cache EXCEPT ![i] = None]
  /\ req' = [h \in Handlers |-> IF req[h].iso = i THEN Idle ELSE req[h]]
  /\ UNCHANGED <<now, slots, ptr, past>>

Tick ==
  /\ now < MaxTime
  /\ \A h \in Handlers : req[h].pc = "version" => now - req[h].began < LoadMax
  /\ now' = now + 1
  /\ UNCHANGED <<slots, ptr, cache, req, past>>

HandlerStep(h) ==
  \/ LoadCached(h) \/ LoadPointer(h) \/ LoadVersion(h)
  \/ PutRead(h) \/ PutSlot(h) \/ PutTaken(h) \/ PutCas(h)
-----------------------------------------------------------------------------
(* The policy pointer always names a version object that is there and has
   the hash it records: no load of any isolate finds a broken store, however
   PUTs race and die (putPolicy's two conditional writes). *)
PointerResolves == Resolves(ptr)

(* The policies that were current less than lag before time t, or at it. *)
Reigned(t, lag) ==
  {p \in {ptr} \cup {q.policy : q \in past} :
     /\ \A q \in past : q.policy = p => q.until + lag > t
     /\ \A q \in past : q.policy.version + 1 = p.version => q.until <= t}

(* What an isolate caches was current while the load that cached it was under
   way, also when a PUT of the same isolate has emptied the cache meanwhile:
   such a load puts the replaced policy back, against "sonraki istek taze
   policy'yi okur" (policy.ts:390), but no older one. *)
CacheIsRecent ==
  \A i \in Isolates : cache[i] # None => cache[i].policy \in Reigned(cache[i].at, LoadMax + 1)

(* A document is served until CacheTTL after a load that read it, which took
   LoadMax at most, and never once it is older: the "authz lag" of section
   4.1.  Replacing goes version by version.  This is what PolicyRegister
   says; served is the answer of loadPolicy. *)
Served == [h \in Handlers |-> req[h].policy]

Register == INSTANCE PolicyRegister WITH
  Readers <- Handlers, Lag <- CacheTTL + LoadMax, current <- ptr, served <- Served
=============================================================================
