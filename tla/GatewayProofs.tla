---------------------------- MODULE GatewayProofs ---------------------------
(***************************************************************************)
(* Proofs about Gateway, for every set of documents, requests, handlers    *)
(* and isolates: the policy pointer resolves, a revoked token is of no use *)
(* once the deny list has propagated, the ledger names what a caller has   *)
(* learned, the store and the caches are one register of policies, and     *)
(* every answer was granted by a policy that it held lately.               *)
(***************************************************************************)
EXTENDS Gateway, GlobProofs

PutPcs == {"put", "slot", "taken", "cas"}
Pcs == {"idle", "load", "verify", "lookup", "loaded", "version", "stored", "manifest", "audit",
        "dispatch", "mint", "deny", "control"} \cup PutPcs

ReqType == [pc : Pcs, iso : Isolates \cup {None}, seen : Loaded, policy : Loaded \cup {None},
            began : Nat, doc : Docs \cup {None}, version : 0 .. MaxVersion]

Claimed == [jti : Jtis, sub : {r.p.id : r \in Requests}, project : {Project}, exp : Nat,
            scope : [verbs : {r.verbs : r \in Requests}, keys : {r.keys : r \in Requests}]]

CallOK == [r : Requests \cup {None}, token : SUBSET Claimed, looked : Nat]

StoreTypes ==
  /\ now \in Nat /\ ptr \in Loaded
  /\ slots \in [1 .. MaxVersion -> Docs \cup {None}]
  /\ cache \in [Isolates -> {None} \cup [policy : Loaded, at : Nat]]
  /\ req \in [Handlers -> ReqType]

GateTypes ==
  /\ call \in [Handlers -> CallOK]
  /\ tokens \in [Jtis -> {None} \cup Claimed]
  /\ denied \in [Jtis -> SUBSET Nat]

(* What a handler serves fits where it is. *)
Placed(h) ==
  /\ At(h, "idle") => req[h] = Idle /\ call[h] = NoCall
  /\ ~ At(h, "idle") => Req(h) \in Requests /\ req[h].iso \in Isolates
  /\ req[h].pc \in PutPcs \cup {"stored"} => Req(h).kind = "policy"
  /\ req[h].pc \in PutPcs => req[h].doc \in Docs /\ req[h].version > 0
  /\ At(h, "control") => Req(h).kind \in {"revoke", "plan"}
  /\ At(h, "deny") => Req(h).kind = "revoke"
  /\ At(h, "cas") => slots[req[h].version] = req[h].doc
  /\ At(h, "dispatch") => Req(h).kind \in {"write", "delete"}

(* The token a handler serves under is its bearer's, and was not denied, as
   far as the deny list had propagated, when it was looked up. *)
Authentic(h) ==
  /\ call[h].looked <= now
  /\ ~ At(h, "idle") => \A j \in {Req(h).bearer, Req(h).jti} \ {None} : tokens[j] # None
  /\ At(h, "idle") \/ At(h, "verify") => call[h].token = {}
  /\ At(h, "verify") \/ At(h, "lookup") => Req(h).bearer \in Jtis
  /\ \A t \in call[h].token : Req(h).bearer \in Jtis /\ t = tokens[Req(h).bearer]
  /\ At(h, "lookup") => /\ req[h].began <= tokens[Req(h).bearer].exp + Leeway
                        /\ now <= req[h].began + LoadMax
  /\ ~ At(h, "lookup") => \A t \in call[h].token : \A d \in denied[t.jti] : call[h].looked < d + KvLag

Stored == ptr.version # 0 => ptr.doc \in Docs /\ Resolves(ptr)

(* A token is denied only after it was minted, so it expires within the time
   that the deny entry lives. *)
Tokens ==
  \A j \in Jtis :
    /\ tokens[j] = None => denied[j] = {}
    /\ tokens[j] # None => /\ tokens[j] \in Claimed /\ tokens[j].jti = j /\ tokens[j].exp <= now + TokenTTL
                           /\ \A d \in denied[j] : tokens[j].exp <= d + TokenTTL

IInv ==
  /\ StoreTypes /\ GateTypes /\ Stored /\ Tokens
  /\ \A h \in Handlers : Placed(h) /\ Authentic(h)
-----------------------------------------------------------------------------
(* The assumptions on the constants, in one place. *)
LEMMA Constants ==
  /\ CacheTTL \in Nat /\ CacheTTL > 0 /\ LoadMax \in Nat /\ MaxVersion \in Nat /\ MaxTime \in Nat
  /\ None \notin Docs /\ None \notin Isolates /\ None \notin Loaded /\ None \notin Jtis
  /\ TokenTTL \in Nat /\ KvLag \in Nat /\ KvLag > 0 /\ Leeway \in Nat /\ DenyMargin \in Nat
  /\ Leeway + LoadMax < DenyMargin
BY StoreAssumption, GatewayAssumption

(* A handler's record, with one field after another replaced. *)
LEMMA ReqFields ==
  ASSUME NEW q \in ReqType
  PROVE  /\ \A pc \in Pcs : [q EXCEPT !.pc = pc] \in ReqType
         /\ \A i \in Isolates : [q EXCEPT !.iso = i] \in ReqType
         /\ \A seen \in Loaded : [q EXCEPT !.seen = seen] \in ReqType
         /\ \A policy \in Loaded \cup {None} : [q EXCEPT !.policy = policy] \in ReqType
         /\ \A began \in Nat : [q EXCEPT !.began = began] \in ReqType
         /\ \A doc \in Docs \cup {None} : [q EXCEPT !.doc = doc] \in ReqType
         /\ \A version \in 0 .. MaxVersion : [q EXCEPT !.version = version] \in ReqType
BY DEF ReqType

(* A handler at rest is typed. *)
LEMMA IdleReq == Idle \in ReqType /\ Idle.pc = "idle"
<1>1. EmptyPolicy \in Loaded BY Constants DEF EmptyPolicy, Loaded
<1> QED BY <1>1, Constants DEF Idle, ReqType, Pcs

(* The others stay where they are. *)
Alone(h) == req' \in [Handlers -> ReqType] /\ \A g \in Handlers \ {h} : req'[g] = req[g]

(* A handler ends and the others stay where they are. *)
LEMMA EndDoes ==
  ASSUME StoreTypes, NEW h \in Handlers, End(h)
  PROVE  Alone(h) /\ req'[h] = Idle /\ At(h, "idle")'
BY IdleReq DEF StoreTypes, End, Alone, At

(* A handler goes on and keeps its locals. *)
LEMMA GotoDoes ==
  ASSUME StoreTypes, NEW h \in Handlers, NEW pc \in Pcs, Goto(h, pc)
  PROVE  /\ Alone(h) /\ req'[h].pc = pc /\ req'[h].doc = req[h].doc /\ req'[h].version = req[h].version
         /\ req'[h].began = req[h].began /\ req'[h].iso = req[h].iso
<1>1. req' = [req EXCEPT ![h] = [req[h] EXCEPT !.pc = pc]] BY DEF Goto, StoreTypes
<1>2. req[h] \in ReqType BY DEF StoreTypes
<1>3. [req[h] EXCEPT !.pc = pc] \in ReqType BY <1>2, ReqFields
<1> QED BY <1>1, <1>2, <1>3 DEF Alone, StoreTypes, ReqType

(* A load answers a policy and notes the time. *)
LEMMA LoadedByDoes ==
  ASSUME StoreTypes, NEW h \in Handlers, NEW policy \in Loaded, LoadedBy(h, policy)
  PROVE  Alone(h) /\ req'[h].pc = "loaded" /\ req'[h].iso = req[h].iso
<1> DEFINE q1 == [req[h] EXCEPT !.pc = "loaded"]
           q2 == [q1 EXCEPT !.policy = policy]
           q3 == [q2 EXCEPT !.began = now]
<1>1. req' = [req EXCEPT ![h] = q3] BY DEF LoadedBy, StoreTypes
<1>2. req[h] \in ReqType /\ now \in Nat BY DEF StoreTypes
<1>3. q1 \in ReqType /\ q1.iso = req[h].iso /\ q1.pc = "loaded" BY <1>2, ReqFields DEF Pcs, ReqType
<1> HIDE DEF q1
<1>4. q2 \in ReqType /\ q2.iso = req[h].iso /\ q2.pc = "loaded" BY <1>3, ReqFields DEF ReqType
<1> HIDE DEF q2
<1>5. q3 \in ReqType /\ q3.iso = req[h].iso /\ q3.pc = "loaded" BY <1>2, <1>4, ReqFields DEF ReqType
<1> HIDE DEF q3
<1> QED BY <1>1, <1>5 DEF Alone, StoreTypes

(* A load has read the pointer and goes on to the version. *)
LEMMA LoadPointerDoes ==
  ASSUME StoreTypes, NEW h \in Handlers,
         req' = [req EXCEPT ![h].pc = "version", ![h].seen = ptr, ![h].began = now]
  PROVE  Alone(h) /\ req'[h].pc = "version" /\ req'[h].iso = req[h].iso
<1> DEFINE q1 == [req[h] EXCEPT !.pc = "version"]
           q2 == [q1 EXCEPT !.seen = ptr]
           q3 == [q2 EXCEPT !.began = now]
<1>1. req' = [req EXCEPT ![h] = q3] BY DEF StoreTypes
<1>2. req[h] \in ReqType /\ now \in Nat /\ ptr \in Loaded BY DEF StoreTypes
<1>3. q1 \in ReqType /\ q1.iso = req[h].iso /\ q1.pc = "version" BY <1>2, ReqFields DEF Pcs, ReqType
<1> HIDE DEF q1
<1>4. q2 \in ReqType /\ q2.iso = req[h].iso /\ q2.pc = "version" BY <1>2, <1>3, ReqFields DEF ReqType
<1> HIDE DEF q2
<1>5. q3 \in ReqType /\ q3.iso = req[h].iso /\ q3.pc = "version" BY <1>2, <1>4, ReqFields DEF ReqType
<1> HIDE DEF q3
<1> QED BY <1>1, <1>5, ZenonT(60) DEF Alone, StoreTypes

(* A PUT has read the pointer. *)
LEMMA PutReadDoes ==
  ASSUME StoreTypes, NEW h \in Handlers,
         req' = [req EXCEPT ![h].pc = "slot", ![h].seen = ptr]
  PROVE  /\ Alone(h) /\ req'[h].pc = "slot" /\ req'[h].doc = req[h].doc /\ req'[h].version = req[h].version
         /\ req'[h].iso = req[h].iso
<1> DEFINE q1 == [req[h] EXCEPT !.pc = "slot"]
           q2 == [q1 EXCEPT !.seen = ptr]
<1>1. req' = [req EXCEPT ![h] = q2] BY DEF StoreTypes
<1>2. req[h] \in ReqType /\ ptr \in Loaded BY DEF StoreTypes
<1>3. q1 \in ReqType /\ q1.iso = req[h].iso /\ q1.pc = "slot" /\ q1.doc = req[h].doc /\ q1.version = req[h].version
  BY <1>2, ReqFields, ZenonT(60) DEF Pcs, PutPcs, ReqType
<1> HIDE DEF q1
<1>4. q2 \in ReqType /\ q2.iso = req[h].iso /\ q2.pc = "slot" /\ q2.doc = req[h].doc /\ q2.version = req[h].version
  BY <1>2, <1>3, ReqFields DEF ReqType
<1> HIDE DEF q2
<1> QED BY <1>1, <1>4 DEF Alone, StoreTypes

(* A request arrives at a handler. *)
LEMMA ArriveDoes ==
  ASSUME StoreTypes, NEW h \in Handlers, NEW i \in Isolates, NEW pc \in Pcs,
         req' = [req EXCEPT ![h].iso = i, ![h].pc = pc]
  PROVE  Alone(h) /\ req'[h].pc = pc /\ req'[h].iso = i
<1> DEFINE q1 == [req[h] EXCEPT !.iso = i]
           q2 == [q1 EXCEPT !.pc = pc]
<1>1. req' = [req EXCEPT ![h] = q2] BY DEF StoreTypes
<1>2. req[h] \in ReqType BY DEF StoreTypes
<1>3. q1 \in ReqType /\ q1.iso = i BY <1>2, ReqFields DEF ReqType
<1> HIDE DEF q1
<1>4. q2 \in ReqType /\ q2.iso = i /\ q2.pc = pc BY <1>3, ReqFields DEF ReqType
<1> HIDE DEF q2
<1> QED BY <1>1, <1>4, ZenonT(60) DEF Alone, StoreTypes

(* A token is verified and the time noted. *)
LEMMA VerifyDoes ==
  ASSUME StoreTypes, NEW h \in Handlers,
         req' = [req EXCEPT ![h].pc = "lookup", ![h].began = now]
  PROVE  Alone(h) /\ req'[h].pc = "lookup" /\ req'[h].began = now /\ req'[h].iso = req[h].iso
<1> DEFINE q1 == [req[h] EXCEPT !.pc = "lookup"]
           q2 == [q1 EXCEPT !.began = now]
<1>1. req' = [req EXCEPT ![h] = q2] BY DEF StoreTypes
<1>2. req[h] \in ReqType /\ now \in Nat BY DEF StoreTypes
<1>3. q1 \in ReqType /\ q1.iso = req[h].iso /\ q1.pc = "lookup" BY <1>2, ReqFields DEF Pcs, ReqType
<1> HIDE DEF q1
<1>4. q2 \in ReqType /\ q2.iso = req[h].iso /\ q2.pc = "lookup" /\ q2.began = now BY <1>2, <1>3, ReqFields DEF ReqType
<1> HIDE DEF q2
<1> QED BY <1>1, <1>4 DEF Alone, StoreTypes

-----------------------------------------------------------------------------
(* One handler moves, and nothing it shares with the others changes. *)
LEMMA Moves ==
  ASSUME IInv, NEW h \in Handlers, Alone(h),
         call' \in [Handlers -> CallOK], \A g \in Handlers \ {h} : call'[g] = call[g],
         UNCHANGED <<now, slots, ptr, cache, tokens, denied>>,
         Placed(h)', Authentic(h)'
  PROVE  IInv'
<1>1. StoreTypes' /\ GateTypes' /\ Stored' /\ Tokens'
  BY DEF IInv, StoreTypes, GateTypes, Stored, Tokens, Resolves, Alone
<1>2. ASSUME NEW g \in Handlers \ {h} PROVE Placed(g)' /\ Authentic(g)'
  <2>1. Placed(g) /\ Authentic(g) /\ req'[g] = req[g] /\ call'[g] = call[g] BY <1>2 DEF IInv, Alone
  <2> QED BY <2>1 DEF Placed, Authentic, At, Req
<1> QED BY <1>1, <1>2 DEF IInv

(* A handler that is through leaves nothing behind. *)
LEMMA IdleCall == NoCall \in CallOK /\ NoCall.token = {} /\ NoCall.looked = 0
BY DEF NoCall, CallOK

(* A step that only ends its handler keeps the invariant. *)
LEMMA Closes ==
  ASSUME IInv, NEW h \in Handlers, Close(h), UNCHANGED <<now, slots, ptr, cache, tokens, denied>>
  PROVE  IInv'
<1>1. End(h) /\ call' = [call EXCEPT ![h] = NoCall] BY DEF Close
<1>2. Alone(h) /\ req'[h] = Idle /\ At(h, "idle")' BY <1>1, EndDoes DEF IInv
<1>3. call' \in [Handlers -> CallOK] /\ call'[h] = NoCall /\ \A g \in Handlers \ {h} : call'[g] = call[g]
  BY <1>1, IdleCall DEF IInv, GateTypes
<1>4. Placed(h)' BY <1>2, <1>3, IdleReq DEF Placed, At, PutPcs
<1>5. Authentic(h)' BY <1>2, <1>3, IdleReq, IdleCall DEF Authentic, At, IInv, StoreTypes
<1> QED BY <1>2, <1>3, <1>4, <1>5, Moves

(* A request that arrives names minted tokens only. *)
LEMMA ArriveStep ==
  ASSUME IInv, NEW h \in Handlers, Arrive(h)
  PROVE  IInv'
<1>1. PICK r \in Requests, i \in Isolates :
        /\ \A j \in {r.bearer, r.jti} \ {None} : tokens[j] # None
        /\ call' = [call EXCEPT ![h].r = r]
        /\ req' = [req EXCEPT ![h].iso = i, ![h].pc = IF r.bearer = None THEN "load" ELSE "verify"]
  BY DEF Arrive
<1>2. At(h, "idle") /\ UNCHANGED <<now, slots, ptr, cache, tokens, denied>> BY DEF Arrive
<1>3. call[h] = NoCall /\ call \in [Handlers -> CallOK] BY <1>2 DEF IInv, GateTypes, Placed
<1> DEFINE pc == IF r.bearer = None THEN "load" ELSE "verify"
<1>4. pc \in Pcs BY DEF Pcs
<1>5. Alone(h) /\ req'[h].pc = pc /\ req'[h].iso = i
  <2> HIDE DEF pc
  <2>1. req' = [req EXCEPT ![h].iso = i, ![h].pc = pc] BY <1>1 DEF pc
  <2> QED BY <1>4, <2>1, ArriveDoes DEF IInv
<1>6. [NoCall EXCEPT !.r = r] \in CallOK /\ [NoCall EXCEPT !.r = r].r = r
      /\ [NoCall EXCEPT !.r = r].token = {} /\ [NoCall EXCEPT !.r = r].looked = 0
  BY DEF NoCall, CallOK
<1>7. call' = [call EXCEPT ![h] = [NoCall EXCEPT !.r = r]] BY <1>1, <1>3
<1>8. /\ call' \in [Handlers -> CallOK] /\ \A g \in Handlers \ {h} : call'[g] = call[g]
      /\ call'[h].r = r /\ call'[h].token = {} /\ call'[h].looked = 0
  BY <1>3, <1>6, <1>7
<1>9. Placed(h)' BY <1>5, <1>8 DEF Placed, At, Req, PutPcs
<1>10. Authentic(h)'
  <2>1. r.bearer # None => r.bearer \in Jtis BY GatewayAssumption
  <2> QED BY <1>1, <1>2, <1>5, <1>8, <2>1 DEF Authentic, At, Req, IInv, StoreTypes
<1> QED BY <1>2, <1>5, <1>8, <1>9, <1>10, Moves

(* What is looked up is the bearer's token, not expired when it was verified. *)
LEMMA VerifyStep ==
  ASSUME IInv, NEW h \in Handlers, VerifyToken(h)
  PROVE  IInv'
<1> DEFINE j == Req(h).bearer
           t == tokens[j]
<1>1. At(h, "verify") /\ UNCHANGED <<now, slots, ptr, cache, tokens, denied>> BY DEF VerifyToken
<1>2. /\ j \in Jtis /\ t # None /\ t \in Claimed /\ t.jti = j
      /\ Req(h) \in Requests /\ req[h].iso \in Isolates
  BY <1>1, Constants DEF IInv, Authentic, Placed, At, Tokens
<1>3. CASE now <= t.exp + Leeway /\ t.sub = Req(h).p.id
  <2>1. /\ call' = [call EXCEPT ![h].token = {t}]
        /\ req' = [req EXCEPT ![h].pc = "lookup", ![h].began = now]
    BY <1>3 DEF VerifyToken
  <2>2. Alone(h) /\ req'[h].pc = "lookup" /\ req'[h].began = now /\ req'[h].iso = req[h].iso BY <2>1, VerifyDoes DEF IInv
  <2> HIDE DEF t
  <2>3. call[h] \in CallOK /\ call \in [Handlers -> CallOK] BY DEF IInv, GateTypes
  <2>4. \A c \in CallOK : /\ [c EXCEPT !.token = {t}] \in CallOK
                          /\ [c EXCEPT !.token = {t}].token = {t}
                          /\ [c EXCEPT !.token = {t}].r = c.r
                          /\ [c EXCEPT !.token = {t}].looked = c.looked
    BY <1>2 DEF CallOK
  <2>5. call' = [call EXCEPT ![h] = [call[h] EXCEPT !.token = {t}]] BY <2>1, <2>3
  <2>6. /\ call' \in [Handlers -> CallOK] /\ \A g \in Handlers \ {h} : call'[g] = call[g]
        /\ call'[h].r = call[h].r /\ call'[h].token = {t} /\ call'[h].looked = call[h].looked
    BY <2>3, <2>4, <2>5
  <2>7. Placed(h)' BY <1>2, <2>2, <2>6 DEF Placed, At, Req, PutPcs
  <2>8. Authentic(h)'
    <3>1. now \in Nat /\ call[h].looked <= now BY DEF IInv, StoreTypes, Authentic
    <3>2. \A k \in {Req(h).bearer, Req(h).jti} \ {None} : tokens[k] # None
      BY <1>1 DEF IInv, Authentic, At
    <3>3. now <= tokens[j].exp + Leeway BY <1>3 DEF t
    <3>4. t = tokens[j] BY DEF t
    <3>5. now <= now + LoadMax BY <3>1, Constants
    <3> QED BY <1>1, <1>2, <2>2, <2>6, <3>1, <3>2, <3>3, <3>4, <3>5 DEF Authentic, At, Req
  <2> QED BY <1>1, <2>2, <2>6, <2>7, <2>8, Moves
<1>4. CASE ~ (now <= t.exp + Leeway /\ t.sub = Req(h).p.id)
  BY <1>1, <1>4, Closes DEF VerifyToken
<1> QED BY <1>3, <1>4

(* Goto leaves the call alone. *)
LEMMA Goes ==
  ASSUME IInv, NEW h \in Handlers, Alone(h), UNCHANGED <<now, slots, ptr, cache, call, tokens, denied>>,
         ~ At(h, "idle"), ~ At(h, "verify"), ~ At(h, "lookup"),
         req'[h].pc \notin {"idle", "verify", "lookup"}, Placed(h)'
  PROVE  IInv'
<1>1. call \in [Handlers -> CallOK] /\ Authentic(h) BY DEF IInv, GateTypes
<1>2. Authentic(h)' BY <1>1 DEF Authentic, At, Req
<1> QED BY <1>1, <1>2, Moves

(* A token that passes was denied less than KvLag ago, if at all: an entry that has
   propagated is visible, as it outlives the token. *)
LEMMA LookupStep ==
  ASSUME IInv, NEW h \in Handlers, NEW hit \in BOOLEAN, LookupRevoked(h, hit)
  PROVE  IInv'
<1> DEFINE j == Req(h).bearer
<1>1. At(h, "lookup") /\ UNCHANGED <<now, slots, ptr, cache, tokens, denied>> BY DEF LookupRevoked
<1>2. CASE hit BY <1>1, <1>2, Closes DEF LookupRevoked
<1>3. CASE ~ hit
  <2>1. /\ ~ Propagated(denied[j]) /\ call' = [call EXCEPT ![h].looked = now] /\ Goto(h, "load")
    BY <1>3 DEF LookupRevoked
  <2>2. Alone(h) /\ req'[h].pc = "load" /\ req'[h].iso = req[h].iso BY <2>1, GotoDoes DEF IInv, Pcs
  <2>3. call[h] \in CallOK /\ call \in [Handlers -> CallOK] /\ now \in Nat BY DEF IInv, GateTypes, StoreTypes
  <2>4. \A c \in CallOK : /\ [c EXCEPT !.looked = now] \in CallOK
                          /\ [c EXCEPT !.looked = now].token = c.token
                          /\ [c EXCEPT !.looked = now].r = c.r
                          /\ [c EXCEPT !.looked = now].looked = now
    BY <2>3 DEF CallOK
  <2>5. call' = [call EXCEPT ![h] = [call[h] EXCEPT !.looked = now]] BY <2>1, <2>3
  <2>6. /\ call' \in [Handlers -> CallOK] /\ \A g \in Handlers \ {h} : call'[g] = call[g]
        /\ call'[h].r = call[h].r /\ call'[h].token = call[h].token /\ call'[h].looked = now
    BY <2>3, <2>4, <2>5
  <2>7. Req(h) \in Requests /\ req[h].iso \in Isolates BY <1>1 DEF IInv, Placed, At
  <2>8. Placed(h)' BY <2>2, <2>6, <2>7 DEF Placed, At, Req, PutPcs
  <2>9. /\ j \in Jtis /\ tokens[j] # None /\ tokens[j].jti = j /\ tokens[j].exp \in Nat
        /\ req[h].began <= tokens[j].exp + Leeway /\ now <= req[h].began + LoadMax /\ req[h].began \in Nat
        /\ \A d \in denied[j] : d \in Nat /\ tokens[j].exp <= d + TokenTTL
        /\ \A k \in {Req(h).bearer, Req(h).jti} \ {None} : tokens[k] # None
        /\ \A t \in call[h].token : t = tokens[j]
    BY <1>1, Constants, ZenonT(60) DEF IInv, Authentic, At, Tokens, GateTypes, StoreTypes, ReqType, Claimed
  <2>10. \A d \in denied[j] : now < d + KvLag
    <3> SUFFICES ASSUME NEW d \in denied[j] PROVE now < d + KvLag OBVIOUS
    <3>1. now < d + DenyTTL BY <2>3, <2>9, Constants DEF DenyTTL
    <3> QED BY <2>1, <2>3, <2>9, <3>1, Constants DEF Propagated, Visible
  <2>11. Authentic(h)' BY <1>1, <2>2, <2>3, <2>6, <2>9, <2>10 DEF Authentic, At, Req
  <2> QED BY <1>1, <2>2, <2>6, <2>8, <2>11, Moves
<1> QED BY <1>2, <1>3

(* A route starts with what it serves. *)
LEMMA RouteStep ==
  ASSUME IInv, NEW h \in Handlers, Route(h)
  PROVE  IInv'
<1>1. At(h, "loaded") /\ UNCHANGED <<now, slots, ptr, cache, tokens, denied>> BY DEF Route
<1>2. CASE DataAllowed(h) \/ MintAllowed(h) \/ AdminAllowed(h)
  <2>1. PICK to \in Routes :
          /\ to.kind = Req(h).kind
          /\ req' = [req EXCEPT ![h].pc = to.to,
                                ![h].policy = IF Req(h).kind = "list" THEN @ ELSE None,
                                ![h].doc = Req(h).doc, ![h].version = Req(h).version]
    BY <1>2 DEF Route
  <2>2. call' = call BY <1>2 DEF Route
  <2> DEFINE policy == IF Req(h).kind = "list" THEN req[h].policy ELSE None
             doc == Req(h).doc
             version == Req(h).version
             pc == to.to
  <2>3. /\ Req(h) \in Requests /\ req[h].iso \in Isolates /\ doc \in Docs \cup {None} /\ version \in 0 .. MaxVersion
        /\ Req(h).kind = "policy" => doc \in Docs /\ version > 0
    BY <1>1, GatewayAssumption DEF IInv, Placed, At
  <2>4. req[h] \in ReqType /\ req \in [Handlers -> ReqType] BY DEF IInv, StoreTypes
  <2>5. policy \in Loaded \cup {None} BY <2>4 DEF ReqType
  <2>6. /\ pc \in Pcs /\ pc \notin {"idle", "verify", "lookup", "slot", "taken", "cas", "stored"}
        /\ pc = "put" => Req(h).kind = "policy"
        /\ pc = "control" => Req(h).kind = "plan"
        /\ pc = "deny" => Req(h).kind = "revoke"
        /\ pc = "dispatch" => Req(h).kind \in {"write", "delete"}
    BY <2>1 DEF Routes, Pcs, PutPcs
  <2>7. req' = [req EXCEPT ![h].pc = pc, ![h].policy = policy, ![h].doc = doc, ![h].version = version]
    BY <2>1, <2>4 DEF ReqType
  <2> HIDE DEF pc, policy, doc, version
  <2>8. /\ Alone(h) /\ req'[h].pc = pc /\ req'[h].doc = doc /\ req'[h].version = version
        /\ req'[h].iso = req[h].iso
    <3> DEFINE q1 == [req[h] EXCEPT !.pc = pc]
               q2 == [q1 EXCEPT !.policy = policy]
               q3 == [q2 EXCEPT !.doc = doc]
               q4 == [q3 EXCEPT !.version = version]
    <3>1. req' = [req EXCEPT ![h] = q4] BY <2>4, <2>7
    <3>2. doc \in Docs \cup {None} /\ version \in 0 .. MaxVersion BY <2>3 DEF doc, version
    <3>3. q1 \in ReqType /\ q1.iso = req[h].iso /\ q1.pc = pc BY <2>4, <2>6, ReqFields DEF ReqType
    <3> HIDE DEF q1
    <3>4. q2 \in ReqType /\ q2.iso = req[h].iso /\ q2.pc = pc BY <2>5, <3>3, ReqFields DEF ReqType
    <3> HIDE DEF q2
    <3>5. q3 \in ReqType /\ q3.iso = req[h].iso /\ q3.pc = pc /\ q3.doc = doc BY <3>2, <3>4, ReqFields DEF ReqType
    <3> HIDE DEF q3
    <3>6. q4 \in ReqType /\ q4.iso = req[h].iso /\ q4.pc = pc /\ q4.doc = doc /\ q4.version = version
      BY <3>2, <3>5, ReqFields DEF ReqType
    <3> HIDE DEF q4
    <3>7. req'[h] = q4 /\ \A g \in Handlers \ {h} : req'[g] = req[g] BY <2>4, <3>1
    <3>8. req' \in [Handlers -> ReqType] BY <2>4, <3>1, <3>6
    <3> QED BY <3>6, <3>7, <3>8 DEF Alone
  <2>9. Placed(h)' BY <2>2, <2>3, <2>6, <2>8 DEF Placed, At, Req, PutPcs
  <2> QED BY <1>1, <2>2, <2>6, <2>8, <2>9, Goes DEF At
<1>3. CASE ~ (DataAllowed(h) \/ MintAllowed(h) \/ AdminAllowed(h))
  BY <1>1, <1>3, Closes DEF Route
<1> QED BY <1>2, <1>3

(* Reads, commits and administrators' rows end their handler. *)
LEMMA ServeStep ==
  ASSUME IInv, NEW h \in Handlers, NEW b \in BOOLEAN,
         ReadManifest(h) \/ AnswerRead(h) \/ RefuseRead(h, b) \/ Dispatch(h, b) \/ Control(h)
  PROVE  IInv'
<1>1. CASE AnswerRead(h) \/ RefuseRead(h, b) \/ Dispatch(h, b) \/ Control(h)
  BY <1>1, Closes DEF AnswerRead, RefuseRead, Dispatch, Control
<1>2. CASE ReadManifest(h)
  <2>1. At(h, "manifest") /\ UNCHANGED <<now, slots, ptr, cache, tokens, denied>> BY <1>2 DEF ReadManifest
  <2>2. CASE Close(h) BY <2>1, <2>2, Closes
  <2>3. CASE ~ Close(h)
    <3>1. Goto(h, "audit") /\ call' = call BY <1>2, <2>3 DEF ReadManifest
    <3>2. Alone(h) /\ req'[h].pc = "audit" /\ req'[h].iso = req[h].iso BY <3>1, GotoDoes DEF IInv, Pcs
    <3>3. Req(h) \in Requests /\ req[h].iso \in Isolates BY <2>1 DEF IInv, Placed, At
    <3>4. Placed(h)' BY <3>1, <3>2, <3>3 DEF Placed, At, Req, PutPcs
    <3> QED BY <2>1, <3>1, <3>2, <3>4, Goes DEF At
  <2> QED BY <2>2, <2>3
<1> QED BY <1>1, <1>2

(* A new token is denied by nobody yet. *)
LEMMA MintStep ==
  ASSUME IInv, NEW h \in Handlers, Mint(h)
  PROVE  IInv'
<1>1. PICK j \in Jtis : tokens[j] = None /\ tokens' = [tokens EXCEPT ![j] = Claims(j, Req(h))]
  BY DEF Mint
<1>2. At(h, "mint") /\ Close(h) /\ UNCHANGED <<now, slots, ptr, cache, denied>> BY DEF Mint
<1>3. Req(h) \in Requests /\ now \in Nat BY <1>2 DEF IInv, Placed, At, StoreTypes
<1> DEFINE t == Claims(j, Req(h))
<1>4. t \in Claimed /\ t.jti = j /\ t.exp = now + TokenTTL BY <1>3, Constants DEF Claims, Claimed
<1>5. t # None \/ t = None OBVIOUS
<1> HIDE DEF t
<1>6. /\ tokens' \in [Jtis -> {None} \cup Claimed] /\ tokens'[j] = t
      /\ \A k \in Jtis \ {j} : tokens'[k] = tokens[k]
  BY <1>1, <1>4 DEF IInv, GateTypes, t
<1>7. Alone(h) /\ req'[h] = Idle /\ At(h, "idle")' BY <1>2, EndDoes DEF IInv, Close
<1>8. call' \in [Handlers -> CallOK] /\ call'[h] = NoCall /\ \A g \in Handlers \ {h} : call'[g] = call[g]
  BY <1>2, IdleCall DEF IInv, GateTypes, Close
<1>9. Placed(h)' BY <1>7, <1>8, IdleReq DEF Placed, At, PutPcs
<1>10. Authentic(h)' BY <1>2, <1>7, <1>8, IdleReq, IdleCall DEF Authentic, At, IInv, StoreTypes
<1>11. StoreTypes' /\ GateTypes' /\ Stored'
  BY <1>2, <1>6, <1>7, <1>8 DEF IInv, StoreTypes, GateTypes, Stored, Resolves, Alone
<1>12. Tokens'
  <2>1. denied[j] = {} BY <1>1 DEF IInv, Tokens
  <2>2. \A k \in Jtis \ {j} : tokens'[k] = tokens[k] /\ denied'[k] = denied[k] BY <1>2, <1>6
  <2>3. now' = now /\ denied'[j] = {} BY <1>2, <2>1
  <2>4. now + TokenTTL <= now + TokenTTL BY <1>3, Constants
  <2>5. ASSUME NEW k \in Jtis
        PROVE  /\ tokens'[k] = None => denied'[k] = {}
               /\ tokens'[k] # None => /\ tokens'[k] \in Claimed /\ tokens'[k].jti = k
                                       /\ tokens'[k].exp <= now' + TokenTTL
                                       /\ \A d \in denied'[k] : tokens'[k].exp <= d + TokenTTL
    <3>1. CASE k = j BY <1>4, <1>6, <2>3, <2>4, <3>1
    <3>2. CASE k # j BY <2>2, <2>3, <3>2 DEF IInv, Tokens
    <3> QED BY <3>1, <3>2
  <2> QED BY <2>5 DEF Tokens
<1>13. ASSUME NEW g \in Handlers \ {h} PROVE Placed(g)' /\ Authentic(g)'
  <2>1. Placed(g) /\ Authentic(g) /\ req'[g] = req[g] /\ call'[g] = call[g]
    BY <1>7, <1>8, <1>13 DEF IInv, Alone
  <2>2. ~ At(g, "idle") => \A k \in {Req(g).bearer, Req(g).jti} \ {None} : k \in Jtis /\ k # j /\ tokens'[k] = tokens[k]
    <3>1. ~ At(g, "idle") => Req(g) \in Requests BY <2>1 DEF Placed
    <3> QED BY <1>1, <1>6, <2>1, <3>1, GatewayAssumption DEF Authentic
  <2>3. \A t1 \in call[g].token : ~ At(g, "idle") BY <2>1 DEF Authentic
  <2>4. Req(g).bearer \in Jtis => Req(g).bearer # None BY Constants
  <2>5. Placed(g)' BY <1>2, <2>1 DEF Placed, At, Req
  <2>6. Authentic(g)' BY <1>2, <2>1, <2>2, <2>3, <2>4 DEF Authentic, At, Req
  <2> QED BY <2>5, <2>6
<1> QED BY <1>9, <1>10, <1>11, <1>12, <1>13 DEF IInv

(* A denied token expires within TokenTTL of its denial. *)
LEMMA DenyStep ==
  ASSUME IInv, NEW h \in Handlers, Deny(h)
  PROVE  IInv'
<1> DEFINE j == Req(h).jti
<1>1. /\ At(h, "deny") /\ Goto(h, "control") /\ denied' = [denied EXCEPT ![j] = @ \cup {now}]
      /\ UNCHANGED <<now, slots, ptr, cache, call, tokens>>
  BY DEF Deny
<1>2. /\ Req(h) \in Requests /\ req[h].iso \in Isolates /\ Req(h).kind = "revoke" /\ now \in Nat
      /\ j \in Jtis /\ tokens[j] # None
  <2>1. Req(h) \in Requests /\ req[h].iso \in Isolates /\ Req(h).kind = "revoke" /\ now \in Nat
    BY <1>1 DEF IInv, Placed, At, StoreTypes
  <2>2. j # None /\ j \in Jtis BY <2>1, GatewayAssumption
  <2> QED BY <1>1, <2>1, <2>2 DEF IInv, Authentic, At
<1>3. Alone(h) /\ req'[h].pc = "control" /\ req'[h].iso = req[h].iso BY <1>1, GotoDoes DEF IInv, Pcs
<1>4. /\ denied' \in [Jtis -> SUBSET Nat] /\ denied'[j] = denied[j] \cup {now}
      /\ \A k \in Jtis \ {j} : denied'[k] = denied[k]
  BY <1>1, <1>2 DEF IInv, GateTypes
<1>5. StoreTypes' /\ GateTypes' /\ Stored'
  BY <1>1, <1>3, <1>4 DEF IInv, StoreTypes, GateTypes, Stored, Resolves, Alone
<1>6. Tokens' BY <1>1, <1>2, <1>4 DEF IInv, Tokens
<1>7. \A g \in Handlers : \A t \in call[g].token : t.jti \in Jtis
  BY DEF IInv, GateTypes, CallOK, Claimed
<1>8. \A g \in Handlers : call[g].looked < now + KvLag
  BY <1>2, Constants DEF IInv, Authentic, GateTypes, CallOK
<1>9. ASSUME NEW g \in Handlers PROVE Placed(g)' /\ Authentic(g)'
  <2>1. Placed(g) /\ Authentic(g) /\ call'[g] = call[g] BY <1>1 DEF IInv
  <2>2. \A t \in call[g].token : \A d \in denied'[t.jti] : d \in denied[t.jti] \/ d = now
    BY <1>4, <1>7
  <2>3. CASE g = h
    <3>1. Placed(g)' BY <1>1, <1>2, <1>3, <2>1, <2>3 DEF Placed, At, Req, PutPcs
    <3>2. Authentic(g)' BY <1>1, <1>3, <1>8, <2>1, <2>2, <2>3 DEF Authentic, At, Req
    <3> QED BY <3>1, <3>2
  <2>4. CASE g # h
    <3>1. req'[g] = req[g] BY <1>3, <2>4 DEF Alone
    <3>2. Placed(g)' BY <1>1, <2>1, <3>1 DEF Placed, At, Req
    <3>3. Authentic(g)' BY <1>1, <1>8, <2>1, <2>2, <3>1 DEF Authentic, At, Req
    <3> QED BY <3>2, <3>3
  <2> QED BY <2>3, <2>4
<1> QED BY <1>5, <1>6, <1>9 DEF IInv
-----------------------------------------------------------------------------
(* The steps of the store, with the call that goes with its handler. *)
Follows == call' = [g \in Handlers |-> IF req'[g] = Idle THEN NoCall ELSE call[g]]

(* A step of the store is followed by the calls of its handlers. *)
LEMMA FollowsDoes ==
  ASSUME IInv, NEW h \in Handlers, Alone(h), Follows
  PROVE  /\ call' \in [Handlers -> CallOK] /\ \A g \in Handlers \ {h} : call'[g] = call[g]
         /\ req'[h] = Idle => call'[h] = NoCall
         /\ req'[h] # Idle => call'[h] = call[h]
<1>1. call \in [Handlers -> CallOK] BY DEF IInv, GateTypes
<1>2. call' \in [Handlers -> CallOK] BY <1>1, IdleCall DEF Follows
<1>3. ASSUME NEW g \in Handlers \ {h} PROVE call'[g] = call[g]
  <2>1. req'[g] = req[g] /\ (At(g, "idle") => call[g] = NoCall) BY DEF Alone, IInv, Placed
  <2>2. req[g] = Idle => At(g, "idle") BY IdleReq DEF At
  <2> QED BY <2>1, <2>2 DEF Follows
<1> QED BY <1>2, <1>3 DEF Follows

StoreOK ==
  /\ ptr \in Loaded /\ slots \in [1 .. MaxVersion -> Docs \cup {None}]
  /\ cache \in [Isolates -> {None} \cup [policy : Loaded, at : Nat]]

(* A step of the store keeps what the gate knows of the tokens. *)
LEMMA StoreMoves ==
  ASSUME IInv, NEW h \in Handlers, Alone(h), Follows, UNCHANGED <<now, tokens, denied>>,
         StoreOK', Stored',
         \A g \in Handlers \ {h} : At(g, "cas") => slots'[req[g].version] = req[g].doc,
         ~ At(h, "idle"), ~ At(h, "verify"), ~ At(h, "lookup"),
         \/ req'[h] = Idle
         \/ /\ req'[h].pc \notin {"idle", "verify", "lookup", "control", "deny", "dispatch"}
            /\ req'[h].pc \in PutPcs \cup {"stored"} => req[h].pc \in PutPcs
            /\ req'[h].pc \in PutPcs => req'[h].doc = req[h].doc /\ req'[h].version = req[h].version
            /\ req'[h].pc = "cas" => slots'[req[h].version] = req[h].doc
            /\ req'[h].iso = req[h].iso
  PROVE  IInv'
<1>1. /\ call' \in [Handlers -> CallOK] /\ \A g \in Handlers \ {h} : call'[g] = call[g]
      /\ req'[h] = Idle => call'[h] = NoCall
      /\ req'[h] # Idle => call'[h] = call[h]
  BY FollowsDoes
<1>2. StoreTypes' BY DEF IInv, StoreTypes, StoreOK, Alone
<1>3. GateTypes' /\ Tokens' BY <1>1 DEF IInv, GateTypes, Tokens
<1>4. ASSUME NEW g \in Handlers \ {h} PROVE Placed(g)' /\ Authentic(g)'
  <2>1. Placed(g) /\ Authentic(g) /\ req'[g] = req[g] /\ call'[g] = call[g] BY <1>1, <1>4 DEF IInv, Alone
  <2> QED BY <2>1 DEF Placed, Authentic, At, Req
<1>5. Placed(h) /\ Authentic(h) BY DEF IInv
<1>6. CASE req'[h] = Idle
  <2>1. Placed(h)' BY <1>1, <1>6, IdleReq DEF Placed, At, PutPcs
  <2>2. Authentic(h)' BY <1>1, <1>6, IdleReq, IdleCall DEF Authentic, At, IInv, StoreTypes
  <2> QED BY <1>2, <1>3, <1>4, <2>1, <2>2 DEF IInv
<1>7. CASE req'[h] # Idle
  <2>1. Placed(h)' BY <1>1, <1>5, <1>7 DEF Placed, At, Req, PutPcs
  <2>2. Authentic(h)' BY <1>1, <1>5, <1>7 DEF Authentic, At, Req
  <2> QED BY <1>2, <1>3, <1>4, <2>1, <2>2 DEF IInv
<1> QED BY <1>6, <1>7

(* A load moves its handler and fills the cache of its isolate. *)
LEMMA LoadStep ==
  ASSUME IInv, NEW h \in Handlers, Follows, UNCHANGED <<tokens, denied>>,
         LoadCached(h) \/ LoadPointer(h) \/ LoadVersion(h)
  PROVE  IInv'
<1>0. /\ StoreTypes /\ Stored /\ Placed(h) /\ req[h] \in ReqType
      /\ Req(h) \in Requests /\ req[h].iso \in Isolates
      /\ \A g \in Handlers : At(g, "cas") => slots[req[g].version] = req[g].doc
  BY DEF IInv, StoreTypes, Placed, At, LoadCached, LoadPointer, LoadVersion
<1>1. UNCHANGED <<now, slots, ptr>> /\ req[h].pc \in {"load", "version"}
  BY DEF LoadCached, LoadPointer, LoadVersion
<1>2. Stored' BY <1>0, <1>1 DEF Stored, Resolves
<1>3. ASSUME NEW policy \in Loaded, CacheAndServe(h, policy) PROVE IInv'
  <2>1. Alone(h) /\ req'[h].pc = "loaded" /\ req'[h].iso = req[h].iso BY <1>0, <1>3, LoadedByDoes DEF CacheAndServe
  <2>2. StoreOK'
    <3>1. [policy |-> policy, at |-> now] \in [policy : Loaded, at : Nat] BY <1>0 DEF StoreTypes
    <3> QED BY <1>0, <1>1, <1>3, <3>1 DEF CacheAndServe, StoreOK, StoreTypes
  <2> QED BY <1>0, <1>1, <1>2, <2>1, <2>2, StoreMoves DEF At, PutPcs
<1>4. ASSUME UNCHANGED cache PROVE StoreOK' BY <1>0, <1>1, <1>4 DEF StoreOK, StoreTypes
<1>5. CASE LoadCached(h)
  <2>1. Fresh(h) /\ LoadedBy(h, Cached(h).policy) /\ UNCHANGED cache BY <1>5 DEF LoadCached
  <2>2. Cached(h).policy \in Loaded BY <1>0, <2>1 DEF Cached, Fresh, StoreTypes
  <2>3. Alone(h) /\ req'[h].pc = "loaded" /\ req'[h].iso = req[h].iso BY <1>0, <2>1, <2>2, LoadedByDoes
  <2> QED BY <1>0, <1>1, <1>2, <1>4, <2>1, <2>3, StoreMoves DEF At, PutPcs
<1>6. CASE LoadPointer(h)
  <2>1. CASE ptr = EmptyPolicy
    <3>1. ptr \in Loaded /\ CacheAndServe(h, ptr) BY <1>0, <1>6, <2>1 DEF LoadPointer, StoreTypes
    <3> QED BY <1>3, <3>1
  <2>2. CASE ptr # EmptyPolicy
    <3>1. UNCHANGED cache /\ req' = [req EXCEPT ![h].pc = "version", ![h].seen = ptr, ![h].began = now]
      BY <1>6, <2>2 DEF LoadPointer
    <3>2. Alone(h) /\ req'[h].pc = "version" /\ req'[h].iso = req[h].iso BY <1>0, <3>1, LoadPointerDoes
    <3> QED BY <1>0, <1>1, <1>2, <1>4, <3>1, <3>2, StoreMoves DEF At, PutPcs
  <2> QED BY <2>1, <2>2
<1>7. CASE LoadVersion(h)
  <2>1. CASE Resolves(req[h].seen)
    <3>1. req[h].seen \in Loaded /\ CacheAndServe(h, req[h].seen)
      BY <1>0, <1>7, <2>1 DEF LoadVersion, ReqType
    <3> QED BY <1>3, <3>1
  <2>2. CASE ~ Resolves(req[h].seen)
    <3>1. UNCHANGED cache /\ End(h) BY <1>7, <2>2 DEF LoadVersion
    <3>2. Alone(h) /\ req'[h] = Idle BY <1>0, <3>1, EndDoes
    <3> QED BY <1>0, <1>1, <1>2, <1>4, <3>1, <3>2, StoreMoves DEF At
  <2> QED BY <2>1, <2>2
<1> QED BY <1>5, <1>6, <1>7

(* A put goes on with its document and version, or ends. *)
LEMMA PutStep ==
  ASSUME IInv, NEW h \in Handlers, Follows, UNCHANGED <<tokens, denied>>,
         PutRead(h) \/ PutSlot(h) \/ PutTaken(h) \/ PutCas(h)
  PROVE  IInv'
<1>1. /\ StoreTypes /\ Stored /\ req[h] \in ReqType /\ req[h].pc \in PutPcs /\ now' = now
      /\ req[h].doc \in Docs /\ req[h].version \in 1 .. MaxVersion
  <2>1. req[h].pc \in PutPcs /\ now' = now BY DEF PutRead, PutSlot, PutTaken, PutCas, PutPcs
  <2>2. StoreTypes /\ Stored /\ req[h] \in ReqType BY DEF IInv, StoreTypes
  <2>3. req[h].doc \in Docs /\ req[h].version > 0 BY <2>1 DEF IInv, Placed
  <2> QED BY <2>1, <2>2, <2>3, Constants DEF ReqType
<1>2. \A g \in Handlers : At(g, "cas") => slots[req[g].version] = req[g].doc /\ req[g].doc \in Docs
                                          /\ req[g].version \in 1 .. MaxVersion
  <2> SUFFICES ASSUME NEW g \in Handlers, At(g, "cas")
               PROVE  slots[req[g].version] = req[g].doc /\ req[g].doc \in Docs
                      /\ req[g].version \in 1 .. MaxVersion
    OBVIOUS
  <2>1. Placed(g) /\ req[g] \in ReqType BY DEF IInv, StoreTypes
  <2> QED BY <2>1, Constants DEF Placed, At, PutPcs, ReqType
<1>3. ASSUME UNCHANGED <<ptr, slots, cache>> PROVE StoreOK' /\ Stored'
  BY <1>1, <1>3 DEF StoreOK, StoreTypes, Stored, Resolves
<1>4. ASSUME End(h), UNCHANGED <<ptr, slots, cache>> PROVE IInv'
  <2>1. Alone(h) /\ req'[h] = Idle BY <1>1, <1>4, EndDoes
  <2> QED BY <1>1, <1>2, <1>3, <1>4, <2>1, StoreMoves DEF At, PutPcs
<1>5. ASSUME NEW pc \in {"cas", "taken", "stored"}, Goto(h, pc)
      PROVE  /\ Alone(h) /\ req'[h].pc = pc /\ req'[h].doc = req[h].doc /\ req'[h].version = req[h].version
             /\ req'[h].iso = req[h].iso
  BY <1>1, <1>5, GotoDoes DEF Pcs, PutPcs
<1>6. CASE PutRead(h)
  <2>1. CASE req[h].version = ptr.version + 1
    <3>1. UNCHANGED <<ptr, slots, cache>> /\ req' = [req EXCEPT ![h].pc = "slot", ![h].seen = ptr]
      BY <1>6, <2>1 DEF PutRead
    <3>2. /\ Alone(h) /\ req'[h].pc = "slot" /\ req'[h].doc = req[h].doc /\ req'[h].version = req[h].version
          /\ req'[h].iso = req[h].iso
      BY <1>1, <3>1, PutReadDoes
    <3> QED BY <1>1, <1>2, <1>3, <3>1, <3>2, StoreMoves DEF At, PutPcs
  <2>2. CASE req[h].version # ptr.version + 1 BY <1>4, <1>6, <2>2 DEF PutRead
  <2> QED BY <2>1, <2>2
<1>7. CASE PutSlot(h)
  <2>1. CASE slots[req[h].version] = None
    <3>1. /\ slots' = [slots EXCEPT ![req[h].version] = req[h].doc] /\ Goto(h, "cas")
          /\ UNCHANGED <<ptr, cache>>
      BY <1>7, <2>1 DEF PutSlot
    <3>2. /\ slots' \in [1 .. MaxVersion -> Docs \cup {None}]
          /\ slots'[req[h].version] = req[h].doc
          /\ \A v \in 1 .. MaxVersion : slots[v] # None => slots'[v] = slots[v]
      BY <1>1, <2>1, <3>1 DEF StoreTypes
    <3>3. StoreOK' BY <1>1, <3>1, <3>2 DEF StoreOK, StoreTypes
    <3>4. ptr.version \in 0 .. MaxVersion BY <1>1 DEF StoreTypes, Loaded
    <3>5. ptr.version # 0 => slots[ptr.version] # None /\ ptr.version \in 1 .. MaxVersion
      BY <1>1, <3>4, Constants DEF Stored, Resolves
    <3>6. Stored' BY <1>1, <3>1, <3>2, <3>5 DEF Stored, Resolves
    <3>7. \A g \in Handlers \ {h} : At(g, "cas") => slots'[req[g].version] = req[g].doc
      BY <1>2, <3>2, Constants
    <3> QED BY <1>1, <1>5, <3>1, <3>2, <3>3, <3>6, <3>7, StoreMoves DEF At, PutPcs
  <2>2. CASE slots[req[h].version] # None
    <3>1. Goto(h, "taken") /\ UNCHANGED <<ptr, slots, cache>> BY <1>7, <2>2 DEF PutSlot
    <3> QED BY <1>1, <1>2, <1>3, <1>5, <3>1, StoreMoves DEF At, PutPcs
  <2> QED BY <2>1, <2>2
<1>8. CASE PutTaken(h)
  <2>1. UNCHANGED <<ptr, slots, cache>> BY <1>8 DEF PutTaken
  <2>2. CASE slots[req[h].version] = req[h].doc
    <3>1. Goto(h, "cas") BY <1>8, <2>2 DEF PutTaken
    <3> QED BY <1>1, <1>2, <1>3, <1>5, <2>1, <2>2, <3>1, StoreMoves DEF At, PutPcs
  <2>3. CASE slots[req[h].version] # req[h].doc BY <1>4, <1>8, <2>1, <2>3 DEF PutTaken
  <2> QED BY <2>2, <2>3
<1>9. CASE PutCas(h)
  <2>1. CASE Unmoved(h)
    <3>1. /\ ptr' = [version |-> req[h].version, doc |-> req[h].doc]
          /\ cache' = [cache EXCEPT ![req[h].iso] = None] /\ Goto(h, "stored") /\ slots' = slots
      BY <1>9, <2>1 DEF PutCas
    <3>2. ptr' \in Loaded BY <1>1, <3>1 DEF Loaded
    <3>3. StoreOK' BY <1>1, <3>1, <3>2 DEF StoreOK, StoreTypes
    <3>4. slots[req[h].version] = req[h].doc BY <1>2, <1>9 DEF PutCas, At
    <3>5. Stored' BY <1>1, <3>1, <3>4 DEF Stored, Resolves
    <3> QED BY <1>1, <1>2, <1>5, <3>1, <3>3, <3>5, StoreMoves DEF At, PutPcs
  <2>2. CASE ~ Unmoved(h) BY <1>4, <1>9, <2>2 DEF PutCas
  <2> QED BY <2>1, <2>2
<1> QED BY <1>6, <1>7, <1>8, <1>9

(* A dropped request, or all of an evicted isolate, leaves what is stored. *)
LEMMA FaultStep ==
  ASSUME IInv, Follows, UNCHANGED <<now, slots, ptr, tokens, denied>>,
         cache' \in [Isolates -> {None} \cup [policy : Loaded, at : Nat]],
         req' \in [Handlers -> ReqType], \A h \in Handlers : req'[h] \in {req[h], Idle}
  PROVE  IInv'
<1>1. StoreTypes' /\ Stored' BY DEF IInv, StoreTypes, Stored, Resolves
<1>2. call' \in [Handlers -> CallOK] BY IdleCall DEF IInv, GateTypes, Follows
<1>3. GateTypes' /\ Tokens' BY <1>2 DEF IInv, GateTypes, Tokens
<1>4. ASSUME NEW h \in Handlers PROVE Placed(h)' /\ Authentic(h)'
  <2>1. Placed(h) /\ Authentic(h) /\ now \in Nat BY DEF IInv, StoreTypes
  <2>2. CASE req'[h] = Idle
    <3>1. call'[h] = NoCall BY <2>2 DEF Follows
    <3>2. Placed(h)' BY <2>2, <3>1, IdleReq DEF Placed, At, PutPcs
    <3>3. Authentic(h)' BY <2>1, <2>2, <3>1, IdleReq, IdleCall DEF Authentic, At
    <3> QED BY <3>2, <3>3
  <2>3. CASE req'[h] # Idle
    <3>1. req'[h] = req[h] /\ call'[h] = call[h] BY <2>3 DEF Follows
    <3> QED BY <2>1, <3>1 DEF Placed, Authentic, At, Req
  <2> QED BY <2>2, <2>3
<1> QED BY <1>1, <1>3, <1>4 DEF IInv

(* Time passes, but not longer than a KV read may take. *)
LEMMA TickStep ==
  ASSUME IInv, Follows, UNCHANGED <<tokens, denied>>, Tick, LookedUp
  PROVE  IInv'
<1>1. now \in Nat /\ now' = now + 1 /\ UNCHANGED <<slots, ptr, cache, req>> BY DEF Tick, IInv, StoreTypes
<1>2. call' = call
  <2>1. \A h \in Handlers : req[h] = Idle => call[h] = NoCall BY IdleReq DEF IInv, Placed, At
  <2> QED BY <1>1, <2>1 DEF Follows, IInv, GateTypes
<1>3. StoreTypes' /\ GateTypes' /\ Stored'
  BY <1>1, <1>2 DEF IInv, StoreTypes, GateTypes, Stored, Resolves
<1>4. Tokens'
  <2>1. \A j \in Jtis : tokens[j] # None => tokens[j].exp \in Nat BY DEF IInv, Tokens, Claimed
  <2> QED BY <1>1, <2>1, Constants DEF IInv, Tokens
<1>5. ASSUME NEW h \in Handlers PROVE Placed(h)' /\ Authentic(h)'
  <2>1. Placed(h) /\ Authentic(h) /\ call[h].looked \in Nat /\ req[h].began \in Nat
    BY DEF IInv, GateTypes, CallOK, StoreTypes, ReqType
  <2>2. Placed(h)' BY <1>1, <1>2, <2>1 DEF Placed, At, Req
  <2>3. At(h, "lookup") => now' <= req[h].began + LoadMax BY <1>1, <2>1, Constants DEF LookedUp
  <2>4. call[h].looked <= now' BY <1>1, <2>1 DEF Authentic
  <2>5. Authentic(h)' BY <1>1, <1>2, <2>1, <2>3, <2>4 DEF Authentic, At, Req
  <2> QED BY <2>2, <2>5
<1> QED BY <1>3, <1>4, <1>5 DEF IInv
-----------------------------------------------------------------------------
(* The store and the gate before the first request. *)
LEMMA InitOK == Init => IInv
<1> SUFFICES ASSUME Init PROVE IInv OBVIOUS
<1>1. /\ now = 0 /\ ptr \in FirstPolicies /\ req = [h \in Handlers |-> Idle]
      /\ slots = [v \in 1 .. MaxVersion |-> IF v = ptr.version THEN ptr.doc ELSE None]
      /\ cache \in [Isolates -> {None, [policy |-> ptr, at |-> 0]}]
      /\ call = [h \in Handlers |-> NoCall] /\ denied = [j \in Jtis |-> {}]
  BY DEF Init, StoreInit
<1>2. ptr \in Loaded /\ (ptr.version # 0 => ptr.doc \in Docs /\ ptr.version \in 1 .. MaxVersion)
  BY <1>1, StoreAssumption DEF Loaded, EmptyPolicy
<1>3. StoreTypes
  <2>1. slots \in [1 .. MaxVersion -> Docs \cup {None}] BY <1>1, <1>2
  <2>2. [policy |-> ptr, at |-> 0] \in [policy : Loaded, at : Nat] BY <1>2
  <2> QED BY <1>1, <1>2, <2>1, <2>2, IdleReq DEF StoreTypes
<1>4. Stored BY <1>1, <1>2 DEF Stored, Resolves
<1>5. /\ \A j \in Jtis : tokens[j] = None \/ (tokens[j] \in Claimed /\ tokens[j].jti = j /\ tokens[j].exp = TokenTTL)
      /\ tokens \in [Jtis -> {None} \cup Claimed]
  <2>1. CASE tokens = [j \in Jtis |-> None] BY <2>1
  <2>2. CASE tokens # [j \in Jtis |-> None]
    <3>1. PICK r \in Requests : tokens = [j \in Jtis |-> Claims(j, r)] BY <2>2 DEF Init
    <3>2. \A j \in Jtis : Claims(j, r) \in Claimed /\ Claims(j, r).jti = j /\ Claims(j, r).exp = TokenTTL
      BY <1>1, Constants DEF Claims, Claimed
    <3> QED BY <3>1, <3>2
  <2> QED BY <2>1, <2>2
<1>6. GateTypes
  <2>1. call \in [Handlers -> CallOK] BY <1>1, IdleCall
  <2>2. denied \in [Jtis -> SUBSET Nat] BY <1>1
  <2> QED BY <1>5, <2>1, <2>2 DEF GateTypes
<1>8. Tokens
  <2>1. TokenTTL <= now + TokenTTL BY <1>1, Constants
  <2>2. \A j \in Jtis : denied[j] = {} BY <1>1
  <2> QED BY <1>5, <2>1, <2>2 DEF Tokens
<1>7. \A h \in Handlers : Placed(h) /\ Authentic(h)
  BY <1>1, IdleReq, IdleCall DEF Placed, Authentic, At, PutPcs
<1> QED BY <1>3, <1>4, <1>6, <1>7, <1>8 DEF IInv

(* Each step keeps the invariant. *)
LEMMA Inductive == IInv /\ [Next]_vars => IInv'
<1> SUFFICES ASSUME IInv, [Next]_vars PROVE IInv' OBVIOUS
<1>1. CASE UNCHANGED vars \/ Drain
  <2>1. UNCHANGED <<now, slots, ptr, cache, req, past, call, tokens, denied>>
    BY <1>1 DEF vars, storeVars, gateVars, Drain
  <2> QED BY <2>1 DEF IInv, StoreTypes, GateTypes, Stored, Resolves, Tokens, Placed, Authentic, At, Req
<1>2. ASSUME NEW h \in Handlers, GateStep(h) PROVE IInv'
  BY <1>2, ArriveStep, VerifyStep, RouteStep, LookupStep, ServeStep, MintStep, DenyStep DEF GateStep
<1>3. ASSUME NEW h \in Handlers, WithStore(HandlerStep(h)) PROVE IInv'
  <2>1. Follows /\ UNCHANGED <<tokens, denied>> /\ HandlerStep(h) BY <1>3 DEF WithStore, Follows
  <2>2. CASE LoadCached(h) \/ LoadPointer(h) \/ LoadVersion(h) BY <2>1, <2>2, LoadStep
  <2>3. CASE PutRead(h) \/ PutSlot(h) \/ PutTaken(h) \/ PutCas(h) BY <2>1, <2>3, PutStep
  <2> QED BY <2>1, <2>2, <2>3 DEF HandlerStep
<1>4. CASE Fault
  <2>1. ASSUME NEW h \in Handlers, WithStore(Drop(h)) PROVE IInv'
    <3>1. Follows /\ Drop(h) /\ UNCHANGED <<now, slots, ptr, cache, tokens, denied>>
      BY <2>1 DEF WithStore, Follows, Drop
    <3>2. Alone(h) /\ req'[h] = Idle BY <3>1, EndDoes DEF Drop, IInv
    <3> QED BY <3>1, <3>2, FaultStep DEF Alone, IInv, StoreTypes
  <2>2. ASSUME NEW i \in Isolates, WithStore(Evict(i)) PROVE IInv'
    <3>1. Follows /\ UNCHANGED <<now, slots, ptr, tokens, denied>> /\ Evict(i)
      BY <2>2 DEF WithStore, Follows, Evict
    <3>2. cache' \in [Isolates -> {None} \cup [policy : Loaded, at : Nat]]
      BY <3>1 DEF Evict, IInv, StoreTypes
    <3>3. req' \in [Handlers -> ReqType] /\ \A h \in Handlers : req'[h] \in {req[h], Idle}
      BY <3>1, IdleReq DEF Evict, IInv, StoreTypes
    <3> QED BY <3>1, <3>2, <3>3, FaultStep
  <2> QED BY <1>4, <2>1, <2>2 DEF Fault
<1>5. CASE LookedUp /\ WithStore(Tick)
  BY <1>5, TickStep DEF WithStore, Follows
<1> QED BY <1>1, <1>2, <1>3, <1>4, <1>5 DEF Next, Running

(* What the request path relies on holds in every reachable state. *)
THEOREM IInvHolds == Spec => []IInv
<1> QED BY InitOK, Inductive, PTL DEF Spec

(* policy.ts:363-392: the pointer names a version that is there, with the
   hash it records, for any number of puts that race and die. *)
THEOREM PointerAlwaysResolves == Spec => []PointerResolves
<1>1. IInv => PointerResolves BY DEF IInv, Stored, PointerResolves, Resolves
<1> QED BY IInvHolds, <1>1, PTL
-----------------------------------------------------------------------------
(* An answer is given by a handler that is not at its deny-list lookup, and
   by a step that denies nothing. *)
LEMMA AnsweredBy ==
  ASSUME IInv, [Next]_vars
  PROVE  \/ answer' = {} /\ UNCHANGED learned
         \/ answer' = answer /\ denied' = denied /\ learned' = learned
         \/ /\ denied' = denied
            /\ \E h \in Handlers : /\ ~ At(h, "lookup")
                                   /\ \A l \in answer' : l.token = call[h].token /\ l.looked = call[h].looked
<1> DEFINE Told == \E h \in Handlers :
             /\ ~ At(h, "lookup")
             /\ \A l \in answer' : l.token = call[h].token /\ l.looked = call[h].looked
<1>1. CASE UNCHANGED vars BY <1>1 DEF vars, gateVars
<1>2. ASSUME NEW h \in Handlers, GateStep(h)
      PROVE  (answer' = {} /\ UNCHANGED learned) \/ (denied' = denied /\ Told)
  <2>1. CASE Arrive(h) \/ VerifyToken(h) \/ Route(h) \/ Mint(h) \/ Deny(h)
             \/ (\E hit \in BOOLEAN : LookupRevoked(h, hit)) \/ (\E b \in BOOLEAN : RefuseRead(h, b))
    BY <2>1 DEF Arrive, VerifyToken, Route, Mint, Deny, LookupRevoked, RefuseRead, NoAnswer
  <2>2. CASE ReadManifest(h) BY <2>2 DEF ReadManifest, Answer, NoAnswer, At
  <2>3. CASE AnswerRead(h) BY <2>3 DEF AnswerRead, Answer, At
  <2>4. CASE \E b \in BOOLEAN : Dispatch(h, b) BY <2>4 DEF Dispatch, Answer, NoAnswer, At
  <2>5. CASE Control(h) BY <2>5 DEF Control, Answer, At
  <2> QED BY <1>2, <2>1, <2>2, <2>3, <2>4, <2>5 DEF GateStep
<1>3. CASE Next /\ ~ \E h \in Handlers : GateStep(h)
  BY <1>3 DEF Next, Fault, Drain, WithStore, NoAnswer, Running
<1> QED BY <1>1, <1>2, <1>3

(* token.ts:99 and auth.ts:299: no answer under a token that was denied
   KvLag or more before its lookup. *)
THEOREM RevocationHolds == Spec => []RevokedStaysRevoked
<1>1. Init => RevokedStaysRevoked BY DEF Init, RevokedStaysRevoked
<1>2. IInv /\ RevokedStaysRevoked /\ [Next]_vars => RevokedStaysRevoked'
  <2> SUFFICES ASSUME IInv, RevokedStaysRevoked, [Next]_vars PROVE RevokedStaysRevoked' OBVIOUS
  <2>1. CASE answer' = {} BY <2>1 DEF RevokedStaysRevoked
  <2>2. CASE answer' = answer /\ denied' = denied BY <2>2 DEF RevokedStaysRevoked
  <2>3. ASSUME NEW h \in Handlers, ~ At(h, "lookup"), denied' = denied,
               \A l \in answer' : l.token = call[h].token /\ l.looked = call[h].looked
        PROVE  RevokedStaysRevoked'
    BY <2>3 DEF IInv, Authentic, RevokedStaysRevoked
  <2> QED BY <2>1, <2>2, <2>3, AnsweredBy
<1> QED BY IInvHolds, <1>1, <1>2, PTL DEF Spec

(* A handler's rows plan the keys it asked for. *)
LEMMA RowPlans ==
  ASSUME NEW h, NEW verb \in RotatePlanVerbs, NEW rows, RowsOf(h, verb) \subseteq rows,
         NEW id, id = Req(h).p.id, NEW k \in Req(h).keys
  PROVE  k \in Planned(rows, id)
<1> DEFINE row == [who |-> Req(h).p.id, verb |-> verb, key |-> k, jti |-> Jti(h)]
<1>1. row \in RowsOf(h, verb) BY DEF RowsOf
<1>2. row \in rows /\ row.who = id /\ row.verb = verb /\ row.key = k BY <1>1
<1> HIDE DEF row
<1> QED BY <1>2 DEF Planned

(* More rows plan more keys. *)
LEMMA PlanGrows ==
  ASSUME NEW rows, NEW more, rows \subseteq more, NEW id
  PROVE  Planned(rows, id) \subseteq Planned(more, id)
BY DEF Planned

(* Rows are never lost, and a batch leaves the queue for the ledger, or refused. *)
LEMMA LedgerStep ==
  ASSUME [Next]_vars
  PROVE  /\ ledger \subseteq ledger' /\ refused \subseteq refused'
         /\ \A rows \in queued : rows \in queued' \/ rows \subseteq refused' \/ rows \subseteq ledger'
<1> USE DEF outcomes
<1>1. CASE UNCHANGED vars BY <1>1 DEF vars, gateVars
<1>2. ASSUME NEW h \in Handlers, GateStep(h)
      PROVE  ledger \subseteq ledger' /\ refused \subseteq refused' /\ queued \subseteq queued'
  <2>1. CASE \/ Arrive(h) \/ VerifyToken(h) \/ Route(h) \/ ReadManifest(h) \/ AnswerRead(h) \/ Mint(h) \/ Deny(h)
             \/ Control(h) \/ (\E hit \in BOOLEAN : LookupRevoked(h, hit)) \/ (\E b \in BOOLEAN : RefuseRead(h, b))
    BY <2>1 DEF Arrive, VerifyToken, Route, ReadManifest, AnswerRead, Mint, Deny, Control, LookupRevoked,
                RefuseRead, Appended
  <2>2. CASE \E b \in BOOLEAN : Dispatch(h, b) BY <2>2 DEF Dispatch, Outcome, Appended
  <2> QED BY <1>2, <2>1, <2>2 DEF GateStep
<1>3. CASE Drain BY <1>3 DEF Drain, Appended
<1>4. CASE Next /\ ~ Drain /\ ~ \E h \in Handlers : GateStep(h)
  BY <1>4 DEF Next, Fault, WithStore, Running
<1> QED BY <1>1, <1>2, <1>3, <1>4

(* A caller is told of a key with its row in, or, if he wrote it, queued or
   refused. *)
LEMMA LearnedStep ==
  ASSUME IInv, [Next]_vars, NEW l \in learned' \ learned
  PROVE  InPlan(l)'
<1>1. CASE UNCHANGED vars BY <1>1 DEF vars, gateVars
<1>2. ASSUME NEW h \in Handlers, GateStep(h) PROVE InPlan(l)'
  <2>1. CASE \/ Arrive(h) \/ VerifyToken(h) \/ Route(h) \/ Mint(h) \/ Deny(h)
             \/ (\E hit \in BOOLEAN : LookupRevoked(h, hit)) \/ (\E b \in BOOLEAN : RefuseRead(h, b))
    BY <2>1 DEF Arrive, VerifyToken, Route, Mint, Deny, LookupRevoked, RefuseRead, NoAnswer
  <2>2. CASE ReadManifest(h) BY <2>2 DEF ReadManifest, Answer, NoAnswer
  <2>3. CASE AnswerRead(h)
    <3>1. RowsOf(h, "value.read") \subseteq ledger' /\ Answer(h, "read", Req(h).keys)
      BY <2>3 DEF AnswerRead, Appended
    <3>2. l.key \in Req(h).keys /\ l.who = Req(h).p.id BY <3>1 DEF Answer
    <3>3. "value.read" \in RotatePlanVerbs BY DEF RotatePlanVerbs
    <3> QED BY <3>1, <3>2, <3>3, RowPlans DEF InPlan, RotatePlan
  <2>4. CASE \E b \in BOOLEAN : Dispatch(h, b)
    <3>1. PICK b \in BOOLEAN : Dispatch(h, b) BY <2>4
    <3>2. b = TRUE /\ Answer(h, Req(h).kind, Req(h).keys) /\ At(h, "dispatch")
      BY <3>1 DEF Dispatch, NoAnswer
    <3>3. Req(h).kind \in {"write", "delete"} BY <3>2 DEF IInv, Placed, At
    <3>4. Req(h).kind = "write" BY <3>2, <3>3 DEF Answer
    <3>5. l.key \in Req(h).keys /\ l.who = Req(h).p.id /\ l.verb = "write" BY <3>2, <3>4 DEF Answer
    <3>6. Outcome(RowsOf(h, "key.set")) BY <3>1, <3>2, <3>4 DEF Dispatch
    <3>7. "key.set" \in RotatePlanVerbs BY DEF RotatePlanVerbs
    <3>8. RowsOf(h, "key.set") \subseteq ledger' \/ RowsOf(h, "key.set") \subseteq (UNION queued') \cup refused'
      BY <3>6 DEF Outcome, Appended
    <3>9. l.key \in Planned(ledger', l.who) \/ l.key \in Planned((UNION queued') \cup refused', l.who)
      BY <3>5, <3>7, <3>8, RowPlans
    <3> QED BY <3>5, <3>9 DEF InPlan, RotatePlan
  <2>5. CASE Control(h)
    <3>1. Req(h).kind \in {"policy", "revoke", "plan"} BY <2>5 DEF Control, IInv, Placed, At
    <3> QED BY <2>5, <3>1 DEF Control, Answer
  <2> QED BY <1>2, <2>1, <2>2, <2>3, <2>4, <2>5 DEF GateStep
<1>3. CASE Next /\ ~ \E h \in Handlers : GateStep(h)
  BY <1>3 DEF Next, Fault, Drain, WithStore, NoAnswer, Running
<1> QED BY <1>1, <1>2, <1>3

(* admin.ts:160: rotate-plan misses no key that the identity has read, and of those
   it has written only the ones whose rows are queued or were refused. *)
THEOREM RotatePlanIsComplete == Spec => []LearnedIsPlanned
<1>1. Init => LearnedIsPlanned BY DEF Init, LearnedIsPlanned
<1>2. IInv /\ LearnedIsPlanned /\ [Next]_vars => LearnedIsPlanned'
  <2> SUFFICES ASSUME IInv, LearnedIsPlanned, [Next]_vars, NEW l \in learned'
               PROVE  InPlan(l)'
    BY DEF LearnedIsPlanned
  <2>1. CASE l \in learned /\ l.key \in RotatePlan(l.who)
    BY <2>1, LedgerStep, PlanGrows DEF RotatePlan, InPlan
  <2>2. CASE l \in learned /\ l.key \notin RotatePlan(l.who)
    <3>1. l.verb = "write" /\ l.key \in Planned((UNION queued) \cup refused, l.who)
      BY <2>2 DEF LearnedIsPlanned, InPlan
    <3>2. PICK row \in (UNION queued) \cup refused :
            row.who = l.who /\ row.verb \in RotatePlanVerbs /\ row.key = l.key
      BY <3>1 DEF Planned
    <3>3. row \in ledger' \/ row \in (UNION queued') \cup refused' BY LedgerStep
    <3> QED BY <3>1, <3>2, <3>3 DEF InPlan, RotatePlan, Planned
  <2> QED BY <2>1, <2>2, LearnedStep
<1> QED BY IInvHolds, <1>1, <1>2, PTL DEF Spec
-----------------------------------------------------------------------------
(* What a step writes of a handler's record, and what it leaves. *)
LEMMA Fields ==
  ASSUME NEW q \in ReqType
  PROVE  /\ \A pc : LET r == [q EXCEPT !.pc = pc]
                    IN  /\ r.pc = pc /\ r.seen = q.seen /\ r.policy = q.policy /\ r.began = q.began
                        /\ r.version = q.version
         /\ \A pc, seen, began : LET r == [q EXCEPT !.pc = pc, !.seen = seen, !.began = began]
                    IN  /\ r.pc = pc /\ r.seen = seen /\ r.policy = q.policy /\ r.began = began
         /\ \A pc, seen : LET r == [q EXCEPT !.pc = pc, !.seen = seen]
                    IN  /\ r.pc = pc /\ r.seen = seen /\ r.policy = q.policy /\ r.began = q.began
                        /\ r.version = q.version
         /\ \A pc, policy, began : LET r == [q EXCEPT !.pc = pc, !.policy = policy, !.began = began]
                    IN  /\ r.pc = pc /\ r.policy = policy /\ r.began = began
         /\ \A pc, began : LET r == [q EXCEPT !.pc = pc, !.began = began]
                    IN  /\ r.pc = pc /\ r.policy = q.policy /\ r.began = began
         /\ \A pc, iso : LET r == [q EXCEPT !.iso = iso, !.pc = pc]
                    IN  /\ r.pc = pc /\ r.policy = q.policy /\ r.began = q.began
         /\ \A pc, policy, doc, version : LET r == [q EXCEPT !.pc = pc, !.policy = policy, !.doc = doc, !.version = version]
                    IN  /\ r.pc = pc /\ r.policy = policy /\ r.began = q.began
<1>1. DOMAIN q = {"pc", "iso", "seen", "policy", "began", "doc", "version"} BY DEF ReqType
<1> QED BY <1>1, Zenon

(* How long a decision may lag behind the policy: the age of a cache and the
   duration of a load. *)
Lag == CacheTTL + LoadMax

(* What was replaced is typed, was replaced by now, and is older than what is
   current. *)
PastOK ==
  \A q \in past : /\ q.policy \in Loaded /\ q.until \in Nat /\ q.until <= now
                  /\ q.policy.version < ptr.version

(* What an isolate has cached was current while the load that cached it was
   under way. *)
CachesOK ==
  \A i \in Isolates : cache[i] # None => /\ cache[i].at <= now
                                         /\ cache[i].policy \in Reigned(cache[i].at, LoadMax + 1)

(* What a handler has read was current not long before it noted the time, and
   a put replaces the pointer it has seen by its successor. *)
ReadOK(r) ==
  /\ r \in ReqType /\ r.began <= now
  /\ r.pc \in {"slot", "taken", "cas"} => r.version = r.seen.version + 1
  /\ r.pc = "version" => now <= r.began + LoadMax /\ r.seen \in Reigned(r.began, 1)
  /\ r.pc \in {"idle", "verify", "lookup", "load", "version"} => r.policy = None
  /\ r.pc = "loaded" => r.policy # None
  /\ r.policy # None => r.policy \in Reigned(r.began, Lag)

(* No handler and no isolate has a policy that did not reign lately. *)
ReignInv == PastOK /\ CachesOK /\ \A h \in Handlers : ReadOK(req[h])

(* What reigned less than l before t did so less than l2 before a later t2. *)
LEMMA ReignedGrows ==
  ASSUME PastOK, NEW t \in Nat, NEW l \in Nat, NEW t2 \in Nat, NEW l2 \in Nat, t <= t2, t2 + l <= t + l2
  PROVE  Reigned(t, l) \subseteq Reigned(t2, l2)
BY DEF PastOK, Reigned

(* What is current reigns. *)
LEMMA PtrReigns ==
  ASSUME PastOK, NEW lag
  PROVE  ptr \in Reigned(now, lag)
<1>1. \A q \in past : q.policy # ptr
  <2> SUFFICES ASSUME NEW q \in past, q.policy = ptr PROVE FALSE OBVIOUS
  <2>1. q.policy.version < q.policy.version /\ q.policy \in Loaded BY DEF PastOK
  <2>2. q.policy.version \in Int BY <2>1 DEF Loaded
  <2> QED BY <2>1, <2>2
<1>2. \A q \in past : q.until <= now BY DEF PastOK
<1> QED BY <1>1, <1>2 DEF Reigned

(* The pointer is left alone, or replaced by the next version. *)
Replaces ==
  \/ UNCHANGED <<ptr, past>>
  \/ /\ past' = past \cup {[policy |-> ptr, until |-> now]}
     /\ ptr'.version = ptr.version + 1

(* Replacing it takes nothing from what reigned before. *)
LEMMA ReignedStays ==
  ASSUME IInv, PastOK, Replaces, NEW t \in Nat, NEW lag \in Nat, t <= now, lag > 0
  PROVE  Reigned(t, lag) \subseteq Reigned(t, lag)'
<1>1. CASE UNCHANGED <<ptr, past>> BY <1>1 DEF Reigned
<1>2. CASE /\ past' = past \cup {[policy |-> ptr, until |-> now]}
           /\ ptr'.version = ptr.version + 1
  <2>0. now \in Nat /\ ptr.version \in Nat BY DEF IInv, StoreTypes, Loaded
  <2> SUFFICES ASSUME NEW p \in Reigned(t, lag) PROVE p \in Reigned(t, lag)' OBVIOUS
  <2>1. /\ p \in {ptr} \cup {q.policy : q \in past}
        /\ \A q \in past : q.policy = p => q.until + lag > t
        /\ \A q \in past : q.policy.version + 1 = p.version => q.until <= t
    BY DEF Reigned
  <2>2. p.version \in Nat /\ p.version <= ptr.version BY <2>0, <2>1 DEF PastOK, Loaded
  <2>3. p \in {q.policy : q \in past'}
    <3>1. CASE p = ptr
      <4>1. [policy |-> ptr, until |-> now] \in past' BY <1>2
      <4>2. [policy |-> ptr, until |-> now].policy = p BY <3>1
      <4> QED BY <4>1, <4>2
    <3>2. CASE p # ptr BY <1>2, <2>1, <3>2
    <3> QED BY <3>1, <3>2
  <2>4. ASSUME NEW q \in past'
        PROVE  /\ q.policy = p => q.until + lag > t
               /\ q.policy.version + 1 = p.version => q.until <= t
    <3>1. CASE q \in past BY <2>1, <3>1
    <3>2. CASE q = [policy |-> ptr, until |-> now] BY <2>0, <2>2, <3>2
    <3> QED BY <1>2, <3>1, <3>2
  <2> QED BY <2>3, <2>4 DEF Reigned
<1> QED BY <1>1, <1>2 DEF Replaces

(* And what was replaced is older than what is current then. *)
LEMMA PastStep ==
  ASSUME IInv, PastOK, Replaces, now' \in Nat, now <= now'
  PROVE  PastOK'
<1>0. now \in Nat /\ ptr.version \in Nat /\ ptr \in Loaded BY DEF IInv, StoreTypes, Loaded
<1>1. \A q \in past : q.policy.version \in Nat BY DEF PastOK, Loaded
<1>2. CASE UNCHANGED <<ptr, past>> BY <1>0, <1>2 DEF PastOK
<1>3. CASE /\ past' = past \cup {[policy |-> ptr, until |-> now]}
           /\ ptr'.version = ptr.version + 1
  BY <1>0, <1>1, <1>3 DEF PastOK
<1> QED BY <1>2, <1>3 DEF Replaces

(* Time has not gone back, and what reigned until now still does. *)
Onwards ==
  /\ now' \in Nat /\ now <= now'
  /\ \A t \in Nat, lag \in Nat : t <= now /\ lag > 0 => Reigned(t, lag) \subseteq Reigned(t, lag)'

(* The lag is positive, as the cache keeps what it is given. *)
LEMMA LagPositive == Lag \in Nat /\ Lag > 0
BY Constants DEF Lag

(* What was read stays as recent as it was. *)
LEMMA ReadKept ==
  ASSUME IInv, NEW r, ReadOK(r), Onwards, r.pc = "version" => now' <= r.began + LoadMax
  PROVE  ReadOK(r)'
<1>1. r.began \in Nat /\ r.began <= now BY DEF ReadOK, ReqType
<1>2. Reigned(r.began, Lag) \subseteq Reigned(r.began, Lag)' /\ Reigned(r.began, 1) \subseteq Reigned(r.began, 1)'
  BY <1>1, LagPositive DEF Onwards
<1>3. now \in Nat /\ now' \in Nat /\ now <= now' BY DEF Onwards, IInv, StoreTypes
<1> QED BY <1>1, <1>2, <1>3 DEF ReadOK

(* The invariant, from what a step leaves in the handlers and the caches. *)
LEMMA ReignNext ==
  ASSUME IInv, ReignInv, Replaces, now' \in Nat, now <= now',
         \A h \in Handlers : ReadOK(req'[h]) /\ (req'[h].pc = "version" => now' <= req'[h].began + LoadMax),
         \A i \in Isolates : \/ cache'[i] \in {cache[i], None}
                             \/ cache'[i].at = now /\ cache'[i].policy \in Reigned(now, LoadMax + 1)
  PROVE  ReignInv'
<1>0. now \in Nat /\ LoadMax + 1 \in Nat /\ LoadMax + 1 > 0 BY Constants DEF IInv, StoreTypes
<1>1. Onwards BY <1>0, ReignedStays DEF Onwards, ReignInv
<1>2. PastOK' BY PastStep DEF ReignInv
<1>3. ASSUME NEW h \in Handlers PROVE ReadOK(req[h])'
  <2>1. PICK r : r = req'[h] OBVIOUS
  <2>2. ReadOK(r)' BY <1>1, <2>1, ReadKept
  <2> QED BY <2>1, <2>2 DEF ReadOK, Reigned
<1>4. CachesOK'
  <2> SUFFICES ASSUME NEW i \in Isolates, cache'[i] # None
               PROVE  cache'[i].at <= now' /\ (cache[i].policy \in Reigned(cache[i].at, LoadMax + 1))'
    BY DEF CachesOK
  <2>1. PICK c : c = cache'[i] OBVIOUS
  <2>2. c.at \in Nat /\ c.at <= now /\ c.policy \in Reigned(c.at, LoadMax + 1)
    <3>1. CASE c = cache[i] BY <2>1, <3>1 DEF ReignInv, CachesOK, IInv, StoreTypes
    <3>2. CASE c # cache[i] BY <1>0, <2>1, <3>2
    <3> QED BY <3>1, <3>2
  <2>3. c.policy \in Reigned(c.at, LoadMax + 1)' BY <1>0, <1>1, <2>2 DEF Onwards
  <2>4. c.at <= now' BY <1>0, <2>2
  <2> QED BY <2>1, <2>3, <2>4 DEF Reigned
<1> QED BY <1>2, <1>3, <1>4 DEF ReignInv

(* A handler at rest has read nothing. *)
LEMMA IdleRead ==
  ASSUME IInv
  PROVE  ReadOK(Idle)
<1>1. Idle.began = 0 /\ Idle.pc = "idle" /\ Idle.policy = None BY DEF Idle
<1>2. now \in Nat BY DEF IInv, StoreTypes
<1> QED BY <1>1, <1>2, IdleReq DEF ReadOK

(* A step of one handler that moves neither the pointer nor the clock. *)
LEMMA ReignMoves ==
  ASSUME IInv, ReignInv, NEW h \in Handlers, Alone(h), now' = now, Replaces, ReadOK(req'[h]),
         \A i \in Isolates : \/ cache'[i] \in {cache[i], None}
                             \/ cache'[i].at = now /\ cache'[i].policy \in Reigned(now, LoadMax + 1)
  PROVE  ReignInv'
<1>1. now \in Nat /\ now <= now BY DEF IInv, StoreTypes
<1>2. ASSUME NEW g \in Handlers PROVE ReadOK(req'[g])
  <2>1. ReadOK(req[g]) BY DEF ReignInv
  <2> QED BY <2>1 DEF Alone
<1>3. ASSUME NEW g \in Handlers, req'[g].pc = "version" PROVE now' <= req'[g].began + LoadMax
  BY <1>2, <1>3 DEF ReadOK
<1> QED BY <1>1, <1>2, <1>3, ReignNext

(* A handler that ends, or goes on with what it has. *)
LEMMA ReadGoes ==
  ASSUME IInv, ReignInv, NEW h \in Handlers, NEW pc \in Pcs, Goto(h, pc),
         pc \notin {"slot", "version", "idle", "verify", "loaded"},
         pc \in {"taken", "cas"} => req[h].pc \in {"slot", "taken"},
         pc \in {"load", "lookup"} => req[h].policy = None
  PROVE  ReadOK(req'[h]) /\ Alone(h)
<1>1. ReadOK(req[h]) /\ StoreTypes BY DEF ReignInv, IInv
<1>2. Alone(h) BY <1>1, GotoDoes
<1>3. req'[h] = [req[h] EXCEPT !.pc = pc] BY <1>1 DEF Goto, StoreTypes
<1>4. req[h] \in ReqType BY <1>1 DEF ReadOK
<1>5. req'[h] \in ReqType BY <1>2 DEF Alone
<1>6. /\ req'[h].pc = pc /\ req'[h].seen = req[h].seen /\ req'[h].policy = req[h].policy
      /\ req'[h].began = req[h].began /\ req'[h].version = req[h].version
  BY <1>3, <1>4, Fields
<1> QED BY <1>1, <1>2, <1>5, <1>6 DEF ReadOK

(* So does a handler that ends. *)
LEMMA ReadEnds ==
  ASSUME IInv, NEW h \in Handlers, End(h)
  PROVE  ReadOK(req'[h]) /\ Alone(h)
BY EndDoes, IdleRead DEF IInv

(* Loads. *)
LEMMA ReignLoad ==
  ASSUME IInv, ReignInv, NEW h \in Handlers, LoadCached(h) \/ LoadPointer(h) \/ LoadVersion(h)
  PROVE  ReignInv'
<1>0. /\ StoreTypes /\ req \in [Handlers -> ReqType] /\ req[h] \in ReqType /\ ReadOK(req[h]) /\ PastOK
      /\ req[h].iso \in Isolates /\ now \in Nat
      /\ cache \in [Isolates -> {None} \cup [policy : Loaded, at : Nat]]
  BY DEF IInv, StoreTypes, ReignInv, Placed, At, LoadCached, LoadPointer, LoadVersion
<1>1. UNCHANGED <<now, ptr, past>> BY DEF LoadCached, LoadPointer, LoadVersion
<1>2. Replaces BY <1>1 DEF Replaces
<1>3. ASSUME NEW p \in Loaded, LoadedBy(h, p), p \in Reigned(now, Lag) PROVE Alone(h) /\ ReadOK(req'[h])
  <2>1. Alone(h) /\ req'[h] \in ReqType BY <1>0, <1>3, LoadedByDoes DEF Alone
  <2>2. req'[h] = [req[h] EXCEPT !.pc = "loaded", !.policy = p, !.began = now] BY <1>0, <1>3 DEF LoadedBy
  <2>3. req'[h].pc = "loaded" /\ req'[h].policy = p /\ req'[h].began = now BY <1>0, <2>2, Fields
  <2>4. p # None BY Constants
  <2>5. PICK r : r = req'[h] OBVIOUS
  <2>6. r \in ReqType /\ r.pc = "loaded" /\ r.policy = p /\ r.began = now BY <2>1, <2>3, <2>5
  <2>7. ReadOK(r) BY <1>0, <1>3, <2>4, <2>6 DEF ReadOK
  <2> QED BY <2>1, <2>5, <2>7
<1>4. ASSUME NEW p \in Loaded, CacheAndServe(h, p), p \in Reigned(now, LoadMax + 1) PROVE ReignInv'
  <2>1. p \in Reigned(now, Lag)
    <3>1. Lag \in Nat /\ LoadMax + 1 \in Nat /\ LoadMax + 1 <= Lag BY Constants DEF Lag
    <3>2. Reigned(now, LoadMax + 1) \subseteq Reigned(now, Lag) BY <1>0, <3>1, ReignedGrows
    <3> QED BY <1>4, <3>2
  <2>2. Alone(h) /\ ReadOK(req'[h]) BY <1>3, <1>4, <2>1 DEF CacheAndServe
  <2>3. \A i \in Isolates : \/ cache'[i] = cache[i]
                             \/ cache'[i] = [policy |-> p, at |-> now]
    BY <1>0, <1>4 DEF CacheAndServe
  <2>4. [policy |-> p, at |-> now].at = now /\ [policy |-> p, at |-> now].policy \in Reigned(now, LoadMax + 1)
    BY <1>4
  <2> QED BY <1>1, <1>2, <2>2, <2>3, <2>4, ReignMoves
<1>5. CASE LoadCached(h)
  <2> DEFINE c == Cached(h)
  <2>1. c # None /\ now - c.at < CacheTTL /\ LoadedBy(h, c.policy) /\ UNCHANGED cache
    BY <1>5 DEF LoadCached, Fresh
  <2>2. c.policy \in Loaded /\ c.at \in Nat /\ c.at <= now /\ c.policy \in Reigned(c.at, LoadMax + 1)
    BY <1>0, <2>1 DEF Cached, ReignInv, CachesOK
  <2>3. c.policy \in Reigned(now, Lag)
    <3>1. Lag \in Nat /\ LoadMax + 1 \in Nat /\ now + (LoadMax + 1) <= c.at + Lag
      <4> HIDE DEF c
      <4> QED BY <1>0, <2>1, <2>2, Constants DEF Lag
    <3>2. Reigned(c.at, LoadMax + 1) \subseteq Reigned(now, Lag)
      <4> HIDE DEF c
      <4> QED BY <1>0, <2>2, <3>1, ReignedGrows
    <3> QED BY <2>2, <3>2
  <2> HIDE DEF c
  <2>4. Alone(h) /\ ReadOK(req'[h]) BY <1>3, <2>1, <2>2, <2>3
  <2> QED BY <1>1, <1>2, <2>1, <2>4, ReignMoves
<1>6. CASE LoadPointer(h)
  <2>1. ptr \in Reigned(now, LoadMax + 1) /\ ptr \in Reigned(now, 1) /\ ptr \in Loaded
    BY <1>0, PtrReigns DEF StoreTypes
  <2>2. CASE ptr = EmptyPolicy
    <3>1. CacheAndServe(h, ptr) BY <1>6, <2>2 DEF LoadPointer
    <3> QED BY <1>4, <2>1, <3>1
  <2>3. CASE ptr # EmptyPolicy
    <3>1. UNCHANGED cache /\ req' = [req EXCEPT ![h].pc = "version", ![h].seen = ptr, ![h].began = now]
      BY <1>6, <2>3 DEF LoadPointer
    <3>2. Alone(h) BY <1>0, <3>1, LoadPointerDoes
    <3>3. req'[h] = [req[h] EXCEPT !.pc = "version", !.seen = ptr, !.began = now] BY <1>0, <3>1
    <3>4. PICK r : r = req'[h] OBVIOUS
    <3>5. r.pc = "version" /\ r.seen = ptr /\ r.began = now /\ r.policy = req[h].policy
      BY <1>0, <3>3, <3>4, Fields
    <3>6. r \in ReqType BY <3>2, <3>4 DEF Alone
    <3>7. req[h].policy = None BY <1>0, <1>6 DEF LoadPointer, ReadOK
    <3>8. ReadOK(r) BY <1>0, <2>1, <3>5, <3>6, <3>7, Constants DEF ReadOK
    <3> QED BY <1>1, <1>2, <3>1, <3>2, <3>4, <3>8, ReignMoves
  <2> QED BY <2>2, <2>3
<1>7. CASE LoadVersion(h)
  <2>1. CASE Resolves(req[h].seen)
    <3>1. CacheAndServe(h, req[h].seen) /\ At(h, "version") BY <1>7, <2>1 DEF LoadVersion, At
    <3>2. /\ req[h].began \in Nat /\ req[h].began <= now /\ now <= req[h].began + LoadMax
          /\ req[h].seen \in Loaded /\ req[h].seen \in Reigned(req[h].began, 1)
      BY <1>0, <3>1 DEF ReadOK, ReqType, At
    <3>3. Reigned(req[h].began, 1) \subseteq Reigned(now, LoadMax + 1)
      <4>1. LoadMax + 1 \in Nat /\ now + 1 <= req[h].began + (LoadMax + 1) BY <1>0, <3>2, Constants
      <4> QED BY <1>0, <3>2, <4>1, ReignedGrows
    <3> QED BY <1>4, <3>1, <3>2, <3>3
  <2>2. CASE ~ Resolves(req[h].seen)
    <3>1. UNCHANGED cache /\ End(h) BY <1>7, <2>2 DEF LoadVersion
    <3> QED BY <1>1, <1>2, <3>1, ReadEnds, ReignMoves
  <2> QED BY <2>1, <2>2
<1> QED BY <1>5, <1>6, <1>7

(* Puts: what replaces the pointer is its successor. *)
LEMMA ReignPut ==
  ASSUME IInv, ReignInv, NEW h \in Handlers, PutRead(h) \/ PutSlot(h) \/ PutTaken(h) \/ PutCas(h)
  PROVE  ReignInv'
<1>0. /\ StoreTypes /\ req \in [Handlers -> ReqType] /\ req[h] \in ReqType /\ ReadOK(req[h])
      /\ now' = now /\ req[h].iso \in Isolates
      /\ cache \in [Isolates -> {None} \cup [policy : Loaded, at : Nat]]
  BY DEF IInv, StoreTypes, ReignInv, Placed, At, PutRead, PutSlot, PutTaken, PutCas
<1>1. ASSUME UNCHANGED <<ptr, past, cache>>, Alone(h), ReadOK(req'[h]) PROVE ReignInv'
  BY <1>0, <1>1, ReignMoves DEF Replaces
<1>2. ASSUME NEW pc \in {"cas", "taken"}, Goto(h, pc), req[h].pc \in {"slot", "taken"}
      PROVE  Alone(h) /\ ReadOK(req'[h])
  BY <1>2, ReadGoes DEF Pcs, PutPcs
<1>3. CASE PutRead(h)
  <2>1. CASE req[h].version = ptr.version + 1
    <3>1. UNCHANGED <<ptr, past, cache>> /\ req' = [req EXCEPT ![h].pc = "slot", ![h].seen = ptr]
      BY <1>3, <2>1 DEF PutRead
    <3>2. Alone(h) BY <1>0, <3>1, PutReadDoes
    <3>3. req'[h] = [req[h] EXCEPT !.pc = "slot", !.seen = ptr] BY <1>0, <3>1
    <3>4. PICK r : r = req'[h] OBVIOUS
    <3>5. /\ r.pc = "slot" /\ r.seen = ptr /\ r.began = req[h].began /\ r.policy = req[h].policy
          /\ r.version = req[h].version
      BY <1>0, <3>3, <3>4, Fields
    <3>6. r \in ReqType BY <3>2, <3>4 DEF Alone
    <3>7. ReadOK(r) BY <1>0, <2>1, <3>5, <3>6 DEF ReadOK
    <3> QED BY <1>1, <3>1, <3>2, <3>4, <3>7
  <2>2. CASE req[h].version # ptr.version + 1
    BY <1>1, <1>3, <2>2, ReadEnds DEF PutRead
  <2> QED BY <2>1, <2>2
<1>4. CASE PutSlot(h)
  <2>1. UNCHANGED <<ptr, past, cache>> /\ req[h].pc = "slot" /\ (Goto(h, "cas") \/ Goto(h, "taken"))
    BY <1>4 DEF PutSlot
  <2> QED BY <1>1, <1>2, <2>1
<1>5. CASE PutTaken(h)
  <2>1. UNCHANGED <<ptr, past, cache>> /\ req[h].pc = "taken" /\ (Goto(h, "cas") \/ End(h))
    BY <1>5 DEF PutTaken
  <2> QED BY <1>1, <1>2, <2>1, ReadEnds
<1>6. CASE PutCas(h)
  <2>1. CASE Unmoved(h)
    <3>1. /\ ptr' = [version |-> req[h].version, doc |-> req[h].doc]
          /\ past' = past \cup {[policy |-> ptr, until |-> now]}
          /\ cache' = [cache EXCEPT ![req[h].iso] = None] /\ Goto(h, "stored")
          /\ ptr = req[h].seen /\ req[h].pc = "cas"
      BY <1>6, <2>1 DEF PutCas, Unmoved
    <3>2. ptr'.version = ptr.version + 1 BY <1>0, <3>1 DEF ReadOK
    <3>3. Replaces BY <3>1, <3>2 DEF Replaces
    <3>4. Alone(h) /\ ReadOK(req'[h]) BY <3>1, ReadGoes DEF Pcs, PutPcs
    <3>5. \A i \in Isolates : cache'[i] \in {cache[i], None} BY <1>0, <3>1
    <3> QED BY <1>0, <3>3, <3>4, <3>5, ReignMoves
  <2>2. CASE ~ Unmoved(h)
    BY <1>1, <1>6, <2>2, ReadEnds DEF PutCas
  <2> QED BY <2>1, <2>2
<1> QED BY <1>3, <1>4, <1>5, <1>6

(* The gate leaves the store alone. *)
LEMMA ReignGate ==
  ASSUME IInv, ReignInv, NEW h \in Handlers, GateStep(h)
  PROVE  ReignInv' /\ UNCHANGED <<ptr, past, now>> /\ Alone(h)
<1>0. /\ StoreTypes /\ req \in [Handlers -> ReqType] /\ req[h] \in ReqType /\ ReadOK(req[h]) /\ Placed(h)
      /\ now \in Nat
  BY DEF IInv, StoreTypes, ReignInv
<1>1. UNCHANGED <<now, ptr, past, cache>>
  BY DEF GateStep, Arrive, VerifyToken, Route, LookupRevoked, ReadManifest, AnswerRead, Mint, Deny, Control,
         RefuseRead, Dispatch
<1>2. SUFFICES Alone(h) /\ ReadOK(req'[h]) BY <1>1, ReignMoves DEF Replaces
<1>3. ASSUME Close(h) PROVE Alone(h) /\ ReadOK(req'[h]) BY <1>3, ReadEnds DEF Close
<1>4. CASE Arrive(h)
  <2>1. PICK r \in Requests, i \in Isolates :
          req' = [req EXCEPT ![h].iso = i, ![h].pc = IF r.bearer = None THEN "load" ELSE "verify"]
    BY <1>4 DEF Arrive
  <2> DEFINE pc == IF r.bearer = None THEN "load" ELSE "verify"
  <2>2. pc \in {"load", "verify"} /\ pc \in Pcs BY DEF Pcs
  <2>3. req' = [req EXCEPT ![h].iso = i, ![h].pc = pc] BY <2>1
  <2> HIDE DEF pc
  <2>4. Alone(h) BY <1>0, <2>2, <2>3, ArriveDoes
  <2>5. req'[h] = [req[h] EXCEPT !.iso = i, !.pc = pc] BY <1>0, <2>3
  <2>6. PICK q : q = req'[h] OBVIOUS
  <2>7. q \in ReqType /\ q.pc = pc /\ q.policy = req[h].policy /\ q.began = req[h].began
    BY <1>0, <2>4, <2>5, <2>6, Fields DEF Alone
  <2>8. req[h].policy = None BY <1>0, <1>4 DEF Arrive, At, ReadOK
  <2>9. ReadOK(q) BY <1>0, <2>2, <2>7, <2>8 DEF ReadOK
  <2> QED BY <2>4, <2>6, <2>9
<1>5. CASE VerifyToken(h)
  <2>1. At(h, "verify") /\ (Close(h) \/ req' = [req EXCEPT ![h].pc = "lookup", ![h].began = now])
    BY <1>5 DEF VerifyToken
  <2>2. ASSUME req' = [req EXCEPT ![h].pc = "lookup", ![h].began = now] PROVE Alone(h) /\ ReadOK(req'[h])
    <3>1. Alone(h) BY <1>0, <2>2, VerifyDoes
    <3>2. req'[h] = [req[h] EXCEPT !.pc = "lookup", !.began = now] BY <1>0, <2>2
    <3>3. PICK q : q = req'[h] OBVIOUS
    <3>4. q \in ReqType /\ q.pc = "lookup" /\ q.policy = req[h].policy /\ q.began = now
      BY <1>0, <3>1, <3>2, <3>3, Fields DEF Alone
    <3>5. req[h].policy = None BY <1>0, <2>1 DEF At, ReadOK
    <3>6. ReadOK(q) BY <1>0, <3>4, <3>5 DEF ReadOK
    <3> QED BY <3>1, <3>3, <3>6
  <2> QED BY <1>3, <2>1, <2>2
<1>6. CASE \E hit \in BOOLEAN : LookupRevoked(h, hit)
  <2>1. At(h, "lookup") /\ (Close(h) \/ Goto(h, "load")) BY <1>6 DEF LookupRevoked
  <2>2. req[h].policy = None BY <1>0, <2>1 DEF At, ReadOK
  <2>3. ASSUME Goto(h, "load") PROVE Alone(h) /\ ReadOK(req'[h]) BY <2>2, <2>3, ReadGoes DEF Pcs
  <2> QED BY <1>3, <2>1, <2>3
<1>7. CASE Route(h)
  <2>1. CASE DataAllowed(h) \/ MintAllowed(h) \/ AdminAllowed(h)
    <3>1. PICK to \in Routes :
            req' = [req EXCEPT ![h].pc = to.to,
                               ![h].policy = IF Req(h).kind = "list" THEN @ ELSE None,
                               ![h].doc = Req(h).doc, ![h].version = Req(h).version]
      BY <1>7, <2>1 DEF Route
    <3> DEFINE policy == IF Req(h).kind = "list" THEN req[h].policy ELSE None
               pc == to.to
    <3>2. pc \in {"manifest", "dispatch", "mint", "put", "deny", "control"} BY DEF Routes
    <3>3. policy \in {req[h].policy, None} OBVIOUS
    <3>4. req' = [req EXCEPT ![h].pc = pc, ![h].policy = policy, ![h].doc = Req(h).doc, ![h].version = Req(h).version]
      BY <1>0, <3>1 DEF ReqType
    <3> HIDE DEF pc, policy
    <3>5. req'[h] = [req[h] EXCEPT !.pc = pc, !.policy = policy, !.doc = Req(h).doc, !.version = Req(h).version]
      BY <1>0, <3>4
    <3>6. Alone(h)
      <4>1. IInv' BY <1>7, RouteStep
      <4>2. \A g \in Handlers \ {h} : req'[g] = req[g] BY <1>0, <3>4
      <4> QED BY <4>1, <4>2 DEF IInv, StoreTypes, Alone
    <3>7. PICK q : q = req'[h] OBVIOUS
    <3>8. q \in ReqType /\ q.pc = pc /\ q.policy = policy /\ q.began = req[h].began
      BY <1>0, <3>5, <3>6, <3>7, Fields DEF Alone
    <3>9. ReadOK(q) BY <1>0, <3>2, <3>3, <3>8 DEF ReadOK
    <3> QED BY <3>6, <3>7, <3>9
  <2>2. CASE ~ (DataAllowed(h) \/ MintAllowed(h) \/ AdminAllowed(h))
    BY <1>3, <1>7, <2>2 DEF Route
  <2> QED BY <2>1, <2>2
<1>8. CASE ReadManifest(h)
  <2>1. At(h, "manifest") /\ (Close(h) \/ Goto(h, "audit")) BY <1>8 DEF ReadManifest
  <2>2. ASSUME Goto(h, "audit") PROVE Alone(h) /\ ReadOK(req'[h]) BY <2>2, ReadGoes DEF Pcs
  <2> QED BY <1>3, <2>1, <2>2
<1>9. CASE Deny(h)
  <2>1. Goto(h, "control") BY <1>9 DEF Deny
  <2> QED BY <2>1, ReadGoes DEF Pcs
<1>10. CASE AnswerRead(h) \/ Mint(h) \/ Control(h) \/ \E b \in BOOLEAN : RefuseRead(h, b) \/ Dispatch(h, b)
  BY <1>3, <1>10 DEF AnswerRead, Mint, Control, RefuseRead, Dispatch
<1> QED BY <1>4, <1>5, <1>6, <1>7, <1>8, <1>9, <1>10 DEF GateStep

(* Each step keeps what was read, and what is cached, recent. *)
LEMMA ReignStep ==
  ASSUME IInv, ReignInv, [Next]_vars
  PROVE  ReignInv'
<1>0. now \in Nat /\ StoreTypes BY DEF IInv, StoreTypes
<1>1. CASE UNCHANGED vars \/ Drain
  BY <1>1 DEF vars, storeVars, Drain, ReignInv, PastOK, CachesOK, ReadOK, Reigned
<1>2. ASSUME NEW h \in Handlers, GateStep(h) PROVE ReignInv' BY <1>2, ReignGate
<1>3. ASSUME NEW h \in Handlers, WithStore(HandlerStep(h)) PROVE ReignInv'
  BY <1>3, ReignLoad, ReignPut DEF WithStore, HandlerStep
<1>4. ASSUME NEW h \in Handlers, WithStore(Drop(h)) PROVE ReignInv'
  <2>1. End(h) /\ UNCHANGED <<now, ptr, cache, past>> BY <1>4 DEF WithStore, Drop
  <2> QED BY <2>1, ReadEnds, ReignMoves DEF Replaces
<1>5. ASSUME NEW i \in Isolates, WithStore(Evict(i)) PROVE ReignInv'
  <2>1. /\ cache' = [cache EXCEPT ![i] = None] /\ UNCHANGED <<now, ptr, past>>
        /\ req' = [h \in Handlers |-> IF req[h].iso = i THEN Idle ELSE req[h]]
    BY <1>5 DEF WithStore, Evict
  <2>2. ASSUME NEW h \in Handlers
        PROVE  ReadOK(req'[h]) /\ (req'[h].pc = "version" => now' <= req'[h].began + LoadMax)
    <3>1. ReadOK(req[h]) /\ ReadOK(Idle) BY IdleRead DEF ReignInv
    <3>2. req'[h] = Idle \/ req'[h] = req[h] BY <2>1
    <3>3. ReadOK(req'[h]) BY <3>1, <3>2
    <3> QED BY <2>1, <3>3 DEF ReadOK
  <2>3. \A j \in Isolates : cache'[j] \in {cache[j], None} BY <1>0, <2>1 DEF StoreTypes
  <2> QED BY <1>0, <2>1, <2>2, <2>3, ReignNext DEF Replaces
<1>6. ASSUME WithStore(Tick) PROVE ReignInv'
  <2>1. /\ now' = now + 1 /\ UNCHANGED <<ptr, cache, req, past>>
        /\ \A h \in Handlers : req[h].pc = "version" => now - req[h].began < LoadMax
    BY <1>6 DEF WithStore, Tick
  <2>2. ASSUME NEW h \in Handlers
        PROVE  ReadOK(req'[h]) /\ (req'[h].pc = "version" => now' <= req'[h].began + LoadMax)
    <3>1. ReadOK(req[h]) /\ req[h].began \in Nat /\ req'[h] = req[h] BY <2>1 DEF ReignInv, ReadOK, ReqType
    <3> QED BY <1>0, <2>1, <3>1, Constants
  <2> QED BY <1>0, <2>1, <2>2, ReignNext DEF Replaces
<1> QED BY <1>1, <1>2, <1>3, <1>4, <1>5, <1>6 DEF Next, Fault, Running

(* A cache may be filled before the first request, with what is current. *)
LEMMA ReignInit == Init => ReignInv
<1> SUFFICES ASSUME Init PROVE ReignInv OBVIOUS
<1>0. IInv BY InitOK
<1>1. /\ now = 0 /\ past = {} /\ req = [h \in Handlers |-> Idle]
      /\ cache \in [Isolates -> {None, [policy |-> ptr, at |-> 0]}]
  BY DEF Init, StoreInit
<1>2. PastOK BY <1>1 DEF PastOK
<1>3. CachesOK
  <2>1. ptr \in Reigned(0, LoadMax + 1) BY <1>1, <1>2, PtrReigns
  <2> QED BY <1>1, <2>1 DEF CachesOK
<1>4. \A h \in Handlers : ReadOK(req[h]) BY <1>0, <1>1, IdleRead
<1> QED BY <1>2, <1>3, <1>4 DEF ReignInv

(* policy.ts:318-351: whatever a handler or an isolate has of the policy was
   current not long before it was read, however puts and loads interleave. *)
THEOREM ReignInvHolds == Spec => []ReignInv
<1>1. IInv /\ ReignInv /\ [Next]_vars => ReignInv' BY ReignStep
<1> QED BY IInvHolds, ReignInit, <1>1, PTL DEF Spec

(* policy.ts:319-351 and 390: a load that was under way when a put of its
   isolate emptied the cache fills it with the replaced policy, and with none
   older. *)
THEOREM CachesAreRecent == Spec => []CacheIsRecent
<1>1. ReignInv => CacheIsRecent BY DEF ReignInv, CachesOK, CacheIsRecent
<1> QED BY ReignInvHolds, <1>1, PTL

(* The clock, the requests to come and the project's keys are what they can be. *)
Bounds ==
  /\ now \in 0 .. MaxTime /\ left \in 0 .. MaxRequests
  /\ keys \subseteq UNION {r.keys : r \in Requests}

(* No step leaves these bounds. *)
LEMMA BoundsStep ==
  ASSUME IInv, Bounds, [Next]_vars
  PROVE  Bounds'
<1>1. CASE UNCHANGED vars \/ Drain BY <1>1 DEF vars, storeVars, gateVars, Drain, Bounds
<1>2. ASSUME NEW h \in Handlers, Arrive(h) PROVE Bounds'
  <2>1. left > 0 /\ left' = left - 1 /\ UNCHANGED <<now, keys>> BY <1>2 DEF Arrive
  <2> QED BY <2>1, GatewayAssumption DEF Bounds
<1>3. ASSUME NEW h \in Handlers, NEW b \in BOOLEAN, Dispatch(h, b) PROVE Bounds'
  <2>1. UNCHANGED <<now, left>> BY <1>3 DEF Dispatch
  <2>2. keys' \subseteq keys \cup Req(h).keys BY <1>3 DEF Dispatch
  <2>3. Req(h) \in Requests BY <1>3 DEF Dispatch, At, IInv, Placed
  <2>4. Req(h).keys \in {r.keys : r \in Requests} BY <2>3
  <2> QED BY <2>1, <2>2, <2>4 DEF Bounds
<1>4. ASSUME NEW h \in Handlers, GateStep(h) PROVE Bounds'
  <2>1. CASE \/ VerifyToken(h) \/ Route(h) \/ ReadManifest(h) \/ AnswerRead(h) \/ Mint(h) \/ Deny(h) \/ Control(h)
             \/ (\E hit \in BOOLEAN : LookupRevoked(h, hit)) \/ (\E b \in BOOLEAN : RefuseRead(h, b))
    <3>1. UNCHANGED <<now, left, keys>>
      BY <2>1 DEF VerifyToken, Route, ReadManifest, AnswerRead, Mint, Deny, Control, LookupRevoked, RefuseRead
    <3> QED BY <3>1 DEF Bounds
  <2> QED BY <1>2, <1>3, <1>4, <2>1 DEF GateStep
<1>5. ASSUME NEW h \in Handlers, WithStore(HandlerStep(h)) PROVE Bounds'
  BY <1>5 DEF WithStore, HandlerStep, LoadCached, LoadPointer, LoadVersion, PutRead, PutSlot, PutTaken, PutCas, Bounds
<1>6. CASE Fault BY <1>6 DEF Fault, WithStore, Drop, Evict, Bounds
<1>7. CASE WithStore(Tick) BY <1>7, Constants DEF WithStore, Tick, Bounds
<1> QED BY <1>1, <1>4, <1>5, <1>6, <1>7 DEF Next, Running

(* Nor do they fail at first. *)
LEMMA BoundsInit == Init => Bounds
BY Constants, GatewayAssumption DEF Init, StoreInit, Bounds

(* What serves a request is typed, and serves under its bearer's token only. *)
LEMMA CallTyped ==
  ASSUME IInv, Bounds, NEW h \in Handlers
  PROVE  call[h] \in CallType /\ (At(h, "idle") <=> call[h].r = None)
<1>1. call[h] \in CallOK /\ Placed(h) /\ Authentic(h) BY DEF IInv, GateTypes
<1>2. call[h].looked \in 0 .. MaxTime BY <1>1, Constants DEF CallOK, Authentic, Bounds
<1>3. call[h].token \in {{}} \cup {{tokens[j]} : j \in {j \in Jtis : tokens[j] # None}}
  <2>1. CASE call[h].token = {} BY <2>1
  <2>2. CASE call[h].token # {}
    <3>1. PICK t \in call[h].token : TRUE BY <2>2
    <3>2. Req(h).bearer \in Jtis /\ \A u \in call[h].token : u = tokens[Req(h).bearer] BY <1>1, <3>1 DEF Authentic
    <3>3. call[h].token = {tokens[Req(h).bearer]} BY <3>1, <3>2
    <3>4. tokens[Req(h).bearer] # None BY <1>1, <2>2, <3>2, Constants DEF Authentic
    <3> QED BY <3>2, <3>3, <3>4
  <2> QED BY <2>1, <2>2
<1>4. At(h, "idle") <=> call[h].r = None
  <2>1. At(h, "idle") => call[h].r = None BY <1>1 DEF Placed, NoCall
  <2>2. ~ At(h, "idle") => call[h].r # None BY <1>1, GatewayAssumption DEF Placed, Req
  <2> QED BY <2>1, <2>2
<1>5. call[h].r \in Requests \cup {None} /\ DOMAIN call[h] = {"r", "token", "looked"} BY <1>1 DEF CallOK
<1>6. call[h] \in CallType
  <2> DEFINE c == call[h]
             T == {{}} \cup {{tokens[j]} : j \in {j \in Jtis : tokens[j] # None}}
  <2>1. c = [r |-> c.r, token |-> c.token, looked |-> c.looked] BY <1>1 DEF CallOK
  <2>2. c.r \in Requests \cup {None} /\ c.token \in T /\ c.looked \in 0 .. MaxTime BY <1>2, <1>3, <1>5
  <2> HIDE DEF c, T
  <2>3. c \in [r : Requests \cup {None}, looked : 0 .. MaxTime, token : T] BY <2>1, <2>2
  <2> QED BY <2>3 DEF CallType, c, T
<1> QED BY <1>4, <1>6

(* TypeOK of Gateway. *)
THEOREM TypeCorrect == Spec => []TypeOK
<1>1. Spec => []Bounds
  <2>1. IInv /\ Bounds /\ [Next]_vars => Bounds' BY BoundsStep
  <2> QED BY IInvHolds, BoundsInit, <2>1, PTL DEF Spec
<1>2. IInv /\ ReignInv /\ Bounds => TypeOK
  <2> SUFFICES ASSUME IInv, ReignInv, Bounds PROVE TypeOK OBVIOUS
  <2>1. \A i \in Isolates : cache[i] # None => cache[i].policy \in Loaded /\ cache[i].at <= now
    BY DEF IInv, StoreTypes, ReignInv, CachesOK
  <2>2. \A h \in Handlers : req[h].policy \in Loaded \cup {None} BY DEF IInv, StoreTypes, ReqType
  <2>3. \A j \in Jtis : tokens[j] # None => tokens[j].exp <= now + TokenTTL BY DEF IInv, Tokens
  <2> QED BY <2>1, <2>2, <2>3, CallTyped DEF TypeOK, IInv, StoreTypes, Bounds
<1> QED BY <1>1, <1>2, IInvHolds, ReignInvHolds, PTL

(* A handler's step leaves it the policy it has, or none. *)
Forgets(h) == req'[h].policy \in {req[h].policy, None}

(* A handler that goes on keeps its policy. *)
LEMMA GotoForgets ==
  ASSUME StoreTypes, NEW h \in Handlers, NEW pc, Goto(h, pc)
  PROVE  req'[h].policy = req[h].policy
<1>1. req[h] \in ReqType /\ req'[h] = [req[h] EXCEPT !.pc = pc] BY DEF Goto, StoreTypes
<1> QED BY <1>1, Fields

(* One that ends has none. *)
LEMMA EndForgets ==
  ASSUME StoreTypes, NEW h \in Handlers, End(h)
  PROVE  Forgets(h)
BY EndDoes DEF Idle, Forgets

(* The gate answers no reader: it keeps the policy it decided by, or drops it. *)
LEMMA GateForgets ==
  ASSUME StoreTypes, NEW h \in Handlers, GateStep(h)
  PROVE  Forgets(h)
<1>0. req[h] \in ReqType BY DEF StoreTypes
<1>1. ASSUME Close(h) PROVE Forgets(h) BY <1>1, EndForgets DEF Close
<1>2. CASE Arrive(h)
  <2>1. PICK r \in Requests, i \in Isolates :
          req' = [req EXCEPT ![h].iso = i, ![h].pc = IF r.bearer = None THEN "load" ELSE "verify"]
    BY <1>2 DEF Arrive
  <2>2. req'[h] = [req[h] EXCEPT !.iso = i, !.pc = IF r.bearer = None THEN "load" ELSE "verify"]
    BY <2>1 DEF StoreTypes
  <2>3. req'[h].policy = req[h].policy BY <1>0, <2>2, Fields
  <2> QED BY <2>3 DEF Forgets
<1>3. CASE VerifyToken(h)
  <2>1. Close(h) \/ req' = [req EXCEPT ![h].pc = "lookup", ![h].began = now] BY <1>3 DEF VerifyToken
  <2>2. ASSUME req' = [req EXCEPT ![h].pc = "lookup", ![h].began = now] PROVE Forgets(h)
    <3>1. req'[h] = [req[h] EXCEPT !.pc = "lookup", !.began = now] BY <2>2 DEF StoreTypes
    <3>2. req'[h].policy = req[h].policy BY <1>0, <3>1, Fields
    <3> QED BY <3>2 DEF Forgets
  <2> QED BY <1>1, <2>1, <2>2
<1>4. CASE Route(h)
  <2>1. Close(h) \/ \E to \in Routes :
          req' = [req EXCEPT ![h].pc = to.to,
                             ![h].policy = IF Req(h).kind = "list" THEN @ ELSE None,
                             ![h].doc = Req(h).doc, ![h].version = Req(h).version]
    BY <1>4 DEF Route
  <2>2. ASSUME NEW to \in Routes,
               req' = [req EXCEPT ![h].pc = to.to,
                             ![h].policy = IF Req(h).kind = "list" THEN @ ELSE None,
                             ![h].doc = Req(h).doc, ![h].version = Req(h).version]
        PROVE  Forgets(h)
    <3> DEFINE policy == IF Req(h).kind = "list" THEN req[h].policy ELSE None
    <3>1. req'[h] = [req[h] EXCEPT !.pc = to.to, !.policy = policy, !.doc = Req(h).doc, !.version = Req(h).version]
      BY <1>0, <2>2 DEF StoreTypes, ReqType
    <3>2. policy \in {req[h].policy, None} OBVIOUS
    <3> HIDE DEF policy
    <3>3. req'[h].policy = policy BY <1>0, <3>1, Fields
    <3> QED BY <3>2, <3>3 DEF Forgets
  <2> QED BY <1>1, <2>1, <2>2
<1>5. CASE ~ (Arrive(h) \/ VerifyToken(h) \/ Route(h))
  <2>1. Close(h) \/ \E pc \in {"load", "audit", "control"} : Goto(h, pc)
    BY <1>5 DEF GateStep, LookupRevoked, ReadManifest, AnswerRead, Mint, Deny, Control, RefuseRead, Dispatch
  <2> QED BY <1>1, <2>1, GotoForgets DEF Forgets
<1> QED BY <1>2, <1>3, <1>4, <1>5

(* What readers are served after such steps. *)
LEMMA RegisterForgets ==
  ASSUME UNCHANGED <<now, ptr, past>>, \A h \in Handlers : Forgets(h)
  PROVE  Register!Forget
BY DEF Register!Forget, Served, Forgets

(* What one reader is served, reigned. *)
LEMMA RegisterServes ==
  ASSUME UNCHANGED <<now, ptr, past>>, NEW h \in Handlers, Alone(h),
         NEW p, req'[h].policy = p, p \in Reigned(now, Lag)
  PROVE  Register!Serve(h)
<1>1. p \in {ptr} \cup {q.policy : q \in {q \in past : q.until + Lag > now}} BY DEF Reigned
<1>2. Served' = [Served EXCEPT ![h] = p] BY DEF Served, Alone
<1> QED BY <1>1, <1>2 DEF Register!Serve, Lag

(* The store starts as the register does. *)
LEMMA RegisterInit == Init => Register!Init
<1> SUFFICES ASSUME Init PROVE Register!Init OBVIOUS
<1>1. now = 0 /\ ptr \in FirstPolicies /\ past = {} /\ req = [h \in Handlers |-> Idle]
  BY DEF Init, StoreInit
<1>2. ptr \in {EmptyPolicy} \cup [version : {1}, doc : Docs] BY <1>1, StoreAssumption
<1>3. Served = [h \in Handlers |-> None] BY <1>1 DEF Served, Idle
<1> QED BY <1>1, <1>2, <1>3 DEF Register!Init, Register!Empty, EmptyPolicy

(* What a load answers was current less than the lag ago; what a put does is
   to publish its document, or nothing that a reader sees. *)
LEMMA RegisterHandler ==
  ASSUME IInv, ReignInv, ReignInv', NEW h \in Handlers, HandlerStep(h)
  PROVE  Register!Next
<1>0. /\ StoreTypes /\ req \in [Handlers -> ReqType] /\ req[h] \in ReqType /\ Placed(h) /\ ReadOK(req[h])
      /\ now' = now /\ now \in Nat
  BY DEF IInv, StoreTypes, ReignInv, HandlerStep, LoadCached, LoadPointer, LoadVersion, PutRead, PutSlot, PutTaken, PutCas
<1>1. ASSUME Alone(h), Forgets(h), UNCHANGED <<ptr, past>> PROVE Register!Next
  <2>1. \A g \in Handlers : Forgets(g) BY <1>1 DEF Alone, Forgets
  <2> QED BY <1>0, <1>1, <2>1, RegisterForgets DEF Register!Next
<1>2. ASSUME End(h), UNCHANGED <<ptr, past>> PROVE Register!Next BY <1>0, <1>1, <1>2, EndDoes, EndForgets
<1>3. ASSUME NEW pc \in Pcs, Goto(h, pc), UNCHANGED <<ptr, past>> PROVE Register!Next
  BY <1>0, <1>1, <1>3, GotoDoes, GotoForgets DEF Forgets
<1>4. ASSUME NEW p \in Loaded, LoadedBy(h, p), UNCHANGED <<ptr, past>> PROVE Register!Next
  <2>1. Alone(h) BY <1>0, <1>4, LoadedByDoes
  <2>2. req'[h] = [req[h] EXCEPT !.pc = "loaded", !.policy = p, !.began = now] BY <1>0, <1>4 DEF LoadedBy
  <2>3. req'[h].pc = "loaded" /\ req'[h].policy = p /\ req'[h].began = now BY <1>0, <2>2, Fields
  <2>4. PICK r : r = req'[h] OBVIOUS
  <2>5. ReadOK(r)' BY <2>4 DEF ReignInv, ReadOK, Reigned
  <2>6. r.policy # None BY <2>3, <2>4, <1>4, Constants
  <2>7. r.policy \in Reigned(r.began, Lag)' BY <2>5, <2>6 DEF ReadOK
  <2>8. p \in Reigned(now, Lag) BY <1>0, <1>4, <2>3, <2>4, <2>7 DEF Reigned
  <2> QED BY <1>0, <1>4, <2>1, <2>3, <2>8, RegisterServes DEF Register!Next
<1>5. CASE LoadCached(h)
  <2>1. Cached(h) # None /\ LoadedBy(h, Cached(h).policy) /\ UNCHANGED <<ptr, past>> BY <1>5 DEF LoadCached, Fresh
  <2>2. req[h].iso \in Isolates BY <1>0, <1>5 DEF Placed, LoadCached, At
  <2>3. Cached(h).policy \in Loaded BY <1>0, <2>1, <2>2 DEF Cached, StoreTypes
  <2> QED BY <1>4, <2>1, <2>3
<1>6. CASE LoadPointer(h)
  <2>1. UNCHANGED <<ptr, past>> /\ ptr \in Loaded BY <1>0, <1>6 DEF LoadPointer, StoreTypes
  <2>2. CASE ptr = EmptyPolicy BY <1>4, <1>6, <2>1, <2>2 DEF LoadPointer, CacheAndServe
  <2>3. CASE ptr # EmptyPolicy
    <3>1. req' = [req EXCEPT ![h].pc = "version", ![h].seen = ptr, ![h].began = now]
      BY <1>6, <2>3 DEF LoadPointer
    <3>2. Alone(h) BY <1>0, <3>1, LoadPointerDoes
    <3>3. req'[h] = [req[h] EXCEPT !.pc = "version", !.seen = ptr, !.began = now] BY <1>0, <3>1
    <3>4. Forgets(h) BY <1>0, <3>3, Fields DEF Forgets
    <3> QED BY <1>1, <2>1, <3>2, <3>4
  <2> QED BY <2>2, <2>3
<1>7. CASE LoadVersion(h)
  <2>1. UNCHANGED <<ptr, past>> /\ req[h].seen \in Loaded BY <1>0, <1>7 DEF LoadVersion, ReqType
  <2> QED BY <1>2, <1>4, <1>7, <2>1 DEF LoadVersion, CacheAndServe
<1>8. CASE PutRead(h)
  <2>1. UNCHANGED <<ptr, past>> BY <1>8 DEF PutRead
  <2>2. ASSUME req' = [req EXCEPT ![h].pc = "slot", ![h].seen = ptr] PROVE Register!Next
    <3>1. Alone(h) BY <1>0, <2>2, PutReadDoes
    <3>2. req'[h] = [req[h] EXCEPT !.pc = "slot", !.seen = ptr] BY <1>0, <2>2
    <3>3. Forgets(h) BY <1>0, <3>2, Fields DEF Forgets
    <3> QED BY <1>1, <2>1, <3>1, <3>3
  <2> QED BY <1>2, <1>8, <2>1, <2>2 DEF PutRead
<1>9. CASE PutSlot(h) \/ PutTaken(h)
  <2>1. UNCHANGED <<ptr, past>> BY <1>9 DEF PutSlot, PutTaken
  <2>2. "cas" \in Pcs /\ "taken" \in Pcs BY DEF Pcs, PutPcs
  <2>3. Goto(h, "cas") \/ Goto(h, "taken") \/ End(h) BY <1>9 DEF PutSlot, PutTaken
  <2> QED BY <1>2, <1>3, <2>1, <2>2, <2>3
<1>10. CASE PutCas(h)
  <2>1. CASE Unmoved(h)
    <3>1. /\ ptr' = [version |-> req[h].version, doc |-> req[h].doc]
          /\ past' = past \cup {[policy |-> ptr, until |-> now]}
          /\ Goto(h, "stored") /\ ptr = req[h].seen /\ req[h].pc = "cas"
      BY <1>10, <2>1 DEF PutCas, Unmoved
    <3>2. req[h].version = ptr.version + 1 BY <1>0, <3>1 DEF ReadOK
    <3>3. req[h].doc \in Docs BY <1>0, <3>1 DEF Placed, PutPcs
    <3>4. "stored" \in Pcs BY DEF Pcs
    <3>5. Alone(h) /\ req'[h].policy = req[h].policy BY <1>0, <3>1, <3>4, GotoDoes, GotoForgets
    <3>6. Served' = Served BY <3>5 DEF Served, Alone
    <3>7. Register!Publish(req[h].doc) BY <1>0, <3>1, <3>2, <3>6 DEF Register!Publish
    <3> QED BY <3>3, <3>7 DEF Register!Next
  <2>2. CASE ~ Unmoved(h) BY <1>2, <1>10, <2>2 DEF PutCas
  <2> QED BY <2>1, <2>2
<1> QED BY <1>5, <1>6, <1>7, <1>8, <1>9, <1>10 DEF HandlerStep

(* Each step of the gate and of the store is one of the register, or none. *)
LEMMA RegisterStep ==
  ASSUME IInv, ReignInv, ReignInv', [Next]_vars
  PROVE  [Register!Next]_(Register!vars)
<1>1. CASE UNCHANGED vars \/ Drain BY <1>1 DEF vars, storeVars, Drain, Register!vars, Served
<1>2. ASSUME NEW h \in Handlers, GateStep(h) PROVE Register!Next
  <2>1. UNCHANGED <<ptr, past, now>> /\ Alone(h) BY <1>2, ReignGate
  <2>2. Forgets(h) BY <1>2, GateForgets DEF IInv
  <2>3. \A g \in Handlers : Forgets(g) BY <2>1, <2>2 DEF Alone, Forgets
  <2> QED BY <2>1, <2>3, RegisterForgets DEF Register!Next
<1>3. ASSUME NEW h \in Handlers, WithStore(HandlerStep(h)) PROVE Register!Next
  BY <1>3, RegisterHandler DEF WithStore
<1>4. ASSUME NEW h \in Handlers, WithStore(Drop(h)) PROVE Register!Next
  <2>1. End(h) /\ UNCHANGED <<now, ptr, past>> /\ StoreTypes BY <1>4 DEF WithStore, Drop, IInv
  <2>2. \A g \in Handlers : Forgets(g) BY <2>1, EndDoes, EndForgets DEF Alone, Forgets
  <2> QED BY <2>1, <2>2, RegisterForgets DEF Register!Next
<1>5. ASSUME NEW i \in Isolates, WithStore(Evict(i)) PROVE Register!Next
  <2>1. UNCHANGED <<now, ptr, past>> /\ req' = [h \in Handlers |-> IF req[h].iso = i THEN Idle ELSE req[h]]
    BY <1>5 DEF WithStore, Evict
  <2>2. \A g \in Handlers : Forgets(g) BY <2>1 DEF Idle, Forgets
  <2> QED BY <2>1, <2>2, RegisterForgets DEF Register!Next
<1>6. ASSUME WithStore(Tick) PROVE Register!Next
  BY <1>6 DEF WithStore, Tick, Register!Next, Register!Tick, Served
<1> QED BY <1>1, <1>2, <1>3, <1>4, <1>5, <1>6 DEF Next, Fault, Running

(* policy.ts:318-392: pointer, versions and caches are one register of
   policies, replaced version by version and read with a lag below CacheTTL
   and the duration of a load. *)
THEOREM Implements == Spec => ImplementsRegister
<1>1. IInv /\ ReignInv /\ ReignInv' /\ [Next]_vars => [Register!Next]_(Register!vars) BY RegisterStep
<1> QED BY IInvHolds, ReignInvHolds, RegisterInit, <1>1, PTL DEF Spec, ImplementsRegister, Register!Spec

(* Letters of either case are letters: a name in lower case is a name. *)
LEMMA LowerCase ==
  /\ \A s \in Globs : ToLower(s) \in Globs
  /\ \A s \in Names : ToLower(s) \in Names
<1>1. ASSUME NEW S, NEW s \in Seq(S), \A c \in DOMAIN Lower : Lower[c] \in S
      PROVE  ToLower(s) \in Seq(S)
  <2>1. Len(s) \in Nat /\ DOMAIN s = 1 .. Len(s) /\ \A i \in 1 .. Len(s) : s[i] \in S OBVIOUS
  <2>2. ToLower(s) \in [1 .. Len(s) -> S] BY <1>1, <2>1 DEF ToLower
  <2> QED BY <2>1, <2>2
<1>2. \A c \in DOMAIN Lower : Lower[c] \in STRING \ {"*"} /\ Lower[c] \in STRING BY LowerAssumption
<1> QED BY <1>1, <1>2 DEF Globs, Names

(* Of at most five numbers from 0, one is the largest. *)
LEMMA FurthestIsThere ==
  ASSUME NEW S, S \subseteq 0 .. 4, 0 \in S
  PROVE  Max(S) \in S
<1>1. \E x \in S : \A y \in S : x >= y
  <2>1. CASE 4 \in S BY <2>1
  <2>2. CASE 4 \notin S /\ 3 \in S BY <2>2
  <2>3. CASE 4 \notin S /\ 3 \notin S /\ 2 \in S BY <2>3
  <2>4. CASE 4 \notin S /\ 3 \notin S /\ 2 \notin S /\ 1 \in S BY <2>4
  <2>5. CASE 4 \notin S /\ 3 \notin S /\ 2 \notin S /\ 1 \notin S BY <2>5
  <2> QED BY <2>1, <2>2, <2>3, <2>4, <2>5
<1> QED BY <1>1 DEF Max

(* What authorize allows, the document grants. *)
LEMMA AllowedIsGranted ==
  ASSUME NEW doc \in Docs \cup {{}}, NEW p, NEW key \in Names, NEW verb,
         Authorize(doc, p, Project, key, verb).allowed
  PROVE  Grants(doc, p, Project, key, verb)
<1> DEFINE S == {0} \cup {Reached(rule, p, Project, key, verb) : rule \in doc}
<1>1. Max(S) = 4 BY DEF Authorize
<1>2. S \subseteq 0 .. 4 /\ 0 \in S BY DEF Reached
<1>3. 4 \in S
  <2> HIDE DEF S
  <2> QED BY <1>1, <1>2, FurthestIsThere
<1>4. PICK rule \in doc : Reached(rule, p, Project, key, verb) = 4 BY <1>3
<1>5. /\ Selects(rule, p) /\ verb \in ExpandVerbs(rule.verbs)
      /\ \E g \in rule.projects : GlobMatch(g, Project)
      /\ KeyAllowed(rule, key)
  BY <1>4 DEF Reached
<1>6. /\ rule.projects \subseteq Globs /\ rule.allow \subseteq Globs /\ rule.deny \subseteq Globs
      /\ Project \in Names
  BY GatewayAssumption
<1>7. \/ {verb, "*"} \cap rule.verbs # {}
      \/ verb = "write" /\ "rotate" \in rule.verbs
  BY <1>5 DEF ExpandVerbs
<1>8. \E g \in rule.projects : Matches(g, Project) BY <1>5, <1>6, GlobMatches
<1>9. ASSUME key # NoKey
      PROVE  /\ \E g \in rule.allow : Matches(g, key)
             /\ \A g \in rule.deny : ~ Matches(ToLower(g), ToLower(key))
  <2>1. (\E g \in rule.allow : GlobMatch(g, key)) /\ \A g \in rule.deny : ~ KeyGlobMatch(g, key)
    BY <1>5, <1>9 DEF KeyAllowed
  <2>2. \E g \in rule.allow : Matches(g, key) BY <1>6, <2>1, GlobMatches
  <2>3. \A g \in rule.deny : ~ Matches(ToLower(g), ToLower(key))
    BY <1>6, <2>1, LowerCase, GlobMatches DEF KeyGlobMatch
  <2> QED BY <2>2, <2>3
<1> QED BY <1>5, <1>7, <1>8, <1>9 DEF Grants

-----------------------------------------------------------------------------
(* Where an administrator's operation is under way, and where data is. *)
AdminPcs == PutPcs \cup {"stored", "deny", "control"}
DataPcs == {"manifest", "audit", "dispatch"}

(* What a handler at q has been let do by a policy that was recent when it
   decided, serving c; and in which hands its token is. *)
Entitled(q, c) ==
  /\ q.pc = "manifest" => c.r.kind \in {"read", "list"}
  /\ q.pc = "audit" => c.r.kind = "read"
  /\ q.pc = "dispatch" => c.r.kind \in {"write", "delete"}
  /\ q.pc \in DataPcs /\ c.r.kind # "list" =>
       \E p \in Reigned(q.began, Lag) : \A k \in c.r.keys : Can(p.doc, c.r.p, c.token, Project, k, c.r.kind)
  /\ q.pc \in DataPcs /\ c.r.kind = "list" => q.policy # None
  /\ q.pc \in AdminPcs => c.token = {} /\ \E p \in Reigned(q.began, Lag) : HasAdminVerb(p.doc, c.r.p)
  /\ q.pc = "mint" => c.r.verbs \subseteq {"read", "write", "rotate"}
  /\ \A t \in c.token : t.sub = c.r.p.id
  /\ q.pc # "lookup" => \A t \in c.token : c.looked <= t.exp + Leeway + LoadMax

(* No token carries a verb that a service may not delegate. *)
Scoped == \A j \in Jtis : tokens[j] # None => tokens[j].scope.verbs \subseteq {"read", "write", "rotate"}

(* Nobody is further than a recent policy let him go. *)
EntitledInv == Scoped /\ \A h \in Handlers : Entitled(req[h], call[h])

(* What an answer says of its caller. *)
Justified(l) ==
  /\ \E p \in Reigned(l.at, CacheTTL + LoadMax) :
       CASE l.verb \in {"policy", "revoke", "plan"} -> HasAdminVerb(p.doc, l.who)
         [] l.verb = "list" -> Grants(p.doc, l.who, Project, l.key, "read")
         [] OTHER -> Grants(p.doc, l.who, Project, l.key, l.verb)
  /\ \A t \in l.token : /\ t.sub = l.who.id /\ l.key \in t.scope.keys
                        /\ l.verb \in {"read", "list", "write"}
                        /\ l.looked <= t.exp + Leeway + LoadMax

(* The document of a policy that reigned is one that was put, or the empty one. *)
LEMMA ReignedDoc ==
  ASSUME IInv, PastOK, NEW t, NEW lag, NEW p \in Reigned(t, lag)
  PROVE  p.doc \in Docs \cup {{}}
BY DEF IInv, StoreTypes, PastOK, Reigned, Loaded

(* What a handler answers about a key that its policy lets it reach. *)
LEMMA AnswersKey ==
  ASSUME IInv, PastOK, Scoped, NEW h \in Handlers, ~ At(h, "idle"), ~ At(h, "lookup"), Entitled(req[h], call[h]),
         NEW p \in Reigned(req[h].began, Lag), NEW k \in Names, k # NoKey,
         NEW verb, NEW as, as = verb \/ (as = "list" /\ verb = "read"),
         verb \in {"read", "write", "delete"},
         Can(p.doc, Req(h).p, call[h].token, Project, k, verb),
         NEW l, l = [who |-> Req(h).p, verb |-> as, key |-> k, token |-> call[h].token,
                     at |-> req[h].began, looked |-> call[h].looked]
  PROVE  Justified(l)
<1>1. p.doc \in Docs \cup {{}} BY ReignedDoc
<1>2. Grants(p.doc, Req(h).p, Project, k, verb) BY <1>1, AllowedIsGranted DEF Can
<1>3. /\ l.who = Req(h).p /\ l.verb = as /\ l.key = k /\ l.token = call[h].token /\ l.at = req[h].began
      /\ l.looked = call[h].looked
  OBVIOUS
<1>4. (CASE l.verb \in {"policy", "revoke", "plan"} -> HasAdminVerb(p.doc, l.who)
         [] l.verb = "list" -> Grants(p.doc, l.who, Project, l.key, "read")
         [] OTHER -> Grants(p.doc, l.who, Project, l.key, l.verb))
  BY <1>2, <1>3
<1>5. ASSUME NEW t \in l.token
      PROVE  /\ t.sub = l.who.id /\ l.key \in t.scope.keys
             /\ l.verb \in {"read", "list", "write"}
             /\ l.looked <= t.exp + Leeway + LoadMax
  <2>1. t \in call[h].token BY <1>3
  <2>2. \A u \in call[h].token : u = t BY <2>1 DEF IInv, Authentic
  <2>3. ScopeAllowsVerb(t.scope, verb) /\ ScopeAllowsKey(t.scope, k) BY <2>1, <2>2 DEF Can
  <2>4. t.scope.verbs \subseteq {"read", "write", "rotate"}
    <3>1. Req(h).bearer \in Jtis /\ t = tokens[Req(h).bearer] BY <2>1 DEF IInv, Authentic
    <3>2. tokens[Req(h).bearer] # None BY <3>1, Constants DEF IInv, Authentic
    <3> QED BY <3>1, <3>2 DEF Scoped
  <2>5. k \in t.scope.keys BY <2>3 DEF ScopeAllowsKey
  <2>6. verb \in {"read", "write"} BY <2>3, <2>4 DEF ScopeAllowsVerb
  <2>7. t.sub = Req(h).p.id /\ call[h].looked <= t.exp + Leeway + LoadMax BY <2>1 DEF Entitled, At, Req
  <2> QED BY <1>3, <2>5, <2>6, <2>7
<1>6. p \in Reigned(l.at, CacheTTL + LoadMax) BY <1>3 DEF Lag
<1> QED BY <1>4, <1>5, <1>6 DEF Justified

(* Every answer of a step is justified where it was decided. *)
LEMMA AnswersJustified ==
  ASSUME IInv, ReignInv, Bounds, EntitledInv, NEW h \in Handlers, GateStep(h), NEW l \in answer'
  PROVE  Justified(l)
<1>0. /\ PastOK /\ ReadOK(req[h]) /\ Scoped /\ Entitled(req[h], call[h]) /\ Placed(h)
  BY DEF ReignInv, EntitledInv, IInv
<1>1. CASE \/ Arrive(h) \/ VerifyToken(h) \/ Route(h) \/ Mint(h) \/ Deny(h)
           \/ (\E hit \in BOOLEAN : LookupRevoked(h, hit)) \/ (\E b \in BOOLEAN : RefuseRead(h, b))
  BY <1>1 DEF Arrive, VerifyToken, Route, Mint, Deny, LookupRevoked, RefuseRead, NoAnswer
<1>2. ASSUME ~ At(h, "idle") PROVE \A k \in Req(h).keys : k \in Names /\ k # NoKey
  BY <1>0, <1>2, GatewayAssumption DEF Placed
<1>3. CASE ReadManifest(h)
  <2>1. At(h, "manifest") /\ ~ At(h, "idle") /\ ~ At(h, "lookup") BY <1>3 DEF ReadManifest, At
  <2>2. Req(h).kind = "list" /\ Answer(h, "list", {k \in keys : May(h, k, "read")})
    BY <1>3 DEF ReadManifest, NoAnswer
  <2>3. req[h].policy # None /\ req[h].policy \in Reigned(req[h].began, Lag)
    BY <1>0, <2>1, <2>2 DEF Entitled, ReadOK, At, Req, DataPcs
  <2>4. PICK k \in keys :
          /\ Can(req[h].policy.doc, Req(h).p, call[h].token, Project, k, "read")
          /\ l = [who |-> Req(h).p, verb |-> "list", key |-> k, token |-> call[h].token,
                  at |-> req[h].began, looked |-> call[h].looked]
    BY <2>2 DEF Answer, May, Doc
  <2>5. k \in Names /\ k # NoKey BY GatewayAssumption DEF Bounds
  <2> QED BY <1>0, <2>1, <2>3, <2>4, <2>5, AnswersKey
<1>4. CASE AnswerRead(h)
  <2>1. At(h, "audit") /\ ~ At(h, "idle") /\ ~ At(h, "lookup") BY <1>4 DEF AnswerRead, At
  <2>2. Req(h).kind = "read" /\ Answer(h, "read", Req(h).keys) BY <1>0, <1>4, <2>1 DEF AnswerRead, Entitled, At, Req
  <2>3. PICK p \in Reigned(req[h].began, Lag) :
          \A k \in Req(h).keys : Can(p.doc, Req(h).p, call[h].token, Project, k, "read")
    BY <1>0, <2>1, <2>2 DEF Entitled, At, Req, DataPcs
  <2>4. PICK k \in Req(h).keys :
          l = [who |-> Req(h).p, verb |-> "read", key |-> k, token |-> call[h].token,
               at |-> req[h].began, looked |-> call[h].looked]
    BY <2>2 DEF Answer
  <2> QED BY <1>0, <1>2, <2>1, <2>3, <2>4, AnswersKey
<1>5. CASE \E b \in BOOLEAN : Dispatch(h, b)
  <2>1. At(h, "dispatch") /\ ~ At(h, "idle") /\ ~ At(h, "lookup") BY <1>5 DEF Dispatch, At
  <2>2. Answer(h, Req(h).kind, Req(h).keys) BY <1>5 DEF Dispatch, NoAnswer
  <2>3. Req(h).kind \in {"write", "delete"} BY <1>0, <2>1 DEF Entitled, At, Req
  <2>4. PICK p \in Reigned(req[h].began, Lag) :
          \A k \in Req(h).keys : Can(p.doc, Req(h).p, call[h].token, Project, k, Req(h).kind)
    BY <1>0, <2>1, <2>3 DEF Entitled, At, Req, DataPcs
  <2>5. PICK k \in Req(h).keys :
          l = [who |-> Req(h).p, verb |-> Req(h).kind, key |-> k, token |-> call[h].token,
               at |-> req[h].began, looked |-> call[h].looked]
    BY <2>2 DEF Answer
  <2> QED BY <1>0, <1>2, <2>1, <2>3, <2>4, <2>5, AnswersKey
<1>6. CASE Control(h)
  <2>1. req[h].pc \in AdminPcs /\ Req(h).kind \in {"policy", "revoke", "plan"}
    BY <1>0, <1>6 DEF Control, AdminPcs, Placed, At
  <2>2. call[h].token = {} BY <1>0, <2>1 DEF Entitled
  <2>3. PICK p \in Reigned(req[h].began, Lag) : HasAdminVerb(p.doc, Req(h).p) BY <1>0, <2>1 DEF Entitled, Req
  <2>4. /\ l.verb \in {"policy", "revoke", "plan"} /\ l.who = Req(h).p /\ l.token = {} /\ l.at = req[h].began
    BY <1>6, <2>1, <2>2 DEF Control, Answer
  <2>5. (CASE l.verb \in {"policy", "revoke", "plan"} -> HasAdminVerb(p.doc, l.who)
           [] l.verb = "list" -> Grants(p.doc, l.who, Project, l.key, "read")
           [] OTHER -> Grants(p.doc, l.who, Project, l.key, l.verb))
    BY <2>3, <2>4
  <2> QED BY <2>3, <2>4, <2>5 DEF Justified, Lag
<1> QED BY <1>1, <1>3, <1>4, <1>5, <1>6 DEF GateStep

(* A handler at rest is entitled to nothing and has nothing. *)
LEMMA IdleEntitled == Entitled(Idle, NoCall)
BY IdleReq, IdleCall DEF Entitled, DataPcs, AdminPcs, PutPcs

(* What a handler was let do stays justified as time passes and policies are
   replaced. *)
LEMMA EntitledKept ==
  ASSUME Onwards, NEW q, NEW c, q.began \in Nat, q.began <= now, Entitled(q, c)
  PROVE  Entitled(q, c)'
<1>1. Reigned(q.began, Lag) \subseteq Reigned(q.began, Lag)' BY LagPositive DEF Onwards
<1>2. /\ q.pc = "manifest" => c.r.kind \in {"read", "list"}
      /\ q.pc = "audit" => c.r.kind = "read"
      /\ q.pc = "dispatch" => c.r.kind \in {"write", "delete"}
      /\ q.pc \in DataPcs /\ c.r.kind = "list" => q.policy # None
      /\ q.pc = "mint" => c.r.verbs \subseteq {"read", "write", "rotate"}
      /\ \A t \in c.token : t.sub = c.r.p.id
      /\ q.pc # "lookup" => \A t \in c.token : c.looked <= t.exp + Leeway + LoadMax
  BY DEF Entitled
<1>3. q.pc \in DataPcs /\ c.r.kind # "list" =>
        \E p \in Reigned(q.began, Lag)' : \A k \in c.r.keys : Can(p.doc, c.r.p, c.token, Project, k, c.r.kind)
  BY <1>1 DEF Entitled
<1>4. q.pc \in AdminPcs => c.token = {} /\ \E p \in Reigned(q.began, Lag)' : HasAdminVerb(p.doc, c.r.p)
  BY <1>1 DEF Entitled
<1> QED BY <1>2, <1>3, <1>4 DEF Entitled, Lag

(* The policies that reigned are kept by every step. *)
LEMMA Continues ==
  ASSUME IInv, ReignInv, Replaces, now' \in Nat, now <= now'
  PROVE  Onwards
<1> QED BY ReignedStays DEF Onwards, ReignInv

(* The invariant, from what a step leaves in the handlers. *)
LEMMA EntitledNext ==
  ASSUME IInv, ReignInv, ReignInv', Replaces, now' = now, Scoped',
         \A h \in Handlers : Entitled(req'[h], call'[h])
  PROVE  EntitledInv'
<1>1. now \in Nat /\ now <= now BY DEF IInv, StoreTypes
<1>2. Onwards BY <1>1, Continues
<1>3. ASSUME NEW h \in Handlers PROVE Entitled(req[h], call[h])'
  <2>1. PICK q : q = req'[h] OBVIOUS
  <2>2. PICK c : c = call'[h] OBVIOUS
  <2>3. q.began \in Nat /\ q.began <= now BY <2>1 DEF ReignInv, ReadOK, ReqType
  <2>4. Entitled(q, c) BY <2>1, <2>2
  <2>5. Entitled(q, c)' BY <1>2, <2>3, <2>4, EntitledKept
  <2> QED BY <2>1, <2>2, <2>5 DEF Entitled, Reigned
<1> QED BY <1>3 DEF EntitledInv

(* A step of the store leaves a handler where it was, at rest, with its
   policy, or at the next step of its put. *)
LEMMA HandlerGoes ==
  ASSUME IInv, NEW h \in Handlers, HandlerStep(h)
  PROVE  /\ Alone(h)
         /\ \/ req'[h] = Idle
            \/ req[h].pc \in {"load", "version"} /\ req'[h].pc \in {"loaded", "version"}
            \/ req[h].pc \in PutPcs /\ req'[h].pc \in AdminPcs /\ req'[h].began = req[h].began
<1>0. /\ StoreTypes /\ req \in [Handlers -> ReqType] /\ req[h] \in ReqType /\ Placed(h)
  BY DEF IInv, StoreTypes
<1>1. ASSUME End(h) PROVE Alone(h) /\ req'[h] = Idle BY <1>0, <1>1, EndDoes
<1>2. ASSUME NEW pc \in {"slot", "taken", "cas", "stored"}, Goto(h, pc)
      PROVE  Alone(h) /\ req'[h].pc \in AdminPcs /\ req'[h].began = req[h].began
  BY <1>0, <1>2, GotoDoes DEF Pcs, PutPcs, AdminPcs
<1>3. ASSUME NEW p \in Loaded, LoadedBy(h, p) PROVE Alone(h) /\ req'[h].pc = "loaded" BY <1>0, <1>3, LoadedByDoes
<1>4. CASE LoadCached(h)
  <2>1. Cached(h) # None /\ LoadedBy(h, Cached(h).policy) BY <1>4 DEF LoadCached, Fresh
  <2>2. req[h].iso \in Isolates BY <1>0, <1>4 DEF Placed, LoadCached, At
  <2>3. Cached(h).policy \in Loaded BY <1>0, <2>1, <2>2 DEF Cached, StoreTypes
  <2> QED BY <1>3, <1>4, <2>1, <2>3 DEF LoadCached
<1>5. CASE LoadPointer(h)
  <2>1. ptr \in Loaded BY <1>0 DEF StoreTypes
  <2>2. CASE ptr = EmptyPolicy BY <1>3, <1>5, <2>1, <2>2 DEF LoadPointer, CacheAndServe
  <2>3. CASE ptr # EmptyPolicy
    <3>1. req' = [req EXCEPT ![h].pc = "version", ![h].seen = ptr, ![h].began = now]
      BY <1>5, <2>3 DEF LoadPointer
    <3>2. Alone(h) /\ req'[h].pc = "version" BY <1>0, <3>1, LoadPointerDoes
    <3> QED BY <1>5, <3>2 DEF LoadPointer
  <2> QED BY <2>2, <2>3
<1>6. CASE LoadVersion(h)
  <2>1. req[h].seen \in Loaded BY <1>0 DEF ReqType
  <2> QED BY <1>1, <1>3, <1>6, <2>1 DEF LoadVersion, CacheAndServe
<1>7. CASE PutRead(h)
  <2>1. ASSUME req' = [req EXCEPT ![h].pc = "slot", ![h].seen = ptr]
        PROVE  Alone(h) /\ req'[h].pc \in AdminPcs /\ req'[h].began = req[h].began
    <3>1. Alone(h) /\ req'[h].pc = "slot" BY <1>0, <2>1, PutReadDoes
    <3>2. req'[h] = [req[h] EXCEPT !.pc = "slot", !.seen = ptr] BY <1>0, <2>1
    <3>3. req'[h].began = req[h].began BY <1>0, <3>2, Fields
    <3> QED BY <3>1, <3>3 DEF AdminPcs, PutPcs
  <2> QED BY <1>1, <1>7, <2>1 DEF PutRead, PutPcs
<1>8. CASE PutSlot(h) \/ PutTaken(h) \/ PutCas(h)
  <2>1. req[h].pc \in PutPcs BY <1>8 DEF PutSlot, PutTaken, PutCas, PutPcs
  <2>2. End(h) \/ \E pc \in {"slot", "taken", "cas", "stored"} : Goto(h, pc) BY <1>8 DEF PutSlot, PutTaken, PutCas
  <2> QED BY <1>1, <1>2, <2>1, <2>2
<1> QED BY <1>4, <1>5, <1>6, <1>7, <1>8 DEF HandlerStep

(* The store's steps take nothing from anyone's entitlement. *)
LEMMA StoreEntitled ==
  ASSUME IInv, EntitledInv, Follows, NEW g \in Handlers, req'[g] \in {req[g], Idle}
  PROVE  Entitled(req'[g], call'[g])
<1>1. CASE req'[g] = Idle
  <2>1. call'[g] = NoCall BY <1>1 DEF Follows
  <2> QED BY <1>1, <2>1, IdleEntitled
<1>2. CASE req'[g] # Idle
  <2>1. call'[g] = call[g] /\ req'[g] = req[g] BY <1>2 DEF Follows
  <2> QED BY <2>1 DEF EntitledInv
<1> QED BY <1>1, <1>2

(* Nor does a load or a put. *)
LEMMA HandlerEntitled ==
  ASSUME IInv, EntitledInv, Follows, NEW h \in Handlers, HandlerStep(h), NEW g \in Handlers
  PROVE  Entitled(req'[g], call'[g])
<1>1. CASE req'[g] \in {req[g], Idle} BY <1>1, StoreEntitled
<1>2. CASE req'[g] \notin {req[g], Idle}
  <2>1. g = h /\ call'[h] = call[h] BY <1>2, HandlerGoes DEF Follows, Alone
  <2>2. PICK q : q = req'[h] OBVIOUS
  <2>3. Entitled(req[h], call[h]) BY DEF EntitledInv
  <2>4. CASE req[h].pc \in {"load", "version"} /\ q.pc \in {"loaded", "version"}
    <3>1. Entitled(q, call[h]) BY <2>3, <2>4 DEF Entitled, DataPcs, AdminPcs, PutPcs
    <3> QED BY <2>1, <2>2, <3>1
  <2>5. CASE req[h].pc \in PutPcs /\ q.pc \in AdminPcs /\ q.began = req[h].began
    <3>1. Entitled(q, call[h]) BY <2>3, <2>5 DEF Entitled, DataPcs, AdminPcs, PutPcs
    <3> QED BY <2>1, <2>2, <3>1
  <2> QED BY <1>2, <2>1, <2>2, <2>4, <2>5, HandlerGoes
<1> QED BY <1>1, <1>2

(* What a step writes of a handler's call, and what it leaves. *)
LEMMA CallFields ==
  ASSUME NEW c \in CallOK
  PROVE  /\ \A token : LET d == [c EXCEPT !.token = token] IN d.r = c.r /\ d.token = token /\ d.looked = c.looked
         /\ \A looked : LET d == [c EXCEPT !.looked = looked] IN d.r = c.r /\ d.token = c.token /\ d.looked = looked
         /\ \A r : LET d == [c EXCEPT !.r = r] IN d.r = r /\ d.token = c.token /\ d.looked = c.looked
<1>1. DOMAIN c = {"r", "token", "looked"} BY DEF CallOK
<1> QED BY <1>1, Zenon

(* The decision: the policy of a load reigned within the lag of its time, and
   the rest of the request is entitled by it. *)
LEMMA RouteEntitled ==
  ASSUME IInv, ReignInv, EntitledInv, NEW h \in Handlers, Route(h), req'[h] # Idle
  PROVE  Entitled(req'[h], call'[h])
<1>0. req[h] \in ReqType /\ ReadOK(req[h]) /\ Entitled(req[h], call[h]) /\ At(h, "loaded")
  BY DEF IInv, StoreTypes, ReignInv, EntitledInv, Route
<1>1. ~ Close(h) BY EndDoes DEF Close, IInv
<1>2. /\ DataAllowed(h) \/ MintAllowed(h) \/ AdminAllowed(h)
      /\ call' = call
      /\ \E to \in {t \in Routes : t.kind = Req(h).kind} :
           req' = [req EXCEPT ![h].pc = to.to,
                              ![h].policy = IF Req(h).kind = "list" THEN @ ELSE None,
                              ![h].doc = Req(h).doc, ![h].version = Req(h).version]
  BY <1>1 DEF Route
<1>3. PICK to \in Routes :
        /\ to.kind = Req(h).kind
        /\ req' = [req EXCEPT ![h].pc = to.to,
                              ![h].policy = IF Req(h).kind = "list" THEN @ ELSE None,
                              ![h].doc = Req(h).doc, ![h].version = Req(h).version]
  BY <1>2
<1> DEFINE policy == IF Req(h).kind = "list" THEN req[h].policy ELSE None
<1>4. req'[h] = [req[h] EXCEPT !.pc = to.to, !.policy = policy, !.doc = Req(h).doc, !.version = Req(h).version]
  BY <1>0, <1>3 DEF IInv, StoreTypes, ReqType
<1>5. Req(h).kind = "list" => policy = req[h].policy OBVIOUS
<1> HIDE DEF policy
<1>6. PICK q : q = req'[h] OBVIOUS
<1>7. q.pc = to.to /\ q.policy = policy /\ q.began = req[h].began BY <1>0, <1>4, <1>6, Fields
<1>8. req[h].policy # None /\ req[h].policy \in Reigned(q.began, Lag) BY <1>0, <1>7 DEF ReadOK, At
<1>9. PICK c : c = call[h] OBVIOUS
<1>10. c.r = Req(h) /\ call'[h] = c BY <1>2, <1>9 DEF Req
<1>11. \A t \in c.token : t.sub = c.r.p.id BY <1>0, <1>9 DEF Entitled
<1>12. \A t \in c.token : c.looked <= t.exp + Leeway + LoadMax BY <1>0, <1>9 DEF Entitled, At
<1>13. \/ q.pc = "manifest" /\ c.r.kind \in {"read", "list"}
       \/ q.pc = "dispatch" /\ c.r.kind \in {"write", "delete"}
       \/ q.pc = "mint" /\ c.r.kind = "mint"
       \/ q.pc \in {"put", "deny", "control"} /\ c.r.kind \in {"policy", "revoke", "plan"}
  BY <1>3, <1>7, <1>10 DEF Routes
<1>14. CASE c.r.kind \in {"read", "write", "delete"}
  <2>1. \A k \in c.r.keys : Can(req[h].policy.doc, c.r.p, c.token, Project, k, c.r.kind)
    BY <1>2, <1>9, <1>10, <1>14 DEF DataAllowed, MintAllowed, Mintable, AdminAllowed, May, Doc
  <2>2. q.pc \in {"manifest", "dispatch"} BY <1>13, <1>14
  <2>3. Entitled(q, c) BY <1>8, <1>11, <1>12, <1>13, <1>14, <2>1, <2>2 DEF Entitled, DataPcs, AdminPcs, PutPcs
  <2> QED BY <1>6, <1>10, <2>3
<1>15. CASE c.r.kind = "list"
  <2>1. q.pc = "manifest" /\ q.policy # None BY <1>5, <1>7, <1>8, <1>10, <1>13, <1>15
  <2>2. Entitled(q, c) BY <1>11, <1>12, <1>15, <2>1 DEF Entitled, DataPcs, AdminPcs, PutPcs
  <2> QED BY <1>6, <1>10, <2>2
<1>16. CASE c.r.kind = "mint"
  <2>1. c.r.verbs \subseteq {"read", "write", "rotate"}
    BY <1>2, <1>10, <1>16 DEF DataAllowed, MintAllowed, Mintable, AdminAllowed
  <2>2. q.pc = "mint" BY <1>13, <1>16
  <2>3. Entitled(q, c) BY <1>11, <1>12, <2>1, <2>2 DEF Entitled, DataPcs, AdminPcs, PutPcs
  <2> QED BY <1>6, <1>10, <2>3
<1>17. CASE c.r.kind \in {"policy", "revoke", "plan"}
  <2>1. c.token = {} /\ HasAdminVerb(req[h].policy.doc, c.r.p)
    BY <1>2, <1>9, <1>10, <1>17 DEF DataAllowed, MintAllowed, Mintable, AdminAllowed, Doc
  <2>2. q.pc \in {"put", "deny", "control"} BY <1>13, <1>17
  <2>3. Entitled(q, c) BY <1>8, <1>11, <1>12, <2>1, <2>2 DEF Entitled, DataPcs, AdminPcs, PutPcs
  <2> QED BY <1>6, <1>10, <2>3
<1> QED BY <1>13, <1>14, <1>15, <1>16, <1>17

(* No step of the gate goes further than the decision. *)
LEMMA GateEntitled ==
  ASSUME IInv, ReignInv, EntitledInv, NEW h \in Handlers, GateStep(h)
  PROVE  Entitled(req'[h], call'[h]) /\ \A g \in Handlers \ {h} : call'[g] = call[g]
<1>0. /\ StoreTypes /\ req \in [Handlers -> ReqType] /\ req[h] \in ReqType /\ Entitled(req[h], call[h])
      /\ call \in [Handlers -> CallOK] /\ call[h] \in CallOK /\ Placed(h) /\ Authentic(h)
  BY DEF IInv, StoreTypes, GateTypes, EntitledInv
<1>1. ASSUME Close(h) PROVE Entitled(req'[h], call'[h]) /\ \A g \in Handlers \ {h} : call'[g] = call[g]
  <2>1. req'[h] = Idle /\ call'[h] = NoCall /\ \A g \in Handlers \ {h} : call'[g] = call[g]
    BY <1>0, <1>1, EndDoes DEF Close
  <2> QED BY <2>1, IdleEntitled
<1>2. CASE Arrive(h)
  <2>1. PICK r \in Requests, i \in Isolates :
          /\ call' = [call EXCEPT ![h].r = r]
          /\ req' = [req EXCEPT ![h].iso = i, ![h].pc = IF r.bearer = None THEN "load" ELSE "verify"]
    BY <1>2 DEF Arrive
  <2> DEFINE pc == IF r.bearer = None THEN "load" ELSE "verify"
  <2>2. pc \in {"load", "verify"} OBVIOUS
  <2>3. req'[h] = [req[h] EXCEPT !.iso = i, !.pc = pc] BY <1>0, <2>1
  <2> HIDE DEF pc
  <2>4. PICK q : q = req'[h] OBVIOUS
  <2>5. q.pc = pc BY <1>0, <2>3, <2>4, Fields
  <2>6. call[h].token = {} BY <1>0, <1>2 DEF Arrive, Authentic
  <2>7. call'[h] = [call[h] EXCEPT !.r = r] /\ \A g \in Handlers \ {h} : call'[g] = call[g] BY <1>0, <2>1
  <2>8. PICK c : c = call'[h] OBVIOUS
  <2>9. c.token = {} BY <1>0, <2>6, <2>7, <2>8, CallFields
  <2>10. Entitled(q, c) BY <2>2, <2>5, <2>9 DEF Entitled, DataPcs, AdminPcs, PutPcs
  <2> QED BY <2>4, <2>7, <2>8, <2>10
<1>3. CASE VerifyToken(h)
  <2> DEFINE t == tokens[Req(h).bearer]
  <2>1. CASE now <= t.exp + Leeway /\ t.sub = Req(h).p.id
    <3>1. call' = [call EXCEPT ![h].token = {t}] /\ req' = [req EXCEPT ![h].pc = "lookup", ![h].began = now]
      BY <1>3, <2>1 DEF VerifyToken
    <3> HIDE DEF t
    <3>2. PICK q : q = req'[h] OBVIOUS
    <3>3. q = [req[h] EXCEPT !.pc = "lookup", !.began = now] BY <1>0, <3>1, <3>2
    <3>4. q.pc = "lookup" BY <1>0, <3>3, Fields
    <3>5. call'[h] = [call[h] EXCEPT !.token = {t}] /\ \A g \in Handlers \ {h} : call'[g] = call[g] BY <1>0, <3>1
    <3>6. PICK c : c = call'[h] OBVIOUS
    <3>7. c.token = {t} /\ c.r = Req(h) BY <1>0, <3>5, <3>6, CallFields DEF Req
    <3>8. Entitled(q, c) BY <2>1, <3>4, <3>7 DEF Entitled, DataPcs, AdminPcs, PutPcs
    <3> QED BY <3>2, <3>5, <3>6, <3>8
  <2>2. CASE ~ (now <= t.exp + Leeway /\ t.sub = Req(h).p.id) BY <1>1, <1>3, <2>2 DEF VerifyToken
  <2> QED BY <2>1, <2>2
<1>4. ASSUME NEW hit \in BOOLEAN, LookupRevoked(h, hit)
      PROVE  Entitled(req'[h], call'[h]) /\ \A g \in Handlers \ {h} : call'[g] = call[g]
  <2>1. CASE hit BY <1>1, <1>4, <2>1 DEF LookupRevoked
  <2>2. CASE ~ hit
    <3>1. At(h, "lookup") /\ call' = [call EXCEPT ![h].looked = now] /\ Goto(h, "load")
      BY <1>4, <2>2 DEF LookupRevoked
    <3>2. PICK q : q = req'[h] OBVIOUS
    <3>3. q.pc = "load" BY <1>0, <3>1, <3>2, GotoDoes DEF Pcs
    <3>4. call'[h] = [call[h] EXCEPT !.looked = now] /\ \A g \in Handlers \ {h} : call'[g] = call[g] BY <1>0, <3>1
    <3>5. PICK c : c = call'[h] OBVIOUS
    <3>6. c.token = call[h].token /\ c.r = call[h].r /\ c.looked = now BY <1>0, <3>4, <3>5, CallFields
    <3>7. ASSUME NEW t \in c.token PROVE now <= t.exp + Leeway + LoadMax
      <4>1. t = tokens[Req(h).bearer] /\ t \in Claimed BY <1>0, <3>6 DEF Authentic, CallOK
      <4>2. req[h].began <= t.exp + Leeway /\ now <= req[h].began + LoadMax BY <1>0, <3>1, <4>1 DEF Authentic
      <4>3. t.exp \in Nat /\ req[h].began \in Nat /\ now \in Nat BY <1>0, <4>1 DEF Claimed, ReqType, StoreTypes
      <4> QED BY <4>2, <4>3, Constants
    <3>8. Entitled(q, c) BY <1>0, <3>3, <3>6, <3>7 DEF Entitled, DataPcs, AdminPcs, PutPcs
    <3> QED BY <3>2, <3>4, <3>5, <3>8
  <2> QED BY <2>1, <2>2
<1>5. CASE Route(h)
  <2>1. CASE Close(h) BY <1>1, <2>1
  <2>2. CASE ~ Close(h)
    <3>1. call' = call BY <1>5, <2>2 DEF Route
    <3>2. PICK to \in Routes :
            req' = [req EXCEPT ![h].pc = to.to,
                               ![h].policy = IF Req(h).kind = "list" THEN @ ELSE None,
                               ![h].doc = Req(h).doc, ![h].version = Req(h).version]
      BY <1>5, <2>2 DEF Route
    <3>3. req'[h].pc # "idle"
      <4> DEFINE policy == IF Req(h).kind = "list" THEN req[h].policy ELSE None
      <4>1. req'[h] = [req[h] EXCEPT !.pc = to.to, !.policy = policy, !.doc = Req(h).doc, !.version = Req(h).version]
        BY <1>0, <3>2 DEF ReqType
      <4> HIDE DEF policy
      <4>2. req'[h].pc = to.to BY <1>0, <4>1, Fields
      <4> QED BY <4>2 DEF Routes
    <3>4. req'[h] # Idle BY <3>3, IdleReq
    <3> QED BY <1>5, <3>1, <3>4, RouteEntitled
  <2> QED BY <2>1, <2>2
<1>6. CASE ReadManifest(h)
  <2>1. CASE Close(h) BY <1>1, <2>1
  <2>2. CASE ~ Close(h)
    <3>1. Goto(h, "audit") /\ call' = call /\ At(h, "manifest") /\ Req(h).kind = "read"
      BY <1>6, <2>2 DEF ReadManifest
    <3>2. PICK q : q = req'[h] OBVIOUS
    <3>3. q.pc = "audit" /\ q.began = req[h].began BY <1>0, <3>1, <3>2, GotoDoes DEF Pcs
    <3>4. PICK c : c = call[h] OBVIOUS
    <3>5. c.r.kind = "read" BY <3>1, <3>4 DEF Req
    <3>6. Entitled(q, c) BY <1>0, <3>1, <3>3, <3>4, <3>5 DEF Entitled, At, DataPcs, AdminPcs, PutPcs
    <3> QED BY <3>1, <3>2, <3>4, <3>6
  <2> QED BY <2>1, <2>2
<1>7. CASE Deny(h)
  <2>1. Goto(h, "control") /\ call' = call /\ At(h, "deny") BY <1>7 DEF Deny
  <2>2. PICK q : q = req'[h] OBVIOUS
  <2>3. q.pc = "control" /\ q.began = req[h].began BY <1>0, <2>1, <2>2, GotoDoes DEF Pcs
  <2>4. Entitled(q, call[h]) BY <1>0, <2>1, <2>3 DEF Entitled, At, DataPcs, AdminPcs, PutPcs
  <2> QED BY <2>1, <2>2, <2>4
<1>8. CASE AnswerRead(h) \/ Mint(h) \/ Control(h) \/ \E b \in BOOLEAN : RefuseRead(h, b) \/ Dispatch(h, b)
  BY <1>1, <1>8 DEF AnswerRead, Mint, Control, RefuseRead, Dispatch
<1> QED BY <1>2, <1>3, <1>4, <1>5, <1>6, <1>7, <1>8 DEF GateStep

(* A token is minted with what its request was let ask for. *)
LEMMA GateScoped ==
  ASSUME IInv, EntitledInv, NEW h \in Handlers, GateStep(h)
  PROVE  Scoped'
<1>1. CASE Mint(h)
  <2>1. PICK j \in Jtis : tokens' = [tokens EXCEPT ![j] = Claims(j, Req(h))] BY <1>1 DEF Mint
  <2>2. Req(h).verbs \subseteq {"read", "write", "rotate"} BY <1>1 DEF Mint, At, EntitledInv, Entitled, Req
  <2>3. Claims(j, Req(h)).scope.verbs = Req(h).verbs BY DEF Claims
  <2>4. \A k \in Jtis : tokens'[k] = IF k = j THEN Claims(j, Req(h)) ELSE tokens[k] BY <2>1 DEF IInv, GateTypes
  <2> QED BY <2>2, <2>3, <2>4 DEF EntitledInv, Scoped
<1>2. CASE ~ Mint(h)
  <2>1. tokens' = tokens
    BY <1>2 DEF GateStep, Arrive, VerifyToken, Route, LookupRevoked, ReadManifest, AnswerRead, Deny, Control,
                RefuseRead, Dispatch
  <2> QED BY <2>1 DEF EntitledInv, Scoped
<1> QED BY <1>1, <1>2

(* Each step keeps everyone entitled to where he is. *)
LEMMA EntitledStep ==
  ASSUME IInv, IInv', ReignInv, ReignInv', EntitledInv, [Next]_vars
  PROVE  EntitledInv'
<1>0. now \in Nat /\ StoreTypes BY DEF IInv, StoreTypes
<1>1. CASE UNCHANGED vars \/ Drain
  BY <1>1 DEF vars, storeVars, gateVars, Drain, EntitledInv, Scoped, Entitled, Reigned
<1>2. ASSUME NEW h \in Handlers, GateStep(h) PROVE EntitledInv'
  <2>1. UNCHANGED <<ptr, past, now>> /\ Alone(h) BY <1>2, ReignGate
  <2>2. Scoped' BY <1>2, GateScoped
  <2>3. ASSUME NEW g \in Handlers PROVE Entitled(req'[g], call'[g])
    <3>1. CASE g = h BY <1>2, <3>1, GateEntitled
    <3>2. CASE g # h
      <4>1. req'[g] = req[g] /\ call'[g] = call[g] BY <1>2, <2>1, <3>2, GateEntitled DEF Alone
      <4> QED BY <4>1 DEF EntitledInv
    <3> QED BY <3>1, <3>2
  <2> QED BY <2>1, <2>2, <2>3, EntitledNext DEF Replaces
<1>3. ASSUME NEW h \in Handlers, WithStore(HandlerStep(h)) PROVE EntitledInv'
  <2>1. Follows /\ HandlerStep(h) /\ Scoped' BY <1>3 DEF WithStore, Follows, EntitledInv, Scoped
  <2>2. now' = now
    BY <2>1 DEF HandlerStep, LoadCached, LoadPointer, LoadVersion, PutRead, PutSlot, PutTaken, PutCas
  <2>3. Replaces
    <3>1. CASE PutCas(h)
      <4>1. CASE Unmoved(h)
        <5>1. /\ ptr' = [version |-> req[h].version, doc |-> req[h].doc]
              /\ past' = past \cup {[policy |-> ptr, until |-> now]}
              /\ ptr = req[h].seen /\ req[h].pc = "cas"
          BY <3>1, <4>1 DEF PutCas, Unmoved
        <5>2. req[h].version = ptr.version + 1 BY <5>1 DEF ReignInv, ReadOK
        <5> QED BY <5>1, <5>2 DEF Replaces
      <4>2. CASE ~ Unmoved(h) BY <3>1, <4>2 DEF PutCas, Replaces
      <4> QED BY <4>1, <4>2
    <3>2. CASE ~ PutCas(h)
      BY <2>1, <3>2 DEF HandlerStep, LoadCached, LoadPointer, LoadVersion, PutRead, PutSlot, PutTaken, Replaces
    <3> QED BY <3>1, <3>2
  <2>4. \A g \in Handlers : Entitled(req'[g], call'[g]) BY <2>1, HandlerEntitled
  <2> QED BY <2>1, <2>2, <2>3, <2>4, EntitledNext
<1>4. ASSUME NEW h \in Handlers, WithStore(Drop(h)) PROVE EntitledInv'
  <2>1. End(h) /\ UNCHANGED <<now, ptr, past>> /\ Follows /\ Scoped'
    BY <1>4 DEF WithStore, Drop, Follows, EntitledInv, Scoped
  <2>2. \A g \in Handlers : req'[g] \in {req[g], Idle} BY <1>0, <2>1, EndDoes DEF Alone
  <2> QED BY <2>1, <2>2, StoreEntitled, EntitledNext DEF Replaces
<1>5. ASSUME NEW i \in Isolates, WithStore(Evict(i)) PROVE EntitledInv'
  <2>1. /\ UNCHANGED <<now, ptr, past>> /\ Follows /\ Scoped'
        /\ req' = [h \in Handlers |-> IF req[h].iso = i THEN Idle ELSE req[h]]
    BY <1>5 DEF WithStore, Evict, Follows, EntitledInv, Scoped
  <2>2. \A g \in Handlers : req'[g] \in {req[g], Idle} BY <2>1
  <2> QED BY <2>1, <2>2, StoreEntitled, EntitledNext DEF Replaces
<1>6. ASSUME WithStore(Tick) PROVE EntitledInv'
  <2>1. now' = now + 1 /\ UNCHANGED <<ptr, past, req>> /\ Follows /\ Scoped'
    BY <1>6 DEF WithStore, Tick, Follows, EntitledInv, Scoped
  <2>2. ASSUME NEW g \in Handlers PROVE Entitled(req[g], call[g])'
    <3>1. Entitled(req'[g], call'[g]) BY <2>1, StoreEntitled
    <3> QED BY <2>1, <3>1 DEF Entitled, Reigned
  <2> QED BY <2>1, <2>2 DEF EntitledInv
<1> QED BY <1>1, <1>2, <1>3, <1>4, <1>5, <1>6 DEF Next, Fault, Running

(* A token that was minted before carries no more than was asked for. *)
LEMMA EntitledInit == Init => EntitledInv
<1> SUFFICES ASSUME Init PROVE EntitledInv OBVIOUS
<1>1. \A h \in Handlers : Entitled(req[h], call[h]) BY IdleEntitled DEF Init, StoreInit
<1>2. Scoped
  <2>1. CASE tokens = [j \in Jtis |-> None] BY <2>1 DEF Scoped
  <2>2. CASE tokens # [j \in Jtis |-> None]
    <3>1. PICK r \in Requests : Mintable(ptr.doc, r) /\ tokens = [j \in Jtis |-> Claims(j, r)] BY <2>2 DEF Init
    <3>2. \A j \in Jtis : Claims(j, r).scope.verbs = r.verbs BY DEF Claims
    <3> QED BY <3>1, <3>2 DEF Scoped, Mintable
  <2> QED BY <2>1, <2>2
<1> QED BY <1>1, <1>2 DEF EntitledInv

(* An answer is justified by the policy its handler was entitled by. *)
LEMMA JustifiedStep ==
  ASSUME IInv, ReignInv, Bounds, EntitledInv, JustifiedByFreshPolicy, [Next]_vars
  PROVE  JustifiedByFreshPolicy'
<1>1. CASE UNCHANGED vars BY <1>1 DEF vars, storeVars, gateVars, JustifiedByFreshPolicy, Reigned
<1>2. ASSUME NEW h \in Handlers, GateStep(h) PROVE JustifiedByFreshPolicy'
  <2>1. UNCHANGED <<ptr, past, now>> BY <1>2, ReignGate
  <2>2. \A l \in answer' : Justified(l) BY <1>2, AnswersJustified
  <2> QED BY <2>1, <2>2 DEF Justified, JustifiedByFreshPolicy, Reigned
<1>3. CASE Next /\ ~ \E h \in Handlers : GateStep(h)
  <2>1. answer' = {} BY <1>3 DEF Next, Fault, Drain, WithStore, NoAnswer, Running
  <2> QED BY <2>1 DEF JustifiedByFreshPolicy
<1> QED BY <1>1, <1>2, <1>3

(* policy.ts:300, auth.ts:299 and the routes of index.ts: every answer was
   granted by a policy that was current within the lag before the decision,
   and one under a minted token was in its scope too, for any set of documents,
   requests, handlers and isolates. *)
THEOREM AnswersAreJustified == Spec => []JustifiedByFreshPolicy
<1>1. Spec => []EntitledInv
  <2>1. IInv /\ IInv' /\ ReignInv /\ ReignInv' /\ EntitledInv /\ [Next]_vars => EntitledInv' BY EntitledStep
  <2> QED BY IInvHolds, ReignInvHolds, EntitledInit, <2>1, PTL DEF Spec
<1>2. Spec => []Bounds
  <2>1. IInv /\ Bounds /\ [Next]_vars => Bounds' BY BoundsStep
  <2> QED BY IInvHolds, BoundsInit, <2>1, PTL DEF Spec
<1>3. Init => JustifiedByFreshPolicy BY DEF Init, JustifiedByFreshPolicy
<1>4. IInv /\ ReignInv /\ Bounds /\ EntitledInv /\ JustifiedByFreshPolicy /\ [Next]_vars => JustifiedByFreshPolicy'
  BY JustifiedStep
<1> QED BY IInvHolds, ReignInvHolds, <1>1, <1>2, <1>3, <1>4, PTL DEF Spec
=============================================================================
