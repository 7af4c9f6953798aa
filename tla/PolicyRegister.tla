--------------------------- MODULE PolicyRegister ---------------------------
(***************************************************************************)
(* What the policy store promises: one current document, replaced only by  *)
(* the next version, and readers that may lag behind it, but never by more *)
(* than Lag.                                                               *)
(***************************************************************************)
EXTENDS Naturals

CONSTANTS Docs, Readers, None, Lag

VARIABLES now, current, past, served
vars == <<now, current, past, served>>

Empty == [version |-> 0, doc |-> {}]

Init ==
  /\ now = 0
  /\ current \in {Empty} \cup [version : {1}, doc : Docs]
  /\ past = {}
  /\ served = [r \in Readers |-> None]

Publish(doc) ==
  /\ current' = [version |-> current.version + 1, doc |-> doc]
  /\ past' = past \cup {[policy |-> current, until |-> now]}
  /\ UNCHANGED <<now, served>>

(* A reader that asks now may be told of what was current less than Lag ago. *)
Serve(r) ==
  /\ \E p \in {current} \cup {q.policy : q \in {q \in past : q.until + Lag > now}} :
       served' = [served EXCEPT ![r] = p]
  /\ UNCHANGED <<now, current, past>>

Forget ==
  /\ \A r \in Readers : served'[r] \in {served[r], None}
  /\ DOMAIN served' = Readers
  /\ UNCHANGED <<now, current, past>>

Tick == now' = now + 1 /\ UNCHANGED <<current, past, served>>

Next ==
  \/ \E doc \in Docs : Publish(doc)
  \/ \E r \in Readers : Serve(r)
  \/ Forget \/ Tick

Spec == Init /\ [][Next]_vars
=============================================================================
