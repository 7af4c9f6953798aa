------------------------- MODULE AuditLedgerProofs --------------------------
(***************************************************************************)
(* AuditChain implements AuditLedger, and the promises to its callers that *)
(* rest on the same invariant, LedgerInv: a durable key is in the chain    *)
(* once, an acknowledged append is there, rows of unknown origin are       *)
(* pinned, every row is queued for the escrow.  At the end, what a         *)
(* canceled append may do to the ones after it.                            *)
(***************************************************************************)
EXTENDS AuditChainProofs

(* The parts of LedgerInv that say nothing of the handlers. *)
StoreInv ==
  /\ HeldOK /\ IntentAtHead /\ ReceiptsOK /\ PendingOK /\ DoneOK
  /\ FlightOK /\ BeyondHead /\ LateOK
  /\ AtMostOnce /\ ForeignRowsArePinned
-----------------------------------------------------------------------------
(***************************************************************************)
(* Sequences of rows.                                                      *)
(***************************************************************************)
(* What a held intent or a batch will make of the chain it was built on. *)
LEMMA CallFacts ==
  ASSUME NEW s, NEW first \in Nat \ {0}, Rows(s), first <= Len(s), OneCallFrom(s, first)
  PROVE  /\ Len(s) \in Nat /\ s[first].pay \in Nat \ {0}
         /\ Len(s) = first + s[first].pay - 1
         /\ \A n \in first .. Len(s) : ~Legacy(s[n]) /\ s[n].key = s[first].key
         /\ s[Len(s)].pay = s[first].pay /\ s[Len(s)].i = s[Len(s)].pay
<1>1. Len(s) \in Nat /\ \A n \in 1 .. Len(s) : RowOK(s[n])
  BY RowsSeq
<1>2. s[first].pay \in Nat \ {0}
  BY <1>1 DEF RowOK
<1>3. Len(s) = first + s[first].pay - 1
  BY DEF OneCallFrom
<1>4. \A n \in first .. Len(s) : ~Legacy(s[n]) /\ s[n].key = s[first].key
  BY DEF OneCallFrom, Legacy
<1>5. Len(s) \in first .. Len(s)
  BY <1>1
<1>6. s[Len(s)].pay = s[first].pay /\ s[Len(s)].i = Len(s) - first + 1
  BY <1>5 DEF OneCallFrom
<1> QED BY <1>1, <1>2, <1>3, <1>4, <1>6
(* A longer chain holds the same rows where the shorter one ends. *)
LEMMA PrefixRow ==
  ASSUME NEW s, NEW t, Rows(s), Rows(t), IsPrefix(s, t)
  PROVE  /\ Len(s) \in Nat /\ Len(t) \in Nat /\ Len(s) <= Len(t)
         /\ \A n \in 1 .. Len(s) : s[n] = t[n]
         /\ DOMAIN s = 1 .. Len(s) /\ DOMAIN t = 1 .. Len(t)
BY PrefixElements, RowsSeq
(* Sequences of the same rows are the same. *)
LEMMA PrefixSame ==
  ASSUME NEW s, NEW t, Rows(s), Rows(t), IsPrefix(s, t), Len(s) = Len(t)
  PROVE  s = t
<1>1. s \in Seq(Range(s)) /\ t \in Seq(Range(t))
  BY RowsSeq
<1>2. SubSeq(s, 1, Len(s)) = s /\ SubSeq(t, 1, Len(t)) = t
  BY <1>1, SubSeqFull
<1> QED BY <1>2 DEF IsPrefix
-----------------------------------------------------------------------------
(* What every step finds. *)
LEMMA Chain ==
  ASSUME IInv
  PROVE  /\ Rows(head) /\ Rows(d1) /\ IsPrefix(head, d1)
         /\ Len(head) \in Nat /\ Len(d1) \in Nat /\ Len(head) <= Len(d1)
         /\ DOMAIN head = 1 .. Len(head)
         /\ \A n \in 1 .. Len(head) : head[n] = d1[n]
         /\ Rows(pending.to) /\ IsPrefix(pending.to, d1) /\ Len(pending.to) \in Nat
         /\ intent = NoIntent \/ IntentOK(intent)
         /\ \A c \in Held : IntentOK(c)
         /\ \A b \in flight : IntentOK(b)
<1>1. /\ Rows(head) /\ Rows(d1) /\ IsPrefix(head, d1)
      /\ Rows(pending.to) /\ IsPrefix(pending.to, d1)
  BY DEF IInv, TypeOK, ChainInv, HeadOnD1, PinnedOnD1
<1>2. /\ intent = NoIntent \/ IntentOK(intent)
      /\ \A c \in Held : IntentOK(c)
      /\ \A b \in flight : IntentOK(b)
  BY DEF IInv, TypeOK, Held
<1> QED BY <1>1, <1>2, PrefixRow, RowsSeq
LEMMA IntentFacts ==
  ASSUME NEW c, IntentOK(c)
  PROVE  /\ Rows(c.last) /\ Len(c.last) \in Nat
         /\ c.first \in Nat \ {0} /\ c.first <= Len(c.last)
BY RowsSeq DEF IntentOK

-----------------------------------------------------------------------------
(***************************************************************************)
(* What a commit of an intent does.                                        *)
(***************************************************************************)
(* An intent at the head whose rows D1 holds is committed with its own ticket:
   by the handler that made it, by recover, or by reconcile. *)
CommitsIntent(c) ==
  /\ c \in HeldAtHead
  /\ IsPrefix(c.last, d1)
  /\ CommitHead(c.last, c)
  /\ Range(abandoned') \subseteq Range(abandoned)
  /\ UNCHANGED <<pending, done, d1, flight, late>>

(* The chain grows by exactly the rows of the call. *)
LEMMA CommitGrows ==
  ASSUME IInv, StoreInv, NEW c, CommitsIntent(c)
  PROVE  /\ head' = c.last /\ Rows(head') /\ Len(head') \in Nat
         /\ c.pay \in Nat \ {0} /\ Len(head') = Len(head) + c.pay
         /\ c.first = Len(head) + 1
         /\ IsPrefix(head, head')
         /\ DOMAIN head' = 1 .. Len(head')
         /\ \A n \in 1 .. Len(head) : head'[n] = head[n]
         /\ \A n \in Len(head) + 1 .. Len(head') : head'[n].key = c.key /\ ~Legacy(head'[n])
         /\ OneCallFrom(head', Len(head) + 1)
         /\ \A n \in 1 .. Len(head') : head'[n] = d1[n]
         /\ Len(head') <= Len(d1)
<1>1. c \in Held /\ c.first = Len(head) + 1 /\ head' = c.last
  BY DEF CommitsIntent, HeldAtHead, CommitHead
<1>2. /\ OneCallFrom(c.last, c.first) /\ IsPrefix(head, c.last)
      /\ c.last[c.first].key = c.key /\ c.last[c.first].pay = c.pay
  BY <1>1 DEF StoreInv, HeldOK
<1>3. /\ Rows(c.last) /\ Len(c.last) \in Nat
      /\ c.first \in Nat \ {0} /\ c.first <= Len(c.last)
  BY <1>1, Chain, IntentFacts
<1>4. Rows(head) /\ Rows(d1) /\ Len(head) \in Nat
  BY Chain
<1>5. /\ c.pay \in Nat \ {0} /\ Len(c.last) = Len(head) + c.pay
      /\ \A n \in Len(head) + 1 .. Len(c.last) : c.last[n].key = c.key /\ ~Legacy(c.last[n])
  <2>1. /\ c.pay \in Nat \ {0} /\ Len(c.last) = c.first + c.pay - 1
        /\ \A n \in c.first .. Len(c.last) : c.last[n].key = c.key /\ ~Legacy(c.last[n])
    BY <1>2, <1>3, CallFacts
  <2> QED BY <1>1, <1>3, <1>4, <2>1
<1>6. /\ DOMAIN c.last = 1 .. Len(c.last)
      /\ \A n \in 1 .. Len(head) : c.last[n] = head[n]
  BY <1>2, <1>3, <1>4, PrefixRow
<1>7. Len(c.last) <= Len(d1) /\ \A n \in 1 .. Len(c.last) : c.last[n] = d1[n]
  <2>1. IsPrefix(c.last, d1)
    BY DEF CommitsIntent
  <2> QED BY <1>3, <1>4, <2>1, PrefixRow
<1> QED BY <1>1, <1>2, <1>3, <1>4, <1>5, <1>6, <1>7

(* Only its own receipt is added. *)
LEMMA CommitReceipts ==
  ASSUME IInv, StoreInv, NEW c, CommitsIntent(c)
  PROVE  LET new == [key |-> c.key, head |-> c.last, pay |-> c.pay] IN
         /\ receipts' = IF Durable(c.key) THEN receipts \cup {new} ELSE receipts
         /\ Range(recent') \subseteq Range(recent) \cup {new}
         /\ Durable(c.key) => \A r \in receipts : r.key # c.key
         /\ \A k : Durable(k) /\ k # c.key => Receipts(k)' = Receipts(k)
         /\ Durable(c.key) => Receipts(c.key)' # {}
<1> DEFINE new == [key |-> c.key, head |-> c.last, pay |-> c.pay]
<1>1. c \in Held /\ c.first = Len(head) + 1
  BY DEF CommitsIntent, HeldAtHead
<1>2. Durable(c.key) => \A r \in receipts : r.key # c.key
  <2>1. Durable(c.key) => Receipts(c.key) = {}
    BY <1>1 DEF StoreInv, HeldOK
  <2>2. Durable(c.key) => c.key.kind # "request"
    BY DEF Durable
  <2> QED BY <2>1, <2>2 DEF Receipts
<1>3. receipts' = IF Durable(c.key) THEN receipts \cup {new} ELSE receipts
  BY <1>2 DEF CommitsIntent, CommitHead
<1>4. recent' = recent \/ recent' = LastN(Append(recent, new), RecentMax)
  BY DEF CommitsIntent, CommitHead
<1> HIDE DEF new
<1>5. Range(recent') \subseteq Range(recent) \cup {new}
  <2>1. recent \in Seq(Range(recent)) /\ RecentMax \in Nat
    BY BoundsAssumption DEF IInv, TypeOK
  <2>2. Range(LastN(Append(recent, new), RecentMax)) \subseteq Range(recent) \cup {new}
    BY <2>1, Capped
  <2> QED BY <1>4, <2>2
<1>6. new.key = c.key
  BY DEF new
<1>7. \A k : Durable(k) => k.kind # "request"
  BY DEF Durable
<1>8. \A k : Durable(k) /\ k # c.key => Receipts(k)' = Receipts(k)
  BY <1>3, <1>6, <1>7 DEF Receipts
<1>9. Durable(c.key) => Receipts(c.key)' # {}
  BY <1>3, <1>6, <1>7 DEF Receipts
<1> QED BY <1>2, <1>3, <1>5, <1>8, <1>9 DEF new

(* Whatever else is held is behind the head now. *)
LEMMA CommitHeld ==
  ASSUME IInv, StoreInv, NEW c, CommitsIntent(c)
  PROVE  /\ Held' \subseteq Held
         /\ \A a \in Held' : a.first < Len(head') + 1
         /\ intent' = NoIntent
<1>1. intent' = NoIntent
  BY DEF CommitsIntent, CommitHead
<1>2. Held' \subseteq Held
  BY <1>1 DEF CommitsIntent, Held
<1>3. \A a \in Held : a.first \in Nat /\ a.first <= Len(head) + 1
  BY Chain, IntentFacts DEF StoreInv, HeldOK
<1>4. Len(head) < Len(head') /\ Len(head) \in Nat /\ Len(head') \in Nat
  BY CommitGrows, Chain
<1> QED BY <1>1, <1>2, <1>3, <1>4

(* No reconciliation is owed after it; and if one was before, the committed row
   is the one that records it. *)
LEMMA CommitOwed ==
  ASSUME IInv, StoreInv, NEW c, CommitsIntent(c)
  PROVE  /\ Owed' = NoPending.to
         /\ c.key.kind = "reconcile" =>
              /\ pending.to = head /\ Owed = head /\ c.key = ReconcileKey(head)
              /\ c.pay = 1 /\ Len(head) > 0
         /\ c.key.kind # "reconcile" => Owed = NoPending.to
<1>1. /\ c \in Held /\ c.first = Len(head) + 1 /\ Len(head) \in Nat /\ Rows(head)
  BY Chain DEF CommitsIntent, HeldAtHead
<1>2. Owed = IF c.key.kind = "reconcile" THEN head ELSE NoPending.to
  BY <1>1 DEF StoreInv, HeldOK
<1>3. UNCHANGED pending /\ NoPending.to = << >> /\ Len(<< >>) = 0
  BY EmptyRows DEF CommitsIntent, NoPending
<1>4. \A k : Durable(k) /\ Receipts(k) # {} => Receipts(k)' # {}
  BY CommitReceipts
<1>5. Durable(ReconcileKey(pending.to))
  BY DEF Durable, ReconcileKey
<1>6. CASE c.key.kind = "reconcile"
  <2>1. /\ c.key = ReconcileKey(c.key.id) /\ c.pay = 1
        /\ Rows(c.key.id) /\ IsPrefix(c.key.id, c.last)
        /\ c.first = Len(c.key.id) + 1 /\ c.first > 1
    BY <1>1, <1>6 DEF StoreInv, HeldOK
  <2>2. Rows(c.last) /\ IsPrefix(head, c.last) /\ Len(head) <= Len(c.last)
    <3>1. Rows(c.last) /\ IsPrefix(head, c.last)
      BY <1>1, Chain, IntentFacts DEF StoreInv, HeldOK
    <3> QED BY <1>1, <3>1, PrefixRow
  <2>3. Len(c.key.id) = Len(head)
    BY <1>1, <2>1, RowsSeq
  <2>4. c.key.id = head
    <3>1. IsPrefix(c.key.id, head)
      BY <1>1, <2>1, <2>2, <2>3, PrefixesOrdered
    <3> QED BY <1>1, <2>1, <2>3, <3>1, PrefixSame
  <2>5. Len(head) > 0
    BY <1>1, <2>1
  <2>6. Owed = head /\ Owed # NoPending.to
    BY <1>2, <1>3, <1>6, <2>5
  <2>7. Owed = pending.to
    BY <2>6 DEF Owed
  <2>8. Receipts(c.key)' # {}
    BY <2>1, CommitReceipts DEF Durable, ReconcileKey
  <2>9. c.key = ReconcileKey(pending.to)
    BY <2>1, <2>4, <2>6, <2>7
  <2>10. Receipts(ReconcileKey(pending.to))' # {}
    BY <1>3, <2>8, <2>9 DEF Receipts
  <2> QED BY <1>3, <1>6, <2>1, <2>4, <2>5, <2>6, <2>7, <2>9, <2>10 DEF Owed
<1>7. CASE c.key.kind # "reconcile"
  BY <1>2, <1>3, <1>4, <1>5, <1>7 DEF Owed
<1> QED BY <1>6, <1>7

(* A reconciliation whose row is written is behind the head. *)
LEMMA ClosedIsLonger ==
  ASSUME IInv, StoreInv, NEW to, Receipts(ReconcileKey(to)) # {}
  PROVE  /\ Len(head) > Len(to)
         /\ Rows(to) => /\ IsPrefix(to, head)
                        /\ head[Len(to) + 1].key = ReconcileKey(to)
<1>1. PICK r \in receipts : r.key = ReconcileKey(to)
  BY DEF Receipts, ReconcileKey
<1>2. r.key.kind = "reconcile" /\ r.key.id = to
  BY <1>1 DEF ReconcileKey
<1>3. /\ Rows(r.head) /\ IsPrefix(r.head, head)
      /\ r.head[Len(r.head)].key = r.key
      /\ IsPrefix(to, r.head) /\ Len(r.head) = Len(to) + 1
  BY <1>2 DEF StoreInv, ReceiptsOK
<1>4. /\ Rows(head) /\ Len(head) \in Nat /\ Len(r.head) \in Nat /\ Len(r.head) <= Len(head)
      /\ \A n \in 1 .. Len(r.head) : r.head[n] = head[n]
  BY <1>3, Chain, PrefixRow
<1>5. Len(to) \in Nat
  BY <1>3, <1>4 DEF IsPrefix
<1>6. Rows(to) => IsPrefix(to, head)
  BY <1>3, <1>4, PrefixTransitive
<1> QED BY <1>1, <1>3, <1>4, <1>5, <1>6

LEMMA CommitKeepsStore ==
  ASSUME IInv, StoreInv, NEW c, CommitsIntent(c)
  PROVE  StoreInv'
<1> DEFINE new == [key |-> c.key, head |-> c.last, pay |-> c.pay]
<1>1. /\ head' = c.last /\ Rows(head') /\ Len(head') \in Nat
      /\ c.pay \in Nat \ {0} /\ Len(head') = Len(head) + c.pay
      /\ c.first = Len(head) + 1
      /\ IsPrefix(head, head') /\ DOMAIN head' = 1 .. Len(head')
      /\ \A n \in 1 .. Len(head) : head'[n] = head[n]
      /\ \A n \in Len(head) + 1 .. Len(head') : head'[n].key = c.key /\ ~Legacy(head'[n])
      /\ OneCallFrom(head', Len(head) + 1)
      /\ \A n \in 1 .. Len(head') : head'[n] = d1[n]
      /\ Len(head') <= Len(d1)
  BY CommitGrows
<1>2. /\ Rows(head) /\ Len(head) \in Nat /\ DOMAIN head = 1 .. Len(head) /\ Len(d1) \in Nat
      /\ \A n \in 1 .. Len(head) : head[n] = d1[n]
      /\ Rows(pending.to) /\ Len(pending.to) \in Nat
      /\ \A a \in Held : IntentOK(a)
      /\ \A b \in flight : IntentOK(b)
  BY Chain
<1>3. /\ receipts' = IF Durable(c.key) THEN receipts \cup {new} ELSE receipts
      /\ Range(recent') \subseteq Range(recent) \cup {new}
      /\ Durable(c.key) => \A r \in receipts : r.key # c.key
      /\ \A k : Durable(k) /\ k # c.key => Receipts(k)' = Receipts(k)
      /\ Durable(c.key) => Receipts(c.key)' # {}
  BY CommitReceipts
<1>4. /\ Held' \subseteq Held
      /\ \A a \in Held' : a.first < Len(head') + 1
      /\ intent' = NoIntent
  BY CommitHeld
<1>5. /\ Owed' = NoPending.to
      /\ c.key.kind = "reconcile" =>
           /\ pending.to = head /\ Owed = head /\ c.key = ReconcileKey(head)
           /\ c.pay = 1 /\ Len(head) > 0
      /\ c.key.kind # "reconcile" => Owed = NoPending.to
  BY CommitOwed
<1>6. /\ UNCHANGED <<pending, done, d1, flight, late>>
      /\ c \in HeldAtHead /\ c \in Held
  BY DEF CommitsIntent, HeldAtHead
<1>7. \A s : Rows(s) /\ IsPrefix(s, head) => IsPrefix(s, head')
  BY <1>1, <1>2, PrefixTransitive
<1>8. HeldAtHead' = {}
  BY <1>1, <1>4, <1>6 DEF HeldAtHead
<1>9. HeldOK'
  <2> SUFFICES ASSUME NEW a \in Held'
               PROVE  /\ OneCallFrom(a.last, a.first)
                      /\ a.last[a.first].key = a.key /\ a.last[a.first].pay = a.pay
                      /\ a.first <= Len(head') + 1 /\ a.first # Len(head') + 1
                      /\ a.key.kind = "reconcile" =>
                           /\ a.key = ReconcileKey(a.key.id) /\ a.pay = 1
                           /\ Rows(a.key.id) /\ IsPrefix(a.key.id, a.last)
                           /\ a.first = Len(a.key.id) + 1 /\ a.first > 1
    BY DEF HeldOK
  <2>1. a \in Held /\ a.first \in Nat /\ a.first < Len(head') + 1
    BY <1>2, <1>4 DEF IntentOK
  <2>2. /\ OneCallFrom(a.last, a.first)
        /\ a.last[a.first].key = a.key /\ a.last[a.first].pay = a.pay
        /\ a.key.kind = "reconcile" =>
             /\ a.key = ReconcileKey(a.key.id) /\ a.pay = 1
             /\ Rows(a.key.id) /\ IsPrefix(a.key.id, a.last)
             /\ a.first = Len(a.key.id) + 1 /\ a.first > 1
    BY <2>1 DEF StoreInv, HeldOK
  <2>3. a.first <= Len(head') + 1 /\ a.first # Len(head') + 1
    BY <1>1, <2>1
  <2> QED BY <2>2, <2>3
<1>10. IntentAtHead'
  BY <1>4 DEF IntentAtHead
<1>11. ReceiptsOK'
  <2>1. ASSUME NEW r \in receipts' \cup Range(recent')
        PROVE  /\ Rows(r.head) /\ Len(r.head) > 0 /\ IsPrefix(r.head, head')
               /\ r.head[Len(r.head)].key = r.key
               /\ r.head[Len(r.head)].pay = r.head[Len(r.head)].i
               /\ r.key # OldRow.key => r.head[Len(r.head)].pay = r.pay
               /\ r.key.kind = "reconcile" =>
                    IsPrefix(r.key.id, r.head) /\ Len(r.head) = Len(r.key.id) + 1
    <3>1. CASE r = new
      <4>1. r.head = head' /\ r.key = c.key /\ r.pay = c.pay
        BY <1>1, <3>1
      <4>2. Len(head') \in Len(head) + 1 .. Len(head') /\ Len(head) + 1 \in Nat \ {0}
        BY <1>1, <1>2
      <4>3. head'[Len(head')].key = c.key
        BY <1>1, <4>2
      <4>4. head'[Len(head) + 1].pay = c.pay
        <5>1. c.last[c.first].pay = c.pay
          BY <1>6 DEF StoreInv, HeldOK
        <5> QED BY <1>1, <5>1
      <4>5. head'[Len(head')].pay = c.pay /\ head'[Len(head')].i = head'[Len(head')].pay
        <5> DEFINE s == c.last
        <5>1. Rows(s) /\ OneCallFrom(s, Len(head) + 1) /\ Len(head) + 1 <= Len(s)
              /\ s[Len(head) + 1].pay = c.pay /\ s = head'
          BY <1>1, <4>2, <4>4
        <5> HIDE DEF s
        <5>2. s[Len(s)].pay = c.pay /\ s[Len(s)].i = s[Len(s)].pay
          BY <4>2, <5>1, CallFacts
        <5> QED BY <5>1, <5>2
      <4>6. c.key.kind = "reconcile" =>
              IsPrefix(c.key.id, head') /\ Len(head') = Len(c.key.id) + 1
        BY <1>1, <1>2, <1>5, <1>6 DEF ReconcileKey
      <4>7. IsPrefix(head', head')
        BY <1>1, PrefixReflexive
      <4> QED BY <1>1, <1>2, <4>1, <4>3, <4>5, <4>6, <4>7
    <3>2. CASE r # new
      <4>1. r \in receipts \cup Range(recent)
        BY <1>3, <3>2
      <4> HIDE DEF new
      <4>2. /\ Rows(r.head) /\ Len(r.head) > 0 /\ IsPrefix(r.head, head)
            /\ r.head[Len(r.head)].key = r.key
            /\ r.head[Len(r.head)].pay = r.head[Len(r.head)].i
            /\ r.key # OldRow.key => r.head[Len(r.head)].pay = r.pay
            /\ r.key.kind = "reconcile" =>
                 IsPrefix(r.key.id, r.head) /\ Len(r.head) = Len(r.key.id) + 1
        BY <4>1 DEF StoreInv, ReceiptsOK
      <4> QED BY <1>7, <4>2
    <3> QED BY <3>1, <3>2
  <2>2. ASSUME NEW n \in DOMAIN head', Durable(head'[n].key)
        PROVE  \E r \in receipts' : r.key = head'[n].key
    <3>1. CASE n \in 1 .. Len(head)
      <4>1. head'[n] = head[n] /\ Receipts(head[n].key) # {}
        BY <1>1, <1>2, <2>2, <3>1 DEF StoreInv, ReceiptsOK
      <4>2. \E r \in receipts : r.key = head[n].key
        BY <2>2, <4>1 DEF Receipts, Durable
      <4> QED BY <1>3, <4>1, <4>2
    <3>2. CASE n \in Len(head) + 1 .. Len(head')
      <4>1. head'[n].key = c.key
        BY <1>1, <3>2
      <4>2. new \in receipts' /\ new.key = c.key
        BY <1>3, <2>2, <4>1
      <4> QED BY <4>1, <4>2
    <3> QED BY <1>1, <1>2, <3>1, <3>2
  <2>3. \A n \in DOMAIN head' : Durable(head'[n].key) => head'[n].key.kind # "request"
    BY DEF Durable
  <2>4. (\A n \in DOMAIN head : Durable(head[n].key) => Receipts(head[n].key) # {})'
    BY <2>2, <2>3 DEF Receipts
  <2> QED BY <2>1, <2>4 DEF ReceiptsOK
<1>12. PendingOK'
  <2>1. Rows(pending.from) /\ IsPrefix(pending.from, head) /\ (pending # NoPending => Len(pending.to) > 0)
        /\ (PartWay => HeldAtHead = {})
    BY DEF StoreInv, PendingOK
  <2>2. ~PartWay'
    BY <1>1, <1>2, <1>6, <2>1 DEF PartWay
  <2> QED BY <1>5, <1>6, <1>7, <2>1, <2>2 DEF PendingOK, NoPending
<1>13. DoneOK'
  <2>1. \A r \in done : Len(r.to) + 1 \in 1 .. Len(head)
    BY <1>2 DEF StoreInv, DoneOK
  <2> QED BY <1>1, <1>2, <1>6, <2>1 DEF StoreInv, DoneOK
<1>14. FlightOK'
  <2>1. \A b \in flight : b.first \in Nat
    BY <1>2 DEF IntentOK
  <2> QED BY <1>1, <1>2, <1>6, <2>1 DEF StoreInv, FlightOK
<1>15. BeyondHead'
  <2>1. \A n \in Len(head') + 1 .. Len(d1) : Legacy(d1[n])
    <3>1. Len(head) + 1 \in Len(head) + 1 .. Len(head') /\ Len(head) + 1 \in 1 .. Len(head')
      BY <1>1, <1>2
    <3>2. d1[Len(head) + 1] = head'[Len(head) + 1] /\ ~Legacy(d1[Len(head) + 1])
      BY <1>1, <3>1
    <3>3. d1[Len(head) + 1].pay = c.pay
      <4>1. c.last[c.first].pay = c.pay
        BY <1>6 DEF StoreInv, HeldOK
      <4> QED BY <1>1, <3>2, <4>1
    <3>4. ~(\A n \in Len(head) + 1 .. Len(d1) : Legacy(d1[n]))
      BY <1>1, <1>2, <3>1, <3>2
    <3>5. \A n \in Len(head) + d1[Len(head) + 1].pay + 1 .. Len(d1) : Legacy(d1[n])
      BY <3>4 DEF StoreInv, BeyondHead
    <3> QED BY <1>1, <3>3, <3>5
  <2> QED BY <1>6, <2>1 DEF BeyondHead
<1>16. LateOK'
  BY <1>6 DEF StoreInv, LateOK
<1>17. AtMostOnce'
  <2> SUFFICES ASSUME NEW n \in DOMAIN head', NEW m \in DOMAIN head', n < m,
                      head'[n].key = head'[m].key, Durable(head'[n].key)
               PROVE  /\ head'[m].i - head'[n].i = m - n
                      /\ head'[m].pay = head'[n].pay /\ head'[m].ts = head'[n].ts
    BY DEF AtMostOnce
  <2>1. CASE m \in 1 .. Len(head)
    <3>1. n \in 1 .. Len(head) /\ head'[n] = head[n] /\ head'[m] = head[m]
      BY <1>1, <1>2, <2>1
    <3> QED BY <1>2, <2>1, <3>1 DEF StoreInv, AtMostOnce
  <2>2. CASE n \in 1 .. Len(head) /\ m \in Len(head) + 1 .. Len(head')
    <3>1. head'[n] = head[n] /\ head[n].key = c.key /\ Durable(c.key)
      BY <1>1, <2>2
    <3>2. Receipts(c.key) # {}
      BY <1>2, <2>2, <3>1 DEF StoreInv, ReceiptsOK
    <3> QED BY <1>3, <3>1, <3>2 DEF Receipts, Durable
  <2>3. CASE n \in Len(head) + 1 .. Len(head') /\ m \in Len(head) + 1 .. Len(head')
    <3>1. head'[n].i = n - (Len(head) + 1) + 1 /\ head'[m].i = m - (Len(head) + 1) + 1
          /\ head'[m].pay = head'[n].pay /\ head'[m].ts = head'[n].ts
      BY <1>1, <2>3 DEF OneCallFrom
    <3> QED BY <1>2, <2>3, <3>1
  <2> QED BY <1>1, <1>2, <2>1, <2>2, <2>3
<1>18. ForeignRowsArePinned'
  <2> SUFFICES ASSUME NEW n \in DOMAIN head', Legacy(head'[n])
               PROVE  \E r \in done' \cup {pending'} :
                        /\ Len(r.from) < n /\ n <= Len(r.to)
                        /\ IsPrefix(r.from, head')
                        /\ Len(head') > Len(r.to) =>
                             head'[Len(r.to) + 1].key = ReconcileKey(r.to)
    BY DEF ForeignRowsArePinned, Legacy
  <2>1. n \in 1 .. Len(head) /\ Legacy(head[n])
    BY <1>1, <1>2
  <2>2. PICK r \in done \cup {pending} :
           /\ Len(r.from) < n /\ n <= Len(r.to)
           /\ IsPrefix(r.from, head)
           /\ Len(head) > Len(r.to) => head[Len(r.to) + 1].key = ReconcileKey(r.to)
    BY <1>2, <2>1 DEF StoreInv, ForeignRowsArePinned, Legacy
  <2>3. Rows(r.from) /\ Rows(r.to) /\ Len(r.to) \in Nat /\ Len(r.from) \in Nat
    <3>1. Rows(r.from) /\ Rows(r.to)
      BY <1>2 DEF StoreInv, DoneOK, PendingOK
    <3> QED BY <3>1, RowsSeq
  <2>4. IsPrefix(r.from, head')
    BY <1>7, <2>2, <2>3
  <2>5. ASSUME Len(head') > Len(r.to)
        PROVE  head'[Len(r.to) + 1].key = ReconcileKey(r.to)
    <3>1. CASE Len(head) > Len(r.to)
      <4>1. Len(r.to) + 1 \in 1 .. Len(head)
        BY <1>2, <2>3, <3>1
      <4> QED BY <1>1, <2>2, <3>1, <4>1
    <3>2. CASE Len(head) <= Len(r.to)
      <4>1. r = pending /\ Len(pending.to) > 0
        BY <1>2, <2>1, <2>2, <2>3, <3>2 DEF StoreInv, DoneOK
      <4>2. Receipts(ReconcileKey(pending.to)) = {}
        BY <1>2, <3>2, <4>1, ClosedIsLonger
      <4>3. Owed = pending.to /\ Owed # NoPending.to
        BY <4>1, <4>2, EmptyRows DEF Owed, NoPending
      <4>4. pending.to = head /\ c.key = ReconcileKey(head)
        BY <1>5, <4>3
      <4>5. Len(head) + 1 \in Len(head) + 1 .. Len(head')
        BY <1>1, <1>2
      <4>6. head'[Len(head) + 1].key = c.key
        BY <1>1, <4>5
      <4> QED BY <4>1, <4>4, <4>6
    <3> QED BY <1>2, <2>3, <3>1, <3>2
  <2> QED BY <1>6, <2>2, <2>4, <2>5
<1> QED BY <1>9, <1>10, <1>11, <1>12, <1>13, <1>14, <1>15, <1>16, <1>17, <1>18 DEF StoreInv

-----------------------------------------------------------------------------
(***************************************************************************)
(* What the commit of a page does: an owed reconciliation gets on.         *)
(***************************************************************************)
CommitsPage ==
  /\ PartWay
  /\ CommitPage(pending.to)
  /\ UNCHANGED <<abandoned, pending, done, d1, flight, late>>

LEMMA PageGrows ==
  ASSUME IInv, StoreInv, CommitsPage
  PROVE  /\ Rows(head') /\ Len(head') \in Nat /\ DOMAIN head' = 1 .. Len(head')
         /\ Len(head) < Len(head') /\ Len(head') <= Len(pending.to)
         /\ IsPrefix(head, head') /\ IsPrefix(head', pending.to)
         /\ \A n \in 1 .. Len(head) : head'[n] = head[n]
         /\ \A n \in 1 .. Len(head') : head'[n] = d1[n]
         /\ Len(pending.to) <= Len(d1)
         /\ receipts' = receipts /\ recent' = recent /\ intent' = NoIntent
         /\ outbox' = outbox \cup Segments(head, head')
<1>1. /\ Rows(head) /\ Rows(d1) /\ IsPrefix(head, d1) /\ Len(head) \in Nat /\ Len(d1) \in Nat
      /\ Rows(pending.to) /\ IsPrefix(pending.to, d1) /\ Len(pending.to) \in Nat
  BY Chain
<1>2. Len(head) < Len(pending.to)
  BY DEF CommitsPage, PartWay
<1>3. /\ Rows(head') /\ IsPrefix(head', d1) /\ IsPrefix(head, head')
      /\ Len(head') = IF Len(head) + ReadPage < Len(pending.to)
                      THEN Len(head) + ReadPage ELSE Len(pending.to)
  BY <1>1, <1>2, PageKeeps DEF CommitsPage
<1>4. Len(head) < Len(head') /\ Len(head') <= Len(pending.to)
  BY <1>1, <1>2, <1>3, BoundsAssumption
<1>5. IsPrefix(head', pending.to)
  BY <1>1, <1>3, <1>4, PrefixesOrdered
<1>6. /\ Len(head') \in Nat /\ DOMAIN head' = 1 .. Len(head')
      /\ \A n \in 1 .. Len(head) : head'[n] = head[n]
      /\ \A n \in 1 .. Len(head') : head'[n] = d1[n]
  BY <1>1, <1>3, PrefixRow
<1>7. Len(pending.to) <= Len(d1)
  BY <1>1, PrefixRow
<1>8. ~Durable(NoIntent.key) /\ NoIntent.key.kind # "request"
  BY DEF Durable, NoIntent
<1>9. /\ receipts' = receipts /\ recent' = recent /\ intent' = NoIntent
      /\ outbox' = outbox \cup Segments(head, head')
  BY <1>8 DEF CommitsPage, CommitPage, CommitHead
<1> QED BY <1>3, <1>4, <1>5, <1>6, <1>7, <1>9

(* It is still owed, and only rows of the old code have come in. *)
LEMMA PageAdds ==
  ASSUME IInv, StoreInv, CommitsPage
  PROVE  /\ HeldAtHead = {} /\ HeldAtHead' = {} /\ Held' \subseteq Held
         /\ Receipts(ReconcileKey(pending.to)) = {}
         /\ Owed = pending.to /\ Owed' = pending.to /\ Owed # NoPending.to
         /\ \A n \in Len(head) + 1 .. Len(d1) : Legacy(d1[n])
<1>1. HeldAtHead = {}
  BY DEF StoreInv, PendingOK, CommitsPage
<1>2. Held' \subseteq Held
  BY PageGrows DEF CommitsPage, Held
<1>3. HeldAtHead' = {}
  <2>1. ASSUME NEW a \in Held'
        PROVE  a.first # Len(head') + 1
    <3>1. a \in Held /\ a.first \in Nat /\ a.first <= Len(head) + 1
      BY <1>2, Chain DEF IntentOK, StoreInv, HeldOK
    <3>2. Len(head) \in Nat /\ Len(head') \in Nat /\ Len(head) < Len(head')
      BY Chain, PageGrows
    <3> QED BY <3>1, <3>2
  <2> QED BY <2>1 DEF HeldAtHead
<1>4. Len(head) < Len(pending.to) /\ Len(head) \in Nat /\ Len(pending.to) \in Nat
  BY Chain DEF CommitsPage, PartWay
<1>5. Receipts(ReconcileKey(pending.to)) = {}
  BY <1>4, ClosedIsLonger
<1>6. receipts' = receipts /\ UNCHANGED pending
  BY PageGrows DEF CommitsPage
<1>7. Receipts(ReconcileKey(pending.to))' = {}
  BY <1>5, <1>6 DEF Receipts, ReconcileKey
<1>8. Owed = pending.to /\ Owed' = pending.to /\ Owed # NoPending.to
  BY <1>4, <1>5, <1>6, <1>7, EmptyRows DEF Owed, NoPending
<1>9. \A n \in Len(head) + 1 .. Len(d1) : Legacy(d1[n])
  BY <1>1 DEF StoreInv, BeyondHead
<1> QED BY <1>1, <1>2, <1>3, <1>5, <1>8, <1>9

LEMMA PageKeepsStore ==
  ASSUME IInv, StoreInv, CommitsPage
  PROVE  StoreInv'
<1>1. /\ Rows(head') /\ Len(head') \in Nat /\ DOMAIN head' = 1 .. Len(head')
      /\ Len(head) < Len(head') /\ Len(head') <= Len(pending.to)
      /\ IsPrefix(head, head')
      /\ \A n \in 1 .. Len(head) : head'[n] = head[n]
      /\ \A n \in 1 .. Len(head') : head'[n] = d1[n]
      /\ Len(pending.to) <= Len(d1)
      /\ receipts' = receipts /\ recent' = recent /\ intent' = NoIntent
  BY PageGrows
<1>2. /\ Rows(head) /\ Len(head) \in Nat /\ DOMAIN head = 1 .. Len(head) /\ Len(d1) \in Nat
      /\ Rows(pending.to) /\ Len(pending.to) \in Nat
      /\ \A a \in Held : IntentOK(a)
      /\ \A b \in flight : IntentOK(b)
  BY Chain
<1>3. /\ HeldAtHead = {} /\ HeldAtHead' = {} /\ Held' \subseteq Held
      /\ Receipts(ReconcileKey(pending.to)) = {}
      /\ Owed' = pending.to
      /\ \A n \in Len(head) + 1 .. Len(d1) : Legacy(d1[n])
  BY PageAdds
<1>4. UNCHANGED <<pending, done, d1, flight, late>>
  BY DEF CommitsPage
<1>5. \A s : Rows(s) /\ IsPrefix(s, head) => IsPrefix(s, head')
  BY <1>1, <1>2, PrefixTransitive
<1>6. \A n \in Len(head) + 1 .. Len(head') : Legacy(head'[n])
  <2> TAKE n \in Len(head) + 1 .. Len(head')
  <2>1. n \in Len(head) + 1 .. Len(d1) /\ n \in 1 .. Len(head')
    BY <1>1, <1>2
  <2> QED BY <1>1, <1>3, <2>1
<1>7. HeldOK'
  <2> SUFFICES ASSUME NEW a \in Held'
               PROVE  /\ OneCallFrom(a.last, a.first)
                      /\ a.last[a.first].key = a.key /\ a.last[a.first].pay = a.pay
                      /\ a.first <= Len(head') + 1 /\ a.first # Len(head') + 1
                      /\ a.key.kind = "reconcile" =>
                           /\ a.key = ReconcileKey(a.key.id) /\ a.pay = 1
                           /\ Rows(a.key.id) /\ IsPrefix(a.key.id, a.last)
                           /\ a.first = Len(a.key.id) + 1 /\ a.first > 1
    BY DEF HeldOK
  <2>1. a \in Held /\ a.first \in Nat
    BY <1>2, <1>3 DEF IntentOK
  <2>2. /\ OneCallFrom(a.last, a.first) /\ a.first <= Len(head) + 1
        /\ a.last[a.first].key = a.key /\ a.last[a.first].pay = a.pay
        /\ a.key.kind = "reconcile" =>
             /\ a.key = ReconcileKey(a.key.id) /\ a.pay = 1
             /\ Rows(a.key.id) /\ IsPrefix(a.key.id, a.last)
             /\ a.first = Len(a.key.id) + 1 /\ a.first > 1
    BY <2>1 DEF StoreInv, HeldOK
  <2>3. a.first <= Len(head') + 1 /\ a.first # Len(head') + 1
    BY <1>1, <1>2, <2>1, <2>2
  <2> QED BY <2>2, <2>3
<1>8. IntentAtHead'
  BY <1>1 DEF IntentAtHead
<1>9. ReceiptsOK'
  <2>1. ASSUME NEW r \in receipts' \cup Range(recent')
        PROVE  /\ Rows(r.head) /\ Len(r.head) > 0 /\ IsPrefix(r.head, head')
               /\ r.head[Len(r.head)].key = r.key
               /\ r.head[Len(r.head)].pay = r.head[Len(r.head)].i
               /\ r.key # OldRow.key => r.head[Len(r.head)].pay = r.pay
               /\ r.key.kind = "reconcile" =>
                    IsPrefix(r.key.id, r.head) /\ Len(r.head) = Len(r.key.id) + 1
    <3>1. /\ Rows(r.head) /\ Len(r.head) > 0 /\ IsPrefix(r.head, head)
          /\ r.head[Len(r.head)].key = r.key
          /\ r.head[Len(r.head)].pay = r.head[Len(r.head)].i
          /\ r.key # OldRow.key => r.head[Len(r.head)].pay = r.pay
          /\ r.key.kind = "reconcile" =>
               IsPrefix(r.key.id, r.head) /\ Len(r.head) = Len(r.key.id) + 1
      BY <1>1 DEF StoreInv, ReceiptsOK
    <3> QED BY <1>5, <3>1
  <2>2. ASSUME NEW n \in DOMAIN head', Durable(head'[n].key)
        PROVE  \E r \in receipts' : r.key = head'[n].key
    <3>1. n \in 1 .. Len(head)
      BY <1>1, <1>2, <1>6, <2>2 DEF Durable, Legacy
    <3>2. head'[n] = head[n] /\ Receipts(head[n].key) # {}
      BY <1>1, <1>2, <2>2, <3>1 DEF StoreInv, ReceiptsOK
    <3> QED BY <1>1, <2>2, <3>2 DEF Receipts, Durable
  <2>3. \A n \in DOMAIN head' : Durable(head'[n].key) => head'[n].key.kind # "request"
    BY DEF Durable
  <2>4. (\A n \in DOMAIN head : Durable(head[n].key) => Receipts(head[n].key) # {})'
    BY <2>2, <2>3 DEF Receipts
  <2> QED BY <2>1, <2>4 DEF ReceiptsOK
<1>10. PendingOK'
  <2>1. /\ Rows(pending.from) /\ IsPrefix(pending.from, head)
        /\ pending # NoPending => Len(pending.to) > 0
    BY DEF StoreInv, PendingOK
  <2> QED BY <1>1, <1>3, <1>4, <1>5, <2>1 DEF PendingOK
<1>11. DoneOK'
  <2>1. \A r \in done : Len(r.to) + 1 \in 1 .. Len(head)
    BY <1>2, RowsSeq DEF StoreInv, DoneOK
  <2> QED BY <1>1, <1>2, <1>4, <2>1 DEF StoreInv, DoneOK
<1>12. FlightOK'
  <2>1. \A b \in flight : b.first \in Nat
    BY <1>2 DEF IntentOK
  <2> QED BY <1>1, <1>2, <1>4, <2>1 DEF StoreInv, FlightOK
<1>13. BeyondHead'
  BY <1>1, <1>2, <1>3, <1>4 DEF BeyondHead
<1>14. LateOK'
  BY <1>4 DEF StoreInv, LateOK
<1>15. AtMostOnce'
  <2> SUFFICES ASSUME NEW n \in DOMAIN head', NEW m \in DOMAIN head', n < m,
                      head'[n].key = head'[m].key, Durable(head'[n].key)
               PROVE  /\ head'[m].i - head'[n].i = m - n
                      /\ head'[m].pay = head'[n].pay /\ head'[m].ts = head'[n].ts
    BY DEF AtMostOnce
  <2>1. n \in 1 .. Len(head) /\ m \in 1 .. Len(head)
    BY <1>1, <1>2, <1>6 DEF Durable, Legacy
  <2> QED BY <1>1, <1>2, <2>1 DEF StoreInv, AtMostOnce
<1>16. ForeignRowsArePinned'
  <2> SUFFICES ASSUME NEW n \in DOMAIN head', Legacy(head'[n])
               PROVE  \E r \in done' \cup {pending'} :
                        /\ Len(r.from) < n /\ n <= Len(r.to)
                        /\ IsPrefix(r.from, head')
                        /\ Len(head') > Len(r.to) =>
                             head'[Len(r.to) + 1].key = ReconcileKey(r.to)
    BY DEF ForeignRowsArePinned, Legacy
  <2>1. CASE n \in 1 .. Len(head)
    <3>1. PICK r \in done \cup {pending} :
             /\ Len(r.from) < n /\ n <= Len(r.to)
             /\ IsPrefix(r.from, head)
             /\ Len(head) > Len(r.to) => head[Len(r.to) + 1].key = ReconcileKey(r.to)
      BY <1>1, <1>2, <2>1 DEF StoreInv, ForeignRowsArePinned, Legacy
    <3>2. Rows(r.from) /\ Rows(r.to) /\ Len(r.to) \in Nat /\ Len(r.from) \in Nat
      <4>1. Rows(r.from) /\ Rows(r.to)
        BY <1>2 DEF StoreInv, DoneOK, PendingOK
      <4> QED BY <4>1, RowsSeq
    <3>3. IsPrefix(r.from, head')
      BY <1>5, <3>1, <3>2
    <3>4. Len(head') > Len(r.to) => head'[Len(r.to) + 1].key = ReconcileKey(r.to)
      <4>1. Len(head') > Len(r.to) => r \in done
        BY <1>1, <1>2, <3>1, <3>2
      <4>2. r \in done => Len(r.to) + 1 \in 1 .. Len(head)
        BY <1>2, <3>2 DEF StoreInv, DoneOK
      <4> QED BY <1>1, <1>2, <3>1, <3>2, <4>1, <4>2
    <3> QED BY <1>4, <3>1, <3>3, <3>4
  <2>2. CASE n \in Len(head) + 1 .. Len(head')
    <3>1. Rows(pending.from) /\ IsPrefix(pending.from, head)
      BY DEF StoreInv, PendingOK
    <3>2. Len(pending.from) \in Nat /\ Len(pending.from) <= Len(head)
      BY <1>2, <3>1, PrefixRow
    <3>3. Len(pending.from) < n /\ n <= Len(pending.to) /\ ~(Len(head') > Len(pending.to))
      BY <1>1, <1>2, <2>2, <3>2
    <3> QED BY <1>4, <1>5, <3>1, <3>3
  <2> QED BY <1>1, <1>2, <2>1, <2>2
<1> QED BY <1>7, <1>8, <1>9, <1>10, <1>11, <1>12, <1>13, <1>14, <1>15, <1>16 DEF StoreInv

-----------------------------------------------------------------------------
(***************************************************************************)
(* What the other writes do.                                               *)
(***************************************************************************)
(* The steps that leave the chain, D1 and the reconciliation alone: an intent
   is given up but kept, a batch is sent, refused or orphaned, or nothing
   durable happens at all. *)
LEMMA SameChainKeepsStore ==
  ASSUME IInv, StoreInv,
         UNCHANGED <<head, receipts, recent, pending, done, d1, late>>,
         Held' \subseteq Held, HeldAtHead # {} => HeldAtHead' # {}, IntentAtHead',
         \A b \in flight' : /\ OneCallFrom(b.last, b.first) /\ b.first <= Len(head) + 1
                            /\ b.first = Len(head) + 1 => HeldAtHead # {}
  PROVE  StoreInv'
<1>1. \A key : Receipts(key)' = Receipts(key)
  BY DEF Receipts
<1>2. Owed' = Owed /\ PartWay' = PartWay
  BY DEF Owed, PartWay, Receipts
<1>3. HeldAtHead' \subseteq HeldAtHead
  BY DEF HeldAtHead
<1>4. HeldOK'
  BY <1>1, <1>2 DEF StoreInv, HeldOK
<1>5. ReceiptsOK'
  BY <1>1 DEF StoreInv, ReceiptsOK
<1>6. PendingOK'
  BY <1>2, <1>3 DEF StoreInv, PendingOK
<1>7. FlightOK'
  BY DEF FlightOK
<1>8. DoneOK' /\ BeyondHead' /\ LateOK'
  BY DEF StoreInv, DoneOK, BeyondHead, LateOK
<1>9. AtMostOnce' /\ ForeignRowsArePinned'
  BY DEF StoreInv, AtMostOnce, ForeignRowsArePinned
<1> QED BY <1>4, <1>5, <1>6, <1>7, <1>8, <1>9 DEF StoreInv

(* A new intent is built on the head, with a key that is not in the chain. *)
MakesIntent(c) ==
  /\ intent = NoIntent /\ intent' = c /\ ~PartWay
  /\ IntentOK(c) /\ c.first = Len(head) + 1 /\ IsPrefix(head, c.last)
  /\ OneCallFrom(c.last, c.first)
  /\ c.last[c.first].key = c.key /\ c.last[c.first].pay = c.pay
  /\ c.key.kind = "reconcile" => c.key = ReconcileKey(head) /\ c.pay = 1 /\ Len(head) > 0
  /\ Durable(c.key) => Receipts(c.key) = {}
  /\ Owed = IF c.key.kind = "reconcile" THEN head ELSE NoPending.to
  /\ UNCHANGED <<head, abandoned, receipts, recent, pending, done, d1, flight, late>>

LEMMA IntentKeepsStore ==
  ASSUME IInv, StoreInv, NEW c, MakesIntent(c)
  PROVE  StoreInv'
<1>1. UNCHANGED <<head, abandoned, receipts, recent, pending, done, d1, flight, late>>
  BY DEF MakesIntent
<1>2. \A key : Receipts(key)' = Receipts(key)
  BY <1>1 DEF Receipts
<1>3. Owed' = Owed /\ ~PartWay'
  BY <1>1 DEF Owed, PartWay, Receipts, MakesIntent
<1>4. Held' \subseteq Held \cup {c} /\ Held \subseteq Held'
  BY <1>1 DEF Held, MakesIntent
<1>5. HeldAtHead \subseteq HeldAtHead'
  BY <1>1, <1>4 DEF HeldAtHead
<1>6. Rows(head) /\ Len(head) \in Nat
  BY Chain
<1>7. HeldOK'
  <2> SUFFICES ASSUME NEW a \in Held'
               PROVE  /\ OneCallFrom(a.last, a.first)
                      /\ a.last[a.first].key = a.key /\ a.last[a.first].pay = a.pay
                      /\ a.first <= Len(head) + 1
                      /\ a.key.kind = "reconcile" =>
                           /\ a.key = ReconcileKey(a.key.id) /\ a.pay = 1
                           /\ Rows(a.key.id) /\ IsPrefix(a.key.id, a.last)
                           /\ a.first = Len(a.key.id) + 1 /\ a.first > 1
                      /\ a.first = Len(head) + 1 =>
                           /\ IsPrefix(head, a.last)
                           /\ Durable(a.key) => Receipts(a.key) = {}
                           /\ Owed = IF a.key.kind = "reconcile" THEN head ELSE NoPending.to
    BY <1>1, <1>2, <1>3 DEF HeldOK
  <2>1. CASE a = c
    <3>1. c.first <= Len(head) + 1
      BY <1>6 DEF MakesIntent
    <3>2. c.key.kind = "reconcile" =>
            /\ c.key = ReconcileKey(c.key.id) /\ c.pay = 1
            /\ Rows(c.key.id) /\ IsPrefix(c.key.id, c.last)
            /\ c.first = Len(c.key.id) + 1 /\ c.first > 1
      BY <1>6 DEF MakesIntent, ReconcileKey
    <3> QED BY <2>1, <3>1, <3>2 DEF MakesIntent
  <2>2. CASE a # c
    BY <1>4, <2>2 DEF StoreInv, HeldOK
  <2> QED BY <2>1, <2>2
<1>8. IntentAtHead'
  BY <1>1 DEF MakesIntent, IntentAtHead
<1>9. ReceiptsOK'
  BY <1>1, <1>2 DEF StoreInv, ReceiptsOK
<1>10. PendingOK'
  BY <1>1, <1>3 DEF StoreInv, PendingOK
<1>11. FlightOK'
  BY <1>1, <1>5 DEF StoreInv, FlightOK
<1>12. BeyondHead'
  BY <1>1, <1>5 DEF StoreInv, BeyondHead
<1>13. DoneOK' /\ LateOK' /\ AtMostOnce' /\ ForeignRowsArePinned'
  BY <1>1 DEF StoreInv, DoneOK, LateOK, AtMostOnce, ForeignRowsArePinned
<1> QED BY <1>7, <1>8, <1>9, <1>10, <1>11, <1>12, <1>13 DEF StoreInv

(* What D1 does to its own rows beyond the head is all that its steps change. *)
LEMMA OnlyD1KeepsStore ==
  ASSUME IInv, StoreInv,
         UNCHANGED <<head, intent, abandoned, receipts, recent, pending, done>>,
         flight' \subseteq flight, late' = late \/ late' = None,
         BeyondHead'
  PROVE  StoreInv'
<1>1. \A key : Receipts(key)' = Receipts(key)
  BY DEF Receipts
<1>2. Owed' = Owed /\ PartWay' = PartWay /\ Held' = Held /\ HeldAtHead' = HeldAtHead
  BY DEF Owed, PartWay, Receipts, Held, HeldAtHead
<1>3. HeldOK' /\ IntentAtHead'
  BY <1>1, <1>2 DEF StoreInv, HeldOK, IntentAtHead
<1>4. ReceiptsOK'
  BY <1>1 DEF StoreInv, ReceiptsOK
<1>5. PendingOK' /\ FlightOK'
  BY <1>2 DEF StoreInv, PendingOK, FlightOK
<1>6. LateOK'
  BY DEF StoreInv, LateOK
<1>7. DoneOK' /\ AtMostOnce' /\ ForeignRowsArePinned'
  BY DEF StoreInv, DoneOK, AtMostOnce, ForeignRowsArePinned
<1> QED BY <1>3, <1>4, <1>5, <1>6, <1>7 DEF StoreInv

(* A batch that finds its seqs free was built on the head, and D1 is now what
   its intent committed to. *)
LEMMA LandKeepsStore ==
  ASSUME IInv, StoreInv, NEW b \in flight, LandBatch(b)
  PROVE  StoreInv'
<1>1. /\ Rows(head) /\ Rows(d1) /\ Len(head) \in Nat /\ Len(d1) \in Nat /\ Len(head) <= Len(d1)
      /\ IntentOK(b)
  BY Chain
<1>2. /\ Rows(b.last) /\ Len(b.last) \in Nat
      /\ b.first \in Nat \ {0} /\ b.first <= Len(b.last) /\ b.first = Len(d1) + 1
      /\ IsPrefix(SubSeq(b.last, 1, b.first - 1), d1)
  BY <1>1, IntentFacts DEF IInv, ChainInv, FlightBuiltOnD1, LandBatch
<1>3. d1' = b.last
  BY <1>1, <1>2, LandingCompletes DEF LandBatch, Suffix
<1>4. /\ OneCallFrom(b.last, b.first) /\ b.first <= Len(head) + 1
      /\ b.first = Len(head) + 1 => HeldAtHead # {}
  BY DEF StoreInv, FlightOK
<1>5. Len(head) = Len(d1) /\ b.first = Len(head) + 1
  BY <1>1, <1>2, <1>4
<1>6. /\ b.last[Len(head) + 1].pay \in Nat
      /\ Len(d1') = Len(head) + b.last[Len(head) + 1].pay
  <2> DEFINE s == b.last
             first == b.first
  <2>1. Rows(s) /\ first \in Nat \ {0} /\ first <= Len(s) /\ OneCallFrom(s, first)
    BY <1>2, <1>4
  <2> HIDE DEF s, first
  <2>2. s[first].pay \in Nat \ {0} /\ Len(s) = first + s[first].pay - 1
    BY <2>1, CallFacts
  <2> DEFINE pay == s[first].pay
  <2>3. first = Len(head) + 1 /\ Len(s) = Len(d1') /\ pay = b.last[Len(head) + 1].pay
    BY <1>3, <1>5 DEF s, first
  <2>4. pay \in Nat /\ Len(s) = first + pay - 1
    BY <2>2
  <2> HIDE DEF pay
  <2>5. \A k, f, n \in Nat : f = k + 1 /\ n \in Nat => f + n - 1 = k + n
    OBVIOUS
  <2>6. Len(s) = Len(head) + pay
    BY <1>1, <2>1, <2>3, <2>4, <2>5
  <2> QED BY <2>3, <2>4, <2>6
<1>7. UNCHANGED <<head, intent, abandoned, receipts, recent, pending, done>> /\ late' = late
      /\ flight' \subseteq flight
  BY DEF LandBatch, storage
<1>8. HeldAtHead' # {}
  BY <1>4, <1>5, <1>7 DEF HeldAtHead, Held
<1>9. BeyondHead'
  BY <1>1, <1>3, <1>6, <1>7, <1>8 DEF BeyondHead
<1> QED BY <1>7, <1>9, OnlyD1KeepsStore

LEMMA LateKeepsStore ==
  ASSUME IInv, StoreInv, LandLate
  PROVE  StoreInv'
<1>1. /\ Rows(head) /\ Rows(d1) /\ Len(head) \in Nat /\ Len(d1) \in Nat /\ Len(head) <= Len(d1)
  BY Chain
<1>2. Rows(late.rows) /\ Len(late.rows) \in Nat
      /\ \A n \in 1 .. Len(late.rows) : Legacy(late.rows[n])
  BY RowsSeq DEF IInv, TypeOK, LandLate, StoreInv, LateOK
<1>3. /\ Len(d1') = Len(d1) + Len(late.rows)
      /\ \A n \in 1 .. Len(d1) : d1'[n] = d1[n]
      /\ \A n \in Len(d1) + 1 .. Len(d1') : Legacy(d1'[n])
  <2>1. /\ Len(d1') = Len(d1) + Len(late.rows)
        /\ \A n \in 1 .. Len(d1) + Len(late.rows) :
             d1'[n] = IF n <= Len(d1) THEN d1[n] ELSE late.rows[n - Len(d1)]
    BY <1>1, <1>2, ConcatRows DEF LandLate
  <2>2. \A n \in 1 .. Len(d1) : d1'[n] = d1[n]
    BY <1>1, <1>2, <2>1
  <2>3. ASSUME NEW n \in Len(d1) + 1 .. Len(d1')
        PROVE  Legacy(d1'[n])
    <3>1. n - Len(d1) \in 1 .. Len(late.rows) /\ n \in 1 .. Len(d1) + Len(late.rows)
          /\ ~(n <= Len(d1))
      BY <1>1, <1>2, <2>1
    <3> QED BY <1>2, <2>1, <3>1
  <2> QED BY <2>1, <2>2, <2>3
<1>4. UNCHANGED <<head, intent, abandoned, receipts, recent, pending, done, flight>> /\ late' = None
  BY DEF LandLate, storage
<1>5. HeldAtHead' = HeldAtHead
  BY <1>4 DEF HeldAtHead, Held
<1>6. BeyondHead'
  <2>1. CASE \A n \in Len(head) + 1 .. Len(d1) : Legacy(d1[n])
    <3>1. \A n \in Len(head) + 1 .. Len(d1') : Legacy(d1'[n])
      BY <1>1, <1>2, <1>3, <2>1
    <3> QED BY <1>4, <3>1 DEF BeyondHead
  <2>2. CASE ~(\A n \in Len(head) + 1 .. Len(d1) : Legacy(d1[n]))
    <3>1. /\ HeldAtHead # {}
          /\ \A n \in Len(head) + d1[Len(head) + 1].pay + 1 .. Len(d1) : Legacy(d1[n])
      BY <2>2 DEF StoreInv, BeyondHead
    <3>2. Len(head) + 1 \in 1 .. Len(d1)
      BY <1>1, <2>2
    <3>3. d1'[Len(head) + 1] = d1[Len(head) + 1] /\ d1[Len(head) + 1].pay \in Nat
      BY <1>1, <1>3, <3>2, RowsSeq DEF RowOK
    <3>4. \A n \in Len(head) + d1'[Len(head) + 1].pay + 1 .. Len(d1') : Legacy(d1'[n])
      <4> DEFINE m == Len(head) + d1[Len(head) + 1].pay + 1
      <4>1. m \in Nat \ {0} /\ \A n \in m .. Len(d1) : Legacy(d1[n])
        BY <1>1, <3>1, <3>3
      <4> HIDE DEF m
      <4>2. \A n \in m .. Len(d1') : Legacy(d1'[n])
        BY <1>1, <1>2, <1>3, <4>1
      <4> QED BY <3>3, <4>2 DEF m
    <3> QED BY <1>4, <1>5, <3>1, <3>4 DEF BeyondHead
  <2> QED BY <2>1, <2>2
<1> QED BY <1>4, <1>6, OnlyD1KeepsStore

(* The reconciliation whose row is committed moves from RECONCILE_KEY to the
   completed ones. *)
ClosesRecord ==
  /\ Receipts(ReconcileKey(pending.to)) # {}
  /\ done' = done \cup {[from |-> pending.from, to |-> pending.to]}
  /\ pending' = NoPending
  /\ UNCHANGED <<head, intent, abandoned, receipts, recent, d1, flight, late>>

LEMMA RecordKeepsStore ==
  ASSUME IInv, StoreInv, ClosesRecord
  PROVE  StoreInv'
<1> DEFINE new == [from |-> pending.from, to |-> pending.to]
<1>1. UNCHANGED <<head, intent, abandoned, receipts, recent, d1, flight, late>>
  BY DEF ClosesRecord
<1>2. \A key : Receipts(key)' = Receipts(key)
  BY <1>1 DEF Receipts
<1>3. NoPending.to = << >> /\ NoPending.from = << >> /\ Len(<< >>) = 0 /\ Rows(<< >>)
      /\ \A s : Rows(s) => IsPrefix(<< >>, s)
  BY EmptyRows DEF NoPending
<1>4. Rows(head) /\ Len(head) \in Nat /\ Rows(pending.to) /\ Len(pending.to) \in Nat
  BY Chain
<1>5. Owed = NoPending.to /\ Owed' = NoPending.to
  <2>1. Owed = NoPending.to
    BY DEF ClosesRecord, Owed
  <2>2. pending'.to = << >>
    BY <1>3 DEF ClosesRecord
  <2>3. Owed' = << >>
    BY <1>3, <2>2 DEF Owed
  <2> QED BY <1>3, <2>1, <2>3
<1>6. ~PartWay'
  BY <1>1, <1>3, <1>4 DEF PartWay, ClosesRecord
<1>7. Held' = Held /\ HeldAtHead' = HeldAtHead
  BY <1>1 DEF Held, HeldAtHead
<1>8. /\ Len(head) > Len(pending.to)
      /\ head[Len(pending.to) + 1].key = ReconcileKey(pending.to)
  <2> DEFINE to == pending.to
  <2>1. Rows(to) /\ Receipts(ReconcileKey(to)) # {}
    BY <1>4 DEF ClosesRecord
  <2> HIDE DEF to
  <2>2. Len(head) > Len(to) /\ head[Len(to) + 1].key = ReconcileKey(to)
    BY <2>1, ClosedIsLonger
  <2> QED BY <2>2 DEF to
<1>9. HeldOK'
  BY <1>1, <1>2, <1>5, <1>7 DEF StoreInv, HeldOK
<1>10. IntentAtHead' /\ LateOK' /\ AtMostOnce'
  BY <1>1 DEF StoreInv, IntentAtHead, LateOK, AtMostOnce
<1>11. ReceiptsOK'
  BY <1>1, <1>2 DEF StoreInv, ReceiptsOK
<1>12. PendingOK'
  BY <1>1, <1>3, <1>4, <1>5, <1>6 DEF PendingOK, ClosesRecord
<1>13. DoneOK'
  <2>1. Rows(pending.from)
    BY DEF StoreInv, PendingOK
  <2> QED BY <1>1, <1>4, <1>8, <2>1 DEF StoreInv, DoneOK, ClosesRecord
<1>14. FlightOK' /\ BeyondHead'
  BY <1>1, <1>7 DEF StoreInv, FlightOK, BeyondHead
<1>15. ForeignRowsArePinned'
  <2> SUFFICES ASSUME NEW n \in DOMAIN head, head[n].key.kind = "legacy"
               PROVE  \E r \in done' \cup {pending'} :
                        /\ Len(r.from) < n /\ n <= Len(r.to)
                        /\ IsPrefix(r.from, head)
                        /\ Len(head) > Len(r.to) => head[Len(r.to) + 1].key = ReconcileKey(r.to)
    BY <1>1 DEF ForeignRowsArePinned
  <2>1. PICK r \in done \cup {pending} :
           /\ Len(r.from) < n /\ n <= Len(r.to)
           /\ IsPrefix(r.from, head)
           /\ Len(head) > Len(r.to) => head[Len(r.to) + 1].key = ReconcileKey(r.to)
    BY DEF StoreInv, ForeignRowsArePinned
  <2>2. CASE r \in done
    BY <2>1, <2>2 DEF ClosesRecord
  <2>3. CASE r = pending
    <3>1. new \in done' /\ new.from = r.from /\ new.to = r.to
      BY <2>3 DEF ClosesRecord
    <3> QED BY <2>1, <3>1
  <2> QED BY <2>1, <2>2, <2>3
<1> QED BY <1>9, <1>10, <1>11, <1>12, <1>13, <1>14, <1>15 DEF StoreInv

(* The record of a reconciliation to `to` is put: D1 leads there from the head,
   no held intent does. *)
OpensRecord(to) ==
  /\ pending = NoPending
  /\ HeldAtHead = {}
  /\ Rows(to) /\ Len(to) > Len(head)
  /\ pending' = [from |-> head, to |-> to]
  /\ UNCHANGED <<head, intent, abandoned, receipts, recent, done, d1, flight, late>>

LEMMA OpeningOwes ==
  ASSUME IInv, StoreInv, NEW to, OpensRecord(to)
  PROVE  Owed = NoPending.to /\ Owed' = to /\ to # NoPending.to
<1>1. NoPending.to = << >> /\ Len(<< >>) = 0
  BY EmptyRows DEF NoPending
<1>2. Rows(to) /\ Len(to) \in Nat /\ Len(head) \in Nat /\ Len(to) > Len(head)
  BY Chain, RowsSeq DEF OpensRecord
<1>3. Owed = NoPending.to
  BY DEF Owed, OpensRecord
<1>4. Receipts(ReconcileKey(to)) = {}
  BY <1>2, ClosedIsLonger
<1>5. Owed' = to
  <2>1. pending'.to = to /\ receipts' = receipts
    BY DEF OpensRecord
  <2> QED BY <1>4, <2>1 DEF Owed, Receipts, ReconcileKey
<1> QED BY <1>1, <1>2, <1>3, <1>5

LEMMA OpenKeepsStore ==
  ASSUME IInv, StoreInv, NEW to, OpensRecord(to)
  PROVE  StoreInv'
<1>1. UNCHANGED <<head, intent, abandoned, receipts, recent, done, d1, flight, late>>
  BY DEF OpensRecord
<1>2. \A key : Receipts(key)' = Receipts(key)
  BY <1>1 DEF Receipts
<1>3. Held' = Held /\ HeldAtHead' = {}
  BY <1>1 DEF Held, HeldAtHead, OpensRecord
<1>4. Owed' = to
  BY OpeningOwes
<1>5. /\ Rows(head) /\ Len(head) \in Nat /\ Rows(to) /\ Len(to) \in Nat /\ Len(to) > Len(head)
      /\ IsPrefix(head, head)
  BY Chain, RowsSeq, PrefixReflexive DEF OpensRecord
<1>6. pending'.from = head /\ pending'.to = to /\ done' = done
  BY DEF OpensRecord
<1>7. HeldOK'
  <2>1. \A a \in Held : a.first # Len(head) + 1
    BY DEF OpensRecord, HeldAtHead
  <2> QED BY <1>1, <1>3, <2>1 DEF StoreInv, HeldOK
<1>8. IntentAtHead' /\ LateOK' /\ AtMostOnce' /\ DoneOK'
  BY <1>1 DEF StoreInv, IntentAtHead, LateOK, AtMostOnce, DoneOK
<1>9. ReceiptsOK'
  BY <1>1, <1>2 DEF StoreInv, ReceiptsOK
<1>10. PendingOK'
  BY <1>1, <1>3, <1>4, <1>5, <1>6 DEF PendingOK
<1>11. FlightOK' /\ BeyondHead'
  BY <1>1, <1>3 DEF StoreInv, FlightOK, BeyondHead, OpensRecord
<1>12. ForeignRowsArePinned'
  <2> SUFFICES ASSUME NEW n \in DOMAIN head, head[n].key.kind = "legacy"
               PROVE  \E r \in done :
                        /\ Len(r.from) < n /\ n <= Len(r.to)
                        /\ IsPrefix(r.from, head)
                        /\ Len(head) > Len(r.to) => head[Len(r.to) + 1].key = ReconcileKey(r.to)
    BY <1>1 DEF ForeignRowsArePinned
  <2>1. PICK r \in done \cup {pending} :
           /\ Len(r.from) < n /\ n <= Len(r.to)
           /\ IsPrefix(r.from, head)
           /\ Len(head) > Len(r.to) => head[Len(r.to) + 1].key = ReconcileKey(r.to)
    BY DEF StoreInv, ForeignRowsArePinned
  <2>2. Len(pending.to) = 0 /\ n \in Nat \ {0}
    BY EmptyRows, Chain DEF OpensRecord, NoPending
  <2> QED BY <2>1, <2>2
<1> QED BY <1>7, <1>8, <1>9, <1>10, <1>11, <1>12 DEF StoreInv

-----------------------------------------------------------------------------
(***************************************************************************)
(* Every action is one of those writes, or leaves the storage alone.       *)
(***************************************************************************)
LEMMA LedgerStore == LedgerInv => StoreInv /\ HandlersOK /\ AckedOK
BY DEF LedgerInv, StoreInv

LEMMA HandlerKnows ==
  ASSUME LedgerInv, NEW h \in Handlers
  PROVE  HandlerOK(h)
BY DEF LedgerInv, HandlersOK

(* The rows of a new intent are one call's. *)
LEMMA OneNewCall ==
  ASSUME Rows(head), NEW rows, Rows(rows), Len(rows) > 0, rows[1].pay = Len(rows),
         ~Legacy(rows[1]),
         \A n \in 1 .. Len(rows) : /\ rows[n].key = rows[1].key /\ rows[n].pay = rows[1].pay
                                   /\ rows[n].ts = rows[1].ts /\ rows[n].i = n
  PROVE  LET s == head \o rows IN
         /\ OneCallFrom(s, Len(head) + 1)
         /\ s[Len(head) + 1] = rows[1]
<1> DEFINE s == head \o rows
           first == Len(head) + 1
<1>1. Len(head) \in Nat /\ Len(rows) \in Nat \ {0}
  BY RowsSeq
<1>2. /\ Len(s) = Len(head) + Len(rows)
      /\ \A n \in 1 .. Len(head) + Len(rows) :
           s[n] = IF n <= Len(head) THEN head[n] ELSE rows[n - Len(head)]
  BY ConcatRows
<1> HIDE DEF s
<1>3. \A n \in first .. Len(s) : n - Len(head) \in 1 .. Len(rows) /\ s[n] = rows[n - Len(head)]
  BY <1>1, <1>2
<1>4. first \in first .. Len(s) /\ first - Len(head) = 1
  BY <1>1, <1>2
<1>5. s[first] = rows[1]
  BY <1>3, <1>4
<1>6. ASSUME NEW n \in first .. Len(s)
      PROVE  /\ s[n].key = s[first].key /\ s[n].pay = s[first].pay
             /\ s[n].ts = s[first].ts /\ s[n].i = n - first + 1
  <2>1. n - Len(head) \in 1 .. Len(rows) /\ s[n] = rows[n - Len(head)]
    BY <1>3
  <2>2. n - Len(head) = n - first + 1
    BY <1>1
  <2> QED BY <1>5, <2>1, <2>2
<1>7. Len(s) = first + s[first].pay - 1
  BY <1>1, <1>2, <1>5
<1>8. OneCallFrom(s, first)
  BY <1>5, <1>6, <1>7 DEF OneCallFrom
<1> QED BY <1>5, <1>8 DEF s

LEMMA CallMakes ==
  ASSUME IInv, LedgerInv, NEW h \in Handlers, PutIntent(h)
  PROVE  /\ MakesIntent(intent')
         /\ own' = [own EXCEPT ![h] = intent'] /\ pc' = [pc EXCEPT ![h] = "send"]
         /\ job' = job /\ job[h].op = "append"
         /\ intent'.key = job[h].key /\ intent'.pay = job[h].pay
         /\ intent'.key.kind # "reconcile" /\ intent'.key.kind # "legacy"
<1>1. pc[h] = "append" /\ Receipts(job[h].key) = {}
  BY DEF PutIntent
<1>2. PICK ts \in Times :
        intent' = MakeIntent(job[h].key, job[h].pay, CallRows(job[h].key, job[h].pay, ts))
  BY DEF PutIntent
<1>3. HandlerOK(h)
  BY HandlerKnows
<1>4. job[h].op = "append" /\ job[h].pay \in Payloads
  BY <1>1 DEF IInv, ChainInv, RequestsOK
<1>5. /\ job[h].key \in CallKeys
      /\ intent = NoIntent /\ pending = NoPending
  BY <1>1, <1>3, <1>4 DEF HandlerOK
<1>6. job[h].pay \in Nat \ {0}
  BY <1>4, BoundsAssumption
<1>7. job[h].key.kind # "reconcile" /\ job[h].key.kind # "legacy"
  BY <1>5 DEF CallKeys
<1>8. Rows(head) /\ Len(head) \in Nat
  BY Chain
<1>9. IntentOK(intent') /\ intent'.first = Len(head) + 1 /\ IsPrefix(head, intent'.last)
  BY <1>2, <1>6, <1>8, CallIntent
<1>10. intent'.key = job[h].key /\ intent'.pay = job[h].pay
  BY <1>2 DEF MakeIntent
<1>11. /\ OneCallFrom(intent'.last, intent'.first)
       /\ intent'.last[intent'.first].key = intent'.key
       /\ intent'.last[intent'.first].pay = intent'.pay
  <2> DEFINE rows == CallRows(job[h].key, job[h].pay, ts)
  <2>1. Rows(rows) /\ Len(rows) = job[h].pay
    BY <1>6, NewRows
  <2>2. \A n \in 1 .. job[h].pay :
          /\ rows[n].key = job[h].key /\ rows[n].pay = job[h].pay
          /\ rows[n].ts = ts /\ rows[n].i = n
    BY DEF CallRows
  <2>3. intent'.last = head \o rows /\ intent'.first = Len(head) + 1
    BY <1>2 DEF MakeIntent
  <2> HIDE DEF rows
  <2>4. 1 \in 1 .. job[h].pay /\ Len(rows) > 0
    BY <1>6, <2>1
  <2>5. ~Legacy(rows[1])
    BY <1>7, <2>2, <2>4 DEF Legacy
  <2>6. /\ OneCallFrom(head \o rows, Len(head) + 1)
        /\ (head \o rows)[Len(head) + 1] = rows[1]
    BY <1>8, <2>1, <2>2, <2>4, <2>5, OneNewCall
  <2> QED BY <1>10, <2>2, <2>3, <2>4, <2>6
<1>12. Owed = NoPending.to
  BY <1>5 DEF Owed
<1>13. ~PartWay
  BY <1>5, <1>8, EmptyRows DEF PartWay, NoPending
<1>14. UNCHANGED <<head, abandoned, receipts, recent, pending, done, d1, flight, late, job>>
  BY DEF PutIntent, External
<1>15. own' = [own EXCEPT ![h] = intent'] /\ pc' = [pc EXCEPT ![h] = "send"]
  BY DEF PutIntent, Goto
<1>16. MakesIntent(intent')
  BY <1>1, <1>5, <1>7, <1>9, <1>10, <1>11, <1>12, <1>13, <1>14 DEF MakesIntent
<1> QED BY <1>4, <1>7, <1>10, <1>14, <1>15, <1>16

LEMMA ReconcileMakes ==
  ASSUME IInv, LedgerInv, NEW h \in Handlers, WriteReconcileRow(h)
  PROVE  /\ MakesIntent(intent')
         /\ own' = [own EXCEPT ![h] = intent'] /\ pc' = [pc EXCEPT ![h] = "send"]
         /\ job' = job
         /\ intent'.key.kind = "reconcile" /\ pending # NoPending
<1>1. /\ pc[h] = "finish" /\ Receipts(ReconcileKey(pending.to)) = {} /\ head = pending.to
      /\ intent' = MakeIntent(ReconcileKey(head), 1, <<ReconcileRow(head)>>)
  BY DEF WriteReconcileRow
<1>2. intent = NoIntent /\ pending # NoPending /\ ~PartWay
  BY <1>1, HandlerKnows DEF HandlerOK
<1>3. Rows(head) /\ Len(head) \in Nat
  BY Chain
<1>4. Len(head) > 0
  BY <1>1, <1>2, LedgerStore DEF StoreInv, PendingOK
<1>5. IntentOK(intent') /\ intent'.first = Len(head) + 1 /\ IsPrefix(head, intent'.last)
  BY <1>1, <1>3, ReconcileIntent
<1>6. intent'.key = ReconcileKey(head) /\ intent'.pay = 1 /\ intent'.key.kind = "reconcile"
  BY <1>1 DEF MakeIntent, ReconcileKey
<1>7. /\ OneCallFrom(intent'.last, intent'.first)
      /\ intent'.last[intent'.first].key = intent'.key
      /\ intent'.last[intent'.first].pay = intent'.pay
  <2> DEFINE rows == <<ReconcileRow(head)>>
  <2>1. Rows(rows) /\ Len(rows) = 1
    BY NewReconcileRow
  <2>2. rows[1] = ReconcileRow(head)
    OBVIOUS
  <2>3. intent'.last = head \o rows /\ intent'.first = Len(head) + 1
    BY <1>1 DEF MakeIntent
  <2> HIDE DEF rows
  <2>4. rows[1].pay = 1 /\ rows[1].i = 1 /\ rows[1].key = ReconcileKey(head) /\ ~Legacy(rows[1])
    BY <2>2 DEF ReconcileRow, Legacy, ReconcileKey
  <2>5. \A n \in 1 .. Len(rows) :
          /\ rows[n].key = rows[1].key /\ rows[n].pay = rows[1].pay
          /\ rows[n].ts = rows[1].ts /\ rows[n].i = n
    <3> TAKE n \in 1 .. Len(rows)
    <3>1. n = 1
      BY <2>1
    <3> QED BY <2>4, <3>1
  <2>6. Len(rows) > 0 /\ rows[1].pay = Len(rows)
    BY <2>1, <2>4
  <2>7. /\ OneCallFrom(head \o rows, Len(head) + 1)
        /\ (head \o rows)[Len(head) + 1] = rows[1]
    BY <1>3, <2>1, <2>4, <2>5, <2>6, OneNewCall
  <2> QED BY <1>6, <2>3, <2>4, <2>7
<1>8. Owed = head
  BY <1>1 DEF Owed
<1>9. UNCHANGED <<head, abandoned, receipts, recent, pending, done, d1, flight, late, job>>
  BY DEF WriteReconcileRow, External
<1>10. own' = [own EXCEPT ![h] = intent'] /\ pc' = [pc EXCEPT ![h] = "send"]
  BY DEF WriteReconcileRow, Goto
<1>11. MakesIntent(intent')
  BY <1>1, <1>2, <1>4, <1>5, <1>6, <1>7, <1>8, <1>9 DEF MakesIntent
<1> QED BY <1>2, <1>6, <1>9, <1>10, <1>11

(* The three ways an intent's rows are committed. *)
LEMMA AdoptCommits ==
  ASSUME IInv, NEW h \in Handlers, AdoptHeld(h) \/ AdoptOverlap(h)
  PROVE  \E c : CommitsIntent(c)
<1>1. PICK c \in HeldAtHead : Adopt(c)
  BY DEF AdoptHeld, AdoptOverlap
<1>2. c \in Held
  BY DEF HeldAtHead
<1>3. Range(abandoned') \subseteq Range(abandoned)
  BY <1>1, <1>2, WithoutKeeps DEF Adopt
<1>4. UNCHANGED <<pending, done, d1, flight, late>>
  BY DEF AdoptHeld, AdoptOverlap, External
<1> QED BY <1>1, <1>3, <1>4 DEF CommitsIntent, Adopt, Verified

LEMMA LandedCommits ==
  ASSUME IInv, LedgerInv, NEW h \in Handlers, CommitAppend(h)
  PROVE  CommitsIntent(own[h])
<1>1. pc[h] = "landed" /\ CommitHead(own[h].last, own[h])
      /\ UNCHANGED <<abandoned, pending, done, d1, flight, late>>
  BY DEF CommitAppend, External
<1>2. own[h] = intent /\ intent # NoIntent
  BY <1>1, HandlerKnows DEF HandlerOK
<1>3. own[h] \in HeldAtHead
  BY <1>2, LedgerStore DEF StoreInv, IntentAtHead, HeldAtHead, Held
<1>4. IsPrefix(own[h].last, d1)
  BY <1>1 DEF IInv, ChainInv, LandedOnD1
<1> QED BY <1>1, <1>3, <1>4 DEF CommitsIntent

LEMMA PageCommits ==
  ASSUME IInv, NEW h \in Handlers, ResumeAdoption(h) \/ AdoptPage(h)
  PROVE  CommitsPage
<1>1. PartWay
  BY DEF ResumeAdoption, AdoptPage, PartWay, IInv, ChainInv, PinnedOnD1
<1> QED BY <1>1 DEF ResumeAdoption, AdoptPage, CommitsPage, External

(* An intent that is given up is the last one of the list, so the list that is
   cut at ABANDONED_MAX still holds it. *)
LEMMA GivenUpIsHeld ==
  ASSUME IInv, NEW h \in Handlers, AbandonIntent(h)
  PROVE  Held' \subseteq Held /\ intent \in Held'
<1> DEFINE t == LastN(Append(abandoned, intent), AbandonedMax)
           a == Append(abandoned, intent)
           S == Range(abandoned) \cup {intent}
<1>1. abandoned' = t /\ intent' = NoIntent /\ intent # NoIntent
  BY DEF AbandonIntent
<1>2. abandoned \in Seq(Range(abandoned)) /\ AbandonedMax \in Nat \ {0}
  BY BoundsAssumption DEF IInv, TypeOK
<1>3. Range(t) \subseteq S
  BY <1>2, Capped
<1>4. a \in Seq(S) /\ Len(a) \in Nat \ {0} /\ a[Len(a)] = intent /\ \A i \in 1 .. Len(a) : a[i] \in S
  <2>1. abandoned \in Seq(S)
    BY <1>2, SeqMonotonic, Zenon
  <2> HIDE DEF S
  <2>2. /\ a \in Seq(S) /\ Len(a) = Len(abandoned) + 1 /\ a[Len(abandoned) + 1] = intent
        /\ Len(abandoned) \in Nat
    <3>1. intent \in S
      BY DEF S
    <3> QED BY <2>1, <3>1, AppendProperties, LenProperties
  <2> QED BY <2>2, ElementOfSeq
<1>5. intent \in Range(t)
  <2> HIDE DEF a, S
  <2>1. CASE Len(a) <= AbandonedMax
    <3>1. LastN(a, AbandonedMax) = a /\ Len(a) \in 1 .. Len(a)
      BY <1>4, <2>1 DEF LastN
    <3>2. intent \in Range(a)
      BY <1>4, <3>1, RangeEquality
    <3> QED BY <3>1, <3>2 DEF a
  <2>2. CASE ~(Len(a) <= AbandonedMax)
    <3> DEFINE m == Len(a) - AbandonedMax + 1
               u == SubSeq(a, m, Len(a))
    <3>1. m \in Int /\ Len(a) \in Int /\ m <= Len(a) /\ \A i \in m .. Len(a) : a[i] \in S
      BY <1>2, <1>4, <2>2
    <3>2. /\ u \in Seq(S) /\ Len(u) = Len(a) - m + 1
          /\ \A i \in 1 .. Len(a) - m + 1 : u[i] = a[m + i - 1]
      <4> HIDE DEF m
      <4> QED BY <3>1, SubSeqProperties
    <3>3. LastN(a, AbandonedMax) = u
      BY <2>2 DEF LastN
    <3> HIDE DEF u
    <3>4. AbandonedMax \in 1 .. Len(a) - m + 1 /\ m + AbandonedMax - 1 = Len(a)
          /\ Len(u) = AbandonedMax
      BY <1>2, <1>4, <2>2, <3>2
    <3>5. u[AbandonedMax] = intent
      BY <1>4, <3>2, <3>4
    <3>6. intent \in Range(u)
      BY <1>2, <3>2, <3>4, <3>5, RangeEquality
    <3> QED BY <3>3, <3>6 DEF a
  <2> QED BY <2>1, <2>2
<1> HIDE DEF t
<1> QED BY <1>1, <1>3, <1>5 DEF Held

(* A batch that loses its sender is still the same batch. *)
LEMMA SameBatches ==
  ASSUME FlightOK, \A b \in flight' : \E a \in flight : b.first = a.first /\ b.last = a.last
  PROVE  \A b \in flight' : /\ OneCallFrom(b.last, b.first) /\ b.first <= Len(head) + 1
                            /\ b.first = Len(head) + 1 => HeldAtHead # {}
<1> TAKE b \in flight'
<1>1. PICK a \in flight : b.first = a.first /\ b.last = a.last
  OBVIOUS
<1> DEFINE first == b.first
           last == b.last
<1>2. first = a.first /\ last = a.last
  BY <1>1
<1> HIDE DEF first, last
<1>3. OneCallFrom(a.last, a.first) /\ a.first <= Len(head) + 1
      /\ (a.first = Len(head) + 1 => HeldAtHead # {})
  BY DEF FlightOK
<1>4. OneCallFrom(last, first) /\ first <= Len(head) + 1
      /\ (first = Len(head) + 1 => HeldAtHead # {})
  BY <1>2, <1>3
<1> QED BY <1>4 DEF first, last

LEMMA HandlerStepKeepsStore ==
  ASSUME IInv, LedgerInv, NEW h \in Handlers, Run(h) \/ GiveUp(h)
  PROVE  StoreInv'
<1>0. StoreInv
  BY LedgerStore
<1>1. CASE AdoptHeld(h) \/ AdoptOverlap(h)
  BY <1>0, <1>1, AdoptCommits, CommitKeepsStore
<1>2. CASE CommitAppend(h)
  BY <1>0, <1>2, LandedCommits, CommitKeepsStore
<1>3. CASE ResumeAdoption(h) \/ AdoptPage(h)
  BY <1>0, <1>3, PageCommits, PageKeepsStore
<1>4. CASE PutIntent(h)
  BY <1>0, <1>4, CallMakes, IntentKeepsStore
<1>5. CASE WriteReconcileRow(h)
  BY <1>0, <1>5, ReconcileMakes, IntentKeepsStore
<1>6. CASE RecordReconcile(h)
  <2>1. HandlerOK(h) /\ pc[h] = "record"
    BY <1>6, HandlerKnows DEF RecordReconcile
  <2>2. ClosesRecord
    BY <1>6, <2>1 DEF RecordReconcile, ClosesRecord, External, HandlerOK
  <2> QED BY <1>0, <2>2, RecordKeepsStore
<1>7. CASE PutReconcileRecord(h)
  <2>1. HandlerOK(h) /\ pc[h] = "overlap" /\ Rows(job[h].pin)
    BY <1>7, HandlerKnows DEF PutReconcileRecord, IInv, ChainInv, RequestsOK
  <2>2. OpensRecord(job[h].pin)
    BY <1>7, <2>1 DEF PutReconcileRecord, OpensRecord, External, HandlerOK
  <2> QED BY <1>0, <2>2, OpenKeepsStore
<1>8. CASE AbandonIntent(h)
  <2>1. Held' \subseteq Held /\ intent \in Held'
    BY <1>8, GivenUpIsHeld
  <2>2. UNCHANGED <<head, receipts, recent, pending, done, d1, late, flight>>
        /\ intent # NoIntent /\ intent' = NoIntent
    BY <1>8 DEF AbandonIntent, External
  <2>3. HeldAtHead' # {}
    BY <1>0, <2>1, <2>2 DEF HeldAtHead, StoreInv, IntentAtHead
  <2>4. IntentAtHead'
    BY <2>2 DEF IntentAtHead
  <2> QED BY <1>0, <2>1, <2>2, <2>3, <2>4, SameChainKeepsStore DEF StoreInv, FlightOK
<1>9. CASE SendBatch(h)
  <2> DEFINE b == [by |-> h, first |-> own[h].first, last |-> own[h].last]
  <2>1. own[h] = intent /\ intent # NoIntent
    BY <1>9, HandlerKnows DEF SendBatch, HandlerOK
  <2>2. UNCHANGED <<head, intent, abandoned, receipts, recent, pending, done, d1, late>>
        /\ flight' = flight \cup {b}
    BY <1>9 DEF SendBatch, storage
  <2>3. intent \in Held /\ intent \in HeldAtHead
    BY <1>0, <2>1 DEF HeldAtHead, Held, StoreInv, IntentAtHead
  <2>4. b.first = intent.first /\ b.last = intent.last
    BY <2>1
  <2>5. OneCallFrom(b.last, b.first) /\ b.first <= Len(head) + 1
    BY <1>0, <2>3, <2>4 DEF StoreInv, HeldOK
  <2>6. Held' = Held /\ HeldAtHead' = HeldAtHead /\ IntentAtHead'
    BY <1>0, <2>2 DEF Held, HeldAtHead, StoreInv, IntentAtHead
  <2> HIDE DEF b
  <2> QED BY <1>0, <2>2, <2>3, <2>5, <2>6, SameChainKeepsStore DEF StoreInv, FlightOK
<1>10. CASE Conflict(h) \/ GiveUp(h)
  <2>1. UNCHANGED <<head, intent, abandoned, receipts, recent, pending, done, d1, late>>
    BY <1>10 DEF Conflict, GiveUp, storage
  <2>2. \A b \in flight' : \E a \in flight : b.first = a.first /\ b.last = a.last
    BY <1>10 DEF Conflict, GiveUp, Orphan
  <2>3. Held' = Held /\ HeldAtHead' = HeldAtHead /\ IntentAtHead'
    BY <1>0, <2>1 DEF Held, HeldAtHead, StoreInv, IntentAtHead
  <2>4. FlightOK
    BY <1>0 DEF StoreInv
  <2>5. \A b \in flight' : /\ OneCallFrom(b.last, b.first) /\ b.first <= Len(head) + 1
                           /\ b.first = Len(head) + 1 => HeldAtHead # {}
    BY <2>2, <2>4, SameBatches
  <2> QED BY <1>0, <2>1, <2>3, <2>5, SameChainKeepsStore
<1>11. CASE \/ ReadTail(h) \/ NothingToRecover(h) \/ ChainBroken(h) \/ ReconcileRowWritten(h)
            \/ Dedup(h) \/ Mismatch(h) \/ Reply(h) \/ Lookup(h) \/ CheckPin(h) \/ RefusePin(h)
  <2>1. UNCHANGED <<head, intent, abandoned, receipts, recent, pending, done, d1, flight, late>>
    BY <1>11 DEF ReadTail, NothingToRecover, ChainBroken, ReconcileRowWritten, Dedup, Mismatch,
                 Reply, Lookup, CheckPin, RefusePin, storage, External
  <2>2. Held' = Held /\ HeldAtHead' = HeldAtHead /\ IntentAtHead'
    BY <1>0, <2>1 DEF Held, HeldAtHead, StoreInv, IntentAtHead
  <2> QED BY <1>0, <2>1, <2>2, SameChainKeepsStore DEF StoreInv, FlightOK
<1> QED BY <1>1, <1>2, <1>3, <1>4, <1>5, <1>6, <1>7, <1>8, <1>9, <1>10, <1>11
        DEF Run, Recover, AppendAt, Reconcile

LEMMA StepKeepsStore ==
  ASSUME IInv, LedgerInv, Next
  PROVE  StoreInv'
<1>0. StoreInv
  BY LedgerStore
<1>1. CASE \E h \in Handlers : Run(h) \/ GiveUp(h)
  BY <1>1, HandlerStepKeepsStore
<1>2. CASE \E b \in flight : LandBatch(b)
  BY <1>0, <1>2, LandKeepsStore
<1>3. CASE LandLate
  BY <1>0, <1>3, LateKeepsStore
<1>4. CASE \/ \E h \in Handlers : \/ \E key \in CallKeys, pay \in Payloads : Call(h, key, pay)
                                 \/ \E n \in 1 .. Len(d1) : CallReconcile(h, n)
           \/ Crash
  <2>1. UNCHANGED <<head, intent, abandoned, receipts, recent, pending, done, d1, late>>
    BY <1>4 DEF Call, CallReconcile, Enter, Crash, storage, External
  <2>2. \A b \in flight' : \E a \in flight : b.first = a.first /\ b.last = a.last
    BY <1>4 DEF Call, CallReconcile, Enter, Crash, External, Orphan
  <2>3. Held' = Held /\ HeldAtHead' = HeldAtHead /\ IntentAtHead'
    BY <1>0, <2>1 DEF Held, HeldAtHead, StoreInv, IntentAtHead
  <2>4. FlightOK
    BY <1>0 DEF StoreInv
  <2>5. \A b \in flight' : /\ OneCallFrom(b.last, b.first) /\ b.first <= Len(head) + 1
                           /\ b.first = Len(head) + 1 => HeldAtHead # {}
    BY <2>2, <2>4, SameBatches
  <2> QED BY <1>0, <2>1, <2>3, <2>5, SameChainKeepsStore
<1> QED BY <1>1, <1>2, <1>3, <1>4 DEF Next

-----------------------------------------------------------------------------
(***************************************************************************)
(* What the handlers know, and what they answered.                         *)
(***************************************************************************)
LEMMA IdleKnows ==
  ASSUME NEW h \in Handlers, pc[h] = "idle"
  PROVE  HandlerOK(h)
BY DEF HandlerOK

(* The handler that runs is the only one. *)
LEMMA OthersIdle ==
  ASSUME IInv, NEW h \in Handlers, pc[h] # "idle" \/ lock = NoOne,
         NEW at, pc' = [pc EXCEPT ![h] = at], HandlerOK(h)'
  PROVE  HandlersOK'
<1>1. \A g \in Handlers : g # h => pc[g] = "idle"
  BY AbsentAssumption DEF IInv, ChainInv, OneAtATime
<1>2. \A g \in Handlers : g # h => pc'[g] = "idle"
  BY <1>1 DEF IInv, TypeOK
<1>3. \A g \in Handlers : pc'[g] = "idle" => HandlerOK(g)'
  BY DEF HandlerOK
<1> QED BY <1>2, <1>3 DEF HandlersOK

(* The chain as a commit leaves it ends with the call's last row. *)
LEMMA CommitEnds ==
  ASSUME IInv, StoreInv, NEW c, CommitsIntent(c)
  PROVE  /\ head' = c.last /\ Rows(c.last) /\ Len(c.last) > 0
         /\ IsPrefix(c.last, head')
         /\ c.last[Len(c.last)].key = c.key
         /\ c.last[Len(c.last)].pay = c.pay /\ c.last[Len(c.last)].i = c.pay
<1> DEFINE s == c.last
           first == c.first
<1>1. c \in Held /\ head' = s /\ Rows(head') /\ IsPrefix(head', head')
  BY CommitGrows, PrefixReflexive DEF CommitsIntent, HeldAtHead
<1>2. /\ OneCallFrom(s, first) /\ s[first].key = c.key /\ s[first].pay = c.pay
      /\ Len(s) \in Nat /\ first \in Nat \ {0} /\ first <= Len(s)
  BY <1>1, Chain, IntentFacts DEF StoreInv, HeldOK
<1>3. Rows(s)
  BY <1>1
<1> HIDE DEF s, first
<1>4. /\ \A n \in first .. Len(s) : s[n].key = s[first].key
      /\ s[Len(s)].pay = s[first].pay /\ s[Len(s)].i = s[Len(s)].pay
  BY <1>2, <1>3, CallFacts
<1>5. Len(s) \in first .. Len(s) /\ Len(s) > 0
  BY <1>2
<1>6. s[Len(s)].key = c.key
  BY <1>2, <1>4, <1>5
<1> QED BY <1>1, <1>2, <1>3, <1>4, <1>5, <1>6 DEF s

(* After a commit nothing is part-way unless the pin was longer. *)
LEMMA CommitSettles ==
  ASSUME IInv, StoreInv, NEW c, CommitsIntent(c), ~PartWay
  PROVE  ~PartWay' /\ intent' = NoIntent /\ pending' = pending
<1>1. Len(head) \in Nat /\ Len(head') \in Nat /\ Len(pending.to) \in Nat /\ Len(head) <= Len(head')
      /\ pending' = pending
  BY Chain, CommitGrows DEF CommitsIntent
<1>2. intent' = NoIntent
  BY CommitHeld
<1> QED BY <1>1, <1>2 DEF PartWay

LEMMA RecoverKnows ==
  ASSUME IInv, LedgerInv, NEW h \in Handlers, Recover(h)
  PROVE  HandlersOK'
<1> DEFINE At(label) == pc' = [pc EXCEPT ![h] = label]
<1>0. StoreInv /\ HandlerOK(h) /\ pc \in [Handlers -> Labels]
  BY LedgerStore, HandlerKnows DEF IInv, TypeOK
<1> SUFFICES \E at : At(at) /\ pc[h] # "idle" /\ HandlerOK(h)'
  BY OthersIdle
<1>1. CASE ResumeAdoption(h)
  <2>1. pc[h] = "recover" /\ pc' = pc /\ job' = job
    BY <1>1 DEF ResumeAdoption, memory
  <2>2. HandlerOK(h)'
    BY <1>0, <2>1 DEF HandlerOK
  <2>3. At("recover")
    BY <1>0, <2>1
  <2> QED BY <2>1, <2>2, <2>3
<1>2. CASE ReadTail(h)
  <2>1. pc[h] = "recover" /\ At("decide") /\ job' = job /\ ~PartWay'
    BY <1>2 DEF ReadTail, Goto, PartWay, storage
  <2>2. HandlerOK(h)'
    BY <1>0, <2>1 DEF HandlerOK
  <2> QED BY <2>1, <2>2
<1>3. CASE AdoptHeld(h) \/ AbandonIntent(h) \/ NothingToRecover(h)
  <2>1. pc[h] = "decide" /\ At(AfterRecover(h)) /\ job' = job /\ pending' = pending
    BY <1>3 DEF AdoptHeld, AbandonIntent, NothingToRecover, Goto, storage
  <2>2. ~PartWay
    BY <1>0, <2>1 DEF HandlerOK
  <2>3. ~PartWay' /\ intent' = NoIntent
    <3>1. CASE AdoptHeld(h)
      BY <1>0, <2>2, <3>1, AdoptCommits, CommitSettles
    <3>2. CASE AbandonIntent(h) \/ NothingToRecover(h)
      BY <2>2, <3>2 DEF AbandonIntent, NothingToRecover, PartWay, storage
    <3> QED BY <1>3, <3>1, <3>2
  <2>4. \/ AfterRecover(h) = "finish" /\ pending # NoPending
        \/ AfterRecover(h) = "append" /\ pending = NoPending
        \/ AfterRecover(h) = "lookup" /\ job[h].op # "append"
    BY DEF AfterRecover
  <2>5. pc'[h] = AfterRecover(h)
    BY <1>0, <2>1
  <2>6. HandlerOK(h)'
    BY <1>0, <2>1, <2>3, <2>4, <2>5 DEF HandlerOK
  <2> QED BY <2>1, <2>6
<1>4. CASE ChainBroken(h)
  <2>1. pc[h] # "idle" /\ At("idle")
    BY <1>4 DEF ChainBroken, Release, Goto
  <2>2. HandlerOK(h)'
    BY <1>0, <2>1 DEF HandlerOK
  <2> QED BY <2>1, <2>2
<1>5. CASE WriteReconcileRow(h)
  <2>1. /\ MakesIntent(intent') /\ own' = [own EXCEPT ![h] = intent'] /\ At("send")
        /\ job' = job /\ intent'.key.kind = "reconcile" /\ pending # NoPending
        /\ pc[h] = "finish" /\ pending' = pending
    BY <1>5, ReconcileMakes DEF WriteReconcileRow
  <2>2. intent' # NoIntent /\ own'[h] = intent'
    BY <2>1 DEF MakesIntent, IntentOK, NoIntent, IInv, TypeOK
  <2>3. HandlerOK(h)'
    BY <1>0, <2>1, <2>2 DEF HandlerOK
  <2> QED BY <2>1, <2>3
<1>6. CASE ReconcileRowWritten(h)
  <2>1. pc[h] = "finish" /\ At("record") /\ UNCHANGED <<job, intent, pending, receipts>>
        /\ Receipts(ReconcileKey(pending.to)) # {}
    BY <1>6 DEF ReconcileRowWritten, Goto, storage
  <2>2. Receipts(ReconcileKey(pending.to))' # {}
    BY <2>1 DEF Receipts, ReconcileKey
  <2>3. HandlerOK(h)'
    BY <1>0, <2>1, <2>2 DEF HandlerOK
  <2> QED BY <2>1, <2>3
<1>7. CASE RecordReconcile(h)
  <2>1. pc[h] = "record" /\ At(IF job[h].op = "append" THEN "append" ELSE "lookup")
        /\ UNCHANGED <<job, intent>> /\ pending' = NoPending
    BY <1>7 DEF RecordReconcile, Goto
  <2>2. HandlerOK(h)'
    BY <1>0, <2>1 DEF HandlerOK
  <2> QED BY <2>1, <2>2
<1> QED BY <1>1, <1>2, <1>3, <1>4, <1>5, <1>6, <1>7 DEF Recover

LEMMA AppendKnows ==
  ASSUME IInv, LedgerInv, NEW h \in Handlers, AppendAt(h) \/ GiveUp(h)
  PROVE  HandlersOK'
<1> DEFINE At(label) == pc' = [pc EXCEPT ![h] = label]
<1>0. /\ StoreInv /\ HandlerOK(h) /\ pc \in [Handlers -> Labels] /\ DOMAIN own = Handlers
      /\ \A r \in Range(recent) : r \in receipts \cup Range(recent)
  BY LedgerStore, HandlerKnows DEF IInv, TypeOK
<1> SUFFICES \E at : At(at) /\ pc[h] # "idle" /\ HandlerOK(h)'
  BY OthersIdle
<1>1. CASE Dedup(h)
  <2>1. PICK r \in Receipts(job[h].key) :
          /\ Matches(r, job[h].pay)
          /\ own' = [own EXCEPT ![h] = [key |-> r.key, pay |-> r.pay, first |-> 0, last |-> r.head]]
    BY <1>1 DEF Dedup
  <2>2. pc[h] = "append" /\ At("reply") /\ UNCHANGED <<job, head>>
    BY <1>1 DEF Dedup, Goto, storage
  <2>3. own'[h].last = r.head
    BY <1>0, <2>1
  <2>4. r \in receipts \cup Range(recent) /\ r.key = job[h].key
    BY <2>1 DEF Receipts
  <2> DEFINE s == r.head
  <2>5. /\ Rows(s) /\ Len(s) > 0 /\ IsPrefix(s, head)
        /\ s[Len(s)].key = r.key /\ s[Len(s)].pay = s[Len(s)].i
        /\ r.key # OldRow.key => s[Len(s)].pay = r.pay
    BY <1>0, <2>4 DEF StoreInv, ReceiptsOK
  <2>6. s[Len(s)].pay \in Nat
    <3> HIDE DEF s
    <3>1. Len(s) \in 1 .. Len(s)
      BY <2>5, RowsSeq
    <3> QED BY <2>5, <3>1, RowsSeq DEF RowOK
  <2>7. r.pay = None \/ r.pay = job[h].pay
    BY <2>1 DEF Matches
  <2>8. job[h].key # OldRow.key => s[Len(s)].pay = job[h].pay
    BY <2>4, <2>5, <2>6, <2>7, AbsentAssumption
  <2> DEFINE t == own'[h].last
  <2>9. /\ Rows(t) /\ Len(t) > 0 /\ IsPrefix(t, head')
        /\ t[Len(t)].key = job[h].key /\ t[Len(t)].pay = t[Len(t)].i
        /\ job[h].key # OldRow.key => t[Len(t)].pay = job[h].pay
    <3>1. t = s /\ head' = head
      BY <2>2, <2>3
    <3> HIDE DEF s, t
    <3> QED BY <2>4, <2>5, <2>8, <3>1
  <2>10. pc'[h] = "reply"
    BY <1>0, <2>2
  <2>11. HandlerOK(h)'
    BY <1>0, <2>2, <2>9, <2>10 DEF HandlerOK
  <2> QED BY <2>2, <2>11
<1>2. CASE Mismatch(h) \/ Conflict(h) \/ GiveUp(h) \/ Reply(h)
  <2>1. pc[h] # "idle" /\ At("idle")
    BY <1>2 DEF Mismatch, Conflict, GiveUp, Reply, Release, Goto
  <2>2. HandlerOK(h)'
    BY <1>0, <2>1 DEF HandlerOK
  <2> QED BY <2>1, <2>2
<1>3. CASE PutIntent(h)
  <2>1. /\ MakesIntent(intent') /\ own' = [own EXCEPT ![h] = intent'] /\ At("send")
        /\ job' = job /\ intent'.key.kind # "reconcile" /\ pc[h] = "append"
        /\ job[h].op = "append" /\ intent'.key = job[h].key /\ intent'.pay = job[h].pay
    BY <1>3, CallMakes DEF PutIntent
  <2>2. intent' # NoIntent /\ own'[h] = intent'
    BY <1>0, <2>1 DEF MakesIntent, IntentOK, NoIntent
  <2>3. HandlerOK(h)'
    BY <1>0, <2>1, <2>2 DEF HandlerOK
  <2> QED BY <2>1, <2>3
<1>4. CASE SendBatch(h)
  <2>1. pc[h] = "send" /\ At("wait") /\ UNCHANGED <<job, own, intent, pending>>
    BY <1>4 DEF SendBatch, Goto, storage
  <2>2. HandlerOK(h)'
    BY <1>0, <2>1 DEF HandlerOK
  <2> QED BY <2>1, <2>2
<1>5. CASE CommitAppend(h)
  <2>0. PICK c : c = own[h]
    OBVIOUS
  <2>1. CommitsIntent(c)
    BY <1>5, <2>0, LandedCommits
  <2>2. /\ pc[h] = "landed" /\ UNCHANGED <<job, own, pending>>
        /\ At(IF c.key.kind = "reconcile" THEN "record" ELSE "reply")
        /\ c = intent
    BY <1>0, <1>5, <2>0 DEF CommitAppend, Goto, HandlerOK
  <2>3. intent' = NoIntent
    BY <1>0, <2>1, CommitHeld
  <2>4. CASE c.key.kind = "reconcile"
    <3>1. c.key = ReconcileKey(pending.to)
      BY <1>0, <2>1, <2>4, CommitOwed
    <3>2. Receipts(c.key)' # {}
      BY <1>0, <2>1, <3>1, CommitReceipts DEF Durable, ReconcileKey
    <3>3. Receipts(ReconcileKey(pending.to))' # {}
      BY <2>2, <3>1, <3>2 DEF Receipts
    <3>4. pc'[h] = "record" /\ pending # NoPending
      BY <1>0, <2>2, <2>4 DEF HandlerOK
    <3>5. HandlerOK(h)'
      BY <1>0, <2>2, <2>3, <3>3, <3>4 DEF HandlerOK
    <3> QED BY <2>2, <3>5
  <2>5. CASE c.key.kind # "reconcile"
    <3>1. pc'[h] = "reply" /\ c.key = job[h].key /\ c.pay = job[h].pay
      BY <1>0, <2>2, <2>5 DEF HandlerOK
    <3> DEFINE t == own'[h].last
    <3>2. /\ Rows(t) /\ Len(t) > 0 /\ IsPrefix(t, head')
          /\ t[Len(t)].key = job[h].key /\ t[Len(t)].pay = t[Len(t)].i
          /\ t[Len(t)].pay = job[h].pay
      BY <1>0, <2>0, <2>1, <2>2, <3>1, CommitEnds
    <3> HIDE DEF t
    <3>3. HandlerOK(h)'
      BY <1>0, <2>2, <3>1, <3>2 DEF HandlerOK, t
    <3> QED BY <2>2, <3>3
  <2> QED BY <2>4, <2>5
<1> QED BY <1>1, <1>2, <1>3, <1>4, <1>5 DEF AppendAt

LEMMA ReconcileKnows ==
  ASSUME IInv, LedgerInv, NEW h \in Handlers, Reconcile(h)
  PROVE  HandlersOK'
<1> DEFINE At(label) == pc' = [pc EXCEPT ![h] = label]
<1>0. StoreInv /\ HandlerOK(h) /\ pc \in [Handlers -> Labels]
  BY LedgerStore, HandlerKnows DEF IInv, TypeOK
<1> SUFFICES \E at : At(at) /\ pc[h] # "idle" /\ HandlerOK(h)'
  BY OthersIdle
<1>1. CASE Lookup(h)
  <2>1. /\ pc[h] = "lookup" /\ UNCHANGED <<job, intent, pending>>
        /\ \/ At("reply") \/ At("recover")
           \/ At("check") /\ pending = NoPending
    BY <1>1 DEF Lookup, Goto, storage
  <2>2. HandlerOK(h)'
    BY <1>0, <2>1 DEF HandlerOK
  <2> QED BY <2>1, <2>2
<1>2. CASE CheckPin(h)
  <2>1. pc[h] = "check" /\ At("overlap") /\ UNCHANGED <<job, pending>>
    BY <1>2 DEF CheckPin, Goto, storage
  <2>2. HandlerOK(h)'
    BY <1>0, <2>1 DEF HandlerOK
  <2> QED BY <2>1, <2>2
<1>3. CASE AdoptOverlap(h)
  <2>1. pc[h] = "overlap" /\ pc' = pc /\ UNCHANGED <<job, pending>>
    BY <1>3 DEF AdoptOverlap, memory
  <2>2. HandlerOK(h)'
    BY <1>0, <2>1 DEF HandlerOK
  <2>3. At("overlap")
    BY <1>0, <2>1
  <2> QED BY <2>1, <2>2, <2>3
<1>4. CASE PutReconcileRecord(h)
  <2>1. pc[h] = "overlap" /\ At("pages") /\ job' = job
    BY <1>4 DEF PutReconcileRecord, Goto
  <2>2. HandlerOK(h)'
    BY <1>0, <2>1 DEF HandlerOK
  <2> QED BY <2>1, <2>2
<1>5. CASE RefusePin(h)
  <2>1. pc[h] # "idle" /\ At("idle")
    BY <1>5 DEF RefusePin, Release, Goto
  <2>2. HandlerOK(h)'
    BY <1>0, <2>1 DEF HandlerOK
  <2> QED BY <2>1, <2>2
<1>6. CASE AdoptPage(h)
  <2>1. /\ pc[h] = "pages" /\ UNCHANGED <<job, pending>>
        /\ At(IF Len(head) + ReadPage < Len(pending.to) THEN "pages" ELSE "finish")
    BY <1>6 DEF AdoptPage, Goto
  <2>2. CommitsPage /\ Len(head) < Len(pending.to)
    BY <1>6, PageCommits DEF CommitsPage, PartWay
  <2>3. intent' = NoIntent /\ Len(head) \in Nat /\ Len(pending.to) \in Nat
    BY <1>0, <2>2, PageGrows, Chain
  <2>4. pending # NoPending
    BY <2>2, <2>3, EmptyRows DEF NoPending
  <2>5. ~(Len(head) + ReadPage < Len(pending.to)) => ~PartWay'
    <3>1. Len(head') = IF Len(head) + ReadPage < Len(pending.to)
                       THEN Len(head) + ReadPage ELSE Len(pending.to)
      BY <1>6, <2>2, Chain, PageKeeps DEF AdoptPage
    <3> QED BY <2>1, <2>3, <3>1 DEF PartWay
  <2>6. HandlerOK(h)'
    BY <1>0, <2>1, <2>3, <2>4, <2>5 DEF HandlerOK
  <2> QED BY <2>1, <2>6
<1> QED BY <1>1, <1>2, <1>3, <1>4, <1>5, <1>6 DEF Reconcile

LEMMA RequestKnows ==
  ASSUME IInv, LedgerInv, NEW h \in Handlers,
         \/ \E key \in CallKeys, pay \in Payloads : Call(h, key, pay)
         \/ \E n \in 1 .. Len(d1) : CallReconcile(h, n)
  PROVE  HandlersOK'
<1>0. pc \in [Handlers -> Labels] /\ DOMAIN job = Handlers
  BY DEF IInv, TypeOK
<1>1. \/ \E key \in CallKeys : \E pay :
           job' = [job EXCEPT ![h] = [op |-> "append", key |-> key, pay |-> pay]]
             /\ pc' = [pc EXCEPT ![h] = "recover"]
      \/ \E pin :
           job' = [job EXCEPT ![h] = [op |-> "reconcile", pin |-> pin]]
             /\ pc' = [pc EXCEPT ![h] = "lookup"]
  BY DEF Call, CallReconcile, Enter, Goto
<1>2. lock = NoOne
  BY DEF Call, CallReconcile, Enter
<1>3. HandlerOK(h)'
  BY <1>0, <1>1 DEF HandlerOK
<1> QED BY <1>1, <1>2, <1>3, OthersIdle

LEMMA D1Knows ==
  ASSUME IInv, LedgerInv, LandLate \/ Crash \/ \E b \in flight : LandBatch(b)
  PROVE  HandlersOK'
<1>1. CASE LandLate
  <2>1. UNCHANGED <<storage, memory>>
    BY <1>1 DEF LandLate
  <2>2. \A h \in Handlers : HandlerOK(h) => HandlerOK(h)'
    BY <2>1 DEF HandlerOK, storage, memory, PartWay, Receipts
  <2> QED BY <2>2 DEF HandlersOK, LedgerInv
<1>2. CASE Crash
  BY <1>2 DEF Crash, HandlersOK, HandlerOK
<1>3. ASSUME NEW b \in flight, LandBatch(b)
      PROVE  HandlersOK'
  <2>1. UNCHANGED <<head, intent, pending, receipts, recent, job, own>>
        /\ pc' = IF b.by = NoOne THEN pc ELSE [pc EXCEPT ![b.by] = "landed"]
    BY <1>3 DEF LandBatch, storage
  <2>2. b.by # NoOne => pc[b.by] = "wait" /\ b.by \in Handlers
    BY DEF IInv, TypeOK, ChainInv, FlightBuiltOnD1
  <2>3. pc \in [Handlers -> Labels]
    BY DEF IInv, TypeOK
  <2>4. \A h \in Handlers : pc'[h] = pc[h] \/ (pc[h] = "wait" /\ pc'[h] = "landed")
    BY <2>1, <2>2, <2>3
  <2>5. ASSUME NEW h \in Handlers
        PROVE  HandlerOK(h)'
    <3>1. HandlerOK(h)
      BY HandlerKnows
    <3>2. CASE pc'[h] = pc[h]
      <4>1. PartWay' = PartWay /\ (Receipts(ReconcileKey(pending.to)))' = Receipts(ReconcileKey(pending.to))
        BY <2>1 DEF PartWay, Receipts
      <4> QED BY <2>1, <3>1, <3>2, <4>1 DEF HandlerOK
    <3>3. CASE pc[h] = "wait" /\ pc'[h] = "landed"
      BY <2>1, <3>1, <3>3 DEF HandlerOK
    <3> QED BY <2>4, <3>2, <3>3
  <2> QED BY <2>5 DEF HandlersOK
<1> QED BY <1>1, <1>2, <1>3

LEMMA AckedKept ==
  ASSUME IInv, LedgerInv, Next
  PROVE  AckedOK'
<1>1. Rows(head) /\ Rows(head') /\ IsPrefix(head, head')
  <2>1. IInv'
    BY StepIInv
  <2>2. Rows(head) /\ Rows(head')
    BY <2>1 DEF IInv, TypeOK
  <2>3. head' = head \/ IsPrefix(head, head')
    BY StepExtends
  <2> QED BY <2>2, <2>3, PrefixReflexive
<1>2. ASSUME NEW a \in acked
      PROVE  /\ Rows(a.head) /\ IsPrefix(a.head, head')
             /\ Last(a.head).key = a.key /\ Last(a.head).pay = Last(a.head).i
             /\ a.key # OldRow.key => Last(a.head).pay = a.pay
  <2>1. /\ Rows(a.head) /\ IsPrefix(a.head, head)
        /\ Last(a.head).key = a.key /\ Last(a.head).pay = Last(a.head).i
        /\ a.key # OldRow.key => Last(a.head).pay = a.pay
    BY LedgerStore DEF AckedOK, AckedIsThere
  <2>2. IsPrefix(a.head, head')
    BY <1>1, <2>1, PrefixTransitive
  <2> QED BY <2>1, <2>2
<1>3. CASE acked' = acked
  BY <1>2, <1>3 DEF AckedOK, AckedIsThere
<1>4. CASE \E h \in Handlers : Reply(h) /\ job[h].op = "append"
  <2>1. PICK h \in Handlers : Reply(h) /\ job[h].op = "append"
    BY <1>4
  <2> DEFINE a == [key |-> job[h].key, pay |-> job[h].pay, head |-> own[h].last]
             s == own[h].last
  <2>2. pc[h] = "reply" /\ acked' = acked \cup {a} /\ head' = head
    BY <2>1 DEF Reply, storage
  <2>3. /\ Rows(s) /\ Len(s) > 0 /\ IsPrefix(s, head)
        /\ s[Len(s)].key = job[h].key /\ s[Len(s)].pay = s[Len(s)].i
        /\ job[h].key # OldRow.key => s[Len(s)].pay = job[h].pay
    BY <2>1, <2>2, HandlerKnows DEF HandlerOK
  <2>4. a.head = s /\ a.key = job[h].key /\ a.pay = job[h].pay
    OBVIOUS
  <2> HIDE DEF a, s
  <2>5. /\ Rows(a.head) /\ IsPrefix(a.head, head')
        /\ Last(a.head).key = a.key /\ Last(a.head).pay = Last(a.head).i
        /\ a.key # OldRow.key => Last(a.head).pay = a.pay
    BY <2>2, <2>3, <2>4 DEF Last
  <2> QED BY <1>2, <2>2, <2>5 DEF AckedOK, AckedIsThere
<1>5. acked' = acked \/ \E h \in Handlers : Reply(h) /\ job[h].op = "append"
  BY DEF Next, Run, Recover, AppendAt, Reconcile, Call, CallReconcile, Enter, GiveUp, LandBatch,
         LandLate, Crash, ResumeAdoption, ReadTail, AdoptHeld, AbandonIntent, NothingToRecover,
         ChainBroken, WriteReconcileRow, ReconcileRowWritten, RecordReconcile, Dedup, Mismatch,
         PutIntent, SendBatch, CommitAppend, Conflict, Reply, Lookup, CheckPin, AdoptOverlap,
         PutReconcileRecord, RefusePin, AdoptPage, Observed
<1> QED BY <1>3, <1>4, <1>5

LEMMA InitLedger == Init => LedgerInv
<1> SUFFICES ASSUME Init PROVE LedgerInv
  OBVIOUS
<1> DEFINE old == [key |-> OldRow.key, head |-> Base, pay |-> None]
<1>1. /\ head = Base /\ intent = NoIntent /\ abandoned = << >> /\ receipts = {old} /\ recent = << >>
      /\ pending = NoPending /\ done = {} /\ flight = {} /\ acked = {}
      /\ pc = [h \in Handlers |-> "idle"]
  BY DEF Init
<1>2. Range(<< >>) = {} /\ Held = {} /\ HeldAtHead = {}
  BY <1>1 DEF Held, HeldAtHead, Range
<1>3. /\ Rows(Base) /\ Len(Base) = 1 /\ Base[1] = OldRow /\ DOMAIN Base = {1}
      /\ IsPrefix(Base, Base) /\ IsPrefix(<< >>, Base) /\ Rows(<< >>) /\ Len(<< >>) = 0
  <2>1. Rows(Base)
    BY <1>1, InitIInv DEF IInv, TypeOK
  <2>2. Len(Base) = 1 /\ Base[1] = OldRow
    BY DEF Base
  <2> QED BY <2>1, <2>2, RowsSeq, PrefixReflexive, EmptyRows
<1> HIDE DEF old
<1>4. OldRow.key.kind = "idem" /\ OldRow.pay = 1 /\ OldRow.i = 1
      /\ Receipts(OldRow.key) = {old} /\ old.key = OldRow.key /\ old.head = Base
  BY <1>1 DEF OldRow, Receipts, Durable, old
<1>5. NoPending.to = << >> /\ NoPending.from = << >>
  BY DEF NoPending
<1>6. Owed = << >> /\ ~PartWay
  BY <1>1, <1>3, <1>5 DEF Owed, PartWay
<1>7. HeldOK /\ IntentAtHead /\ DoneOK /\ FlightOK
  BY <1>1, <1>2 DEF HeldOK, IntentAtHead, DoneOK, FlightOK
<1>8. ReceiptsOK
  <2>1. receipts \cup Range(recent) = {old}
    BY <1>1, <1>2
  <2>2. /\ Rows(old.head) /\ Len(old.head) = 1 /\ IsPrefix(old.head, head)
        /\ old.head[1] = OldRow /\ old.key.kind # "reconcile"
    BY <1>1, <1>3, <1>4
  <2>3. \A n \in DOMAIN head : head[n].key = OldRow.key
    BY <1>1, <1>3
  <2>4. \A n \in DOMAIN head : Receipts(head[n].key) # {}
    BY <1>4, <2>3
  <2>5. ASSUME NEW r \in receipts \cup Range(recent)
        PROVE  /\ Rows(r.head) /\ Len(r.head) > 0 /\ IsPrefix(r.head, head)
               /\ r.head[Len(r.head)].key = r.key
               /\ r.head[Len(r.head)].pay = r.head[Len(r.head)].i
               /\ r.key = OldRow.key /\ r.key.kind # "reconcile"
    <3>1. r = old
      BY <2>1
    <3>2. old.head[Len(old.head)] = OldRow /\ Len(old.head) > 0
      BY <2>2
    <3> QED BY <1>4, <2>2, <3>1, <3>2
  <2> QED BY <2>4, <2>5 DEF ReceiptsOK
<1>9. PendingOK
  BY <1>1, <1>3, <1>5, <1>6 DEF PendingOK
<1>10. BeyondHead
  <2>1. PICK s \in LegacySuffixes : d1 = Base \o s
    BY DEF Init
  <2>2. Rows(s) /\ \A n \in 1 .. Len(s) : s[n].key.kind = "legacy"
    BY AbsentAssumption
  <2>3. /\ Len(d1) = Len(Base) + Len(s) /\ Len(s) \in Nat
        /\ \A n \in 1 .. Len(Base) + Len(s) : d1[n] = IF n <= Len(Base) THEN Base[n] ELSE s[n - Len(Base)]
    BY <1>3, <2>1, <2>2, ConcatRows, RowsSeq
  <2>4. ASSUME NEW n \in Len(head) + 1 .. Len(d1)
        PROVE  Legacy(d1[n])
    <3>1. n - Len(Base) \in 1 .. Len(s) /\ n \in 1 .. Len(Base) + Len(s) /\ ~(n <= Len(Base))
      BY <1>1, <1>3, <2>3
    <3> QED BY <2>2, <2>3, <3>1 DEF Legacy
  <2> QED BY <2>4 DEF BeyondHead
<1>11. LateOK
  <2>1. late = None \/ late.rows \in LateLegacy
    BY DEF Init
  <2> QED BY <2>1, AbsentAssumption DEF LateOK, Legacy
<1>12. HandlersOK
  BY <1>1 DEF HandlersOK, HandlerOK
<1>13. AtMostOnce /\ ForeignRowsArePinned
  BY <1>1, <1>3, <1>4 DEF AtMostOnce, ForeignRowsArePinned
<1>14. AckedOK
  BY <1>1 DEF AckedOK, AckedIsThere
<1> QED BY <1>7, <1>8, <1>9, <1>10, <1>11, <1>12, <1>13, <1>14 DEF LedgerInv

LEMMA StepLedger == IInv /\ LedgerInv /\ [Next]_vars => LedgerInv'
<1> SUFFICES ASSUME IInv, LedgerInv, [Next]_vars PROVE LedgerInv'
  OBVIOUS
<1>1. CASE Next
  <2>1. StoreInv' /\ AckedOK'
    BY <1>1, StepKeepsStore, AckedKept
  <2>2. HandlersOK'
    BY <1>1, RecoverKnows, AppendKnows, ReconcileKnows, RequestKnows, D1Knows DEF Next, Run
  <2> QED BY <2>1, <2>2 DEF StoreInv, LedgerInv
<1>2. CASE UNCHANGED vars
  <2>1. UNCHANGED <<head, intent, abandoned, receipts, recent, pending, done, d1, flight, late,
                    pc, job, own, acked>>
    BY <1>2 DEF vars, storage, memory
  <2>2. Held' = Held /\ HeldAtHead' = HeldAtHead /\ IntentAtHead'
    BY <2>1 DEF Held, HeldAtHead, LedgerInv, IntentAtHead
  <2>3. StoreInv'
    BY <2>1, <2>2, LedgerStore, SameChainKeepsStore DEF StoreInv, FlightOK
  <2>4. \A h \in Handlers : HandlerOK(h) => HandlerOK(h)'
    BY <2>1 DEF HandlerOK, PartWay, Receipts
  <2>5. HandlersOK' /\ AckedOK'
    BY <2>1, <2>4 DEF LedgerInv, HandlersOK, AckedOK, AckedIsThere
  <2> QED BY <2>3, <2>5 DEF StoreInv, LedgerInv
<1> QED BY <1>1, <1>2

(***************************************************************************)
(* The theorems.                                                           *)
(***************************************************************************)
(* Whatever may still become part of the chain - a held intent, a batch on its
   way, D1's rows beyond the head - is one call's or a pinned suffix; what each
   handler assumes after an await is still so. *)
THEOREM LedgerInvHolds == Spec => [](IInv /\ LedgerInv)
<1>1. Init => IInv /\ LedgerInv
  BY InitIInv, InitLedger
<1>2. IInv /\ LedgerInv /\ [Next]_vars => (IInv /\ LedgerInv)'
  BY StepIInv, StepLedger
<1> QED BY <1>1, <1>2, PTL DEF Spec

(* A durable key's rows are in the chain once, together, complete and of one
   call, whichever of its attempts landed (appendAt, adoptHeldIntent). *)
THEOREM AtMostOnceHolds == Spec => []AtMostOnce
<1>1. LedgerInv => AtMostOnce
  BY DEF LedgerInv
<1> QED BY <1>1, LedgerInvHolds, PTL

(* A caller that was told its append is in the chain can find it there, with the
   payload it sent (appendAt's two answers). *)
THEOREM AckedIsThereHolds == Spec => []AckedIsThere
<1>1. LedgerInv => AckedIsThere
  BY DEF LedgerInv, AckedOK
<1> QED BY <1>1, LedgerInvHolds, PTL

(* A row no call wrote is in the chain only below an operator's pin, and the row
   that records the pin is the next one (reconcile, finishReconcile). *)
THEOREM ForeignRowsArePinnedHolds == Spec => []ForeignRowsArePinned
<1>1. LedgerInv => ForeignRowsArePinned
  BY DEF LedgerInv
<1> QED BY <1>1, LedgerInvHolds, PTL

(* What the object relies on between two awaits (runExclusive, recover). *)
THEOREM ChainInvHolds == Spec => []ChainInv
<1>1. IInv => ChainInv
  BY DEF IInv
<1> QED BY <1>1, IInvHolds, PTL

-----------------------------------------------------------------------------
(***************************************************************************)
(* Every step is a step of the ledger, or invisible to it.                 *)
(***************************************************************************)
LEMMA Moves ==
  ASSUME IInv, LedgerInv, Next
  PROVE  \/ \E c : CommitsIntent(c)
         \/ CommitsPage
         \/ /\ head' = head /\ outbox' = outbox
            /\ \/ \E to : OpensRecord(to) /\ IsPrefix(head, to) /\ IsPrefix(to, d1)
               \/ ClosesRecord
               \/ UNCHANGED <<receipts, recent, pending>>
<1>1. CASE \E h \in Handlers : AdoptHeld(h) \/ AdoptOverlap(h)
  BY <1>1, AdoptCommits
<1>2. CASE \E h \in Handlers : CommitAppend(h)
  BY <1>2, LandedCommits
<1>3. CASE \E h \in Handlers : ResumeAdoption(h) \/ AdoptPage(h)
  BY <1>3, PageCommits
<1>4. CASE \E h \in Handlers : PutReconcileRecord(h)
  <2>1. PICK h \in Handlers : PutReconcileRecord(h)
    BY <1>4
  <2>2. pending = NoPending /\ Rows(job[h].pin)
    BY <2>1, HandlerKnows DEF HandlerOK, PutReconcileRecord, IInv, ChainInv, RequestsOK
  <2>3. OpensRecord(job[h].pin) /\ IsPrefix(head, job[h].pin) /\ IsPrefix(job[h].pin, d1)
    BY <2>1, <2>2 DEF PutReconcileRecord, OpensRecord, External, Verified
  <2> QED BY <2>1, <2>3 DEF PutReconcileRecord
<1>5. CASE \E h \in Handlers : RecordReconcile(h)
  <2>1. PICK h \in Handlers : RecordReconcile(h)
    BY <1>5
  <2>2. ClosesRecord
    BY <2>1, HandlerKnows DEF RecordReconcile, ClosesRecord, External, HandlerOK
  <2> QED BY <2>1, <2>2 DEF RecordReconcile
<1>6. CASE \/ \E h \in Handlers :
                \/ ReadTail(h) \/ AbandonIntent(h) \/ NothingToRecover(h) \/ ChainBroken(h)
                \/ WriteReconcileRow(h) \/ ReconcileRowWritten(h) \/ Dedup(h) \/ Mismatch(h)
                \/ PutIntent(h) \/ SendBatch(h) \/ Conflict(h) \/ GiveUp(h) \/ Reply(h)
                \/ Lookup(h) \/ CheckPin(h) \/ RefusePin(h)
                \/ \E key \in CallKeys, pay \in Payloads : Call(h, key, pay)
                \/ \E n \in 1 .. Len(d1) : CallReconcile(h, n)
           \/ \E b \in flight : LandBatch(b)
           \/ LandLate
           \/ Crash
  BY <1>6 DEF ReadTail, AbandonIntent, NothingToRecover, ChainBroken, WriteReconcileRow,
              ReconcileRowWritten, Dedup, Mismatch, PutIntent, SendBatch, Conflict, GiveUp, Reply,
              Lookup, CheckPin, RefusePin, Call, CallReconcile, Enter, LandBatch, LandLate, Crash,
              storage
<1> QED BY <1>1, <1>2, <1>3, <1>4, <1>5, <1>6 DEF Next, Run, Recover, AppendAt, Reconcile

LEMMA LedgerPrefix ==
  ASSUME NEW s, NEW t, IsPrefix(s, t)
  PROVE  Ledger!IsPrefix(s, t) /\ (s # t => Ledger!IsStrictPrefix(s, t))
BY DEF IsPrefix, Ledger!IsPrefix, Ledger!IsStrictPrefix

LEMMA CommitImplements ==
  ASSUME IInv, StoreInv, NEW c, CommitsIntent(c)
  PROVE  Ledger!AppendCall \/ Ledger!CloseReconcile
<1> DEFINE added == SubSeq(head', Len(head) + 1, Len(head'))
<1>1. /\ head' = c.last /\ Rows(head') /\ Len(head') \in Nat
      /\ c.pay \in Nat \ {0} /\ Len(head') = Len(head) + c.pay
      /\ IsPrefix(head, head')
      /\ \A n \in Len(head) + 1 .. Len(head') : head'[n].key = c.key /\ ~Legacy(head'[n])
      /\ OneCallFrom(head', Len(head) + 1)
      /\ c.first = Len(head) + 1
  BY CommitGrows
<1>2. Rows(head) /\ Len(head) \in Nat /\ DOMAIN head = 1 .. Len(head)
  BY Chain
<1>3. /\ Len(added) = c.pay
      /\ \A n \in 1 .. c.pay : /\ added[n] = head'[Len(head) + n]
                               /\ Len(head) + n \in Len(head) + 1 .. Len(head')
  <2>1. Len(head) + 1 \in Nat \ {0} /\ Len(head') <= Len(head')
    BY <1>1, <1>2
  <2>2. /\ Rows(added)
        /\ Len(added) = IF Len(head) + 1 <= Len(head') THEN Len(head') - (Len(head) + 1) + 1 ELSE 0
        /\ \A k \in 1 .. Len(head') - (Len(head) + 1) + 1 : added[k] = head'[Len(head) + 1 + k - 1]
    BY <1>1, <2>1, CutRows
  <2> HIDE DEF added
  <2>3. Len(added) = c.pay /\ Len(head') - (Len(head) + 1) + 1 = c.pay
    BY <1>1, <1>2, <2>2
  <2>4. ASSUME NEW n \in 1 .. c.pay
        PROVE  /\ added[n] = head'[Len(head) + n]
               /\ Len(head) + n \in Len(head) + 1 .. Len(head')
    <3>1. n \in 1 .. Len(head') - (Len(head) + 1) + 1 /\ Len(head) + 1 + n - 1 = Len(head) + n
      BY <1>2, <2>3
    <3>2. Len(head) + n \in Len(head) + 1 .. Len(head')
      BY <1>1, <1>2
    <3> QED BY <2>2, <3>1, <3>2
  <2> QED BY <2>3, <2>4
<1>4. DOMAIN added = 1 .. c.pay
  <2>1. Rows(added)
    BY <1>1, <1>2, CutRows
  <2> HIDE DEF added
  <2> QED BY <1>3, <2>1, RowsSeq
<1>5. /\ Owed' = NoPending.to
      /\ c.key.kind = "reconcile" =>
           Owed = head /\ c.key = ReconcileKey(head) /\ c.pay = 1
      /\ c.key.kind # "reconcile" => Owed = NoPending.to
  BY CommitOwed
<1>6. c.last[c.first].pay = c.pay
  BY DEF CommitsIntent, HeldAtHead, StoreInv, HeldOK
<1>7. 1 \in 1 .. c.pay
  BY <1>1
<1>8. \A n \in 1 .. c.pay : /\ added[n].key = c.key /\ ~Legacy(added[n])
                            /\ added[n].pay = c.pay /\ added[n].i = n
                            /\ added[n].ts = head'[Len(head) + 1].ts
  <2> TAKE n \in 1 .. c.pay
  <2> DEFINE m == Len(head) + n
  <2>1. added[n] = head'[m] /\ m \in Len(head) + 1 .. Len(head')
    BY <1>3
  <2>2. head'[Len(head) + 1].pay = c.pay
    BY <1>1, <1>6
  <2>3. /\ head'[m].key = c.key /\ ~Legacy(head'[m])
        /\ head'[m].pay = head'[Len(head) + 1].pay /\ head'[m].ts = head'[Len(head) + 1].ts
        /\ head'[m].i = m - (Len(head) + 1) + 1
    BY <1>1, <2>1 DEF OneCallFrom
  <2>4. m - (Len(head) + 1) + 1 = n
    BY <1>2
  <2> HIDE DEF m, added
  <2> QED BY <2>1, <2>2, <2>3, <2>4
<1>9. Durable(c.key) => \A n \in DOMAIN head : head[n].key # c.key
  <2>1. Durable(c.key) => Receipts(c.key) = {}
    BY DEF CommitsIntent, HeldAtHead, StoreInv, HeldOK
  <2> QED BY <2>1 DEF StoreInv, ReceiptsOK
<1>10. Ledger!IsStrictPrefix(head, head')
  <2>1. head # head'
    BY <1>1, <1>2
  <2> QED BY <1>1, <2>1, LedgerPrefix
<1> HIDE DEF added
<1>11. added[1].key = c.key /\ ~Legacy(added[1])
  BY <1>7, <1>8
<1>12. CASE c.key.kind = "reconcile"
  BY <1>3, <1>5, <1>9, <1>10, <1>11, <1>12
     DEF Ledger!CloseReconcile, Ledger!Added, Ledger!Fresh, added
<1>13. CASE c.key.kind # "reconcile"
  <2>1. Ledger!OneCall(added)
    BY <1>3, <1>4, <1>7, <1>8 DEF Ledger!OneCall
  <2>2. c.key.kind \notin {"legacy", "reconcile"}
    BY <1>11, <1>13 DEF Legacy
  <2> QED BY <1>5, <1>9, <1>10, <1>11, <1>13, <2>1, <2>2
          DEF Ledger!AppendCall, Ledger!Added, Ledger!Fresh, added
<1> QED BY <1>12, <1>13

LEMMA PageImplements ==
  ASSUME IInv, StoreInv, CommitsPage
  PROVE  Ledger!AdoptPinned
<1>1. /\ Owed = pending.to /\ Owed' = pending.to /\ Owed # NoPending.to
  BY PageAdds
<1>2. /\ Len(head) < Len(head') /\ IsPrefix(head, head') /\ IsPrefix(head', pending.to)
      /\ Len(head) \in Nat
  BY PageGrows, Chain
<1>3. head # head'
  BY <1>2
<1>4. Ledger!IsStrictPrefix(head, head') /\ Ledger!IsPrefix(head', pending.to)
  BY <1>2, <1>3, LedgerPrefix
<1> QED BY <1>1, <1>4 DEF Ledger!AdoptPinned

LEMMA OpenImplements ==
  ASSUME IInv, StoreInv, NEW to, OpensRecord(to), IsPrefix(head, to), IsPrefix(to, d1)
  PROVE  Ledger!Pin
<1>1. Owed = NoPending.to /\ Owed' = to /\ to # NoPending.to
  BY OpeningOwes
<1>2. Rows(to) /\ Rows(d1) /\ Len(to) \in Nat /\ Len(head) \in Nat /\ head' = head
      /\ Len(to) > Len(head)
  BY Chain, RowsSeq DEF OpensRecord
<1>3. Len(to) <= Len(d1) /\ (\A n \in 1 .. Len(to) : to[n] = d1[n]) /\ Len(d1) \in Nat
  BY <1>2, PrefixRow
<1>4. \A n \in Len(head) + 1 .. Len(d1) : Legacy(d1[n])
  BY DEF OpensRecord, StoreInv, BeyondHead
<1>5. \A n \in Len(head) + 1 .. Len(to) : to[n].key.kind = "legacy"
  BY <1>2, <1>3, <1>4 DEF Legacy
<1>6. Ledger!IsStrictPrefix(head, to)
  <2>1. head # to
    BY <1>2
  <2> QED BY <2>1, LedgerPrefix
<1> QED BY <1>1, <1>2, <1>5, <1>6 DEF Ledger!Pin

LEMMA StepImplements == IInv /\ LedgerInv /\ [Next]_vars => [Ledger!Next]_<<head, Owed>>
<1> SUFFICES ASSUME IInv, LedgerInv, [Next]_vars
             PROVE  [Ledger!Next]_<<head, Owed>>
  OBVIOUS
<1>0. StoreInv
  BY LedgerStore
<1>1. CASE Next /\ \E c : CommitsIntent(c)
  BY <1>0, <1>1, CommitImplements DEF Ledger!Next
<1>2. CASE Next /\ CommitsPage
  BY <1>0, <1>2, PageImplements DEF Ledger!Next
<1>3. CASE Next /\ \E to : OpensRecord(to) /\ IsPrefix(head, to) /\ IsPrefix(to, d1)
  BY <1>0, <1>3, OpenImplements DEF Ledger!Next
<1>4. CASE head' = head /\ ClosesRecord
  <2>1. Owed = NoPending.to /\ NoPending.to = << >>
    BY <1>4 DEF ClosesRecord, Owed, NoPending
  <2>2. pending'.to = << >>
    BY <1>4 DEF ClosesRecord, NoPending
  <2>3. Owed' = << >>
    BY <2>1, <2>2 DEF Owed
  <2> QED BY <1>4, <2>1, <2>3
<1>5. CASE head' = head /\ UNCHANGED <<receipts, recent, pending>>
  <2>1. Owed' = Owed
    BY <1>5 DEF Owed, Receipts
  <2> QED BY <1>5, <2>1
<1>6. CASE UNCHANGED vars
  BY <1>5, <1>6 DEF vars, storage
<1> QED BY <1>1, <1>2, <1>3, <1>4, <1>5, <1>6, Moves

(* The object keeps the audit log's promise to its callers: crashes, lost
   answers and late batches included, what they see is a ledger that appends
   whole calls, each durable key once, and foreign rows under a pin only
   (AuditLedger). *)
THEOREM Implements == Spec => ImplementsLedger
<1>1. Init => Ledger!Init
  BY DEF Init, Ledger!Init, Owed
<1>2. IInv /\ LedgerInv /\ [Next]_vars => [Ledger!Next]_<<head, Owed>>
  BY StepImplements
<1> QED BY <1>1, <1>2, LedgerInvHolds, PTL DEF Spec, ImplementsLedger, Ledger!Spec

-----------------------------------------------------------------------------
(***************************************************************************)
(* The escrow's copy.                                                      *)
(***************************************************************************)
(* What a commit queues are the rows it adds. *)
LEMMA SegmentsAdd ==
  ASSUME NEW s, NEW t, Rows(s), Rows(t), IsPrefix(s, t)
  PROVE  Segments(<<>>, s) \cup Segments(s, t) = Segments(<<>>, t)
<1> DEFINE e == << >>
<1>1. Len(s) \in Nat /\ Len(t) \in Nat /\ Len(s) <= Len(t) /\ \A n \in 1 .. Len(s) : s[n] = t[n]
  BY PrefixRow
<1>2. Len(e) = 0
  BY EmptyRows
<1> HIDE DEF e
<1>3. Segments(e, s) = {[seq |-> n, row |-> t[n]] : n \in 1 .. Len(s)}
  BY <1>1, <1>2 DEF Segments
<1>4. Segments(e, t) = {[seq |-> n, row |-> t[n]] : n \in 1 .. Len(t)}
  BY <1>2 DEF Segments
<1>5. 1 .. Len(t) = (1 .. Len(s)) \cup (Len(s) + 1 .. Len(t))
  BY <1>1
<1>6. Segments(e, s) \cup Segments(s, t) = Segments(e, t)
  BY <1>3, <1>4, <1>5 DEF Segments
<1> QED BY <1>6 DEF e

LEMMA StepQueues == IInv /\ LedgerInv /\ EscrowHoldsChain /\ [Next]_vars => EscrowHoldsChain'
<1> SUFFICES ASSUME IInv, LedgerInv, EscrowHoldsChain, [Next]_vars PROVE EscrowHoldsChain'
  OBVIOUS
<1>0. StoreInv /\ Rows(head)
  BY LedgerStore, Chain
<1>1. CASE \E c : CommitsIntent(c)
  <2>1. PICK c : CommitsIntent(c)
    BY <1>1
  <2>2. Rows(head') /\ IsPrefix(head, head')
    BY <1>0, <2>1, CommitGrows
  <2>3. outbox' = outbox \cup Segments(head, head')
    BY <2>1 DEF CommitsIntent, CommitHead
  <2> QED BY <1>0, <2>2, <2>3, SegmentsAdd DEF EscrowHoldsChain
<1>2. CASE CommitsPage
  BY <1>0, <1>2, PageGrows, SegmentsAdd DEF EscrowHoldsChain
<1>3. CASE head' = head /\ outbox' = outbox
  BY <1>3 DEF EscrowHoldsChain
<1> QED BY <1>1, <1>2, <1>3, Moves DEF vars, storage

(* Whichever way a row entered the chain - its own commit, an adopted intent, a
   page of a pinned suffix - its segment was queued with it, and no other
   segment ever is (commitHead, queueEscrow). *)
THEOREM EscrowHoldsChainAlways == Spec => []EscrowHoldsChain
<1>1. Init => EscrowHoldsChain
  BY DEF Init, EscrowHoldsChain
<1>2. IInv /\ LedgerInv /\ EscrowHoldsChain /\ [Next]_vars => EscrowHoldsChain'
  BY StepQueues
<1> QED BY <1>1, <1>2, LedgerInvHolds, PTL DEF Spec

-----------------------------------------------------------------------------
(***************************************************************************)
(* Canceled appends.  Every abandoned intent has cost a failure, and so    *)
(* will the one that is about to be abandoned: while there were no more    *)
(* failures than the list has room for, the list was never cut, and        *)
(* whatever can still land is held.                                        *)
(***************************************************************************)
Doomed ==
  /\ intent # NoIntent
  /\ \A h \in Handlers : pc[h] \notin {"send", "wait", "landed"}
  /\ Len(d1) = Len(head) \/ \E h \in Handlers : pc[h] = "decide" /\ tail[h] = Len(head)

RoomForAbandoned == Len(abandoned) + (IF Doomed THEN 1 ELSE 0) <= fails

NothingForgotten ==
  /\ RoomForAbandoned
  /\ fails <= AbandonedMax => AbandonedNotForgotten

LEMMA Counts ==
  ASSUME IInv
  PROVE  /\ Len(abandoned) \in Nat /\ fails \in Nat /\ AbandonedMax \in Nat
         /\ abandoned \in Seq(Range(abandoned))
BY LenProperties, BoundsAssumption DEF IInv, TypeOK

(* A list that has room is not cut. *)
LEMMA RoomKeeps ==
  ASSUME NEW s, s \in Seq(Range(s)), NEW e, NEW max \in Nat
  PROVE  LET t == LastN(Append(s, e), max) IN
         /\ Len(t) \in Nat /\ Len(t) <= Len(s) + 1
         /\ Len(s) + 1 <= max => Range(t) = Range(s) \cup {e}
<1> DEFINE S == Range(s) \cup {e}
           a == Append(s, e)
           t == LastN(a, max)
<1>1. s \in Seq(S) /\ e \in S
  BY SeqMonotonic, Zenon
<1>2. /\ a \in Seq(S) /\ Len(a) = Len(s) + 1 /\ Len(s) \in Nat
      /\ \A n \in 1 .. Len(s) : a[n] = s[n]
      /\ a[Len(s) + 1] = e
  BY <1>1, AppendProperties, LenProperties
<1>3. t \in Seq(Range(t)) /\ Len(t) <= max /\ Len(t) \in Nat
  <2>1. t \in Seq(Range(t)) /\ Len(t) <= max
    BY Capped
  <2> HIDE DEF t
  <2> QED BY <2>1, LenProperties
<1>4. Len(s) + 1 <= max => t = a
  BY <1>2 DEF LastN
<1>5. Len(t) <= Len(s) + 1
  <2> HIDE DEF t
  <2> QED BY <1>2, <1>3, <1>4
<1>6. Range(a) = Range(s) \cup {e}
  <2>1. DOMAIN a = 1 .. Len(s) + 1 /\ DOMAIN s = 1 .. Len(s)
    BY <1>1, <1>2, LenProperties
  <2> HIDE DEF a, S
  <2>2. \A n \in 1 .. Len(s) + 1 : n \in 1 .. Len(s) \/ n = Len(s) + 1
    BY <1>2
  <2>3. \A n \in 1 .. Len(s) : n \in 1 .. Len(s) + 1
    BY <1>2
  <2>4. Len(s) + 1 \in 1 .. Len(s) + 1
    BY <1>2
  <2>5. Range(a) \subseteq Range(s) \cup {e}
    BY <1>2, <2>1, <2>2 DEF Range
  <2>6. Range(s) \cup {e} \subseteq Range(a)
    BY <1>2, <2>1, <2>3, <2>4 DEF Range
  <2> QED BY <2>5, <2>6
<1>7. Len(s) + 1 <= max => Range(t) = Range(s) \cup {e}
  BY <1>4, <1>6
<1> QED BY <1>3, <1>5, <1>7, Zenon

(* What is dropped when an intent's rows are committed cannot land any more. *)
LEMMA AdoptForgetsNothing ==
  ASSUME IInv, LedgerInv, NEW h \in Handlers,
         CommitAppend(h) \/ AdoptHeld(h) \/ AdoptOverlap(h)
  PROVE  /\ intent' = NoIntent /\ Len(abandoned') \in Nat /\ Len(abandoned') <= Len(abandoned)
         /\ \A a \in Held : a.first > Len(d1) => a \in Held'
<1>0. StoreInv
  BY LedgerStore
<1>1. PICK c : /\ CommitsIntent(c)
              /\ \/ abandoned' = abandoned
                 \/ c \in Held /\ abandoned' = Without(c)
  <2>1. CASE CommitAppend(h)
    BY <2>1, LandedCommits DEF CommitAppend
  <2>2. CASE AdoptHeld(h) \/ AdoptOverlap(h)
    <3>1. PICK c \in HeldAtHead : Adopt(c)
      BY <2>2 DEF AdoptHeld, AdoptOverlap
    <3>2. c \in Held
      BY DEF HeldAtHead
    <3>3. Range(abandoned') \subseteq Range(abandoned)
      BY <3>1, <3>2, WithoutKeeps DEF Adopt
    <3>4. UNCHANGED <<pending, done, d1, flight, late>>
      BY <2>2 DEF AdoptHeld, AdoptOverlap, External
    <3>5. CommitsIntent(c)
      BY <3>1, <3>3, <3>4 DEF CommitsIntent, Adopt, Verified
    <3> QED BY <3>1, <3>2, <3>5 DEF Adopt
  <2> QED BY <2>1, <2>2
<1>2. intent' = NoIntent
  BY <1>1 DEF CommitsIntent, CommitHead
<1>3. /\ Len(head') <= Len(d1) /\ Len(head) < Len(head')
      /\ Len(head) \in Nat /\ Len(head') \in Nat /\ Len(d1) \in Nat
      /\ c.first = Len(head) + 1 /\ c \in Held
  BY <1>0, <1>1, CommitGrows, Chain DEF CommitsIntent, HeldAtHead
<1>4. Len(abandoned') \in Nat /\ Len(abandoned') <= Len(abandoned)
      /\ Range(abandoned) \subseteq Range(abandoned') \cup {c}
  <2>1. CASE abandoned' = abandoned
    BY <2>1, Counts
  <2>2. CASE c \in Held /\ abandoned' = Without(c)
    <3> DEFINE w == Without(c)
    <3>1. /\ w \in Seq(Range(w)) /\ Len(w) <= Len(abandoned)
          /\ Range(abandoned) \subseteq Range(w) \cup {c}
      BY <2>2, WithoutKeeps
    <3> HIDE DEF w
    <3>2. Len(w) \in Nat
      BY <3>1, LenProperties
    <3> QED BY <2>2, <3>1, <3>2 DEF w
  <2> QED BY <1>1, <2>1, <2>2
<1>5. ASSUME NEW a \in Held, a.first > Len(d1)
      PROVE  a \in Held'
  <2>1. a # c
    BY <1>3, <1>5
  <2>2. a # intent
    <3>1. intent # NoIntent => intent.first = Len(head) + 1
      BY <1>0 DEF StoreInv, IntentAtHead
    <3>2. a.first \in Nat \ {0}
      BY Chain, IntentFacts
    <3> QED BY <1>3, <1>5, <3>1, <3>2 DEF NoIntent
  <2> QED BY <1>4, <1>5, <2>1, <2>2 DEF Held
<1> QED BY <1>2, <1>4, <1>5

(* The steps that neither take an intent away nor put a batch on the way. *)
LEMMA StillHeld ==
  ASSUME AbandonedNotForgotten, Len(d1) \in Nat, Len(d1') \in Nat, Len(d1) <= Len(d1'),
         \A b \in flight : b.first \in Nat,
         \A a \in Held : a.first > Len(d1) => a \in Held',
         \A b \in flight' : \E e \in flight : b.first = e.first /\ b.last = e.last
  PROVE  AbandonedNotForgotten'
<1> SUFFICES ASSUME NEW b \in flight', b.first > Len(d1')
             PROVE  \E a \in Held' : a.first = b.first /\ a.last = b.last
  BY DEF AbandonedNotForgotten
<1>1. PICK e \in flight : b.first = e.first /\ b.last = e.last
  OBVIOUS
<1>2. e.first > Len(d1)
  BY <1>1
<1>3. PICK a \in Held : a.first = e.first /\ a.last = e.last
  BY <1>2 DEF AbandonedNotForgotten
<1>4. a \in Held'
  BY <1>2, <1>3
<1> QED BY <1>1, <1>3, <1>4

(* The room in the list: what changes, by the kind of step. *)
LEMMA RoomStays ==
  ASSUME IInv, RoomForAbandoned, Len(abandoned') <= Len(abandoned), Len(abandoned') \in Nat,
         fails' = fails, Doomed' => Doomed
  PROVE  RoomForAbandoned'
BY Counts DEF RoomForAbandoned

LEMMA RoomByFailure ==
  ASSUME IInv, RoomForAbandoned, abandoned' = abandoned, fails' = fails + 1
  PROVE  RoomForAbandoned'
BY Counts DEF RoomForAbandoned

(* While the list has room, an intent that is given up stays held. *)
LEMMA AbandonKeeps ==
  ASSUME IInv, RoomForAbandoned, NEW h \in Handlers, AbandonIntent(h)
  PROVE  /\ RoomForAbandoned'
         /\ fails <= AbandonedMax => Held' = Held
<1> DEFINE t == LastN(Append(abandoned, intent), AbandonedMax)
<1>0. Len(abandoned) \in Nat /\ fails \in Nat /\ AbandonedMax \in Nat
  BY Counts
<1>1. /\ pc[h] = "decide" /\ tail[h] = Len(head) /\ intent # NoIntent
      /\ abandoned' = t /\ intent' = NoIntent
      /\ UNCHANGED <<d1, flight, fails>>
  BY DEF AbandonIntent, External, Observed
<1>2. Doomed
  BY <1>1, Alone DEF Doomed
<1>3. Len(abandoned) + 1 <= fails
  BY <1>0, <1>2 DEF RoomForAbandoned
<1>4. /\ Len(t) \in Nat /\ Len(t) <= Len(abandoned) + 1
      /\ Len(abandoned) + 1 <= AbandonedMax => Range(t) = Range(abandoned) \cup {intent}
  BY Counts, RoomKeeps
<1> HIDE DEF t
<1>5. RoomForAbandoned'
  <2>1. ~Doomed'
    BY <1>1 DEF Doomed
  <2>2. Len(abandoned') <= fails'
    BY <1>0, <1>1, <1>3, <1>4
  <2> QED BY <1>0, <1>1, <1>4, <2>1, <2>2 DEF RoomForAbandoned
<1>6. fails <= AbandonedMax => Held' = Held
  <2>1. fails <= AbandonedMax => Range(t) = Range(abandoned) \cup {intent}
    BY <1>0, <1>3, <1>4
  <2> QED BY <1>1, <2>1 DEF Held
<1> QED BY <1>5, <1>6

LEMMA ForgetsNothingRun ==
  ASSUME IInv, LedgerInv, NothingForgotten, NEW h \in Handlers, Run(h)
  PROVE  NothingForgotten'
<1>0. /\ StoreInv /\ HandlerOK(h) /\ RoomForAbandoned
      /\ pc \in [Handlers -> Labels]
      /\ Len(d1) \in Nat /\ Len(head) \in Nat /\ Len(head) <= Len(d1)
      /\ \A b \in flight : b.first \in Nat
      /\ Len(abandoned) \in Nat /\ fails \in Nat /\ AbandonedMax \in Nat
      /\ fails <= AbandonedMax => AbandonedNotForgotten
      /\ intent # NoIntent => intent.first = Len(head) + 1
  BY LedgerStore, HandlerKnows, Chain, Counts, IntentFacts
     DEF IInv, TypeOK, NothingForgotten, StoreInv, IntentAtHead
<1>alone. /\ pc[h] # "idle" => \A g \in Handlers : g # h => pc[g] = "idle"
          /\ \A b \in flight : b.by # NoOne => b.by = h \/ pc[h] = "idle"
  BY Alone
<1>1. CASE CommitAppend(h) \/ AdoptHeld(h) \/ AdoptOverlap(h)
  <2>1. /\ intent' = NoIntent /\ Len(abandoned') \in Nat /\ Len(abandoned') <= Len(abandoned)
        /\ \A a \in Held : a.first > Len(d1) => a \in Held'
    BY <1>1, AdoptForgetsNothing
  <2>2. UNCHANGED <<d1, flight, fails>>
    BY <1>1 DEF CommitAppend, AdoptHeld, AdoptOverlap, External, Observed
  <2>3. ~Doomed'
    BY <2>1 DEF Doomed
  <2>4. RoomForAbandoned'
    BY <1>0, <2>1, <2>2, <2>3, RoomStays
  <2> QED BY <1>0, <2>1, <2>2, <2>4, StillHeld DEF NothingForgotten
<1>2. CASE ResumeAdoption(h) \/ AdoptPage(h)
  <2>1. CommitsPage
    BY <1>2, PageCommits
  <2>2. HeldAtHead = {} /\ intent' = NoIntent
    BY <1>0, <2>1, PageAdds, PageGrows
  <2>3. intent = NoIntent
    BY <1>0, <2>2 DEF HeldAtHead, Held
  <2>4. UNCHANGED <<abandoned, d1, flight, fails>>
    BY <1>2 DEF ResumeAdoption, AdoptPage, External, Observed
  <2>5. ~Doomed' /\ Held' = Held
    BY <2>2, <2>3, <2>4 DEF Doomed, Held
  <2>6. RoomForAbandoned'
    BY <1>0, <2>4, <2>5, RoomStays
  <2> QED BY <1>0, <2>4, <2>5, <2>6, StillHeld DEF NothingForgotten
<1>3. CASE AbandonIntent(h)
  <2>1. UNCHANGED <<d1, flight, fails>>
    BY <1>3 DEF AbandonIntent, External, Observed
  <2>2. RoomForAbandoned' /\ (fails <= AbandonedMax => Held' = Held)
    BY <1>0, <1>3, AbandonKeeps
  <2> QED BY <1>0, <2>1, <2>2, StillHeld DEF NothingForgotten
<1>4. CASE PutIntent(h) \/ WriteReconcileRow(h)
  <2>1. MakesIntent(intent') /\ pc' = [pc EXCEPT ![h] = "send"]
    BY <1>4, CallMakes, ReconcileMakes
  <2>2. UNCHANGED <<abandoned, d1, flight, fails>> /\ intent = NoIntent
    BY <1>4, <2>1 DEF PutIntent, WriteReconcileRow, External, Observed, MakesIntent
  <2>3. ~Doomed'
    BY <1>0, <2>1 DEF Doomed
  <2>4. Held \subseteq Held'
    BY <2>2 DEF Held
  <2>5. RoomForAbandoned'
    BY <1>0, <2>2, <2>3, RoomStays
  <2> QED BY <1>0, <2>2, <2>4, <2>5, StillHeld DEF NothingForgotten
<1>5. CASE SendBatch(h)
  <2> DEFINE b == [by |-> h, first |-> own[h].first, last |-> own[h].last]
  <2>1. /\ pc[h] = "send" /\ pc' = [pc EXCEPT ![h] = "wait"]
        /\ flight' = flight \cup {b} /\ UNCHANGED <<intent, abandoned, d1, fails>>
    BY <1>5 DEF SendBatch, Goto, storage, Observed
  <2>2. intent \in Held /\ b.first = intent.first /\ b.last = intent.last
    BY <1>0, <2>1 DEF HandlerOK, Held
  <2> HIDE DEF b
  <2>3. ~Doomed'
    BY <1>0, <2>1 DEF Doomed
  <2>4. Held' = Held
    BY <2>1 DEF Held
  <2>5. RoomForAbandoned'
    BY <1>0, <2>1, <2>3, RoomStays
  <2>6. AbandonedNotForgotten => AbandonedNotForgotten'
    BY <2>1, <2>2, <2>4 DEF AbandonedNotForgotten
  <2> QED BY <1>0, <2>1, <2>5, <2>6 DEF NothingForgotten
<1>6. CASE Conflict(h)
  <2>1. PICK b \in flight : b.by = h /\ b.first <= Len(d1) /\ flight' = flight \ {b}
    BY <1>6 DEF Conflict
  <2>2. /\ pc[h] = "wait" /\ pc' = [pc EXCEPT ![h] = "idle"]
        /\ UNCHANGED <<head, intent, abandoned, d1, fails>>
    BY <1>6 DEF Conflict, Release, Goto, storage, Observed
  <2>3. own[h] = intent /\ intent # NoIntent
    BY <1>0, <2>2 DEF HandlerOK
  <2>4. b.first = Len(head) + 1
    BY <1>0, <2>1, <2>3, AbsentAssumption DEF IInv, ChainInv, FlightBuiltOnD1
  <2>5. Len(d1) # Len(head)
    BY <1>0, <2>1, <2>4
  <2>6. \A g \in Handlers : pc'[g] = "idle"
    BY <1>0, <1>alone, <2>2
  <2>7. ~Doomed'
    BY <2>2, <2>5, <2>6 DEF Doomed
  <2>8. RoomForAbandoned'
    BY <1>0, <2>2, <2>7, RoomStays
  <2>9. Held' = Held
    BY <2>2 DEF Held
  <2> QED BY <1>0, <2>1, <2>2, <2>8, <2>9, StillHeld DEF NothingForgotten
<1>7. CASE \/ ReadTail(h) \/ NothingToRecover(h) \/ ChainBroken(h) \/ ReconcileRowWritten(h)
           \/ RecordReconcile(h) \/ PutReconcileRecord(h)
           \/ Dedup(h) \/ Mismatch(h) \/ Reply(h) \/ Lookup(h) \/ CheckPin(h) \/ RefusePin(h)
  <2>1. UNCHANGED <<head, intent, abandoned, d1, flight, fails>>
    BY <1>7 DEF ReadTail, NothingToRecover, ChainBroken, ReconcileRowWritten, RecordReconcile,
                PutReconcileRecord, Dedup, Mismatch, Reply, Lookup, CheckPin, RefusePin, storage,
                External, Observed
  <2>2. /\ pc[h] \notin {"idle", "send", "wait", "landed"}
        /\ \A g \in Handlers : g # h => pc'[g] = pc[g]
        /\ pc'[h] = "decide" => tail'[h] = Len(d1)
    <3>0. DOMAIN tail = Handlers /\ \A g \in Handlers : pc[g] \in Labels
      BY DEF IInv, TypeOK
    <3>1. CASE ReadTail(h)
      BY <1>0, <3>0, <3>1 DEF ReadTail, Goto
    <3>2. CASE \/ NothingToRecover(h) \/ ChainBroken(h) \/ ReconcileRowWritten(h)
               \/ RecordReconcile(h) \/ PutReconcileRecord(h)
      BY <1>0, <3>2 DEF NothingToRecover, ChainBroken, ReconcileRowWritten, RecordReconcile,
                        PutReconcileRecord, Goto, Release, AfterRecover
    <3>3. CASE \/ Dedup(h) \/ Mismatch(h) \/ Reply(h) \/ Lookup(h) \/ CheckPin(h) \/ RefusePin(h)
      BY <1>0, <3>3 DEF Dedup, Mismatch, Reply, Lookup, CheckPin, RefusePin, Goto, Release
    <3> QED BY <1>7, <3>1, <3>2, <3>3
  <2>3. Doomed' => Doomed
    BY <1>0, <1>alone, <2>1, <2>2 DEF Doomed
  <2>4. RoomForAbandoned'
    BY <1>0, <2>1, <2>3, RoomStays
  <2>5. Held' = Held
    BY <2>1 DEF Held
  <2> QED BY <1>0, <2>1, <2>4, <2>5, StillHeld DEF NothingForgotten
<1> QED BY <1>1, <1>2, <1>3, <1>4, <1>5, <1>6, <1>7 DEF Run, Recover, AppendAt, Reconcile

(* D1 only ever grows. *)
LEMMA D1Lengthens ==
  ASSUME IInv, LandLate \/ \E b \in flight : LandBatch(b)
  PROVE  /\ Rows(d1') /\ IsPrefix(d1, d1')
         /\ Len(d1) \in Nat /\ Len(d1') \in Nat /\ Len(d1) <= Len(d1')
<1>1. PICK rows : Rows(rows) /\ d1' = d1 \o rows
  <2>1. CASE LandLate
    BY <2>1 DEF LandLate, IInv, TypeOK
  <2>2. CASE \E b \in flight : LandBatch(b)
    <3>1. PICK b \in flight : LandBatch(b)
      BY <2>2
    <3>2. Rows(b.last) /\ b.first \in Nat \ {0} /\ Len(b.last) \in Nat
      BY RowsSeq DEF IInv, TypeOK, IntentOK
    <3>3. Rows(Suffix(b))
      BY <3>2, CutRows DEF Suffix
    <3> QED BY <3>1, <3>3 DEF LandBatch
  <2> QED BY <2>1, <2>2
<1>2. Rows(d1') /\ IsPrefix(d1, d1')
  BY <1>1, Chain, ConcatRows
<1> QED BY <1>2, Chain, PrefixRow

LEMMA ForgetsNothingStep == IInv /\ LedgerInv /\ NothingForgotten /\ [Next]_vars => NothingForgotten'
<1> SUFFICES ASSUME IInv, LedgerInv, NothingForgotten, [Next]_vars PROVE NothingForgotten'
  OBVIOUS
<1>0. /\ RoomForAbandoned
      /\ pc \in [Handlers -> Labels]
      /\ Len(d1) \in Nat /\ Len(head) \in Nat /\ Len(head) <= Len(d1)
      /\ \A b \in flight : b.first \in Nat
      /\ Len(abandoned) \in Nat /\ fails \in Nat /\ AbandonedMax \in Nat
      /\ fails <= AbandonedMax => AbandonedNotForgotten
  BY Chain, Counts, IntentFacts DEF IInv, TypeOK, NothingForgotten
<1>1. CASE \E h \in Handlers : Run(h)
  BY <1>1, ForgetsNothingRun
<1>2. CASE Crash \/ \E h \in Handlers : GiveUp(h)
  <2>1. /\ UNCHANGED <<intent, abandoned, d1>> /\ fails' = fails + 1
        /\ \A b \in flight' : \E e \in flight : b.first = e.first /\ b.last = e.last
    BY <1>2 DEF Crash, GiveUp, Orphan, storage
  <2>2. RoomForAbandoned'
    BY <1>0, <2>1, RoomByFailure
  <2>3. Held' = Held
    BY <2>1 DEF Held
  <2>4. fails' <= AbandonedMax => fails <= AbandonedMax
    BY <1>0, <2>1
  <2> QED BY <1>0, <2>1, <2>2, <2>3, <2>4, StillHeld DEF NothingForgotten
<1>3. CASE LandLate \/ \E b \in flight : LandBatch(b)
  <2>1. Len(d1') \in Nat /\ Len(d1) <= Len(d1')
    BY <1>3, D1Lengthens
  <2>2. UNCHANGED <<head, intent, abandoned, fails, tail>> /\ flight' \subseteq flight
    BY <1>3 DEF LandLate, LandBatch, storage, memory, Observed
  <2>3. \/ pc' = pc
        \/ \E g \in Handlers : pc'[g] = "landed"
    <3>1. CASE LandLate
      BY <3>1 DEF LandLate, memory
    <3>2. CASE \E b \in flight : LandBatch(b)
      <4>1. PICK b \in flight : LandBatch(b)
        BY <3>2
      <4>2. b.by # NoOne => b.by \in Handlers
        BY DEF IInv, TypeOK
      <4> QED BY <1>0, <4>1, <4>2 DEF LandBatch
    <3> QED BY <1>3, <3>1, <3>2
  <2>4. Doomed' => Doomed
    BY <1>0, <2>1, <2>2, <2>3 DEF Doomed
  <2>5. RoomForAbandoned'
    BY <1>0, <2>2, <2>4, RoomStays
  <2>6. Held' = Held
    BY <2>2 DEF Held
  <2> QED BY <1>0, <2>1, <2>2, <2>5, <2>6, StillHeld DEF NothingForgotten
<1>4. CASE \E h \in Handlers : \/ \E key \in CallKeys, pay \in Payloads : Call(h, key, pay)
                               \/ \E n \in 1 .. Len(d1) : CallReconcile(h, n)
  <2>1. PICK h \in Handlers : \E request : Enter(h, request, "recover") \/ Enter(h, request, "lookup")
    BY <1>4 DEF Call, CallReconcile
  <2>2. /\ lock = NoOne
        /\ pc' = [pc EXCEPT ![h] = "recover"] \/ pc' = [pc EXCEPT ![h] = "lookup"]
        /\ UNCHANGED <<head, intent, abandoned, d1, flight, fails, tail>>
    BY <2>1 DEF Enter, Goto, storage, External, Observed
  <2>3. \A g \in Handlers : pc[g] = "idle"
    BY <2>2, AbsentAssumption DEF IInv, ChainInv, OneAtATime
  <2>4. Doomed' => Doomed
    BY <1>0, <2>2, <2>3 DEF Doomed
  <2>5. RoomForAbandoned'
    BY <1>0, <2>2, <2>4, RoomStays
  <2>6. Held' = Held
    BY <2>2 DEF Held
  <2> QED BY <1>0, <2>2, <2>5, <2>6, StillHeld DEF NothingForgotten
<1>5. CASE UNCHANGED vars
  <2>1. UNCHANGED <<head, intent, abandoned, d1, flight, fails, tail, pc>>
    BY <1>5 DEF vars, storage, memory, Observed
  <2> QED BY <2>1 DEF NothingForgotten, RoomForAbandoned, AbandonedNotForgotten, Doomed, Held
<1> QED BY <1>1, <1>2, <1>3, <1>4, <1>5 DEF Next

THEOREM NothingForgottenHolds == Spec => []NothingForgotten
<1>1. Init => NothingForgotten
  <2> SUFFICES ASSUME Init PROVE NothingForgotten
    OBVIOUS
  <2>1. abandoned = << >> /\ intent = NoIntent /\ fails = 0 /\ flight = {}
    BY DEF Init
  <2>2. Len(<< >>) = 0
    BY EmptyRows
  <2> QED BY <2>1, <2>2 DEF NothingForgotten, RoomForAbandoned, Doomed, AbandonedNotForgotten
<1>2. IInv /\ LedgerInv /\ NothingForgotten /\ [Next]_vars => NothingForgotten'
  BY ForgetsNothingStep
<1> QED BY <1>1, <1>2, LedgerInvHolds, PTL DEF Spec

(* The bound of the abandoned list is tight: while there were no more crashes,
   lost answers and failed batches than ABANDONED_MAX, every batch that can
   still land has its intent kept (recover, abandonIntent). *)
THEOREM AbandonedKept == Spec => [](fails <= AbandonedMax => AbandonedNotForgotten)
<1>1. NothingForgotten => (fails <= AbandonedMax => AbandonedNotForgotten)
  BY DEF NothingForgotten
<1> QED BY <1>1, NothingForgottenHolds, PTL

-----------------------------------------------------------------------------
(***************************************************************************)
(* A canceled append and the ones after it.  Once no INSERT of the code    *)
(* before the intents can land any more, what D1 holds beyond the head is  *)
(* what one held intent leads to, its rows as the chain rule gives them;   *)
(* or it is rows that code left, which only an operator can claim.         *)
(***************************************************************************)
Intact(c) == \A n \in c.first .. Len(c.last) : c.last[n].ok

Claimed == \E c \in HeldAtHead : c.last = d1

(* Until they are pinned and adopted, no append gets past recover. *)
Refuses(h) ==
  /\ pc[h] \notin {"append", "finish", "send", "wait", "landed", "record"}
  /\ pc[h] = "decide" => tail[h] # Len(head)
  /\ pc[h] = "overlap" => job[h].pin = d1

Unclaimed ==
  /\ HeldAtHead = {}
  /\ PartWay => pending.to = d1
  /\ \A h \in Handlers : Refuses(h)

Recoverable ==
  fails <= AbandonedMax =>
    /\ late = None
    /\ \A c \in Held : Intact(c)
    /\ Len(d1) > Len(head) => Claimed \/ Unclaimed

LEMMA RowsIntact ==
  ASSUME Rows(head), NEW rows, Rows(rows), \A n \in 1 .. Len(rows) : rows[n].ok,
         NEW key, NEW pay, NEW c, c = MakeIntent(key, pay, rows)
  PROVE  Intact(c)
<1>1. /\ Len(head) \in Nat /\ Len(rows) \in Nat
      /\ Len(head \o rows) = Len(head) + Len(rows)
      /\ \A n \in 1 .. Len(head) + Len(rows) :
           (head \o rows)[n] = IF n <= Len(head) THEN head[n] ELSE rows[n - Len(head)]
  BY RowsSeq, ConcatRows
<1>2. c.last = head \o rows /\ c.first = Len(head) + 1
  BY DEF MakeIntent
<1>3. ASSUME NEW n \in Len(head) + 1 .. Len(head) + Len(rows)
      PROVE  (head \o rows)[n].ok
  <2>1. n - Len(head) \in 1 .. Len(rows) /\ n \in 1 .. Len(head) + Len(rows) /\ ~(n <= Len(head))
    BY <1>1
  <2> QED BY <1>1, <2>1
<1> QED BY <1>1, <1>2, <1>3 DEF Intact

LEMMA NewRowsIntact ==
  ASSUME IInv, LedgerInv, NEW h \in Handlers, PutIntent(h) \/ WriteReconcileRow(h)
  PROVE  Intact(intent')
<1>0. Rows(head)
  BY Chain
<1>1. CASE PutIntent(h)
  <2>1. pc[h] = "append" /\ \E ts \in Times :
          intent' = MakeIntent(job[h].key, job[h].pay, CallRows(job[h].key, job[h].pay, ts))
    BY <1>1 DEF PutIntent
  <2>2. PICK ts \in Times :
          intent' = MakeIntent(job[h].key, job[h].pay, CallRows(job[h].key, job[h].pay, ts))
    BY <2>1
  <2> DEFINE rows == CallRows(job[h].key, job[h].pay, ts)
  <2>3. job[h].pay \in Nat \ {0}
    BY <2>1, HandlerKnows, BoundsAssumption DEF IInv, ChainInv, RequestsOK
  <2>4. Rows(rows) /\ Len(rows) = job[h].pay
    BY <2>3, NewRows
  <2>5. \A n \in 1 .. job[h].pay : rows[n].ok
    BY DEF CallRows
  <2>6. intent' = MakeIntent(job[h].key, job[h].pay, rows)
    BY <2>2
  <2> HIDE DEF rows
  <2> QED BY <1>0, <2>4, <2>5, <2>6, RowsIntact
<1>2. CASE WriteReconcileRow(h)
  <2> DEFINE rows == <<ReconcileRow(head)>>
  <2>1. intent' = MakeIntent(ReconcileKey(head), 1, rows)
    BY <1>2 DEF WriteReconcileRow
  <2>2. Rows(rows) /\ Len(rows) = 1
    BY NewReconcileRow
  <2>3. rows[1] = ReconcileRow(head)
    OBVIOUS
  <2>4. rows[1].ok
    BY <2>3 DEF ReconcileRow
  <2> HIDE DEF rows
  <2>5. \A n \in 1 .. Len(rows) : n = 1
    BY <2>2
  <2> QED BY <1>0, <2>1, <2>2, <2>4, <2>5, RowsIntact
<1> QED BY <1>1, <1>2

(* A commit takes everything D1 holds. *)
LEMMA CommitReachesTail ==
  ASSUME IInv, StoreInv, Claimed, NEW c, CommitsIntent(c)
  PROVE  head' = d1
<1>1. /\ c \in HeldAtHead /\ IsPrefix(c.last, d1) /\ head' = c.last
      /\ Len(head) < Len(c.last) /\ Len(c.last) <= Len(d1)
      /\ Len(head) \in Nat /\ Len(c.last) \in Nat /\ Len(d1) \in Nat
  <2>1. c \in HeldAtHead /\ IsPrefix(c.last, d1)
    BY DEF CommitsIntent
  <2>2. Rows(d1) /\ Len(head) \in Nat
    BY Chain
  <2>3. /\ head' = c.last /\ Rows(head') /\ Len(head') = Len(head) + c.pay /\ c.pay \in Nat \ {0}
    BY CommitGrows
  <2>4. Len(c.last) <= Len(d1) /\ Len(c.last) \in Nat /\ Len(d1) \in Nat
    BY <2>1, <2>2, <2>3, PrefixRow
  <2>5. Len(head) < Len(c.last)
    BY <2>2, <2>3, <2>4
  <2> QED BY <2>1, <2>2, <2>3, <2>4, <2>5
<1>2. PICK a \in HeldAtHead : a.last = d1
  BY DEF Claimed
<1>3. \A e \in HeldAtHead : /\ IntentOK(e) /\ OneCallFrom(e.last, e.first)
                            /\ e.first = Len(head) + 1
  BY DEF StoreInv, HeldOK, HeldAtHead, Held, IInv, TypeOK
<1>4. Rows(c.last) /\ Rows(d1)
  BY <1>1, <1>3, Chain, IntentFacts
<1>5. c.last[c.first] = d1[c.first]
  <2>1. c.first \in 1 .. Len(c.last)
    BY <1>1, <1>3
  <2> QED BY <1>1, <1>4, <2>1, PrefixRow
<1>6. Len(c.last) = Len(d1)
  BY <1>1, <1>2, <1>3, <1>5 DEF OneCallFrom
<1> QED BY <1>1, <1>4, <1>6, PrefixSame

(* The steps that leave the chain, D1 and the held intents alone. *)
LEMMA SameRecoverable ==
  ASSUME Recoverable, UNCHANGED <<head, d1, late>>, fails' <= AbandonedMax => fails <= AbandonedMax,
         Held' = Held, PartWay' => PartWay /\ pending'.to = pending.to,
         Len(d1) > Len(head) /\ (\A h \in Handlers : Refuses(h)) => \A h \in Handlers : Refuses(h)'
  PROVE  Recoverable'
<1>1. HeldAtHead' = HeldAtHead
  BY DEF HeldAtHead
<1> QED BY <1>1 DEF Recoverable, Claimed, Unclaimed

LEMMA RefusesAlone ==
  ASSUME IInv, NEW h \in Handlers, pc[h] # "idle" \/ lock = NoOne,
         NEW at, pc' = [pc EXCEPT ![h] = at], Refuses(h)'
  PROVE  \A g \in Handlers : Refuses(g)'
<1>1. \A g \in Handlers : g # h => pc[g] = "idle"
  BY AbsentAssumption DEF IInv, ChainInv, OneAtATime
<1>2. \A g \in Handlers : g # h => pc'[g] = "idle"
  BY <1>1 DEF IInv, TypeOK
<1> QED BY <1>2 DEF Refuses

LEMMA FailsGrow ==
  ASSUME IInv, [Next]_vars
  PROVE  fails' <= AbandonedMax => fails <= AbandonedMax
<1>1. fails \in Nat /\ AbandonedMax \in Nat
  BY Counts
<1>2. fails' = fails \/ fails' = fails + 1
  BY DEF Next, Run, Recover, AppendAt, Reconcile, Call, CallReconcile, Enter, ResumeAdoption,
         ReadTail, AdoptHeld, AbandonIntent, NothingToRecover, ChainBroken, WriteReconcileRow,
         ReconcileRowWritten, RecordReconcile, Dedup, Mismatch, PutIntent, SendBatch, CommitAppend,
         Conflict, Reply, Lookup, CheckPin, AdoptOverlap, PutReconcileRecord, RefusePin, AdoptPage,
         GiveUp, LandBatch, LandLate, Crash, Observed, vars
<1> QED BY <1>1, <1>2

(* The handler's steps that neither commit nor put an intent. *)
LEMMA MovingRecoverable ==
  ASSUME IInv, LedgerInv, Recoverable, [Next]_vars, NEW h \in Handlers,
         \/ ReadTail(h) \/ NothingToRecover(h) \/ ChainBroken(h) \/ Dedup(h) \/ Mismatch(h)
         \/ SendBatch(h) \/ Conflict(h) \/ GiveUp(h) \/ Reply(h) \/ ReconcileRowWritten(h)
         \/ RecordReconcile(h) \/ Lookup(h) \/ CheckPin(h) \/ RefusePin(h)
  PROVE  Recoverable'
<1>0. /\ Len(d1) \in Nat /\ Len(head) \in Nat /\ pc \in [Handlers -> Labels]
      /\ DOMAIN tail = Handlers
  BY Chain DEF IInv, TypeOK
<1>1. fails' <= AbandonedMax => fails <= AbandonedMax
  BY FailsGrow
<1>2. UNCHANGED <<head, intent, abandoned, d1, late>> /\ pc[h] # "idle"
  BY DEF ReadTail, NothingToRecover, ChainBroken, ReconcileRowWritten, RecordReconcile, Dedup,
         Mismatch, SendBatch, Conflict, GiveUp, Reply, Lookup, CheckPin, RefusePin, storage, External
<1>3. Held' = Held
  BY <1>2 DEF Held
<1>4. PartWay' => PartWay /\ pending'.to = pending.to
  <2>1. CASE RecordReconcile(h)
    BY <1>0, <1>2, <2>1, EmptyRows DEF RecordReconcile, PartWay, NoPending
  <2>2. CASE pending' = pending
    BY <1>2, <2>2 DEF PartWay
  <2> QED BY <2>1, <2>2 DEF ReadTail, NothingToRecover, ChainBroken, ReconcileRowWritten, Dedup,
         Mismatch, SendBatch, Conflict, GiveUp, Reply, Lookup, CheckPin, RefusePin, storage
<1>5. ASSUME Len(d1) > Len(head), \A g \in Handlers : Refuses(g)
      PROVE  \A g \in Handlers : Refuses(g)'
  <2>0. Refuses(h)
    BY <1>5
  <2>1. CASE ReadTail(h)
    <3>1. pc' = [pc EXCEPT ![h] = "decide"] /\ tail'[h] = Len(d1)
      BY <1>0, <2>1 DEF ReadTail, Goto
    <3>2. pc'[h] = "decide"
      BY <1>0, <3>1
    <3>3. Refuses(h)'
      BY <1>0, <1>2, <1>5, <3>1, <3>2 DEF Refuses
    <3> QED BY <1>2, <3>1, <3>3, RefusesAlone
  <2>2. CASE \/ NothingToRecover(h) \/ Dedup(h) \/ Mismatch(h) \/ SendBatch(h) \/ Conflict(h)
             \/ GiveUp(h) \/ ReconcileRowWritten(h) \/ RecordReconcile(h)
    BY <2>0, <2>2 DEF Refuses, NothingToRecover, Dedup, Mismatch, SendBatch, Conflict, GiveUp,
                      ReconcileRowWritten, RecordReconcile
  <2>3. CASE ChainBroken(h) \/ Reply(h) \/ RefusePin(h)
    <3>1. pc' = [pc EXCEPT ![h] = "idle"]
      BY <2>3 DEF ChainBroken, Reply, RefusePin, Release, Goto
    <3>2. Refuses(h)'
      BY <1>0, <3>1 DEF Refuses
    <3> QED BY <1>2, <3>1, <3>2, RefusesAlone
  <2>4. CASE Lookup(h)
    <3>1. PICK at \in {"reply", "recover", "check"} : pc' = [pc EXCEPT ![h] = at]
      BY <2>4 DEF Lookup, Goto
    <3>2. Refuses(h)'
      BY <1>0, <3>1 DEF Refuses
    <3> QED BY <1>2, <3>1, <3>2, RefusesAlone
  <2>5. CASE CheckPin(h)
    <3>1. pc' = [pc EXCEPT ![h] = "overlap"] /\ job' = job /\ job[h].pin = d1
      BY <2>5 DEF CheckPin, Goto
    <3>2. Refuses(h)'
      BY <1>0, <1>2, <3>1 DEF Refuses
    <3> QED BY <1>2, <3>1, <3>2, RefusesAlone
  <2> QED BY <2>1, <2>2, <2>3, <2>4, <2>5
<1> QED BY <1>1, <1>2, <1>3, <1>4, <1>5, SameRecoverable

(* An operator's pin claims everything D1 holds, and each page leads to it. *)
LEMMA PinningRecoverable ==
  ASSUME IInv, LedgerInv, Recoverable, fails <= AbandonedMax, NEW h \in Handlers,
         ResumeAdoption(h) \/ AdoptPage(h) \/ PutReconcileRecord(h)
  PROVE  Recoverable'
<1>0. /\ StoreInv /\ Len(d1) \in Nat /\ Len(head) \in Nat /\ pc \in [Handlers -> Labels]
  BY LedgerStore, Chain DEF IInv, TypeOK
<1>1. CASE PutReconcileRecord(h)
  <2>1. /\ pc[h] = "overlap" /\ HeldAtHead = {} /\ Rows(job[h].pin) /\ Len(job[h].pin) > Len(head)
        /\ IsPrefix(job[h].pin, d1)
        /\ pending' = [from |-> head, to |-> job[h].pin]
        /\ pc' = [pc EXCEPT ![h] = "pages"]
        /\ UNCHANGED <<head, intent, abandoned, d1, late, fails>>
    BY <1>1 DEF PutReconcileRecord, IInv, ChainInv, RequestsOK, Verified, Goto, External, Observed
  <2>2. Len(job[h].pin) <= Len(d1) /\ Len(job[h].pin) \in Nat
    BY <2>1, Chain, PrefixRow
  <2>3. Len(d1) > Len(head)
    BY <1>0, <2>1, <2>2
  <2>4. Unclaimed
    BY <2>1, <2>3 DEF Recoverable, Claimed
  <2>5. job[h].pin = d1
    BY <2>1, <2>4 DEF Unclaimed, Refuses
  <2>6. Held' = Held /\ HeldAtHead' = {}
    BY <2>1 DEF Held, HeldAtHead
  <2>7. Refuses(h)'
    BY <1>0, <2>1 DEF Refuses
  <2>8. \A g \in Handlers : Refuses(g)'
    BY <2>1, <2>7, RefusesAlone
  <2>9. Unclaimed'
    BY <2>1, <2>5, <2>6, <2>8 DEF Unclaimed
  <2> QED BY <2>1, <2>6, <2>9 DEF Recoverable
<1>2. CASE ResumeAdoption(h) \/ AdoptPage(h)
  <2>1. CommitsPage
    BY <1>2, PageCommits
  <2>2. /\ HeldAtHead = {} /\ HeldAtHead' = {} /\ Held' \subseteq Held
        /\ Len(head) < Len(head') /\ Len(head') <= Len(pending.to) /\ Len(pending.to) <= Len(d1)
        /\ Len(head') \in Nat /\ Rows(head')
    BY <1>0, <2>1, PageAdds, PageGrows
  <2>3. UNCHANGED <<pending, d1, late, fails>> /\ PartWay /\ CommitPage(pending.to)
    BY <1>2, <2>1 DEF CommitsPage, ResumeAdoption, AdoptPage, Observed
  <2>4. Len(pending.to) \in Nat /\ Len(d1) > Len(head)
    <3>1. Len(pending.to) \in Nat
      BY RowsSeq DEF IInv, TypeOK
    <3> QED BY <1>0, <2>2, <3>1
  <2>5. Unclaimed /\ pending.to = d1
    BY <2>2, <2>3, <2>4 DEF Recoverable, Claimed, Unclaimed
  <2>6. ASSUME Len(d1') > Len(head')
        PROVE  \A g \in Handlers : Refuses(g)'
    <3>1. CASE ResumeAdoption(h)
      <4>1. pc[h] = "recover" /\ pc' = pc
        BY <3>1 DEF ResumeAdoption, memory
      <4>2. \A g \in Handlers : pc'[g] \in {"idle", "recover"}
        BY <4>1, Alone
      <4> QED BY <4>2 DEF Refuses
    <3>2. CASE AdoptPage(h)
      <4>1. Len(head') = IF Len(head) + ReadPage < Len(pending.to) THEN Len(head) + ReadPage
                         ELSE Len(pending.to)
        BY <2>3, PageKeeps DEF PartWay, IInv, TypeOK, ChainInv, PinnedOnD1
      <4>2. Len(head) + ReadPage < Len(pending.to)
        BY <1>0, <2>2, <2>3, <2>4, <2>5, <2>6, <4>1
      <4>3. pc[h] # "idle" /\ pc' = [pc EXCEPT ![h] = "pages"]
        BY <3>2, <4>2 DEF AdoptPage, Goto
      <4>4. Refuses(h)'
        BY <1>0, <4>3 DEF Refuses
      <4> QED BY <4>3, <4>4, RefusesAlone
    <3> QED BY <1>2, <3>1, <3>2
  <2>7. Len(d1') > Len(head') => Unclaimed'
    BY <2>2, <2>3, <2>5, <2>6 DEF Unclaimed
  <2> QED BY <2>2, <2>3, <2>7 DEF Recoverable
<1> QED BY <1>1, <1>2

LEMMA RecoverableStep ==
  IInv /\ LedgerInv /\ NothingForgotten /\ Recoverable /\ [Next]_vars => Recoverable'
<1> SUFFICES ASSUME IInv, LedgerInv, NothingForgotten, Recoverable, [Next]_vars,
                    fails' <= AbandonedMax
             PROVE  Recoverable'
  BY DEF Recoverable
<1>0. /\ StoreInv /\ pc \in [Handlers -> Labels]
      /\ Len(d1) \in Nat /\ Len(head) \in Nat /\ Len(head) <= Len(d1)
  BY LedgerStore, Chain DEF IInv, TypeOK
<1>1. fails <= AbandonedMax
  BY FailsGrow
<1>2. /\ late = None /\ \A c \in Held : Intact(c)
      /\ Len(d1) > Len(head) => Claimed \/ Unclaimed
      /\ RoomForAbandoned /\ AbandonedNotForgotten
  BY <1>1 DEF Recoverable, NothingForgotten
<1>4. CASE \E h \in Handlers : CommitAppend(h) \/ AdoptHeld(h) \/ AdoptOverlap(h)
  <2>1. PICK c : CommitsIntent(c)
    BY <1>4, LandedCommits, AdoptCommits
  <2>2. Held' \subseteq Held /\ UNCHANGED <<d1, late, pending>> /\ c \in HeldAtHead
    BY <1>0, <2>1, CommitHeld DEF CommitsIntent
  <2>3. Len(d1) > Len(head)
    <3>1. /\ head' = c.last /\ Rows(c.last) /\ Len(c.last) = Len(head) + c.pay
          /\ c.pay \in Nat \ {0} /\ Len(c.last) \in Nat
      BY <1>0, <2>1, CommitGrows
    <3>2. Len(c.last) <= Len(d1)
      BY <2>1, <3>1, Chain, PrefixRow DEF CommitsIntent
    <3> QED BY <1>0, <3>1, <3>2
  <2>4. Claimed
    BY <1>2, <2>2, <2>3 DEF Unclaimed
  <2>5. head' = d1
    BY <1>0, <2>1, <2>4, CommitReachesTail
  <2>6. ~(Len(d1') > Len(head'))
    BY <1>0, <2>2, <2>5
  <2> QED BY <1>2, <2>2, <2>6 DEF Recoverable
<1>5. CASE \E h \in Handlers : AbandonIntent(h)
  <2>1. PICK h \in Handlers : AbandonIntent(h)
    BY <1>5
  <2>2. Held' = Held
    BY <1>1, <1>2, <2>1, AbandonKeeps
  <2>3. UNCHANGED <<head, d1, late, pending, fails>> /\ pc[h] = "decide" /\ tail[h] = Len(head)
    BY <2>1 DEF AbandonIntent, External, Observed
  <2>4. ~Refuses(h)
    BY <2>3 DEF Refuses
  <2>5. PartWay' => PartWay /\ pending'.to = pending.to
    BY <2>3 DEF PartWay
  <2> QED BY <1>1, <2>2, <2>3, <2>4, <2>5, SameRecoverable
<1>6. CASE \E h \in Handlers : PutIntent(h) \/ WriteReconcileRow(h)
  <2>1. PICK h \in Handlers : PutIntent(h) \/ WriteReconcileRow(h)
    BY <1>6
  <2>2. MakesIntent(intent') /\ Intact(intent')
    BY <2>1, CallMakes, ReconcileMakes, NewRowsIntact
  <2>3. UNCHANGED <<head, d1, late, pending, abandoned>> /\ intent = NoIntent
    BY <2>2 DEF MakesIntent
  <2>4. Held \subseteq Held' /\ Held' \subseteq Held \cup {intent'}
    BY <2>3 DEF Held
  <2>5. HeldAtHead \subseteq HeldAtHead'
    BY <2>3, <2>4 DEF HeldAtHead
  <2>6. ~Unclaimed
    BY <2>1 DEF PutIntent, WriteReconcileRow, Unclaimed, Refuses
  <2>7. Len(d1') > Len(head') => Claimed'
    BY <1>2, <2>3, <2>5, <2>6 DEF Claimed
  <2> QED BY <1>2, <2>2, <2>3, <2>4, <2>7 DEF Recoverable
<1>7. CASE \E b \in flight : LandBatch(b)
  <2>1. PICK b \in flight : LandBatch(b)
    BY <1>7
  <2>2. b.first = Len(d1) + 1 /\ b.first \in Nat
    BY <1>0, <2>1 DEF LandBatch
  <2>3. PICK c \in Held : c.first = b.first /\ c.last = b.last
    BY <1>0, <1>2, <2>2 DEF AbandonedNotForgotten
  <2>4. b.first <= Len(head) + 1
    BY <1>0 DEF StoreInv, FlightOK
  <2>5. c \in HeldAtHead
    BY <1>0, <2>2, <2>3, <2>4 DEF HeldAtHead
  <2>6. d1' = b.last
    <3>1. /\ Rows(d1) /\ Rows(b.last) /\ b.first <= Len(b.last) /\ b.first \in Nat \ {0}
          /\ IsPrefix(SubSeq(b.last, 1, b.first - 1), d1)
      BY DEF IInv, TypeOK, ChainInv, FlightBuiltOnD1, IntentOK
    <3>2. d1 \o SubSeq(b.last, b.first, Len(b.last)) = b.last
      BY <2>2, <3>1, LandingCompletes
    <3> QED BY <2>1, <3>2 DEF LandBatch, Suffix
  <2>7. UNCHANGED <<head, intent, abandoned, pending, late>>
    BY <2>1 DEF LandBatch, storage
  <2>8. Held' = Held /\ HeldAtHead' = HeldAtHead
    BY <2>7 DEF Held, HeldAtHead
  <2> QED BY <1>2, <2>3, <2>5, <2>6, <2>7, <2>8 DEF Recoverable, Claimed
<1>8. CASE LandLate
  BY <1>2, <1>8 DEF LandLate
<1>9. CASE \E h \in Handlers : ResumeAdoption(h) \/ AdoptPage(h) \/ PutReconcileRecord(h)
  BY <1>1, <1>9, PinningRecoverable
<1>10. CASE \E h \in Handlers :
                \/ ReadTail(h) \/ NothingToRecover(h) \/ ChainBroken(h) \/ Dedup(h) \/ Mismatch(h)
                \/ SendBatch(h) \/ Conflict(h) \/ GiveUp(h) \/ Reply(h) \/ ReconcileRowWritten(h)
                \/ RecordReconcile(h) \/ Lookup(h) \/ CheckPin(h) \/ RefusePin(h)
  BY <1>10, MovingRecoverable
<1>11. CASE \/ \E h \in Handlers : \/ \E key \in CallKeys, pay \in Payloads : Call(h, key, pay)
                                  \/ \E n \in 1 .. Len(d1) : CallReconcile(h, n)
            \/ Crash \/ UNCHANGED vars
  <2>1. UNCHANGED <<head, intent, abandoned, pending, d1, late>>
    BY <1>11 DEF Call, CallReconcile, Enter, Crash, storage, External, vars
  <2>2. Held' = Held /\ (PartWay' => PartWay /\ pending'.to = pending.to)
    BY <2>1 DEF Held, PartWay
  <2>3. CASE \E h \in Handlers : \/ \E key \in CallKeys, pay \in Payloads : Call(h, key, pay)
                                 \/ \E n \in 1 .. Len(d1) : CallReconcile(h, n)
    <3>1. PICK h \in Handlers : \E request : Enter(h, request, "recover") \/ Enter(h, request, "lookup")
      BY <2>3 DEF Call, CallReconcile
    <3>2. PICK at \in {"recover", "lookup"} : lock = NoOne /\ pc' = [pc EXCEPT ![h] = at]
      BY <3>1 DEF Enter, Goto
    <3>3. Refuses(h)'
      BY <1>0, <3>2 DEF Refuses
    <3>4. \A g \in Handlers : Refuses(g)'
      BY <3>2, <3>3, RefusesAlone
    <3> QED BY <1>1, <2>1, <2>2, <3>4, SameRecoverable
  <2>4. CASE Crash
    <3>1. \A g \in Handlers : Refuses(g)'
      BY <2>4 DEF Crash, Refuses
    <3> QED BY <1>1, <2>1, <2>2, <3>1, SameRecoverable
  <2>5. CASE UNCHANGED vars
    <3>1. UNCHANGED <<pc, tail, job>>
      BY <2>5 DEF vars, memory
    <3>2. (\A h \in Handlers : Refuses(h)) => \A h \in Handlers : Refuses(h)'
      BY <2>1, <3>1 DEF Refuses
    <3> QED BY <1>1, <2>1, <2>2, <3>2, SameRecoverable
  <2> QED BY <1>11, <2>3, <2>4, <2>5
<1> QED BY <1>4, <1>5, <1>6, <1>7, <1>8, <1>9, <1>10, <1>11
        DEF Next, Run, Recover, AppendAt, Reconcile

(* The next append always finds an intent to recover with. *)
LEMMA RecoverableIsNotStuck ==
  ASSUME IInv, LedgerInv, Recoverable, fails <= AbandonedMax
  PROVE  NeverStuck
<1> SUFFICES ASSUME Len(d1) > Len(head), HeldAtHead # {}
             PROVE  \E c \in HeldAtHead : Verified(c.last)
  BY DEF NeverStuck, Stuck
<1>1. PICK c \in HeldAtHead : c.last = d1 /\ Intact(c)
  BY DEF Recoverable, Claimed, Unclaimed, HeldAtHead
<1>2. Rows(d1) /\ IsPrefix(head, d1)
  BY Chain
<1>3. IsPrefix(d1, d1)
  BY <1>2, PrefixReflexive
<1>4. c.first = Len(head) + 1
  BY DEF HeldAtHead
<1> QED BY <1>1, <1>2, <1>3, <1>4 DEF Verified, Intact

(* A canceled append never blocks the ones after it: once no INSERT of the code
   before the intents can land any more, and while there were no more crashes,
   lost answers and failed batches than ABANDONED_MAX, the rows a canceled
   append left in D1 beyond the head are recovered by the next one (recover,
   adoptHeldIntent).  One more failure is too many: that is the counterexample
   of the run that checks NeverStuck without the bound. *)
THEOREM NeverStuckWithRoom ==
  ASSUME LateLegacy = {}
  PROVE  Spec => [](fails <= AbandonedMax => NeverStuck)
<1>1. Init => Recoverable
  <2> SUFFICES ASSUME Init PROVE Recoverable
    OBVIOUS
  <2>1. late = None
    <3>1. [first : {Len(d1) + 1}, rows : {}] = {}
      OBVIOUS
    <3> QED BY <3>1 DEF Init
  <2>2. /\ head = Base /\ pending = NoPending /\ intent = NoIntent /\ abandoned = << >>
        /\ pc = [h \in Handlers |-> "idle"]
    BY DEF Init
  <2>3. Range(<< >>) = {}
    BY DEF Range
  <2>4. Held = {} /\ HeldAtHead = {}
    BY <2>2, <2>3 DEF Held, HeldAtHead
  <2>5. Len(head) \in Nat
    BY InitIInv, Chain
  <2>6. ~PartWay
    BY <2>2, <2>5, EmptyRows DEF PartWay, NoPending
  <2>7. Unclaimed
    BY <2>2, <2>4, <2>6 DEF Unclaimed, Refuses
  <2> QED BY <2>1, <2>4, <2>7 DEF Recoverable
<1>2. IInv /\ LedgerInv /\ NothingForgotten /\ Recoverable /\ [Next]_vars => Recoverable'
  BY RecoverableStep
<1>3. IInv /\ LedgerInv /\ Recoverable => (fails <= AbandonedMax => NeverStuck)
  BY RecoverableIsNotStuck
<1> QED BY <1>1, <1>2, <1>3, LedgerInvHolds, NothingForgottenHolds, PTL DEF Spec
=============================================================================
