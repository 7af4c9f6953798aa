-------------------------- MODULE AuditChainProofs --------------------------
(***************************************************************************)
(* Theorems about AuditChain, for every number of handlers, keys, payloads,*)
(* failures and rows: the chain head is always a prefix of what D1 holds,  *)
(* and it only ever grows.  The argument is the invariant IInv: a batch    *)
(* that D1 may still execute was built on rows D1 holds, so when its seqs  *)
(* are free D1 becomes exactly the chain its intent committed to; the      *)
(* handler whose batch landed therefore commits what D1 holds, and every   *)
(* other commit re-reads D1 first.                                         *)
(***************************************************************************)
EXTENDS AuditChain, SequenceTheorems, TLAPS

(***************************************************************************)
(* Sequences of rows and their prefixes.                                   *)
(***************************************************************************)
LEMMA RowsSeq ==
  ASSUME NEW s, Rows(s)
  PROVE  /\ Len(s) \in Nat
         /\ DOMAIN s = 1 .. Len(s)
         /\ s \in Seq(Range(s))
         /\ \A n \in 1 .. Len(s) : s[n] \in Range(s) /\ RowOK(s[n])
BY RangeEquality, LenProperties DEF Rows

LEMMA SeqRows ==
  ASSUME NEW S, NEW s \in Seq(S), \A n \in 1 .. Len(s) : RowOK(s[n])
  PROVE  Rows(s)
BY SeqOfRange, LenProperties DEF Rows

(* Prefixes, row by row. *)
LEMMA PrefixElements ==
  ASSUME NEW s, NEW t, Rows(s), Rows(t)
  PROVE  IsPrefix(s, t) <=> /\ Len(s) <= Len(t)
                            /\ \A n \in 1 .. Len(s) : s[n] = t[n]
<1> DEFINE S == Range(s) \cup Range(t)
<1>1. s \in Seq(S) /\ t \in Seq(S)
  BY RowsSeq, SeqMonotonic, Zenon
<1>2. Len(s) \in Nat /\ Len(t) \in Nat
  BY RowsSeq
<1>3. SubSeq(s, 1, Len(s)) = s
  BY <1>1, SubSeqFull
<1>4. ASSUME Len(s) <= Len(t)
      PROVE  /\ SubSeq(t, 1, Len(s)) \in Seq(S)
             /\ Len(SubSeq(t, 1, Len(s))) = Len(s)
             /\ \A n \in 1 .. Len(s) : SubSeq(t, 1, Len(s))[n] = t[n]
  <2>1. \A n \in 1 .. Len(s) : t[n] \in S
    BY <1>1, <1>2, <1>4, ElementOfSeq
  <2>2. /\ SubSeq(t, 1, Len(s)) \in Seq(S)
        /\ Len(SubSeq(t, 1, Len(s))) = IF 1 <= Len(s) THEN Len(s) - 1 + 1 ELSE 0
        /\ \A n \in 1 .. Len(s) - 1 + 1 : SubSeq(t, 1, Len(s))[n] = t[1 + n - 1]
    BY <2>1, <1>2, SubSeqProperties
  <2> QED BY <2>2, <1>2
<1>5. ASSUME Len(s) <= Len(t), \A n \in 1 .. Len(s) : s[n] = t[n]
      PROVE  s = SubSeq(t, 1, Len(s))
  BY <1>1, <1>4, <1>5, SeqEqual
<1> QED BY <1>2, <1>3, <1>4, <1>5 DEF IsPrefix

LEMMA PrefixTransitive ==
  ASSUME NEW s, NEW t, NEW u, Rows(s), Rows(t), Rows(u), IsPrefix(s, t), IsPrefix(t, u)
  PROVE  IsPrefix(s, u)
BY PrefixElements, RowsSeq

LEMMA PrefixReflexive ==
  ASSUME NEW s, Rows(s)
  PROVE  IsPrefix(s, s)
BY PrefixElements, RowsSeq

LEMMA EmptyRows ==
  /\ Rows(<<>>) /\ Len(<<>>) = 0
  /\ \A s : Rows(s) => IsPrefix(<<>>, s)
<1> DEFINE e == << >>
<1>1. e \in Seq({}) /\ Len(e) = 0
  BY EmptySeq
<1> HIDE DEF e
<1>2. Rows(e)
  <2>1. \A n \in 1 .. Len(e) : RowOK(e[n])
    BY <1>1
  <2> QED BY <1>1, <2>1, SeqRows
<1>3. ASSUME NEW s, Rows(s)
      PROVE  IsPrefix(e, s)
  <2>1. Len(e) <= Len(s) /\ \A n \in 1 .. Len(e) : e[n] = s[n]
    BY <1>1, <1>3, RowsSeq
  <2> QED BY <1>2, <1>3, <2>1, PrefixElements
<1> QED BY <1>1, <1>2, <1>3 DEF e

(* Two prefixes of one sequence are ordered by their lengths. *)
LEMMA PrefixesOrdered ==
  ASSUME NEW s, NEW t, NEW u, Rows(s), Rows(t), Rows(u),
         IsPrefix(s, u), IsPrefix(t, u), Len(s) <= Len(t)
  PROVE  IsPrefix(s, t)
BY PrefixElements, RowsSeq

(* A cut of a sequence of rows. *)
LEMMA CutRows ==
  ASSUME NEW s, Rows(s), NEW m \in Nat \ {0}, NEW n \in Nat, n <= Len(s)
  PROVE  /\ Rows(SubSeq(s, m, n))
         /\ Len(SubSeq(s, m, n)) = IF m <= n THEN n - m + 1 ELSE 0
         /\ \A k \in 1 .. n - m + 1 : SubSeq(s, m, n)[k] = s[m + k - 1]
<1>1. Len(s) \in Nat /\ \A k \in 1 .. Len(s) : s[k] \in Range(s) /\ RowOK(s[k])
  BY RowsSeq
<1>2. \A k \in m .. n : s[k] \in Range(s)
  BY <1>1
<1>3. /\ SubSeq(s, m, n) \in Seq(Range(s))
      /\ Len(SubSeq(s, m, n)) = IF m <= n THEN n - m + 1 ELSE 0
      /\ \A k \in 1 .. n - m + 1 : SubSeq(s, m, n)[k] = s[m + k - 1]
  BY <1>2, SubSeqProperties
<1>4. \A k \in 1 .. Len(SubSeq(s, m, n)) : RowOK(SubSeq(s, m, n)[k])
  BY <1>1, <1>3
<1> QED BY <1>3, <1>4, SeqRows

LEMMA CutPrefix ==
  ASSUME NEW s, Rows(s), NEW n \in Nat, n <= Len(s)
  PROVE  /\ Rows(SubSeq(s, 1, n))
         /\ Len(SubSeq(s, 1, n)) = n
         /\ IsPrefix(SubSeq(s, 1, n), s)
<1>1. /\ Rows(SubSeq(s, 1, n))
      /\ Len(SubSeq(s, 1, n)) = IF 1 <= n THEN n - 1 + 1 ELSE 0
      /\ \A k \in 1 .. n - 1 + 1 : SubSeq(s, 1, n)[k] = s[1 + k - 1]
  BY CutRows
<1>2. Len(SubSeq(s, 1, n)) = n /\ \A k \in 1 .. n : SubSeq(s, 1, n)[k] = s[k]
  BY <1>1
<1> QED BY <1>1, <1>2, PrefixElements

LEMMA ConcatRows ==
  ASSUME NEW s, NEW t, Rows(s), Rows(t)
  PROVE  /\ Rows(s \o t)
         /\ Len(s \o t) = Len(s) + Len(t)
         /\ \A n \in 1 .. Len(s) + Len(t) :
              (s \o t)[n] = IF n <= Len(s) THEN s[n] ELSE t[n - Len(s)]
         /\ IsPrefix(s, s \o t)
<1> DEFINE S == Range(s) \cup Range(t)
<1>1. s \in Seq(S) /\ t \in Seq(S)
  BY RowsSeq, SeqMonotonic, Zenon
<1>2. /\ s \o t \in Seq(S)
      /\ Len(s \o t) = Len(s) + Len(t)
      /\ \A n \in 1 .. Len(s) + Len(t) :
           (s \o t)[n] = IF n <= Len(s) THEN s[n] ELSE t[n - Len(s)]
  BY <1>1, ConcatProperties
<1>3. /\ Len(s) \in Nat /\ Len(t) \in Nat
      /\ \A n \in 1 .. Len(s) : RowOK(s[n])
      /\ \A n \in 1 .. Len(t) : RowOK(t[n])
  BY RowsSeq
<1>4. \A n \in 1 .. Len(s \o t) : RowOK((s \o t)[n])
  BY <1>2, <1>3
<1>5. Rows(s \o t)
  BY <1>2, <1>4, SeqRows
<1>6. Len(s) <= Len(s \o t) /\ \A n \in 1 .. Len(s) : s[n] = (s \o t)[n]
  BY <1>2, <1>3
<1>7. IsPrefix(s, s \o t)
  BY <1>5, <1>6, PrefixElements
<1> QED BY <1>2, <1>5, <1>7

(* The rows a batch adds complete the chain its intent committed to, when the
   rows before them are the ones D1 holds. *)
LEMMA LandingCompletes ==
  ASSUME NEW s, NEW t, NEW first \in Nat \ {0}, Rows(s), Rows(t),
         first <= Len(t), first = Len(s) + 1,
         IsPrefix(SubSeq(t, 1, first - 1), s)
  PROVE  s \o SubSeq(t, first, Len(t)) = t
<1> DEFINE suffix == SubSeq(t, first, Len(t))
<1>1. Len(s) \in Nat /\ Len(t) \in Nat
  BY RowsSeq
<1>2. /\ Rows(suffix)
      /\ Len(suffix) = Len(t) - first + 1
      /\ \A k \in 1 .. Len(t) - first + 1 : suffix[k] = t[first + k - 1]
  BY <1>1, CutRows
<1>3. /\ Rows(SubSeq(t, 1, first - 1))
      /\ Len(SubSeq(t, 1, first - 1)) = first - 1
      /\ \A k \in 1 .. first - 1 : SubSeq(t, 1, first - 1)[k] = t[k]
  <2>1. first - 1 \in Nat /\ first - 1 <= Len(t)
    BY <1>1
  <2>2. /\ Rows(SubSeq(t, 1, first - 1))
        /\ Len(SubSeq(t, 1, first - 1)) = IF 1 <= first - 1 THEN (first - 1) - 1 + 1 ELSE 0
        /\ \A k \in 1 .. (first - 1) - 1 + 1 : SubSeq(t, 1, first - 1)[k] = t[1 + k - 1]
    BY <2>1, CutRows
  <2> QED BY <2>1, <2>2
<1>4. \A k \in 1 .. Len(s) : s[k] = t[k]
  <2> DEFINE base == SubSeq(t, 1, first - 1)
  <2>1. IsPrefix(base, s) /\ Rows(base) /\ Len(base) = first - 1
    BY <1>3
  <2> HIDE DEF base
  <2>2. \A k \in 1 .. Len(base) : base[k] = s[k]
    BY <2>1, PrefixElements
  <2> QED BY <1>1, <1>3, <2>1, <2>2 DEF base
<1>5. /\ Rows(s \o suffix)
      /\ Len(s \o suffix) = Len(s) + Len(suffix)
      /\ \A n \in 1 .. Len(s) + Len(suffix) :
           (s \o suffix)[n] = IF n <= Len(s) THEN s[n] ELSE suffix[n - Len(s)]
  BY <1>2, ConcatRows
<1>6. Len(s \o suffix) = Len(t)
  BY <1>1, <1>2, <1>5
<1>7. \A n \in 1 .. Len(t) : (s \o suffix)[n] = t[n]
  <2> TAKE n \in 1 .. Len(t)
  <2>1. CASE n <= Len(s)
    BY <2>1, <1>1, <1>4, <1>5, <1>6
  <2>2. CASE ~(n <= Len(s))
    <3>1. n - Len(s) \in 1 .. Len(t) - first + 1 /\ first + (n - Len(s)) - 1 = n
      BY <2>2, <1>1
    <3> QED BY <2>2, <3>1, <1>1, <1>2, <1>5, <1>6
  <2> QED BY <2>1, <2>2
<1> DEFINE u == s \o suffix
           S == Range(u) \cup Range(t)
<1>8. u \in Seq(S) /\ t \in Seq(S)
  <2>1. u \in Seq(Range(u)) /\ t \in Seq(Range(t))
    BY <1>5, RowsSeq, Zenon
  <2> HIDE DEF u
  <2> QED BY <2>1, SeqMonotonic, Zenon
<1> HIDE DEF u
<1> QED BY <1>1, <1>6, <1>7, <1>8, SeqEqual DEF u
-----------------------------------------------------------------------------
(***************************************************************************)
(* The invariant.                                                          *)
(***************************************************************************)
IInv == TypeOK /\ ChainInv

LEMMA InitIInv == Init => IInv
<1> SUFFICES ASSUME Init PROVE IInv
  OBVIOUS
<1> USE BoundsAssumption, AbsentAssumption
<1>1. Rows(Base) /\ Rows(<<>>)
  <2>1. RowOK(OldRow)
    BY DEF RowOK, OldRow
  <2>2. Base \in Seq({OldRow}) /\ Len(Base) = 1 /\ Base[1] = OldRow
    BY DEF Base
  <2>3. Rows(Base)
    BY <2>1, <2>2, SeqRows
  <2>4. << >> \in Seq({OldRow}) /\ Len(<< >>) = 0
    BY EmptySeq
  <2>5. \A n \in 1 .. Len(<< >>) : RowOK(<< >>[n])
    BY <2>4
  <2> QED BY <2>3, <2>4, <2>5, SeqRows
<1>2. PICK s \in LegacySuffixes : d1 = Base \o s
  BY DEF Init
<1>3. Rows(d1) /\ IsPrefix(Base, d1)
  BY <1>1, <1>2, ConcatRows
<1>4. late = None \/ Rows(late.rows)
  BY DEF Init
<1>5. << >> \in Seq(Range(<< >>)) /\ Len(<< >>) = 0 /\ Range(<< >>) = {}
  BY <1>1, EmptySeq DEF Rows, Range
<1>6. TypeOK
  BY <1>1, <1>3, <1>4, <1>5 DEF Init, TypeOK, Labels, NoPending
<1>7. ChainInv
  BY <1>1, <1>3, EmptyRows DEF Init, ChainInv, HeadOnD1, OneAtATime, RequestsOK, OwnStartsAtHead,
                               LandedOnD1, FlightBuiltOnD1, PinnedOnD1, NoPending
<1> QED BY <1>6, <1>7 DEF IInv

(* While a handler is between two awaits no other one is, and unless it waits
   for D1 no batch on the way has a sender that waits. *)
LEMMA Alone ==
  ASSUME IInv, NEW h \in Handlers, pc[h] # "idle"
  PROVE  /\ lock = h
         /\ \A g \in Handlers : g # h => pc[g] = "idle"
         /\ \A b \in flight : b.by # NoOne => b.by = h /\ pc[h] = "wait"
BY AbsentAssumption DEF IInv, TypeOK, ChainInv, OneAtATime, FlightBuiltOnD1

(* An append to a capped list. *)
LEMMA Capped ==
  ASSUME NEW s, s \in Seq(Range(s)), NEW e, NEW max \in Nat
  PROVE  LET t == LastN(Append(s, e), max) IN
         /\ t \in Seq(Range(t))
         /\ Len(t) <= max
         /\ Range(t) \subseteq Range(s) \cup {e}
<1> DEFINE S == Range(s) \cup {e}
           a == Append(s, e)
           t == LastN(a, max)
<1>1. s \in Seq(S)
  BY SeqMonotonic, Zenon
<1>2. a \in Seq(S) /\ Len(a) \in Nat /\ \A i \in 1 .. Len(a) : a[i] \in S
  BY <1>1, AppendProperties, LenProperties, ElementOfSeq
<1>3. t \in Seq(S) /\ Len(t) <= max
  <2> HIDE DEF a, S
  <2>1. CASE Len(a) <= max
    BY <2>1, <1>2 DEF LastN
  <2>2. CASE ~(Len(a) <= max)
    <3> DEFINE m == Len(a) - max + 1
    <3>1. m \in Int /\ Len(a) \in Int /\ \A i \in m .. Len(a) : a[i] \in S
      BY <1>2, <2>2
    <3>2. /\ SubSeq(a, m, Len(a)) \in Seq(S)
          /\ Len(SubSeq(a, m, Len(a))) = IF m <= Len(a) THEN Len(a) - m + 1 ELSE 0
      BY <3>1, SubSeqProperties
    <3> QED BY <1>2, <2>2, <3>2 DEF LastN
  <2> QED BY <2>1, <2>2
<1>4. t \in Seq(Range(t)) /\ Range(t) \subseteq S
  <2> HIDE DEF t, S
  <2> QED BY <1>3, SeqOfRange, RangeOfSeq
<1> QED BY <1>3, <1>4

(* What every commit keeps, given that what it commits is on D1. *)
LEMMA CommitKeeps ==
  ASSUME IInv, NEW end, NEW ticket, CommitHead(end, ticket),
         Rows(end), IsPrefix(end, d1)
  PROVE  /\ Rows(head') /\ IsPrefix(head', d1)
         /\ intent' = NoIntent
         /\ recent' \in Seq(Range(recent')) /\ Len(recent') <= RecentMax
<1>1. recent \in Seq(Range(recent)) /\ Len(recent) <= RecentMax /\ RecentMax \in Nat
  BY BoundsAssumption DEF IInv, TypeOK
<1>2. head' = end /\ intent' = NoIntent
  BY DEF CommitHead
<1>3. PICK r : recent' = recent \/ recent' = LastN(Append(recent, r), RecentMax)
  BY DEF CommitHead
<1>4. recent' \in Seq(Range(recent')) /\ Len(recent') <= RecentMax
  BY <1>1, <1>3, Capped
<1> QED BY <1>2, <1>4

(***************************************************************************)
(* Every step keeps the invariant.  First the steps that only read: they   *)
(* change the handler's place, never the storage or D1.                    *)
(***************************************************************************)
LEMMA ReadingStep ==
  ASSUME IInv, NEW h \in Handlers,
         \/ ReadTail(h) \/ NothingToRecover(h) \/ ChainBroken(h) \/ ReconcileRowWritten(h)
         \/ Dedup(h) \/ Mismatch(h) \/ Reply(h) \/ Lookup(h) \/ CheckPin(h) \/ RefusePin(h)
  PROVE  IInv'
<1> USE AbsentAssumption
<1> USE DEF IInv, TypeOK, Labels, ChainInv, HeadOnD1, OneAtATime, RequestsOK, OwnStartsAtHead,
            LandedOnD1, FlightBuiltOnD1, PinnedOnD1, Goto, Release, AfterRecover,
            storage, memory, External, Observed
<1>0. pc[h] # "idle" => lock = h /\ (\A g \in Handlers : g # h => pc[g] = "idle")
        /\ \A b \in flight : b.by # NoOne => b.by = h /\ pc[h] = "wait"
  BY Alone
<1>1. CASE ReadTail(h)
  BY <1>0, <1>1, SMTT(30) DEF ReadTail
<1>2. CASE NothingToRecover(h)
  BY <1>0, <1>2, SMTT(30) DEF NothingToRecover
<1>3. CASE ChainBroken(h)
  BY <1>0, <1>3, SMTT(30) DEF ChainBroken
<1>4. CASE ReconcileRowWritten(h)
  BY <1>0, <1>4, SMTT(30) DEF ReconcileRowWritten
<1>5. CASE Dedup(h)
  BY <1>0, <1>5, SMTT(30) DEF Dedup
<1>6. CASE Mismatch(h)
  BY <1>0, <1>6, SMTT(30) DEF Mismatch
<1>7. CASE Reply(h)
  BY <1>0, <1>7, SMTT(30) DEF Reply
<1>8. CASE Lookup(h)
  BY <1>0, <1>8, SMTT(30) DEF Lookup
<1>9. CASE CheckPin(h)
  BY <1>0, <1>9, SMTT(30) DEF CheckPin
<1>10. CASE RefusePin(h)
  BY <1>0, <1>10, SMTT(30) DEF RefusePin
<1> QED BY <1>1, <1>2, <1>3, <1>4, <1>5, <1>6, <1>7, <1>8, <1>9, <1>10

(***************************************************************************)
(* The steps of an append: intent, batch, commit.                          *)
(***************************************************************************)
LEMMA NewIntent ==
  ASSUME NEW key, NEW pay, NEW rows, Rows(head), Rows(rows), Len(rows) > 0
  PROVE  LET c == MakeIntent(key, pay, rows) IN
         /\ IntentOK(c)
         /\ c.first = Len(head) + 1
         /\ IsPrefix(head, c.last)
<1>1. /\ Rows(head \o rows)
      /\ Len(head \o rows) = Len(head) + Len(rows)
      /\ IsPrefix(head, head \o rows)
  BY ConcatRows
<1>2. Len(head) \in Nat /\ Len(rows) \in Nat
  BY RowsSeq
<1> QED BY <1>1, <1>2 DEF MakeIntent, IntentOK

LEMMA NewRows ==
  ASSUME NEW pay \in Nat \ {0}, NEW key, NEW ts
  PROVE  Rows(CallRows(key, pay, ts)) /\ Len(CallRows(key, pay, ts)) = pay
<1> DEFINE row(n) == [key |-> key, pay |-> pay, ts |-> ts, i |-> n, ok |-> TRUE]
           S == {row(n) : n \in 1 .. pay}
           c == [n \in 1 .. pay |-> row(n)]
<1>1. c \in Seq(S) /\ Len(c) = pay /\ \A n \in 1 .. pay : c[n] = row(n)
  <2>1. c \in [1 .. pay -> S] /\ DOMAIN c = 1 .. pay /\ \A n \in 1 .. pay : c[n] = row(n)
    OBVIOUS
  <2> HIDE DEF c, S
  <2>2. c \in Seq(S)
    BY <2>1, SeqDef
  <2>3. DOMAIN c = 1 .. Len(c) /\ Len(c) \in Nat
    BY <2>2, LenProperties
  <2> QED BY <2>1, <2>2, <2>3
<1>2. \A n \in 1 .. Len(c) : RowOK(c[n])
  BY <1>1 DEF RowOK
<1>3. Rows(c)
  <2> HIDE DEF c, S
  <2> QED BY <1>1, <1>2, SeqRows
<1> QED BY <1>1, <1>3 DEF CallRows

LEMMA NewReconcileRow ==
  ASSUME NEW to
  PROVE  Rows(<<ReconcileRow(to)>>) /\ Len(<<ReconcileRow(to)>>) = 1
<1> DEFINE r == <<ReconcileRow(to)>>
<1>1. r \in Seq({ReconcileRow(to)}) /\ Len(r) = 1 /\ r[1] = ReconcileRow(to)
  OBVIOUS
<1>2. \A n \in 1 .. Len(r) : RowOK(r[n])
  BY <1>1 DEF RowOK, ReconcileRow
<1> HIDE DEF r
<1>3. Rows(r)
  BY <1>1, <1>2, SeqRows
<1> QED BY <1>1, <1>3 DEF r

(* The intents of the two kinds of append start at the head. *)
LEMMA CallIntent ==
  ASSUME Rows(head), NEW pay \in Nat \ {0}, NEW key, NEW ts,
         NEW c, c = MakeIntent(key, pay, CallRows(key, pay, ts))
  PROVE  IntentOK(c) /\ c.first = Len(head) + 1 /\ IsPrefix(head, c.last)
<1> DEFINE rows == CallRows(key, pay, ts)
<1>1. Rows(rows) /\ Len(rows) = pay
  BY NewRows
<1> HIDE DEF rows
<1>2. Len(rows) > 0
  BY <1>1
<1>3. c = MakeIntent(key, pay, rows)
  BY DEF rows
<1> QED BY <1>1, <1>2, <1>3, NewIntent

LEMMA ReconcileIntent ==
  ASSUME Rows(head), NEW c, c = MakeIntent(ReconcileKey(head), 1, <<ReconcileRow(head)>>)
  PROVE  IntentOK(c) /\ c.first = Len(head) + 1 /\ IsPrefix(head, c.last)
<1> DEFINE rows == <<ReconcileRow(head)>>
<1>1. Rows(rows) /\ Len(rows) = 1
  BY NewReconcileRow
<1> HIDE DEF rows
<1>2. Len(rows) > 0
  BY <1>1
<1>3. c = MakeIntent(ReconcileKey(head), 1, rows)
  BY DEF rows
<1> QED BY <1>1, <1>2, <1>3, NewIntent

LEMMA AppendStep ==
  ASSUME IInv, NEW h \in Handlers,
         \/ PutIntent(h) \/ WriteReconcileRow(h) \/ SendBatch(h)
         \/ Conflict(h) \/ GiveUp(h) \/ CommitAppend(h)
  PROVE  IInv'
<1> USE AbsentAssumption, BoundsAssumption
<1> USE DEF IInv, TypeOK, Labels, ChainInv, HeadOnD1, OneAtATime, RequestsOK, OwnStartsAtHead,
            LandedOnD1, FlightBuiltOnD1, PinnedOnD1, Goto, Release, AfterRecover,
            storage, memory, External, Observed
<1>0. pc[h] # "idle" => lock = h /\ (\A g \in Handlers : g # h => pc[g] = "idle")
        /\ \A b \in flight : b.by # NoOne => b.by = h /\ pc[h] = "wait"
  BY Alone
<1>1. CASE PutIntent(h)
  <2>1. PICK ts \in Times :
          intent' = MakeIntent(job[h].key, job[h].pay, CallRows(job[h].key, job[h].pay, ts))
    BY <1>1 DEF PutIntent
  <2>2. job[h].pay \in Nat \ {0}
    BY <1>1 DEF PutIntent
  <2>3. IntentOK(intent') /\ intent'.first = Len(head) + 1 /\ IsPrefix(head, intent'.last)
    <3> HIDE DEF TypeOK, ChainInv, IInv
    <3>1. Rows(head)
      BY DEF IInv, TypeOK
    <3> QED BY <2>1, <2>2, <3>1, CallIntent
  <2> QED BY <1>0, <1>1, <2>3, SMTT(30) DEF PutIntent
<1>2. CASE WriteReconcileRow(h)
  <2>1. IntentOK(intent') /\ intent'.first = Len(head) + 1 /\ IsPrefix(head, intent'.last)
    <3> HIDE DEF TypeOK, ChainInv, IInv
    <3>1. Rows(head)
      BY DEF IInv, TypeOK
    <3> QED BY <1>2, <3>1, ReconcileIntent DEF WriteReconcileRow
  <2> QED BY <1>0, <1>2, <2>1, SMTT(30) DEF WriteReconcileRow
<1>3. CASE SendBatch(h)
  <2> DEFINE b == [by |-> h, first |-> own[h].first, last |-> own[h].last]
  <2>1. /\ IntentOK(own[h])
        /\ own[h].first = Len(head) + 1
        /\ IsPrefix(head, own[h].last)
    BY <1>3 DEF SendBatch
  <2>2. SubSeq(b.last, 1, b.first - 1) = head
    <3>1. SubSeq(head, 1, Len(head)) = head /\ Len(head) \in Nat
      BY SubSeqFull, RowsSeq
    <3> QED BY <2>1, <3>1 DEF IsPrefix
  <2>3. IntentOK(b)
    BY <2>1 DEF IntentOK
  <2>4. flight' = flight \cup {b}
    BY <1>3 DEF SendBatch
  <2>5. b.by = h /\ b.first = own[h].first /\ b.last = own[h].last
    OBVIOUS
  <2> HIDE DEF b
  <2>6. TypeOK'
    BY <1>0, <1>3, <2>3, <2>4, <2>5, SMTT(30) DEF SendBatch
  <2>7. FlightBuiltOnD1'
    <3>1. UNCHANGED <<d1, own>> /\ pc' = [pc EXCEPT ![h] = "wait"]
          /\ \A a \in flight : a.by = NoOne
      BY <1>0, <1>3 DEF SendBatch
    <3>2. IsPrefix(SubSeq(b.last, 1, b.first - 1), d1)
      BY <2>2
    <3>3. \A a \in flight : IsPrefix(SubSeq(a.last, 1, a.first - 1), d1)
      OBVIOUS
    <3> QED BY <2>4, <2>5, <3>1, <3>2, <3>3
  <2>8. (HeadOnD1 /\ OneAtATime /\ RequestsOK /\ OwnStartsAtHead /\ LandedOnD1 /\ PinnedOnD1)'
    BY <1>0, <1>3, SMTT(30) DEF SendBatch
  <2> QED BY <2>6, <2>7, <2>8
<1>4. CASE Conflict(h)
  <2>1. PICK b \in flight : b.by = h /\ flight' = flight \ {b}
    BY <1>4 DEF Conflict
  <2>2. \A a \in flight : a.by = h => a = b
    BY <2>1
  <2>3. flight' \subseteq flight /\ \A a \in flight' : a.by = NoOne
    BY <1>0, <1>4, <2>1, <2>2 DEF Conflict
  <2> QED BY <1>0, <1>4, <2>3, SMTT(30) DEF Conflict
<1>5. CASE GiveUp(h)
  <2>1. \A b \in flight' : /\ b.by = NoOne
                            /\ b = [by |-> b.by, first |-> b.first, last |-> b.last]
                            /\ \E a \in flight : b.first = a.first /\ b.last = a.last
    <3>1. flight' = {IF b.by = h THEN Orphan(b) ELSE b : b \in flight}
      BY <1>5 DEF GiveUp
    <3>2. \A b \in flight : b.by = NoOne \/ b.by = h
      BY <1>0, <1>5 DEF GiveUp
    <3> QED BY <3>1, <3>2 DEF Orphan
  <2>2. \A b \in flight' : IntentOK(b) /\ IsPrefix(SubSeq(b.last, 1, b.first - 1), d1)
    <3> TAKE b \in flight'
    <3>1. PICK a \in flight : b.first = a.first /\ b.last = a.last
      BY <2>1
    <3> QED BY <3>1 DEF IntentOK
  <2> QED BY <1>0, <1>5, <2>1, <2>2, SMTT(30) DEF GiveUp
<1>6. CASE CommitAppend(h)
  <2>1. Rows(own[h].last) /\ IsPrefix(own[h].last, d1) /\ CommitHead(own[h].last, own[h])
    BY <1>6 DEF CommitAppend, IntentOK
  <2>2. /\ Rows(head') /\ IsPrefix(head', d1) /\ intent' = NoIntent
        /\ recent' \in Seq(Range(recent')) /\ Len(recent') <= RecentMax
    BY <2>1, CommitKeeps
  <2> QED BY <1>0, <1>6, <2>2, SMTT(30) DEF CommitAppend
<1> QED BY <1>1, <1>2, <1>3, <1>4, <1>5, <1>6

(***************************************************************************)
(* The steps of recover and reconcile that write.                          *)
(***************************************************************************)
LEMMA WithoutKeeps ==
  ASSUME IInv, NEW c \in Held
  PROVE  /\ Without(c) \in Seq(Range(Without(c)))
         /\ Len(Without(c)) <= Len(abandoned) /\ Len(Without(c)) <= AbandonedMax
         /\ Range(Without(c)) \subseteq Range(abandoned)
         /\ Range(abandoned) \subseteq Range(Without(c)) \cup {c}
<1>1. /\ abandoned \in Seq(Range(abandoned)) /\ Len(abandoned) <= AbandonedMax
      /\ Len(abandoned) \in Nat /\ AbandonedMax \in Nat
  BY LenProperties, BoundsAssumption DEF IInv, TypeOK
<1>2. CASE c = intent
  BY <1>1, <1>2 DEF Without
<1>3. CASE c # intent
  <2> DEFINE k == CHOOSE n \in DOMAIN abandoned : abandoned[n] = c
             a == SubSeq(abandoned, 1, k - 1)
             b == SubSeq(abandoned, k + 1, Len(abandoned))
             S == Range(abandoned)
  <2>1. c \in Range(abandoned)
    BY <1>3 DEF Held
  <2>2. k \in 1 .. Len(abandoned) /\ abandoned[k] = c
        /\ \A n \in 1 .. Len(abandoned) : abandoned[n] \in S
    BY <1>1, <2>1, LenProperties, RangeEquality
  <2>3. /\ a \in Seq(S) /\ Len(a) = k - 1
        /\ \A n \in 1 .. k - 1 : a[n] = abandoned[n]
    <3>1. \A n \in 1 .. k - 1 : abandoned[n] \in S
      BY <1>1, <2>2
    <3> HIDE DEF k, S
    <3>2. /\ a \in Seq(S)
          /\ Len(a) = IF 1 <= k - 1 THEN (k - 1) - 1 + 1 ELSE 0
          /\ \A n \in 1 .. (k - 1) - 1 + 1 : a[n] = abandoned[1 + n - 1]
      BY <2>2, <3>1, SubSeqProperties
    <3> HIDE DEF a
    <3> QED BY <1>1, <2>2, <3>2
  <2>4. /\ b \in Seq(S) /\ Len(b) = Len(abandoned) - k
        /\ \A n \in 1 .. Len(abandoned) - k : b[n] = abandoned[k + n]
    <3>1. \A n \in k + 1 .. Len(abandoned) : abandoned[n] \in S
      BY <1>1, <2>2
    <3> HIDE DEF k, S
    <3>2. /\ b \in Seq(S)
          /\ Len(b) = IF k + 1 <= Len(abandoned) THEN Len(abandoned) - (k + 1) + 1 ELSE 0
          /\ \A n \in 1 .. Len(abandoned) - (k + 1) + 1 : b[n] = abandoned[(k + 1) + n - 1]
      BY <1>1, <2>2, <3>1, SubSeqProperties
    <3> HIDE DEF b
    <3>3. \A n \in 1 .. Len(abandoned) - k : (k + 1) + n - 1 = k + n
      BY <1>1, <2>2
    <3> QED BY <1>1, <2>2, <3>2, <3>3
  <2>5. Without(c) = a \o b
    BY <1>3 DEF Without, RemoveAt
  <2> HIDE DEF a, b, S, k
  <2>6. /\ a \o b \in Seq(S) /\ Len(a \o b) = Len(abandoned) - 1
        /\ \A n \in 1 .. Len(abandoned) - 1 :
             (a \o b)[n] = IF n <= k - 1 THEN a[n] ELSE b[n - (k - 1)]
    <3>1. /\ a \o b \in Seq(S) /\ Len(a \o b) = Len(a) + Len(b)
          /\ \A n \in 1 .. Len(a) + Len(b) :
               (a \o b)[n] = IF n <= Len(a) THEN a[n] ELSE b[n - Len(a)]
      BY <2>3, <2>4, ConcatProperties
    <3> QED BY <1>1, <2>2, <2>3, <2>4, <3>1
  <2>7. Without(c) \in Seq(S) /\ Len(Without(c)) <= Len(abandoned)
        /\ Len(Without(c)) <= AbandonedMax
    BY <1>1, <2>2, <2>5, <2>6
  <2>8. Without(c) \in Seq(Range(Without(c))) /\ Range(Without(c)) \subseteq S
    BY <2>7, SeqOfRange, RangeOfSeq
  <2>9. ASSUME NEW x \in Range(abandoned), x # c
        PROVE  x \in Range(Without(c))
    <3>1. PICK n \in 1 .. Len(abandoned) : abandoned[n] = x
      BY <1>1, RangeEquality
    <3>2. n # k
      BY <2>2, <2>9, <3>1
    <3>3. \E at \in 1 .. Len(abandoned) - 1 : (a \o b)[at] = x
      <4>1. CASE n < k
        <5>1. n \in 1 .. Len(abandoned) - 1 /\ n \in 1 .. k - 1 /\ n <= k - 1
          BY <1>1, <2>2, <4>1
        <5>2. (a \o b)[n] = a[n] /\ a[n] = abandoned[n]
          BY <2>3, <2>6, <5>1
        <5> QED BY <3>1, <5>1, <5>2
      <4>2. CASE n > k
        <5> DEFINE m == n - 1
                   i == m - (k - 1)
        <5>1. /\ m \in 1 .. Len(abandoned) - 1 /\ ~(m <= k - 1)
              /\ i \in 1 .. Len(abandoned) - k /\ k + i = n
          BY <1>1, <2>2, <4>2
        <5>2. m \in 1 .. Len(abandoned) - 1 => (a \o b)[m] = IF m <= k - 1 THEN a[m] ELSE b[i]
          BY <2>6
        <5> HIDE DEF m, i
        <5>3. (a \o b)[m] = b[i] /\ b[i] = abandoned[k + i]
          BY <2>4, <5>1, <5>2
        <5> QED BY <3>1, <5>1, <5>3
      <4>3. n < k \/ n > k
        BY <1>1, <2>2, <3>1, <3>2
      <4> QED BY <4>1, <4>2, <4>3
    <3>4. DOMAIN (a \o b) = 1 .. Len(abandoned) - 1
      BY <2>6, LenProperties
    <3> QED BY <2>5, <3>3, <3>4 DEF Range
  <2> QED BY <2>7, <2>8, <2>9 DEF S
<1> QED BY <1>2, <1>3

(* One page of a suffix D1 holds. *)
LEMMA PageKeeps ==
  ASSUME IInv, NEW to, Rows(to), IsPrefix(to, d1), Len(head) < Len(to), CommitPage(to)
  PROVE  /\ Rows(head') /\ IsPrefix(head', d1) /\ intent' = NoIntent
         /\ recent' \in Seq(Range(recent')) /\ Len(recent') <= RecentMax
         /\ IsPrefix(head, head')
         /\ Len(head') = IF Len(head) + ReadPage < Len(to) THEN Len(head) + ReadPage ELSE Len(to)
<1> DEFINE n == IF Len(head) + ReadPage < Len(to) THEN Len(head) + ReadPage ELSE Len(to)
           page == SubSeq(d1, 1, n)
<1>1. /\ Rows(head) /\ Rows(d1) /\ IsPrefix(head, d1)
      /\ Len(head) \in Nat /\ Len(d1) \in Nat /\ Len(to) \in Nat
  BY RowsSeq DEF IInv, TypeOK, ChainInv, HeadOnD1
<1>2. Len(to) <= Len(d1)
  BY DEF IsPrefix
<1>3. n \in Nat /\ n <= Len(d1) /\ Len(head) <= n
  BY <1>1, <1>2, BoundsAssumption
<1>4. CommitHead(page, NoIntent)
  BY DEF CommitPage
<1> HIDE DEF n
<1>5. Rows(page) /\ Len(page) = n /\ IsPrefix(page, d1)
  BY <1>1, <1>3, CutPrefix
<1>6. IsPrefix(head, page)
  <2> HIDE DEF page
  <2> QED BY <1>1, <1>3, <1>5, PrefixesOrdered
<1> HIDE DEF page
<1>7. head' = page
  BY <1>4 DEF CommitHead
<1> QED BY <1>4, <1>5, <1>6, <1>7, CommitKeeps DEF n

LEMMA RecoverStep ==
  ASSUME IInv, NEW h \in Handlers,
         \/ ResumeAdoption(h) \/ AdoptHeld(h) \/ AbandonIntent(h) \/ RecordReconcile(h)
         \/ AdoptOverlap(h) \/ PutReconcileRecord(h) \/ AdoptPage(h)
  PROVE  IInv'
<1> USE AbsentAssumption, BoundsAssumption
<1> USE DEF IInv, TypeOK, Labels, ChainInv, HeadOnD1, OneAtATime, RequestsOK, OwnStartsAtHead,
            LandedOnD1, FlightBuiltOnD1, PinnedOnD1, Goto, Release, AfterRecover,
            storage, memory, External, Observed
<1>0. pc[h] # "idle" => lock = h /\ (\A g \in Handlers : g # h => pc[g] = "idle")
        /\ \A b \in flight : b.by # NoOne => b.by = h /\ pc[h] = "wait"
  BY Alone
<1>1. CASE ResumeAdoption(h)
  <2>1. /\ Rows(pending.to) /\ IsPrefix(pending.to, d1) /\ Len(head) < Len(pending.to)
        /\ CommitPage(pending.to)
    BY <1>1 DEF ResumeAdoption, PartWay, Verified
  <2>2. /\ Rows(head') /\ IsPrefix(head', d1) /\ intent' = NoIntent
        /\ recent' \in Seq(Range(recent')) /\ Len(recent') <= RecentMax
    BY <2>1, PageKeeps
  <2>3. TypeOK'
    BY <1>1, <2>2, SMTT(30) DEF ResumeAdoption
  <2>4. ChainInv'
    BY <1>0, <1>1, <2>2, SMTT(30) DEF ResumeAdoption
  <2> QED BY <2>3, <2>4
<1>2. CASE AdoptHeld(h) \/ AdoptOverlap(h)
  <2>1. PICK c \in HeldAtHead : Adopt(c)
    BY <1>2 DEF AdoptHeld, AdoptOverlap
  <2>2. c \in Held /\ Rows(c.last) /\ IsPrefix(c.last, d1) /\ CommitHead(c.last, c)
    BY <2>1 DEF HeldAtHead, Held, Adopt, Verified, IntentOK
  <2>3. /\ Rows(head') /\ IsPrefix(head', d1) /\ intent' = NoIntent
        /\ recent' \in Seq(Range(recent')) /\ Len(recent') <= RecentMax
    BY <2>2, CommitKeeps
  <2>4. abandoned' = Without(c)
    BY <2>1 DEF Adopt
  <2>5. /\ abandoned' \in Seq(Range(abandoned')) /\ Len(abandoned') <= AbandonedMax
        /\ \A a \in Range(abandoned') : IntentOK(a)
    BY <2>2, <2>4, WithoutKeeps
  <2>6. CASE AdoptHeld(h)
    BY <1>0, <2>3, <2>5, <2>6, SMTT(30) DEF AdoptHeld
  <2>7. CASE AdoptOverlap(h)
    <3>1. pc[h] = "overlap" /\ UNCHANGED <<pending, External, memory, fails>>
      BY <2>7 DEF AdoptOverlap
    <3>2. TypeOK'
      BY <2>3, <2>5, <3>1, SMTT(30)
    <3>3. (HeadOnD1 /\ OneAtATime /\ RequestsOK /\ FlightBuiltOnD1)'
      BY <2>3, <3>1, SMTT(30)
    <3>4. (OwnStartsAtHead /\ LandedOnD1 /\ PinnedOnD1)'
      BY <1>0, <3>1, SMTT(30)
    <3> QED BY <3>2, <3>3, <3>4
  <2> QED BY <1>2, <2>6, <2>7
<1>3. CASE AbandonIntent(h)
  <2>1. /\ abandoned' \in Seq(Range(abandoned')) /\ Len(abandoned') <= AbandonedMax
        /\ Range(abandoned') \subseteq Range(abandoned) \cup {intent}
    BY <1>3, Capped DEF AbandonIntent
  <2>2. \A c \in Range(abandoned') : IntentOK(c)
    BY <1>3, <2>1 DEF AbandonIntent
  <2> QED BY <1>0, <1>3, <2>1, <2>2, SMTT(30) DEF AbandonIntent
<1>4. CASE RecordReconcile(h)
  <2>1. Rows(pending'.to) /\ IsPrefix(pending'.to, d1)
    BY <1>4, EmptyRows DEF RecordReconcile, NoPending
  <2> QED BY <1>0, <1>4, <2>1, SMTT(30) DEF RecordReconcile
<1>5. CASE PutReconcileRecord(h)
  <2>1. /\ Rows(job[h].pin) /\ IsPrefix(job[h].pin, d1) /\ Len(head) < Len(job[h].pin)
        /\ pending'.to = job[h].pin
    BY <1>5, RowsSeq DEF PutReconcileRecord, Verified
  <2> QED BY <1>0, <1>5, <2>1, SMTT(30) DEF PutReconcileRecord
<1>6. CASE AdoptPage(h)
  <2>1. /\ Rows(pending.to) /\ IsPrefix(pending.to, d1) /\ Len(head) < Len(pending.to)
        /\ CommitPage(pending.to)
    BY <1>6 DEF AdoptPage
  <2>2. /\ Rows(head') /\ IsPrefix(head', d1) /\ intent' = NoIntent
        /\ recent' \in Seq(Range(recent')) /\ Len(recent') <= RecentMax
        /\ Len(head') = IF Len(head) + ReadPage < Len(pending.to)
                        THEN Len(head) + ReadPage ELSE Len(pending.to)
    BY <2>1, PageKeeps
  <2> QED BY <1>0, <1>6, <2>1, <2>2, SMTT(30) DEF AdoptPage
<1> QED BY <1>1, <1>2, <1>3, <1>4, <1>5, <1>6

(***************************************************************************)
(* Requests, D1 and crashes.                                               *)
(***************************************************************************)
LEMMA RequestStep ==
  ASSUME IInv, NEW h \in Handlers,
         \/ \E key \in CallKeys, pay \in Payloads : Call(h, key, pay)
         \/ \E n \in 1 .. Len(d1) : CallReconcile(h, n)
  PROVE  IInv'
<1> USE AbsentAssumption, BoundsAssumption
<1> USE DEF IInv, TypeOK, Labels, ChainInv, HeadOnD1, OneAtATime, RequestsOK, OwnStartsAtHead,
            LandedOnD1, FlightBuiltOnD1, PinnedOnD1, Enter, Goto,
            storage, memory, External, Observed
<1>1. ASSUME NEW key \in CallKeys, NEW pay \in Payloads, Call(h, key, pay)
      PROVE  IInv'
  BY <1>1, SMTT(30) DEF Call
<1>2. ASSUME NEW n \in 1 .. Len(d1), CallReconcile(h, n)
      PROVE  IInv'
  BY <1>2, SMTT(30) DEF CallReconcile
<1> QED BY <1>1, <1>2

(* When D1 grows by rows after its last one, what the invariant says of D1
   still holds. *)
LEMMA D1Grows ==
  ASSUME IInv, Rows(d1'), IsPrefix(d1, d1')
  PROVE  \A s : Rows(s) /\ IsPrefix(s, d1) => IsPrefix(s, d1')
BY PrefixTransitive DEF IInv, TypeOK

LEMMA FlightRows ==
  ASSUME IInv, NEW b \in flight
  PROVE  Rows(b.last) /\ Rows(SubSeq(b.last, 1, b.first - 1))
<1>1. Rows(b.last) /\ b.first \in Nat \ {0} /\ b.first <= Len(b.last)
  BY DEF IInv, TypeOK, IntentOK
<1>2. Len(b.last) \in Nat
  BY <1>1, RowsSeq
<1>3. b.first - 1 \in Nat /\ b.first - 1 <= Len(b.last)
  BY <1>1, <1>2
<1> QED BY <1>1, <1>3, CutPrefix

LEMMA LandStep ==
  ASSUME IInv, NEW b \in flight, LandBatch(b)
  PROVE  IInv'
<1> USE AbsentAssumption
<1>1. /\ Rows(head) /\ Rows(d1) /\ Rows(b.last)
      /\ b.first \in Nat \ {0} /\ b.first <= Len(b.last) /\ b.first = Len(d1) + 1
      /\ IsPrefix(SubSeq(b.last, 1, b.first - 1), d1)
  BY DEF IInv, TypeOK, ChainInv, FlightBuiltOnD1, IntentOK, LandBatch
<1>2. d1' = b.last
  <2>1. d1 \o SubSeq(b.last, b.first, Len(b.last)) = b.last
    BY <1>1, LandingCompletes
  <2> QED BY <2>1 DEF LandBatch, Suffix
<1>3. Rows(d1') /\ IsPrefix(d1, d1')
  <2>1. Len(b.last) \in Nat
    BY <1>1, RowsSeq
  <2>2. Rows(Suffix(b))
    BY <1>1, <2>1, CutRows DEF Suffix
  <2> QED BY <1>1, <2>2, ConcatRows DEF LandBatch
<1>4. \A s : Rows(s) /\ IsPrefix(s, d1) => IsPrefix(s, d1')
  BY <1>3, D1Grows
<1>5. IsPrefix(b.last, d1')
  BY <1>1, <1>2, PrefixReflexive
<1>6. /\ UNCHANGED <<head, intent, abandoned, recent, pending, late, lock, job, tail, own, fails>>
      /\ flight' = flight \ {b}
      /\ pc' = IF b.by = NoOne THEN pc ELSE [pc EXCEPT ![b.by] = "landed"]
  BY DEF LandBatch, storage, Observed
<1>7. /\ pc \in [Handlers -> Labels]
      /\ b.by # NoOne => b.by \in Handlers /\ pc[b.by] = "wait"
                         /\ own[b.by].last = b.last
  BY DEF IInv, TypeOK, ChainInv, FlightBuiltOnD1
<1>8. \A g \in Handlers : \/ pc'[g] = pc[g]
                          \/ g = b.by /\ pc[g] = "wait" /\ pc'[g] = "landed"
  BY <1>6, <1>7
<1>9. TypeOK'
  BY <1>3, <1>6, <1>7 DEF IInv, TypeOK, Labels
<1>10. HeadOnD1' /\ OneAtATime' /\ RequestsOK' /\ OwnStartsAtHead'
  BY <1>1, <1>4, <1>6, <1>8 DEF IInv, ChainInv, HeadOnD1, OneAtATime, RequestsOK, OwnStartsAtHead
<1>11. LandedOnD1'
  <2>1. \A g \in Handlers : pc[g] = "landed" => Rows(own[g].last) /\ IsPrefix(own[g].last, d1)
    BY DEF IInv, ChainInv, LandedOnD1, OwnStartsAtHead, IntentOK
  <2> QED BY <1>4, <1>5, <1>6, <1>7, <1>8, <2>1 DEF LandedOnD1
<1>12. FlightBuiltOnD1'
  <2>1. \A a \in flight : IsPrefix(SubSeq(a.last, 1, a.first - 1), d1')
    BY <1>4, FlightRows DEF IInv, ChainInv, FlightBuiltOnD1
  <2>2. \A a \in flight' : a.by # NoOne =>
          pc'[a.by] = "wait" /\ a.first = own[a.by].first /\ a.last = own[a.by].last
    <3> SUFFICES ASSUME NEW a \in flight', a.by # NoOne
                 PROVE  pc'[a.by] = "wait" /\ a.first = own[a.by].first /\ a.last = own[a.by].last
      OBVIOUS
    <3>1. /\ a \in flight /\ a # b /\ a.by \in Handlers
          /\ pc[a.by] = "wait" /\ a.first = own[a.by].first /\ a.last = own[a.by].last
          /\ a = [by |-> a.by, first |-> a.first, last |-> a.last]
          /\ b = [by |-> b.by, first |-> b.first, last |-> b.last]
          /\ b.by # NoOne => b.first = own[b.by].first /\ b.last = own[b.by].last
      BY <1>6 DEF IInv, TypeOK, ChainInv, FlightBuiltOnD1
    <3>2. a.by # b.by
      BY <3>1
    <3> QED BY <1>6, <1>7, <3>1, <3>2
  <2> QED BY <1>6, <2>1, <2>2 DEF FlightBuiltOnD1
<1>13. PinnedOnD1'
  BY <1>4, <1>6, <1>8 DEF IInv, TypeOK, ChainInv, PinnedOnD1
<1> QED BY <1>9, <1>10, <1>11, <1>12, <1>13 DEF IInv, ChainInv

LEMMA LateStep ==
  ASSUME IInv, LandLate
  PROVE  IInv'
<1>1. Rows(d1) /\ Rows(late.rows)
  BY DEF IInv, TypeOK, LandLate
<1>2. Rows(d1') /\ IsPrefix(d1, d1')
  BY <1>1, ConcatRows DEF LandLate
<1>3. \A s : Rows(s) /\ IsPrefix(s, d1) => IsPrefix(s, d1')
  BY <1>2, D1Grows
<1>4. /\ UNCHANGED <<head, intent, abandoned, recent, pending, flight, lock, pc, job, tail, own, fails>>
      /\ late' = None
  BY DEF LandLate, storage, memory, Observed
<1>5. TypeOK'
  BY <1>2, <1>4 DEF IInv, TypeOK
<1>6. HeadOnD1' /\ OneAtATime' /\ RequestsOK' /\ OwnStartsAtHead'
  BY <1>3, <1>4 DEF IInv, TypeOK, ChainInv, HeadOnD1, OneAtATime, RequestsOK, OwnStartsAtHead
<1>7. LandedOnD1'
  BY <1>3, <1>4 DEF IInv, ChainInv, LandedOnD1, OwnStartsAtHead, IntentOK
<1>8. FlightBuiltOnD1'
  <2>1. \A b \in flight : IsPrefix(SubSeq(b.last, 1, b.first - 1), d1')
    BY <1>3, FlightRows DEF IInv, ChainInv, FlightBuiltOnD1
  <2> QED BY <1>4, <2>1 DEF IInv, ChainInv, FlightBuiltOnD1
<1>9. PinnedOnD1'
  BY <1>3, <1>4 DEF IInv, TypeOK, ChainInv, PinnedOnD1
<1> QED BY <1>5, <1>6, <1>7, <1>8, <1>9 DEF IInv, ChainInv

LEMMA CrashStep ==
  ASSUME IInv, Crash
  PROVE  IInv'
<1>1. /\ UNCHANGED <<head, intent, abandoned, recent, pending, d1, late>>
      /\ lock' = NoOne /\ fails' \in 0 .. MaxFails
      /\ pc' = [h \in Handlers |-> "idle"]
      /\ job' = [h \in Handlers |-> None] /\ own' = [h \in Handlers |-> None]
      /\ tail' = [h \in Handlers |-> 0]
      /\ flight' = {Orphan(b) : b \in flight}
  BY BoundsAssumption DEF Crash, storage, IInv, TypeOK
<1>2. \A b \in flight' : /\ b = [by |-> b.by, first |-> b.first, last |-> b.last]
                          /\ b.by = NoOne /\ IntentOK(b)
                          /\ IsPrefix(SubSeq(b.last, 1, b.first - 1), d1)
  BY <1>1 DEF Orphan, IInv, TypeOK, IntentOK, ChainInv, FlightBuiltOnD1
<1>3. TypeOK'
  BY <1>1, <1>2 DEF IInv, TypeOK, Labels
<1>4. ChainInv'
  BY <1>1, <1>2 DEF IInv, ChainInv, HeadOnD1, OneAtATime, RequestsOK, OwnStartsAtHead, LandedOnD1,
                    FlightBuiltOnD1, PinnedOnD1
<1> QED BY <1>3, <1>4 DEF IInv

LEMMA StepIInv == IInv /\ [Next]_vars => IInv'
<1> SUFFICES ASSUME IInv, [Next]_vars PROVE IInv'
  OBVIOUS
<1>1. CASE Next
  BY <1>1, ReadingStep, AppendStep, RecoverStep, RequestStep, LandStep, LateStep, CrashStep
     DEF Next, Run, Recover, AppendAt, Reconcile
<1>2. CASE UNCHANGED vars
  BY <1>2 DEF vars, storage, memory, IInv, TypeOK, ChainInv, HeadOnD1, OneAtATime, RequestsOK,
              OwnStartsAtHead, LandedOnD1, FlightBuiltOnD1, PinnedOnD1
<1> QED BY <1>1, <1>2

(***************************************************************************)
(* The theorems.                                                           *)
(***************************************************************************)
(* Type correctness and what the object relies on between two awaits. *)
THEOREM IInvHolds == Spec => []IInv
<1>1. Init => IInv
  BY InitIInv
<1>2. IInv /\ [Next]_vars => IInv'
  BY StepIInv
<1> QED BY <1>1, <1>2, PTL DEF Spec

(* The storage and the handlers' locals always have the shapes TypeOK gives
   (audit-do.ts 69-102, 159-177). *)
THEOREM TypeCorrect == Spec => []TypeOK
<1>1. IInv => TypeOK
  BY DEF IInv
<1> QED BY <1>1, IInvHolds, PTL

(* The head is always on the chain D1 holds, whatever crashes, is lost, or lands
   late (commitHead, recover, adoptPinned). *)
THEOREM HeadStaysOnD1 == Spec => []HeadOnD1
<1>1. IInv => HeadOnD1
  BY DEF IInv, ChainInv
<1> QED BY <1>1, IInvHolds, PTL

(* A commit of verified rows, of the handler's own landed rows, or of a page
   extends the head; nothing else moves it. *)
LEMMA StepExtends == IInv /\ [Next]_vars => [IsPrefix(head, head')]_head
<1> SUFFICES ASSUME IInv, Next, head' # head
             PROVE  IsPrefix(head, head')
  BY DEF vars, storage
<1>1. PICK h \in Handlers : \/ CommitAppend(h) \/ AdoptHeld(h) \/ AdoptOverlap(h)
                           \/ ResumeAdoption(h) \/ AdoptPage(h)
  BY DEF Next, Run, Recover, AppendAt, Reconcile, Call, CallReconcile, Enter, ReadTail, AbandonIntent,
         NothingToRecover, ChainBroken, WriteReconcileRow, ReconcileRowWritten, RecordReconcile,
         Dedup, Mismatch, PutIntent, SendBatch, Conflict, Reply, Lookup, CheckPin,
         PutReconcileRecord, RefusePin, GiveUp, LandBatch, LandLate, Crash, storage
<1>2. CASE CommitAppend(h)
  BY <1>2 DEF CommitAppend, CommitHead, IInv, ChainInv, OwnStartsAtHead
<1>3. CASE AdoptHeld(h) \/ AdoptOverlap(h)
  BY <1>3 DEF AdoptHeld, AdoptOverlap, Adopt, CommitHead, Verified
<1>4. CASE ResumeAdoption(h)
  BY <1>4, PageKeeps DEF ResumeAdoption, PartWay, Verified, IInv, TypeOK
<1>5. CASE AdoptPage(h)
  BY <1>5, PageKeeps DEF AdoptPage, IInv, ChainInv, PinnedOnD1
<1> QED BY <1>1, <1>2, <1>3, <1>4, <1>5

(* A committed row is never replaced or dropped: whatever is verified, resumed
   or retried, the head only grows (commitHead). *)
THEOREM HeadGrows == Spec => HeadOnlyExtends
<1>1. IInv /\ [Next]_vars => [IsPrefix(head, head')]_head
  BY StepExtends
<1> QED BY <1>1, IInvHolds, PTL DEF Spec, HeadOnlyExtends
=============================================================================
