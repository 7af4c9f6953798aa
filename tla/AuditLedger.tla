---------------------------- MODULE AuditLedger ----------------------------
(***************************************************************************)
(* What the audit log promises its callers, with no D1, no intents and no  *)
(* crashes: an append-only sequence of rows.  One call appends all its     *)
(* rows at once or none; a durable idempotency key is used by at most one  *)
(* append; rows that no call wrote enter the log only after a              *)
(* reconciliation named the exact log they lead to, and the row that       *)
(* records the reconciliation is the next one after them.                  *)
(*                                                                         *)
(* The actions constrain log' instead of enumerating the rows, so the      *)
(* module is an obligation for an implementation to meet (see AuditChain), *)
(* not a specification to run on its own.                                  *)
(***************************************************************************)
EXTENDS Naturals, Sequences, SequencesExt

CONSTANTS
  NoPin,         \* no reconciliation is owed
  Durable(_),    \* Durable(k): key k is used by at most one append
  ReconcileKey(_)\* the key of the row that records the reconciliation up to a log

VARIABLES
  log,    \* the rows appended so far
  owed    \* the log a pinned reconciliation leads to, or NoPin

(* The rows a step adds. *)
Added == SubSeq(log', Len(log) + 1, Len(log'))

(* The rows of one call: same key and payload, numbered in order. *)
OneCall(rows) ==
  \A n \in DOMAIN rows : /\ rows[n].key = rows[1].key
                         /\ rows[n].pay = rows[1].pay
                         /\ rows[n].ts = rows[1].ts
                         /\ rows[n].i = n
                         /\ Len(rows) = rows[n].pay

Fresh(k) == Durable(k) => \A n \in DOMAIN log : log[n].key # k

(* A caller's append: everything the call asked for, once. *)
AppendCall ==
  /\ owed = NoPin
  /\ IsStrictPrefix(log, log')
  /\ OneCall(Added)
  /\ Fresh(Added[1].key)
  /\ Added[1].key.kind \notin {"legacy", "reconcile"}
  /\ UNCHANGED owed

(* An administrator names the log that rows of unknown origin lead to. *)
Pin ==
  /\ owed = NoPin
  /\ owed' # NoPin
  /\ IsStrictPrefix(log, owed')
  /\ \A n \in Len(log) + 1 .. Len(owed') : owed'[n].key.kind = "legacy"
  /\ UNCHANGED log

(* Some of those rows enter the log, in order. *)
AdoptPinned ==
  /\ owed # NoPin
  /\ IsStrictPrefix(log, log')
  /\ IsPrefix(log', owed)
  /\ UNCHANGED owed

(* The row that records the reconciliation closes it. *)
CloseReconcile ==
  /\ owed = log
  /\ IsStrictPrefix(log, log')
  /\ Len(Added) = 1
  /\ Added[1].key = ReconcileKey(log)
  /\ Fresh(Added[1].key)
  /\ owed' = NoPin

Next == AppendCall \/ Pin \/ AdoptPinned \/ CloseReconcile

(* The log a deployment starts from is whatever it already holds. *)
Init == owed = NoPin

Spec == Init /\ [][Next]_<<log, owed>>
=============================================================================
