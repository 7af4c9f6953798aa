---------------------------- MODULE MCAuditChain ----------------------------
(* Small instances of AuditChain for TLC. *)
EXTENDS AuditChain, TLC

CONSTANTS l1, l2, l3

(* Rows of the pre-intent code; `ok` is whether their stored hash is what the
   chain rule gives. *)
LegacyRow(id, ok) ==
  [key |-> [kind |-> "legacy", id |-> id], pay |-> 1, ts |-> 0, i |-> 1, ok |-> ok]

NoLegacy == {<<>>}
NoLate == {}

(* Nothing left behind; one row; two rows, the second intact or not. *)
SomeLegacy ==
  {<<>>, <<LegacyRow(l1, TRUE)>>}
    \cup {<<LegacyRow(l1, TRUE), LegacyRow(l2, ok)>> : ok \in BOOLEAN}
SomeLate == {<<LegacyRow(l3, TRUE)>>}

TwoLegacy == {<<LegacyRow(l1, TRUE), LegacyRow(l2, TRUE)>>}

HandlersSymmetric == Permutations(Handlers)
=============================================================================
