-------------------------- MODULE MCProjectWriter --------------------------
(* Small instances of ProjectWriter for TLC. *)
EXTENDS ProjectWriter, TLC

CONSTANTS a, b

Put(keys, epoch) == [op |-> "put", keys |-> keys, ifEpoch |-> epoch]
Delete(k) == [op |-> "delete", keys |-> {k}, ifEpoch |-> None]
Rewrap == [op |-> "rewrap", keys |-> {}, ifEpoch |-> None]

(* A set that expects a new project, another set, a delete, a rewrap. *)
AllRequests == {Put({a}, 0), Put({b}, None), Delete(a), Rewrap}

(* A set that expects a new project, an import of two keys. *)
Sets == {Put({a}, 0), Put({a, b}, None)}
=============================================================================
