-------------------------- MODULE StateReplication --------------------------
(***************************************************************************)
(* The nightly copies to B2: the anchor of the audit chain's head          *)
(* (worker/src/scheduler-do.ts, runNightlyAnchor) and the tofu states      *)
(* (worker/src/state-replication.ts).  A snapshot is stored under the name *)
(* of its state and the hash of its content; an event tells which.  A      *)
(* snapshot B2 already has is skipped, its event with it.                  *)
(*                                                                         *)
(* A content stands for its hash.  Others write the states at any time, so *)
(* a read may find any content.  Nothing here reads an anchor or an event  *)
(* again: they are steps that may fail.                                    *)
(***************************************************************************)
CONSTANTS States, Contents, NoState

ASSUME ReplicationAssumption == NoState \notin Contents /\ NoState \notin States

VARIABLES
  snapshots, \* B2: [state, content]
  rep,       \* the runner: where it is, and its locals
  alarmed,   \* states with an A4 alert in this run
  read       \* history: what the run has read
repVars == <<snapshots, rep, alarmed, read>>

RepIdle == [pc |-> "idle", todo |-> {}, obj |-> NoState, body |-> NoState]

RepInit ==
  /\ snapshots = {} /\ rep = RepIdle /\ alarmed = {} /\ read = {}

RepAt(pc) == rep.pc = pc
Copy == [state |-> rep.obj, content |-> rep.body]
NextState == rep' = [rep EXCEPT !.pc = "get", !.obj = NoState, !.body = NoState]

-----------------------------------------------------------------------------
RepStarts ==
  /\ rep' = [RepIdle EXCEPT !.pc = "anchor"] /\ alarmed' = {} /\ read' = {}
  /\ UNCHANGED snapshots

(* The head goes to audit/anchors/<day>, which nothing here reads again; a
   failure only alerts. *)
Anchor ==
  /\ RepAt("anchor") /\ rep' = [rep EXCEPT !.pc = "list"]
  /\ UNCHANGED <<snapshots, alarmed, read>>

ListStates(found) ==
  /\ RepAt("list") /\ rep' = [rep EXCEPT !.pc = "get", !.todo = found]
  /\ UNCHANGED <<snapshots, alarmed, read>>

(* A state that is gone since is skipped. *)
GetState(s, content) ==
  /\ RepAt("get") /\ s \in rep.todo
  /\ IF content = NoState
     THEN rep' = [rep EXCEPT !.todo = @ \ {s}] /\ UNCHANGED read
     ELSE /\ rep' = [rep EXCEPT !.pc = "head", !.todo = @ \ {s}, !.obj = s, !.body = content]
          /\ read' = read \cup {[state |-> s, content |-> content]}
  /\ UNCHANGED <<snapshots, alarmed>>

(* Mutation: a state is skipped once B2 has any snapshot of it. *)
HaveByName == \E c \in snapshots : c.state = rep.obj

Have == Copy \in snapshots

HeadSnapshot ==
  /\ RepAt("head")
  /\ IF Have THEN NextState ELSE rep' = [rep EXCEPT !.pc = "snapshot"]
  /\ UNCHANGED <<snapshots, alarmed, read>>

PutSnapshot ==
  /\ RepAt("snapshot")
  /\ snapshots' = snapshots \cup {Copy} /\ rep' = [rep EXCEPT !.pc = "event"]
  /\ UNCHANGED <<alarmed, read>>

PutSnapshotEvent ==
  /\ RepAt("event")
  /\ NextState
  /\ UNCHANGED <<snapshots, alarmed, read>>

RepEnds ==
  /\ RepAt("get") /\ rep.todo = {}
  /\ rep' = [RepIdle EXCEPT !.pc = "done"]
  /\ UNCHANGED <<snapshots, alarmed, read>>

RepStep ==
  \/ Anchor \/ HeadSnapshot \/ PutSnapshot \/ PutSnapshotEvent \/ RepEnds
  \/ \E found \in SUBSET States : ListStates(found)
  \/ \E s \in rep.todo, content \in Contents \cup {NoState} : GetState(s, content)

(* A call for one state fails, maybe after the PUT has landed: the state is
   alerted, and the others go on. *)
RepFault(landed) ==
  /\ rep.pc \in {"head", "snapshot", "event"}
  /\ alarmed' = alarmed \cup {rep.obj} /\ NextState
  /\ snapshots' = IF landed /\ RepAt("snapshot") THEN snapshots \cup {Copy} ELSE snapshots
  /\ UNCHANGED read

RepGetFails(s) ==
  /\ RepAt("get") /\ s \in rep.todo
  /\ rep' = [rep EXCEPT !.todo = @ \ {s}] /\ alarmed' = alarmed \cup {s}
  /\ UNCHANGED <<snapshots, read>>

RepListFails ==
  /\ RepAt("list") /\ rep' = [RepIdle EXCEPT !.pc = "done"] /\ alarmed' = States
  /\ UNCHANGED <<snapshots, read>>
-----------------------------------------------------------------------------
(* When the run ends, each content it read is a snapshot in B2, or its state
   has an alert: contents that come back, failed PUTs that landed and states
   that vanish included ("content-addressed", state-replication.ts:65-99). *)
ReplicatedOrAlerted ==
  RepAt("done") => \A c \in read : c \in snapshots \/ c.state \in alarmed
=============================================================================
