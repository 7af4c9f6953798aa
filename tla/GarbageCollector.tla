-------------------------- MODULE GarbageCollector --------------------------
(***************************************************************************)
(* The weekly removal of old ciphertext (worker/src/gc.ts, runGC, with the *)
(* edges runScheduledGC gives it) from one project, while its writer       *)
(* commits and an administrator deletes it.  A blob is removed only if no  *)
(* manifest of the last LastEpochs epochs refers to it, it is older than   *)
(* Retention, and B2 is seen to have it.                                   *)
(*                                                                         *)
(* The writer is shorter here than in ProjectWriter: it adds at most one   *)
(* blob a commit, and no write of a dead commit lands late.  A DELETE of   *)
(* the project stops nobody: it lists the project's objects and removes    *)
(* them page by page while commits go on.  Blob names are hashes of fresh  *)
(* ciphertext, so none is used twice.  An action is one call of R2, B2 or  *)
(* the audit log, with the code up to the next one.                        *)
(***************************************************************************)
EXTENDS Integers, FiniteSets

CONSTANTS Blobs, None,
          LastEpochs, \* LAST_EPOCHS
          Retention,  \* RETENTION_MS
          DryRun,     \* DRYRUN_MS
          TaskMax,    \* the longest a task or a commit takes: a bound on the model
          PageSize,   \* objects a page of a DELETE has
          MaxEpoch    \* bound on the number of commits

ASSUME CollectorAssumption ==
  /\ LastEpochs \in Nat \ {0} /\ Retention \in Nat /\ DryRun \in Nat
  /\ TaskMax \in Nat /\ 2 * TaskMax <= Retention /\ MaxEpoch \in Nat /\ PageSize \in Nat \ {0}
  /\ None \notin Nat \cup Blobs /\ \A s \in SUBSET Blobs : None # s

VARIABLES
  epoch,     \* the project's pointer; 0: none
  manifests, \* each epoch: the blobs its manifest refers to, or None
  blobs,     \* R2: the age of each blob, or None
  used,      \* names of blobs that were ever used
  wr,        \* the running commit: where it is, and its locals
  pushes,    \* blobs queued for B2
  replica,   \* B2: the blobs it has
  ppc,       \* a DELETE of the project: where it is
  page,      \* the page it has listed
  taken,     \* history: blobs a DELETE removed
  enabled,   \* how long GC_ENABLED_AT is ago, or None
  gc,        \* the collector: where it is, and its locals
  gone,      \* blobs it deleted
  rows,      \* blobs with a gc.delete row in the audit log
  alerts     \* blobs an A8 alert names
r2 == <<epoch, manifests, blobs>>
purge == <<ppc, page, taken>>
project == <<r2, used, wr, pushes, replica, purge, enabled>>
run == <<gc, gone, rows, alerts>>
gcVars == <<project, run>>

GCIdle == [pc |-> "idle", dry |-> FALSE, from |-> 0, to |-> 0, refs |-> {}, todo |-> {},
           doomed |-> {}, blob |-> None]
WriterIdle == [pc |-> "idle", epoch |-> 0, refs |-> {}, blob |-> None, age |-> 0]
NoPage == [blobs |-> {}, current |-> FALSE, epochs |-> {}]

Refs(e) == IF manifests[e] = None THEN {} ELSE manifests[e]
Greater(a, b) == IF a > b THEN a ELSE b
Lesser(a, b) == IF a < b THEN a ELSE b
Window(e) == Greater(1, e - (LastEpochs - 1)) .. e
OldestAge == Retention + TaskMax + 1
Older(age, oldest) == IF age \in {None, oldest} THEN age ELSE age + 1

GCInit ==
  /\ epoch = 0 /\ manifests = [e \in 1 .. MaxEpoch |-> None]
  /\ blobs = [b \in Blobs |-> None]
  /\ used = {} /\ wr = WriterIdle /\ pushes = {} /\ replica = {}
  /\ ppc = "idle" /\ page = NoPage /\ taken = {}
  /\ enabled \in {None, 0}
  /\ gc = GCIdle /\ gone = {} /\ rows = {} /\ alerts = {}
-----------------------------------------------------------------------------
WriterAt(pc) == wr.pc = pc

(* The blobs the current manifest names; without it no commit begins. *)
Current == IF epoch = 0 THEN {} ELSE Refs(epoch)

(* A commit keeps some entries of the current manifest and adds a value, or
   none; the first one always adds. *)
BeginCommit(kept, b) ==
  /\ WriterAt("idle") /\ epoch < MaxEpoch
  /\ IF epoch = 0 THEN b # None ELSE manifests[epoch] # None
  /\ kept \subseteq Current /\ b \notin used
  /\ wr' = [pc |-> IF b = None THEN "manifest" ELSE "blob", epoch |-> epoch,
            refs |-> kept \cup ({b} \ {None}), blob |-> b, age |-> 0]
  /\ used' = used \cup ({b} \ {None})
  /\ UNCHANGED <<r2, pushes, replica, purge, enabled, run>>

PutBlob ==
  /\ WriterAt("blob")
  /\ blobs' = [blobs EXCEPT ![wr.blob] = 0] /\ wr' = [wr EXCEPT !.pc = "manifest"]
  /\ UNCHANGED <<epoch, manifests, used, pushes, replica, purge, enabled, run>>

(* The first to write an epoch's manifest has it. *)
PutManifest ==
  /\ WriterAt("manifest") /\ manifests[wr.epoch + 1] = None
  /\ manifests' = [manifests EXCEPT ![wr.epoch + 1] = wr.refs] /\ wr' = [wr EXCEPT !.pc = "pointer"]
  /\ UNCHANGED <<epoch, blobs, used, pushes, replica, purge, enabled, run>>

(* The pointer moves if it is the one the commit read, and what is new is
   queued for B2. *)
MovePointer ==
  /\ WriterAt("pointer") /\ epoch = wr.epoch
  /\ epoch' = wr.epoch + 1 /\ pushes' = pushes \cup ({wr.blob} \ {None}) /\ wr' = WriterIdle
  /\ UNCHANGED <<manifests, blobs, used, replica, purge, enabled, run>>

(* The commit is refused - its slot is taken, its pointer has changed, a
   call failed - or its object dies. *)
CommitEnds ==
  /\ ~ WriterAt("idle") /\ wr' = WriterIdle
  /\ UNCHANGED <<r2, used, pushes, replica, purge, enabled, run>>

(* drainEscrowPushes; a blob that is gone is skipped. *)
Escrow(b) ==
  /\ b \in pushes \ replica /\ blobs[b] # None
  /\ replica' = replica \cup {b}
  /\ UNCHANGED <<r2, used, wr, pushes, purge, enabled, run>>

Commit ==
  \/ \E kept \in SUBSET Current, b \in Blobs \cup {None} : BeginCommit(kept, b)
  \/ PutBlob \/ PutManifest \/ MovePointer \/ CommitEnds
-----------------------------------------------------------------------------
(* deleteProjectObjects: a page of objects is listed and removed, until none
   is left. *)
StoredBlobs == {b \in Blobs : blobs[b] # None}
StoredEpochs == {e \in 1 .. MaxEpoch : manifests[e] # None}
Stored == [blobs |-> StoredBlobs, current |-> epoch # 0, epochs |-> StoredEpochs]
PageLen(p) == Cardinality(p.blobs) + Cardinality(p.epochs) + (IF p.current THEN 1 ELSE 0)

(* The first objects in the order of their keys: blobs/, current, manifests/. *)
IsPage(p) ==
  /\ PageLen(p) = Lesser(PageSize, PageLen(Stored))
  /\ p.current => Stored.current /\ p.blobs = StoredBlobs
  /\ p.epochs # {} => p.blobs = StoredBlobs /\ p.current = Stored.current
  /\ \A e \in p.epochs, f \in StoredEpochs \ p.epochs : e < f

PurgeBegins ==
  /\ ppc = "idle" /\ PageLen(Stored) > 0 /\ ppc' = "list"
  /\ UNCHANGED <<r2, used, wr, pushes, replica, page, taken, enabled, run>>

PurgeLists ==
  /\ ppc = "list" /\ PageLen(Stored) > 0 /\ ppc' = "delete"
  /\ page' \in {p \in [blobs : SUBSET StoredBlobs, current : BOOLEAN, epochs : SUBSET StoredEpochs] : IsPage(p)}
  /\ UNCHANGED <<r2, used, wr, pushes, replica, taken, enabled, run>>

(* What is there by now under the keys it listed goes. *)
PurgeDeletes ==
  /\ ppc = "delete" /\ ppc' = "list" /\ page' = NoPage
  /\ blobs' = [b \in Blobs |-> IF b \in page.blobs THEN None ELSE blobs[b]]
  /\ manifests' = [e \in 1 .. MaxEpoch |-> IF e \in page.epochs THEN None ELSE manifests[e]]
  /\ epoch' = IF page.current THEN 0 ELSE epoch
  /\ taken' = taken \cup page.blobs
  /\ UNCHANGED <<used, wr, pushes, replica, enabled, run>>

(* Nothing is left - or the Worker dies, R2 refuses, or the rounds run out:
   what is removed is removed. *)
PurgeEnds ==
  /\ ppc # "idle" /\ ppc' = "idle" /\ page' = NoPage
  /\ UNCHANGED <<r2, used, wr, pushes, replica, taken, enabled, run>>

Purge == PurgeLists \/ PurgeDeletes \/ PurgeEnds

ProjectStep == Commit \/ Purge \/ \E b \in Blobs : Escrow(b)

(* A commit ends in TaskMax, and a page is removed in the tick it is listed
   in. *)
InTime == (~ WriterAt("idle") => wr.age < TaskMax) /\ ppc # "delete"

Age ==
  /\ InTime
  /\ blobs' = [b \in Blobs |-> Older(blobs[b], OldestAge)]
  /\ enabled' = Older(enabled, DryRun)
  /\ wr' = IF WriterAt("idle") THEN wr ELSE [wr EXCEPT !.age = @ + 1]
-----------------------------------------------------------------------------
GCAt(pc) == gc.pc = pc

(* Live only DryRun after GC_ENABLED_AT; unset counts as not yet. *)
Dry == enabled = None \/ enabled < DryRun

GCStarts == gc' = [GCIdle EXCEPT !.pc = "pointer", !.dry = Dry]

(* Mutation: the first epochs are not a case of their own. *)
ReadFromUnclamped(e) == e - (LastEpochs - 1)

ReadFrom(e) == Greater(1, e - (LastEpochs - 1))

ReadPointer ==
  /\ GCAt("pointer")
  /\ gc' = IF epoch = 0 THEN [gc EXCEPT !.pc = "list"]
           ELSE [gc EXCEPT !.pc = "manifest", !.from = ReadFrom(epoch), !.to = epoch]
  /\ UNCHANGED <<project, gone, rows, alerts>>

(* A manifest that is not there refers to nothing. *)
ReadManifest ==
  /\ GCAt("manifest")
  /\ gc' = [gc EXCEPT !.refs = @ \cup Refs(gc.from), !.from = IF gc.from = gc.to THEN 0 ELSE @ + 1,
                      !.to = IF gc.from = gc.to THEN 0 ELSE @,
                      !.pc = IF gc.from = gc.to THEN "list" ELSE @]
  /\ UNCHANGED <<project, gone, rows, alerts>>

(* Mutation: a blob of any age may go. *)
ExpiredAnyAge(b, elapsed) == TRUE

(* Older than Retention when the run began. *)
Expired(b, elapsed) == blobs[b] - elapsed > Retention

List(elapsed) ==
  /\ GCAt("list")
  /\ gc' = [gc EXCEPT !.pc = "check", !.refs = {},
              !.todo = {b \in Blobs : blobs[b] # None /\ b \notin gc.refs /\ Expired(b, elapsed)}]
  /\ UNCHANGED <<project, gone, rows, alerts>>

(* Mutation: the answer of the HEAD is not looked at. *)
ConfirmedUnread(b, seen) == seen

Confirmed(b, seen) == seen /\ b \in replica

(* The HEAD on B2; seen is FALSE when it fails. *)
CheckEscrow(b, seen) ==
  /\ GCAt("check") /\ b \in gc.todo
  /\ gc' = [gc EXCEPT !.todo = @ \ {b}, !.doomed = IF Confirmed(b, seen) THEN @ \cup {b} ELSE @]
  /\ UNCHANGED <<project, gone, rows, alerts>>

Judged ==
  /\ GCAt("check") /\ gc.todo = {}
  /\ gc' = IF gc.dry THEN [GCIdle EXCEPT !.pc = "done"] ELSE [gc EXCEPT !.pc = "delete"]
  /\ UNCHANGED <<project, gone, rows, alerts>>

DeleteBlob(b) ==
  /\ GCAt("delete") /\ b \in gc.doomed
  /\ blobs' = [blobs EXCEPT ![b] = None]
  /\ gone' = gone \cup {b}
  /\ gc' = [gc EXCEPT !.pc = "row", !.blob = b, !.doomed = @ \ {b}]
  /\ UNCHANGED <<epoch, manifests, used, wr, pushes, replica, purge, enabled, rows, alerts>>

Alerted(b) == alerts' = alerts \cup {b}

DeleteFails(b) ==
  /\ GCAt("delete") /\ b \in gc.doomed
  /\ gc' = [gc EXCEPT !.doomed = @ \ {b}] /\ Alerted(b)
  /\ UNCHANGED <<project, gone, rows>>

NextBlob == gc' = [gc EXCEPT !.pc = "delete", !.blob = None]

(* auditDelete.  The status of the answer is not looked at: a refusal passes
   for a row. *)
AuditRow(outcome) ==
  /\ GCAt("row") /\ NextBlob
  /\ rows' = IF outcome = "written" THEN rows \cup {gc.blob} ELSE rows
  /\ IF outcome = "thrown" THEN Alerted(gc.blob) ELSE UNCHANGED alerts
  /\ UNCHANGED <<project, gone>>

GCEnds ==
  /\ GCAt("delete") /\ gc.doomed = {}
  /\ gc' = [GCIdle EXCEPT !.pc = "done"]
  /\ UNCHANGED <<project, gone, rows, alerts>>

GCStep(elapsed) ==
  \/ ReadPointer \/ ReadManifest \/ List(elapsed) \/ Judged \/ GCEnds
  \/ \E b \in gc.todo : CheckEscrow(b, TRUE)
  \/ \E b \in gc.doomed : DeleteBlob(b)
  \/ AuditRow("written")

(* R2 throws: fireScheduler catches it and alerts. *)
GCThrows ==
  /\ gc.pc \in {"pointer", "manifest", "list"}
  /\ gc' = [GCIdle EXCEPT !.pc = "done"]
  /\ UNCHANGED <<project, gone, rows, alerts>>

GCFault ==
  \/ GCThrows
  \/ \E b \in gc.todo : CheckEscrow(b, FALSE)
  \/ \E b \in gc.doomed : DeleteFails(b)
  \/ \E outcome \in {"refused", "thrown"} : AuditRow(outcome)
-----------------------------------------------------------------------------
(* A blob on its way to deletion is referred to by none of the last
   LastEpochs manifests, also after the commits and the pages of deletions
   that the collector did not see: what is referred to later is carried over
   from the manifest it read, or younger than Retention (gc.ts:103-123). *)
DoomedStayUnreferenced ==
  \A b \in gc.todo \cup gc.doomed : \A e \in Window(epoch) : b \notin Refs(e)

(* Manifests are kept for ever ("SONSUZA kadar", gc.ts:10), and so is what
   they refer to, by the pointer or not: it is in R2, or B2 has it, or an
   administrator's DELETE removed it - never the collector alone. *)
NothingKeptIsLost ==
  \A e \in 1 .. MaxEpoch : \A b \in Refs(e) : blobs[b] # None \/ b \in replica \/ b \in taken

(* "Her silme bir audit satiri yazar" (gc.ts:12): when the collector has
   turned to the next blob, the one it deleted has its gc.delete row, or an
   alert tells that the row is missing. *)
DeletionAudited ==
  GCAt("delete") => gone \subseteq rows \cup alerts
=============================================================================
