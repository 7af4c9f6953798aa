------------------------------ MODULE Scheduler -----------------------------
(***************************************************************************)
(* The scheduler's Durable Object (worker/src/scheduler-do.ts): one alarm  *)
(* that runs the nightly copies (StateReplication) or the weekly removal   *)
(* of blobs (GarbageCollector), and arms itself for the next due time.     *)
(*                                                                         *)
(* Time goes in ticks and repeats every Week; clock is the time in it.     *)
(* alarm counts down.  An alarm handler that is interrupted runs again at  *)
(* once, from the beginning.                                               *)
(***************************************************************************)
EXTENDS GarbageCollector, StateReplication

CONSTANTS Day, Week,    \* in ticks
          NightlyAt,    \* NIGHTLY_UTC_HOUR
          WeeklyAt,     \* WEEKLY_UTC_HOUR of WEEKLY_UTC_DOW
          MaxFaults     \* bound on crashes, failed calls, deploys and deletions

ASSUME SchedulerAssumption ==
  /\ Day \in Nat \ {0} /\ Week \in Nat \ {0} /\ Week % Day = 0
  /\ NightlyAt \in 0 .. Day - 1 /\ WeeklyAt \in 0 .. Week - 1 /\ WeeklyAt % Day # NightlyAt
  /\ MaxFaults \in Nat

VARIABLES
  clock,
  on,      \* SCHEDULER_ENABLED
  pending, \* scheduler:pending: its kind, or None
  alarm,   \* ticks until the alarm, or None
  fire,    \* the alarm handler: [pc, age]
  dormant, \* history: an alarm was dropped because the scheduler was off
  faults   \* still to come
schedVars == <<clock, on, pending, alarm, fire, dormant>>
vars == <<gcVars, repVars, schedVars, faults>>

Kinds == {"nightly", "weekly"}
FireIdle == [pc |-> "idle", age |-> 0]

(* nextDailyUTC and nextWeeklyUTC: ticks from now to the first such time
   strictly after it. *)
After(period, at, now) == LET ahead == (at - now) % period IN IF ahead = 0 THEN period ELSE ahead
NextDaily(now) == After(Day, NightlyAt, now)

(* Mutation: a weekly time that is still to come today is put off a week. *)
NextWeeklyNotToday(now) ==
  After(Week, WeeklyAt, now) + IF now \div Day = WeeklyAt \div Day /\ now < WeeklyAt THEN Week ELSE 0

NextWeekly(now) == After(Week, WeeklyAt, now)

ComputeNextFire(now) ==
  IF NextWeekly(now) < NextDaily(now) THEN [in |-> NextWeekly(now), kind |-> "weekly"]
  ELSE [in |-> NextDaily(now), kind |-> "nightly"]

Init ==
  /\ GCInit /\ RepInit
  /\ clock = 0 /\ on = TRUE
  /\ pending = None /\ alarm = None /\ fire = FireIdle
  /\ dormant = FALSE /\ faults = MaxFaults
-----------------------------------------------------------------------------
FireAt(pc) == fire.pc = pc
Fault == faults > 0 /\ faults' = faults - 1

ArmNext ==
  LET next == ComputeNextFire(clock)
  IN  pending' = next.kind /\ alarm' = next.in

(* POST /arm; it may come while the handler waits. *)
Arm ==
  /\ on /\ ArmNext /\ dormant' = FALSE
  /\ UNCHANGED <<gcVars, repVars, clock, on, fire, faults>>

AlarmOff ==
  /\ FireAt("idle") /\ alarm = 0 /\ ~ on
  /\ alarm' = None /\ dormant' = TRUE
  /\ UNCHANGED <<gcVars, repVars, clock, on, pending, fire, faults>>

AlarmFires ==
  /\ FireAt("idle") /\ alarm = 0 /\ on
  /\ alarm' = None /\ fire' = [FireIdle EXCEPT !.pc = pending]
  /\ IF pending = "weekly" THEN GCStarts /\ UNCHANGED <<project, gone, rows, alerts, repVars>>
     ELSE RepStarts /\ UNCHANGED gcVars
  /\ UNCHANGED <<clock, on, pending, dormant, faults>>

(* The task is over, whatever came of it: the next is due after now. *)
Rearm ==
  /\ GCAt("done") \/ RepAt("done")
  /\ gc' = GCIdle /\ rep' = RepIdle /\ alarmed' = {} /\ read' = {}
  /\ ArmNext /\ fire' = FireIdle
  /\ UNCHANGED <<project, gone, rows, alerts, snapshots, clock, on, dormant, faults>>

TaskStep ==
  \/ FireAt("weekly") /\ GCStep(fire.age) /\ UNCHANGED <<repVars, schedVars, faults>>
  \/ FireAt("nightly") /\ RepStep /\ UNCHANGED <<gcVars, schedVars, faults>>

Failure ==
  /\ Fault
  /\ \/ GCFault /\ UNCHANGED <<repVars, schedVars>>
     \/ PurgeBegins /\ UNCHANGED <<repVars, schedVars>>
     \/ /\ \/ RepListFails
           \/ \E s \in rep.todo : RepGetFails(s)
           \/ \E landed \in BOOLEAN : RepFault(landed)
        /\ UNCHANGED <<gcVars, schedVars>>

(* The runtime runs an interrupted handler again, or keeps the alarm that
   was set meanwhile. *)
Retries == IF FireAt("idle") THEN {alarm} ELSE {0, alarm} \ {None}

(* The object dies; a deploy does the same, and may switch it on or off. *)
Crash(deploy) ==
  /\ Fault
  /\ on' = IF deploy THEN ~ on ELSE on
  /\ alarm' \in Retries /\ fire' = FireIdle
  /\ gc' = GCIdle /\ rep' = RepIdle /\ alarmed' = {} /\ read' = {}
  /\ UNCHANGED <<project, gone, rows, alerts, snapshots, clock, pending, dormant>>

(* An alarm fires when it is due; a task ends in TaskMax. *)
Tick ==
  /\ IF FireAt("idle") THEN alarm # 0 ELSE fire.age < TaskMax
  /\ clock' = (clock + 1) % Week
  /\ alarm' = IF alarm \in {None, 0} THEN alarm ELSE alarm - 1
  /\ fire' = IF FireAt("idle") THEN fire ELSE [fire EXCEPT !.age = @ + 1]
  /\ Age
  /\ UNCHANGED <<epoch, manifests, used, pushes, replica, purge, run, repVars, on, pending, dormant, faults>>

Project == ProjectStep /\ UNCHANGED <<repVars, schedVars, faults>>

Next ==
  \/ Arm \/ AlarmOff \/ AlarmFires \/ TaskStep \/ Rearm \/ Failure
  \/ \E deploy \in BOOLEAN : Crash(deploy)
  \/ Tick \/ Project

Spec == Init /\ [][Next]_vars
-----------------------------------------------------------------------------
AgeType == 0 .. OldestAge \cup {None}

TypeOK ==
  /\ epoch \in 0 .. MaxEpoch /\ manifests \in [1 .. MaxEpoch -> (SUBSET Blobs) \cup {None}]
  /\ blobs \in [Blobs -> AgeType] /\ enabled \in 0 .. DryRun \cup {None}
  /\ wr \in [pc : {"idle", "blob", "manifest", "pointer"}, epoch : 0 .. MaxEpoch, refs : SUBSET Blobs,
             blob : Blobs \cup {None}, age : 0 .. TaskMax]
  /\ used \subseteq Blobs /\ pushes \subseteq used /\ replica \subseteq pushes /\ taken \subseteq used
  /\ ppc \in {"idle", "list", "delete"}
  /\ page \in [blobs : SUBSET used, current : BOOLEAN, epochs : SUBSET (1 .. MaxEpoch)]
  /\ gc \in [pc : {"idle", "pointer", "manifest", "list", "check", "delete", "row", "done"},
             dry : BOOLEAN, from : 0 .. MaxEpoch, to : 0 .. MaxEpoch, refs : SUBSET Blobs,
             todo : SUBSET Blobs, doomed : SUBSET Blobs, blob : Blobs \cup {None}]
  /\ GCAt("manifest") <=> gc.from \in 1 .. gc.to
  /\ gone \subseteq Blobs /\ rows \subseteq gone /\ alerts \subseteq Blobs
  /\ GCAt("idle") \/ RepAt("idle")
  /\ FireAt("idle") <=> GCAt("idle") /\ RepAt("idle")
  /\ clock \in 0 .. Week - 1 /\ on \in BOOLEAN /\ pending \in Kinds \cup {None}
  /\ alarm \in 0 .. Week \cup {None}
  /\ fire \in [pc : {"idle"} \cup Kinds, age : 0 .. TaskMax]

(* The due times of section 8.3, as a calendar has them. *)
Due(kind, at) ==
  \/ kind = "nightly" /\ at % Day = NightlyAt
  \/ kind = "weekly" /\ at % Week = WeeklyAt

(* Once armed, an object at rest has its alarm set for the first due time
   still to come, and knows its kind: no failed task, crash, deploy or /arm in
   the middle of a task breaks the chain ("kacirilan bir run zinciri koparmaz,
   ertesi vadede devam edilir", scheduler-do.ts:17-18).  A due time that
   passes while a task runs is skipped, and one that is due when /arm comes may
   be.  Only an alarm that fires while the scheduler is switched off leaves the
   object without one. *)
NextDueIsArmed ==
  pending # None /\ ~ dormant /\ FireAt("idle") /\ alarm # 0 =>
    /\ alarm # None /\ Due(pending, clock + alarm)
    /\ \A ahead \in 1 .. Week : ahead < alarm => \A kind \in Kinds : ~ Due(kind, clock + ahead)
=============================================================================
