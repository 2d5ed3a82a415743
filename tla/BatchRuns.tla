------------------------------- MODULE BatchRuns -------------------------------
(* The runs of one batch script.  Starting a run, by hand or by the schedule,
   stores it with its targets and hands every target that is ready to the
   worker, each from a goroutine that gives up after 20 s; the worker executes
   the target and stores the result.  Whoever stores a result, the worker or the
   goroutine that gave up, then lists the targets and writes the state of the run
   that follows from the list: three statements, between which others store.

   Output, exit codes and the time of the schedule are data: the schedule may be
   due whenever it is looked at. *)
EXTENDS Naturals, FiniteSets

CONSTANTS BatchServer, MaxRuns, RetentionRuns,
          MaxDispatches,           \* a bound: targets ready, of all runs
          MaxBatchFaults           \* a bound: dispatches that give up and restarts, together

ASSUME BatchRunsAssumption ==
    /\ IsFiniteSet(BatchServer) /\ MaxRuns \in Nat \ {0} /\ RetentionRuns \in Nat \ {0}
    /\ MaxDispatches \in Nat /\ MaxBatchFaults \in Nat

VARIABLES
    batchRuns,   \* the stored runs, by the order of their creation
    tasks,       \* goroutines: a dispatch or an execution of one target
    pruning,     \* starters that still have old runs to delete
    scheduler,   \* what the tick in progress has seen
    runsMade,    \* identifiers given out
    hadOutcome,  \* history: targets whose result was stored, or was not needed
    discarded,   \* history: targets whose only result found its run deleted
    staleWrite,  \* history: runs whose state was last written from an old list
    orphaned,    \* history: runs of which a goroutine died with its process
    dispatches, giveUps, restarts

batchRunVars == <<batchRuns, tasks, pruning, scheduler, runsMade, hadOutcome, discarded,
                  staleWrite, orphaned, dispatches, giveUps, restarts>>
faults == <<dispatches, giveUps, restarts>>
history == <<hadOutcome, discarded, staleWrite, orphaned, faults>>

RunId == 1..MaxRuns
TargetState == {"queued", "running", "succeeded", "failed", "skipped"}
Targets == [BatchServer -> TargetState]
RunState == {"running", "succeeded", "failed", "partial"}
RunRecord == [state : RunState, targets : Targets, after : 0..MaxRuns,
              trigger : {"manual", "schedule"}]
NoRun == [state |-> "none"]
Task == [by : {"dispatch"}, run : RunId, server : BatchServer,
         pc : {"send", "sent", "over", "updated", "listed"}, list : SUBSET Targets]
        \cup [by : {"worker"}, run : RunId, server : BatchServer,
              pc : {"accepted", "over", "updated", "listed"}, list : SUBSET Targets]

Recorded == {r \in RunId : batchRuns[r] # NoRun}
Over(r) == batchRuns[r].state # "running"
Done(list) == \A s \in BatchServer : list[s] \in {"succeeded", "failed", "skipped"}

(* As if targets that wait in the queue were not counted. *)
OutcomeOfStarted(list) ==
    LET some(state) == \E s \in BatchServer : list[s] = state
    IN IF some("running") THEN "running"
       ELSE IF ~some("failed") THEN "succeeded"
       ELSE IF some("succeeded") \/ some("skipped") THEN "partial" ELSE "failed"
\* The state of a run that follows from the states of its targets.
Outcome(list) ==
    LET some(state) == \E s \in BatchServer : list[s] = state
    IN IF ~Done(list) THEN "running"
       ELSE IF ~some("failed") THEN "succeeded"
       ELSE IF some("succeeded") \/ some("skipped") THEN "partial" ELSE "failed"

BatchRunsInit ==
    /\ batchRuns = [r \in RunId |-> NoRun] /\ tasks = {} /\ pruning = {} /\ runsMade = 0
    /\ scheduler = [pc |-> "idle", seen |-> 0]
    /\ hadOutcome = {} /\ discarded = {} /\ staleWrite = {} /\ orphaned = {}
    /\ dispatches = 0 /\ giveUps = 0 /\ restarts = 0

Step(t, pc) == tasks' = (tasks \ {t}) \cup {[t EXCEPT !.pc = pc]}
End(t) == tasks' = tasks \ {t}

-----------------------------------------------------------------------------
(* Starting a run. *)

StartRun(trigger, ready, seen) ==
    LET r == runsMade + 1 IN
    /\ r \in RunId /\ ready # {} /\ runsMade' = r
    /\ dispatches' = dispatches + Cardinality(ready) /\ dispatches' <= MaxDispatches
    /\ batchRuns' = [batchRuns EXCEPT ![r] =
          [state |-> "running", after |-> seen, trigger |-> trigger,
           targets |-> [s \in BatchServer |-> IF s \in ready THEN "queued" ELSE "skipped"]]]
    /\ tasks' = tasks \cup {[by |-> "dispatch", run |-> r, server |-> s, pc |-> "send",
                             list |-> {}] : s \in ready}
    /\ pruning' = pruning \cup {[by |-> trigger, run |-> r, ids |-> {}, pc |-> "select"]}
    /\ hadOutcome' = hadOutcome \cup {<<r, s>> : s \in BatchServer \ ready}
    /\ UNCHANGED <<discarded, staleWrite, orphaned, giveUps, restarts>>

StartManual(ready) == StartRun("manual", ready, 0) /\ UNCHANGED scheduler

(* As if only a run that the worker executes held the schedule back. *)
BlocksScheduleRunning(r) == \E s \in BatchServer : batchRuns[r].targets[s] = "running"
BlocksSchedule(r) == ~Over(r)
LookAtSchedule ==
    /\ scheduler.pc = "idle" /\ \A p \in pruning : p.by # "schedule"
    /\ \E newest \in {0} \cup Recorded :
          /\ \A r \in Recorded : r <= newest
          /\ newest # 0 => ~BlocksSchedule(newest)
          /\ scheduler' = [pc |-> "clear", seen |-> newest]
    /\ UNCHANGED <<batchRuns, tasks, pruning, runsMade, history>>

StartScheduled(ready) ==
    /\ scheduler.pc = "clear" /\ StartRun("schedule", ready, scheduler.seen)
    /\ scheduler' = [pc |-> "idle", seen |-> 0]

\* Not due, missed, no target ready, or the run could not be stored.
SkipSchedule ==
    /\ scheduler.pc = "clear" /\ scheduler' = [pc |-> "idle", seen |-> 0]
    /\ UNCHANGED <<batchRuns, tasks, pruning, runsMade, history>>

\* The retention keeps the newest RetentionRuns of the finished runs.  Its limit on
\* their age, which deletes finished runs too, is left out.
Prunable == {r \in Recorded : Over(r)}
Outdated == {r \in Prunable : Cardinality({q \in Prunable : q > r}) >= RetentionRuns}
SelectOld(p) ==
    /\ p.pc = "select"
    /\ pruning' = (pruning \ {p}) \cup
          (IF Outdated = {} THEN {} ELSE {[p EXCEPT !.ids = Outdated, !.pc = "delete"]})
    /\ UNCHANGED <<batchRuns, tasks, scheduler, runsMade, history>>

DeleteOld(p) ==
    /\ p.pc = "delete" /\ pruning' = pruning \ {p}
    /\ batchRuns' = [r \in RunId |-> IF r \in p.ids THEN NoRun ELSE batchRuns[r]]
    /\ UNCHANGED <<tasks, scheduler, runsMade, history>>

-----------------------------------------------------------------------------
(* Dispatching and executing one target. *)

Accept(t) ==
    /\ t.by = "dispatch" /\ t.pc = "send"
    /\ tasks' = (tasks \ {t}) \cup {[t EXCEPT !.pc = "sent"],
                                    [t EXCEPT !.by = "worker", !.pc = "accepted"]}
    /\ UNCHANGED <<batchRuns, pruning, scheduler, runsMade, history>>

Dispatched(t) ==
    /\ t.by = "dispatch" /\ t.pc = "sent" /\ End(t)
    /\ UNCHANGED <<batchRuns, pruning, scheduler, runsMade, history>>

\* An error or the 20 s timeout, whether or not the worker has accepted.
GiveUp(t) ==
    /\ t.by = "dispatch" /\ t.pc \in {"send", "sent"} /\ Step(t, "over")
    /\ giveUps + restarts < MaxBatchFaults /\ giveUps' = giveUps + 1
    /\ UNCHANGED <<batchRuns, pruning, scheduler, runsMade, hadOutcome, discarded,
                   staleWrite, orphaned, dispatches, restarts>>

\* The row is set to running whatever it holds; a row that is gone is logged.
Execute(t) ==
    /\ t.by = "worker" /\ t.pc = "accepted" /\ Step(t, "over")
    /\ batchRuns' = IF t.run \in Recorded
                    THEN [batchRuns EXCEPT ![t.run].targets[t.server] = "running"]
                    ELSE batchRuns
    /\ UNCHANGED <<pruning, scheduler, runsMade, history>>

\* A dispatch that gave up stores a failure.
Results(t) == IF t.by = "dispatch" THEN {"failed"} ELSE {"succeeded", "failed"}

StoreResult(t, result) ==
    /\ t.pc = "over" /\ result \in Results(t)
    /\ IF t.run \in Recorded
       THEN /\ Step(t, "updated") /\ hadOutcome' = hadOutcome \cup {<<t.run, t.server>>}
            /\ batchRuns' = [batchRuns EXCEPT ![t.run].targets[t.server] = result]
            /\ UNCHANGED discarded
       ELSE /\ End(t) /\ UNCHANGED <<batchRuns, hadOutcome>>
            /\ discarded' = discarded \cup ({<<t.run, t.server>>} \ hadOutcome)
    /\ UNCHANGED <<pruning, scheduler, runsMade, staleWrite, orphaned, faults>>

ListTargets(t) ==
    /\ t.pc = "updated"
    /\ IF t.run \in Recorded
       THEN tasks' = (tasks \ {t}) \cup
                        {[t EXCEPT !.pc = "listed", !.list = {batchRuns[t.run].targets}]}
       ELSE End(t)
    /\ UNCHANGED <<batchRuns, pruning, scheduler, runsMade, history>>

(* As if only the worker wrote the state of a run. *)
WriteRunStateWorker(t) ==
    /\ t.pc = "listed" /\ End(t)
    /\ \E list \in t.list :
          batchRuns' = IF t.run \in Recorded /\ t.by = "worker"
                       THEN [batchRuns EXCEPT ![t.run].state = Outcome(list)] ELSE batchRuns
    /\ UNCHANGED <<pruning, scheduler, runsMade, hadOutcome, discarded, staleWrite,
                   orphaned, faults>>
WriteRunState(t) ==
    /\ t.pc = "listed" /\ End(t)
    /\ \E list \in t.list :
          IF t.run \in Recorded
          THEN /\ batchRuns' = [batchRuns EXCEPT ![t.run].state = Outcome(list)]
               /\ staleWrite' = IF list = batchRuns[t.run].targets
                                THEN staleWrite \ {t.run} ELSE staleWrite \cup {t.run}
          ELSE UNCHANGED <<batchRuns, staleWrite>>
    /\ UNCHANGED <<pruning, scheduler, runsMade, hadOutcome, discarded, orphaned,
                   faults>>

\* A process ends: the server with its dispatches, starters and scheduler, or the
\* worker with its executions.  Neither looks for its runs when it starts again.
Restart(by) ==
    /\ giveUps + restarts < MaxBatchFaults /\ restarts' = restarts + 1
    /\ tasks' = {t \in tasks : t.by # by}
    /\ orphaned' = orphaned \cup {t.run : t \in tasks \ tasks'}
    /\ IF by = "dispatch" THEN pruning' = {} /\ scheduler' = [pc |-> "idle", seen |-> 0]
       ELSE UNCHANGED <<pruning, scheduler>>
    /\ UNCHANGED <<batchRuns, runsMade, hadOutcome, discarded, staleWrite, dispatches,
                   giveUps>>

BatchRunsNext ==
    \/ \E ready \in SUBSET BatchServer : StartManual(ready) \/ StartScheduled(ready)
    \/ LookAtSchedule \/ SkipSchedule
    \/ \E p \in pruning : SelectOld(p) \/ DeleteOld(p)
    \/ \E t \in tasks :
          \/ Accept(t) \/ Dispatched(t) \/ GiveUp(t) \/ Execute(t)
          \/ (\E result \in TargetState : StoreResult(t, result))
          \/ ListTargets(t) \/ WriteRunState(t)
    \/ \E by \in {"dispatch", "worker"} : Restart(by)

-----------------------------------------------------------------------------
(* Properties. *)

\* Every variable has its type, and a target has at most one dispatch and one
\* execution in progress.
BatchRunsTypeOK ==
    /\ batchRuns \in [RunId -> RunRecord \cup {NoRun}] /\ tasks \subseteq Task
    /\ Recorded \subseteq 1..runsMade /\ scheduler.seen \in 0..MaxRuns
    /\ hadOutcome \cup discarded \subseteq RunId \X BatchServer
    /\ \A t, u \in tasks : t.by = u.by /\ t.run = u.run /\ t.server = u.server => t = u

\* A run is never recorded as finished before each of its targets has had a
\* result, whatever order results are stored, listed and written in.
OverHasOutcomes ==
    \A r \in Recorded : Over(r) => \A s \in BatchServer : <<r, s>> \in hadOutcome

\* When no goroutine works on a run any more, its state is the one that follows
\* from its targets and it holds no schedule back, unless a process died with a
\* goroutine of it or an older list was written last.
QuietRunIsOver ==
    \A r \in Recorded \ (orphaned \cup staleWrite) :
       (\A t \in tasks : t.run # r) =>
          Over(r) /\ batchRuns[r].state = Outcome(batchRuns[r].targets)

\* The schedule starts a run only when each target of the newest run that it saw
\* has had a result.
ScheduleWaits ==
    \A r \in Recorded : batchRuns[r].after # 0 =>
       \A s \in BatchServer : <<batchRuns[r].after, s>> \in hadOutcome

\* The retention never deletes a run whose results are still to come.
NothingDiscarded == discarded = {}
================================================================================
