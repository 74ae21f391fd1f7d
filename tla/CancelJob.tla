------------------------------ MODULE CancelJob ------------------------------
(***************************************************************************)
(* scripts/bento/cancel_job.sh against the farm's task database.           *)
(*                                                                         *)
(* The script runs two SQL statements, each its own psql process and hence *)
(* its own transaction; each evaluates the condition $cond anew.  The      *)
(* database and the agents are bento (external): agents may move a task    *)
(* forward at any time, or never.  Either statement may fail: set -e ends  *)
(* the script there.  A timestamp updated_at is kept as the minutes since, *)
(* counted up to StaleMin + 1.                                             *)
(***************************************************************************)
EXTENDS Integers, FiniteSets

CONSTANTS
    Job, Task,
    JobOf,       \* [Task -> Job]
    StaleMin,    \* STALE_MIN
    AllStale,    \* the argument all-stale
    Habits,      \* sets of arguments an operator may be using: jobs, AllStale
    MaxFailures  \* times the second statement fails

ASSUME CancelAssumption ==
    /\ JobOf \in [Task -> Job]
    /\ \A j \in Job : \E t \in Task : JobOf[t] = j
    /\ StaleMin \in Nat /\ MaxFailures \in Nat
    /\ Habits \subseteq SUBSET (Job \cup {AllStale})

VARIABLES
    jobs,        \* jobs.state
    tasks,       \* tasks.state
    age,         \* minutes since tasks.updated_at
    cancelled,   \* tasks with error = 'cancelled'
    pc,          \* the script: "idle", or "jobs" between its two statements
    arg,         \* its argument
    failures,    \* times the second statement failed
    cutShort,    \* arguments whose last run ended between the statements
    habit        \* the arguments this operator uses

scriptVars == <<pc, arg, failures, cutShort, habit>>

cancelVars == <<jobs, tasks, age, cancelled, scriptVars>>

CancelInit ==
    /\ jobs = [j \in Job |-> "running"]
    /\ tasks \in [Task -> {"pending", "ready"}]
    /\ age = [t \in Task |-> 0]
    /\ cancelled = {}
    /\ pc = "idle"
    /\ arg = AllStale
    /\ failures = 0
    /\ cutShort = {}
    /\ habit \in Habits

-----------------------------------------------------------------------------
(* Time and the agents.                                                    *)

Tick ==
    /\ age' = [t \in Task |-> IF age[t] > StaleMin THEN age[t] ELSE age[t] + 1]
    /\ UNCHANGED <<jobs, tasks, cancelled, scriptVars>>

Advance(t, from, to) ==
    /\ tasks[t] = from
    /\ tasks' = [tasks EXCEPT ![t] = to]
    /\ age' = [age EXCEPT ![t] = 0]
    /\ UNCHANGED <<jobs, cancelled, scriptVars>>

Agent(t) ==
    \/ Advance(t, "pending", "ready")
    \/ Advance(t, "ready", "running")
    \/ Advance(t, "running", "done")

JobDone(j) ==
    /\ jobs[j] = "running"
    /\ \A t \in Task : JobOf[t] = j => tasks[t] = "done"
    /\ jobs' = [jobs EXCEPT ![j] = "done"]
    /\ UNCHANGED <<tasks, age, cancelled, scriptVars>>

-----------------------------------------------------------------------------
(* The script.                                                             *)

\* A running job none of whose tasks was updated in the last StaleMin minutes.
Stale(j) ==
    /\ jobs[j] = "running"
    /\ \A t \in Task : JobOf[t] = j => age[t] > StaleMin

\* Mutant: a job id is cancelled only when it is stale.
CondOfStaleOnly(a, t) == Stale(JobOf[t]) /\ (a = AllStale \/ JobOf[t] = a)

\* $cond of a task, for argument a.
Cond(a, t) == IF a = AllStale THEN Stale(JobOf[t]) ELSE JobOf[t] = a

\* Mutant: `and state in ('pending','ready')` is missing.
TasksToFailOfAnyState(a) == {t \in Task : Cond(a, t)}

\* Tasks the first statement changes.
TasksToFail(a) == {t \in Task : Cond(a, t) /\ tasks[t] \in {"pending", "ready"}}

\* update tasks set state='failed', error='cancelled', updated_at=now() ...
FailTasks(a) ==
    LET doomed == TasksToFail(a) IN
    /\ pc = "idle" /\ a \in habit
    /\ tasks' = [t \in Task |-> IF t \in doomed THEN "failed" ELSE tasks[t]]
    /\ age' = [t \in Task |-> IF t \in doomed THEN 0 ELSE age[t]]
    /\ cancelled' = cancelled \cup doomed
    /\ pc' = "jobs"
    /\ arg' = a
    /\ UNCHANGED <<jobs, failures, cutShort, habit>>

\* update jobs set state='failed' ... where id in (select job_id from tasks where $cond)
FailJobs ==
    /\ pc = "jobs"
    /\ jobs' = [j \in Job |->
                   IF jobs[j] = "running" /\ \E t \in Task : JobOf[t] = j /\ Cond(arg, t)
                   THEN "failed" ELSE jobs[j]]
    /\ pc' = "idle"
    /\ cutShort' = cutShort \ {arg}
    /\ UNCHANGED <<tasks, age, cancelled, arg, failures, habit>>

\* psql fails: set -e ends the script, and the first statement stays done.
JobsNotFailed ==
    /\ pc = "jobs" /\ failures < MaxFailures
    /\ failures' = failures + 1
    /\ cutShort' = cutShort \cup {arg}
    /\ pc' = "idle"
    /\ UNCHANGED <<jobs, tasks, age, cancelled, arg, habit>>

CancelNext ==
    \/ Tick
    \/ \E t \in Task : Agent(t)
    \/ \E j \in Job : JobDone(j)
    \/ \E a \in Job \cup {AllStale} : FailTasks(a)
    \/ FailJobs
    \/ JobsNotFailed

CancelSpec == CancelInit /\ [][CancelNext]_cancelVars

-----------------------------------------------------------------------------
(* Properties.                                                             *)

\* The header of the script: "this fails pending/ready tasks + the job".  Once it has
\* ended, no job is left running with some of its tasks cancelled.
JobFailsWithItsTasks ==
    pc = "idle" => \A t \in cancelled : jobs[JobOf[t]] # "running"

\* So it is as long as the operator cancels by job id and the script ran to its end:
\* agents that move tasks between the statements do not come between a job and its
\* tasks, and a run that ended half way is made good by the next one for that job.
ByIdFailsJobsWithTasks ==
    AllStale \notin habit /\ pc = "idle" =>
        \A t \in cancelled : jobs[JobOf[t]] = "running" => JobOf[t] \in cutShort

\* docs/BENTO.md, "jobs stay running after the client died": an operator who keeps
\* running the script sees every job end, whatever state its tasks are stuck in, even
\* though runs end half way, and one run of all-stale refreshes updated_at and so may
\* itself hide the job from its second statement.
EveryJobEnds == \A j \in Job : <>(jobs[j] # "running")
=============================================================================
