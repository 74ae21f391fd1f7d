---------------------------- MODULE MCOperations ----------------------------
(***************************************************************************)
(* The scripts side by side, one part in each behaviour: two jobs, one of  *)
(* two tasks, with an operator who cancels by id or keeps running          *)
(* all-stale; two agents, an operator who stops and starts the farm over   *)
(* and over, and one who does either once; two arbitrators and whatever    *)
(* one operator does to deploy and prove.                                  *)
(***************************************************************************)
EXTENDS CancelJob, BentoFarm, Deployment

CONSTANTS
    Parts,       \* which are looked at
    j1, j2, t1, t2, t3

VARIABLE part

MCJobOf == t1 :> j1 @@ t2 :> j1 @@ t3 :> j2

MCPid == 1 .. 7

MCStarted == <<"aux", "exec">>

MCCycle == <<"stop", "start">>

\* The other parts stand still, in one state.
Init ==
    /\ part \in Parts
    /\ CancelInit /\ FarmInit /\ DeploymentInit
    /\ part # "cancel" => habit = {AllStale} /\ tasks = [t \in Task |-> "ready"]
    /\ part # "farm" => \A o \in Operator : turn[o] = 1
    /\ part # "deployment" => config.arb = Seeded

Next ==
    /\ UNCHANGED part
    /\ \/ part = "cancel" /\ CancelNext /\ UNCHANGED <<farmVars, deployVars>>
       \/ part = "farm" /\ FarmNext /\ UNCHANGED <<cancelVars, deployVars>>
       \/ part = "deployment" /\ DeploymentNext /\ UNCHANGED <<cancelVars, farmVars>>

\* Time passes, a started script ends, and the operator runs it again and again for
\* each of the arguments, although other runs come between; the agents owe nothing.
CancelFairness ==
    /\ WF_cancelVars(part = "cancel" /\ Tick)
    /\ WF_cancelVars(part = "cancel" /\ (FailJobs \/ JobsNotFailed))
    /\ \A a \in Job \cup {AllStale} : SF_cancelVars(part = "cancel" /\ FailTasks(a))

\* The operators go on, and so do the scripts they run; a signal is obeyed at last.
FarmFairness ==
    /\ SF_farmVars(part = "farm" /\ SignalledEnds)
    /\ \A o \in Operator : WF_farmVars(part = "farm" /\ ScriptStep(o))

\* A script that runs ends, the operator wants the contract deployed, whatever else he
\* runs in between, and does what exit 2 tells him.
DeploymentFairness ==
    /\ WF_deployVars(part = "deployment" /\ Step)
    /\ SF_deployVars(part = "deployment" /\ Begin("deploy"))
    /\ SF_deployVars(part = "deployment" /\ Clear)

Spec ==
    /\ Init /\ [][Next]_<<cancelVars, farmVars, deployVars, part>>
    /\ CancelFairness /\ FarmFairness /\ DeploymentFairness

-----------------------------------------------------------------------------
(* The liveness of each part, of the behaviours in which it moves.         *)

\* cancel_job.sh, run again and again, ends every job (CancelJob).
JobsEnd == part = "cancel" => EveryJobEnds

\* stop.sh and start_server.sh, run again and again, bring aux back (BentoFarm).
FarmRecovers == part = "farm" => AuxReturns

\* deploy_verifier.sh, run again as it says, ends with a current contract (Deployment).
DeploymentSettles == part = "deployment" => DeployConverges
=============================================================================
