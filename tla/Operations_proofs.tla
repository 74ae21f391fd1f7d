--------------------------- MODULE Operations_proofs ---------------------------
(***************************************************************************)
(* What the scripts keep true for every number of jobs, tasks, processes,  *)
(* operators and arbitrators, and without a bound on what goes wrong.      *)
(*                                                                         *)
(* None of the properties is inductive: each of them looks at the scripts  *)
(* when they have ended, so that its invariant adds what holds while one   *)
(* is between two of its commands.                                         *)
(***************************************************************************)
EXTENDS CancelJob, BentoFarm, Deployment, TLAPS

-----------------------------------------------------------------------------
(* cancel_job.sh                                                           *)

CancelTypeOK ==
    /\ jobs \in [Job -> {"running", "done", "failed"}]
    /\ cancelled \subseteq Task
    /\ habit \subseteq Job \cup {AllStale}
    /\ arg \in Job \cup {AllStale}

\* A job left running with a cancelled task is one whose run was cut short, or the one
\* that the script is about to fail; an argument by id is never all-stale.
CancelInv ==
    /\ CancelTypeOK
    /\ AllStale \notin habit =>
        /\ pc = "jobs" => arg \in habit
        /\ \A t \in cancelled : jobs[JobOf[t]] = "running" =>
               JobOf[t] \in cutShort \/ (pc = "jobs" /\ JobOf[t] = arg)

LEMMA CancelInitInv == CancelInit => CancelInv
BY CancelAssumption DEF CancelInit, CancelInv, CancelTypeOK

LEMMA FailTasksInv ==
    ASSUME CancelInv, NEW a \in Job \cup {AllStale}, FailTasks(a)
    PROVE  CancelInv'
<1>1. /\ pc = "idle" /\ pc' = "jobs" /\ a \in habit /\ arg' = a
      /\ cancelled' = cancelled \cup TasksToFail(a)
      /\ UNCHANGED <<jobs, cutShort, habit>>
  BY DEF FailTasks
<1>2. TasksToFail(a) \subseteq Task
  BY DEF TasksToFail
<1>3. ASSUME AllStale \notin habit PROVE \A t \in TasksToFail(a) : JobOf[t] = a
  BY <1>1, <1>3 DEF TasksToFail, Cond
<1>4. CancelTypeOK'
  BY <1>1, <1>2 DEF CancelInv, CancelTypeOK
<1>5. QED
  BY <1>1, <1>3, <1>4 DEF CancelInv

LEMMA FailJobsInv ==
    ASSUME CancelInv, FailJobs
    PROVE  CancelInv'
<1>1. /\ pc = "jobs" /\ pc' = "idle" /\ cutShort' = cutShort \ {arg}
      /\ UNCHANGED <<cancelled, arg, habit>>
      /\ jobs' = [j \in Job |->
                   IF jobs[j] = "running" /\ \E t \in Task : JobOf[t] = j /\ Cond(arg, t)
                   THEN "failed" ELSE jobs[j]]
  BY DEF FailJobs
<1>2. CancelTypeOK'
  BY <1>1 DEF CancelInv, CancelTypeOK
<1>3. ASSUME AllStale \notin habit, NEW t \in cancelled, jobs'[JobOf[t]] = "running"
      PROVE  JobOf[t] \in cutShort'
  <2>1. t \in Task /\ JobOf[t] \in Job /\ arg # AllStale
    BY <1>1, <1>3, CancelAssumption DEF CancelInv, CancelTypeOK
  <2>2. jobs[JobOf[t]] = "running" /\ ~Cond(arg, t)
    BY <1>1, <1>3, <2>1
  <2>3. JobOf[t] # arg
    BY <2>1, <2>2 DEF Cond
  <2>4. QED
    BY <1>1, <1>3, <2>2, <2>3 DEF CancelInv
<1>4. QED
  BY <1>1, <1>2, <1>3 DEF CancelInv

\* The database, the agents and a cut leave cancelled tasks and their jobs alone.
LEMMA OthersInv ==
    ASSUME CancelInv,
           \/ Tick
           \/ \E t \in Task : Agent(t)
           \/ \E j \in Job : JobDone(j)
           \/ JobsNotFailed
           \/ UNCHANGED cancelVars
    PROVE  CancelInv'
<1>1. CASE Tick \/ (\E t \in Task : Agent(t)) \/ UNCHANGED cancelVars
  <2>1. UNCHANGED <<jobs, cancelled, pc, arg, cutShort, habit>>
    BY <1>1 DEF Tick, Agent, Advance, cancelVars, scriptVars
  <2>2. QED
    BY <2>1 DEF CancelInv, CancelTypeOK
<1>2. CASE \E j \in Job : JobDone(j)
  <2>1. /\ \E j \in Job : jobs' = [jobs EXCEPT ![j] = "done"]
        /\ UNCHANGED <<cancelled, pc, arg, cutShort, habit>>
    BY <1>2 DEF JobDone, scriptVars
  <2>2. jobs' \in [Job -> {"running", "done", "failed"}]
        /\ \A j \in Job : jobs'[j] = "running" => jobs[j] = "running"
    BY <2>1 DEF CancelInv, CancelTypeOK
  <2>3. \A t \in cancelled : JobOf[t] \in Job
    BY CancelAssumption DEF CancelInv, CancelTypeOK
  <2>4. QED
    BY <2>1, <2>2, <2>3 DEF CancelInv, CancelTypeOK
<1>3. CASE JobsNotFailed
  BY <1>3 DEF JobsNotFailed, CancelInv, CancelTypeOK
<1>4. QED
  BY <1>1, <1>2, <1>3

\* The invariant of cancel_job.sh holds of every behaviour.
THEOREM CancelInvariance == CancelSpec => []CancelInv
<1>1. CancelInv /\ [CancelNext]_cancelVars => CancelInv'
  BY FailTasksInv, FailJobsInv, OthersInv DEF CancelNext
<1>2. QED
  BY <1>1, CancelInitInv, PTL DEF CancelSpec

\* By id, a job that is left running with cancelled tasks is one whose last run was cut
\* short, however agents move the tasks between the two statements.
THEOREM CancelledByIdFails == CancelSpec => []ByIdFailsJobsWithTasks
<1>1. CancelInv => ByIdFailsJobsWithTasks
  BY DEF CancelInv, ByIdFailsJobsWithTasks
<1>2. QED
  BY <1>1, CancelInvariance, PTL

-----------------------------------------------------------------------------
(* start_server.sh and stop.sh                                             *)

StartPlaces == {"infra", "spawn", "record"}

Script == [at : {"none", "read", "kill", "strays"} \cup StartPlaces,
           line : Nat \ {0}, pid : Pid \cup {0}, held : Seq(Pid)]

\* No script is at the first line, a start at one of those of Started.
ScriptOK(s) ==
    /\ s \in Script
    /\ s.at = "none" => s.line = 1
    /\ s.at \in StartPlaces => s.line <= Len(Started)
    /\ s.at = "record" => s.pid \in Pid

FarmTypeOK ==
    /\ process \in [Pid -> Names \cup {"free", "stranger"}]
    /\ pidFile \in Seq(Pid)
    /\ script \in [Operator -> Script]
    /\ \A o \in Operator : ScriptOK(script[o])

\* The agents that a start at place s may have started: those before its line.
StartedBy(s, k) == k < s.line \/ (k = s.line /\ s.at = "record")

\* A pid that stop.sh has found to be bento's, and still means to signal, is no stranger's,
\* unless the stranger got it meanwhile.
MayHaveTheHandOn(p) == p \in Pid /\ (process[p] = "stranger" => p \in latecomers)

HandOnBento ==
    \A o \in Operator : script[o].at = "kill" => MayHaveTheHandOn(script[o].pid)

\* Who has a signal runs, and a stranger has it only as a latecomer.
MayHaveSignal(S) == \A p \in S : MayHaveTheHandOn(p) /\ process[p] # "free"

\* The one start that runs has found no agent, and has itself started what there is.
OneStart ==
    \A o \in Operator : Starting(o) =>
        /\ \A x \in Operator : Starting(x) => x = o
        /\ \A p \in bento_agent_pids : \E k \in DOMAIN Started :
               process[p] = Started[k] /\ StartedBy(script[o], k)

FarmInv ==
    /\ FarmTypeOK
    /\ HandOnBento
    /\ MayHaveSignal(signalled)
    /\ ~overlap => OneStart
    /\ TwiceOnlyByOverlap

\* The names in start_server.sh.
LEMMA StartedNames ==
    /\ Len(Started) \in Nat \ {0}
    /\ DOMAIN Started = 1 .. Len(Started)
    /\ \A k \in DOMAIN Started : Started[k] \in Names
    /\ "free" \notin Names /\ "stranger" \notin Names
<1>1. Started \in Seq(STRING) /\ "aux" \in Names
  BY FarmAssumption DEF Names
<1>2. DOMAIN Started = 1 .. Len(Started) /\ Len(Started) \in Nat
  BY <1>1
<1>3. \A k \in DOMAIN Started : Started[k] \in Names
  BY DEF Names, Range
<1>4. Len(Started) # 0
  BY <1>1, <1>2 DEF Names, Range
<1>5. QED
  BY <1>2, <1>3, <1>4, FarmAssumption DEF Names

LEMMA FarmInitInv == FarmInit => FarmInv
<1> SUFFICES ASSUME FarmInit PROVE FarmInv
  OBVIOUS
<1>1. NoScript \in Script /\ ScriptOK(NoScript) /\ NoScript.at = "none"
  BY DEF NoScript, Script, ScriptOK, StartPlaces
<1>2. FarmTypeOK
  BY <1>1 DEF FarmInit, FarmTypeOK
<1>3. HandOnBento /\ OneStart
  BY <1>1 DEF FarmInit, HandOnBento, OneStart, Starting
<1>6. MayHaveSignal(signalled)
  BY DEF FarmInit, MayHaveSignal
<1>4. bento_agent_pids = {}
  BY StartedNames DEF FarmInit, bento_agent_pids, Agents
<1>5. QED
  BY <1>2, <1>3, <1>4, <1>6 DEF FarmInv, FarmInit, TwiceOnlyByOverlap

\* A pid falls free, or goes to another program.
LEMMA ProcessInv ==
    ASSUME FarmInv, NEW p, NEW name \in {"free", "stranger"},
           process' = [process EXCEPT ![p] = name],
           HandOnBento', MayHaveSignal(signalled)',
           UNCHANGED <<pidFile, script, overlap>>
    PROVE  FarmInv'
<1>1. \A q \in Pid : process'[q] = IF q = p THEN name ELSE process[q]
  BY DEF FarmInv, FarmTypeOK
<1>2. FarmTypeOK'
  BY DEF FarmInv, FarmTypeOK
<1>4. \A q \in bento_agent_pids' : q \in bento_agent_pids /\ process'[q] = process[q]
  BY <1>1, StartedNames DEF bento_agent_pids, Agents
<1>5. ~overlap' => OneStart'
  BY <1>4 DEF FarmInv, OneStart, Starting
<1>6. TwiceOnlyByOverlap'
  BY <1>4 DEF FarmInv, TwiceOnlyByOverlap
<1>7. QED
  BY <1>2, <1>5, <1>6 DEF FarmInv

\* Who ends is under nobody's signal any more, and no latecomer.
LEMMA EndedInv ==
    ASSUME FarmInv, NEW p, Ended(p), UNCHANGED <<pidFile, script, overlap>>
    PROVE  FarmInv'
<1>1. \A q \in Pid : process'[q] = IF q = p THEN "free" ELSE process[q]
  BY DEF FarmInv, FarmTypeOK, Ended
<1>2. \A q : MayHaveTheHandOn(q) => MayHaveTheHandOn(q)'
  BY <1>1 DEF MayHaveTheHandOn, Ended
<1>3. HandOnBento'
  BY <1>2 DEF FarmInv, HandOnBento
<1>4. MayHaveSignal(signalled)'
  BY <1>1, <1>2 DEF FarmInv, MayHaveSignal, MayHaveTheHandOn, Ended
<1>5. QED
  BY <1>3, <1>4, ProcessInv DEF Ended

\* Under the hand of a stop.sh it is a latecomer; nobody else means to signal that pid.
LEMMA StrangerStartsInv ==
    ASSUME FarmInv, StrangerStarts
    PROVE  FarmInv'
<1>1. PICK p \in FreePids \cap Remembered :
        /\ process' = [process EXCEPT ![p] = "stranger"]
        /\ latecomers' = IF UnderTheHand(p) THEN latecomers \cup {p} ELSE latecomers
  BY DEF StrangerStarts
<1>2. UNCHANGED <<signalled, pidFile, script, overlap>>
  BY DEF StrangerStarts
<1>3. p \in Pid /\ process[p] = "free"
  BY DEF FreePids
<1>4. \A q \in Pid : process'[q] = IF q = p THEN "stranger" ELSE process[q]
  BY <1>1 DEF FarmInv, FarmTypeOK
<1>5. \A q : q # p /\ MayHaveTheHandOn(q) => MayHaveTheHandOn(q)'
  BY <1>1, <1>4 DEF MayHaveTheHandOn
<1>6. HandOnBento'
  <2>1. SUFFICES ASSUME NEW o \in Operator, script[o].at = "kill"
                 PROVE  MayHaveTheHandOn(script[o].pid)'
    BY <1>2 DEF HandOnBento
  <2>2. CASE script[o].pid = p
    BY <1>1, <1>2, <1>3, <2>1, <2>2 DEF UnderTheHand, MayHaveTheHandOn
  <2>3. CASE script[o].pid # p
    BY <1>2, <1>5, <2>1, <2>3 DEF FarmInv, HandOnBento, MayHaveTheHandOn
  <2>4. QED
    BY <2>2, <2>3
<1>7. p \notin signalled
  BY <1>3 DEF FarmInv, MayHaveSignal
<1>8. MayHaveSignal(signalled)'
  BY <1>2, <1>4, <1>5, <1>7 DEF FarmInv, MayHaveSignal, MayHaveTheHandOn
<1>9. QED
  BY <1>1, <1>2, <1>6, <1>8, ProcessInv

\* A script goes on to s: it begins no start and forgets no agent it has started.
LEMMA ScriptInv ==
    ASSUME FarmInv, NEW o \in Operator, NEW s, ScriptOK(s),
           s.at = "kill" => MayHaveTheHandOn(s.pid), MayHaveSignal(signalled'),
           s.at \in StartPlaces => /\ Starting(o)
                                   /\ \A k \in DOMAIN Started :
                                        StartedBy(script[o], k) => StartedBy(s, k),
           script' = [script EXCEPT ![o] = s], pidFile' \in Seq(Pid),
           UNCHANGED <<process, latecomers, overlap>>
    PROVE  FarmInv'
<1>1. \A x \in Operator : script'[x] = IF x = o THEN s ELSE script[x]
  BY DEF FarmInv, FarmTypeOK
<1>2. FarmTypeOK'
  BY <1>1 DEF FarmInv, FarmTypeOK, ScriptOK
<1>3. HandOnBento'
  BY <1>1 DEF FarmInv, HandOnBento, MayHaveTheHandOn
<1>7. MayHaveSignal(signalled)'
  BY DEF MayHaveSignal, MayHaveTheHandOn
<1>4. bento_agent_pids' = bento_agent_pids
  BY DEF bento_agent_pids
<1>5. ~overlap' => OneStart'
  <2>1. \A x \in Operator : Starting(x)' => Starting(x)
    BY <1>1 DEF Starting, StartPlaces
  <2>2. ASSUME NEW x \in Operator, Starting(x)', NEW k \in DOMAIN Started,
               StartedBy(script[x], k)
        PROVE  StartedBy(script'[x], k)
    BY <1>1, <2>2 DEF Starting, StartPlaces
  <2>3. QED
    BY <1>4, <2>1, <2>2 DEF FarmInv, OneStart
<1>6. QED
  BY <1>2, <1>3, <1>4, <1>5, <1>7 DEF FarmInv, TwiceOnlyByOverlap

\* A script ends, whatever ends it: no start is at work in NoScript.
LEMMA EndsInv ==
    ASSUME FarmInv, NEW o \in Operator, Ends(o), MayHaveSignal(signalled'),
           UNCHANGED <<process, pidFile, latecomers, overlap>>
    PROVE  FarmInv'
<1>1. ScriptOK(NoScript) /\ NoScript.at = "none"
  BY DEF NoScript, Script, ScriptOK, StartPlaces
<1>2. script' = [script EXCEPT ![o] = NoScript] /\ pidFile' \in Seq(Pid)
  BY DEF Ends, FarmInv, FarmTypeOK
<1>3. QED
  BY <1>1, <1>2, ScriptInv DEF StartPlaces

LEMMA StartInv ==
    ASSUME FarmInv, NEW o \in Operator, Start(o)
    PROVE  FarmInv'
<1>1. UNCHANGED <<process, signalled, pidFile, latecomers>> /\ script[o].at = "none"
  BY DEF Start, Quiet, Runs
<1>2. CASE Refused
  BY <1>1, <1>2, EndsInv DEF Start, FarmInv
<1>3. CASE ~Refused
  <2>1. /\ script' = [script EXCEPT ![o].at = "infra"] /\ bento_agent_pids = {}
        /\ overlap' = (overlap \/ \E x \in Operator : Starting(x))
    BY <1>3 DEF Start, Refused, Goes
  <2>2. /\ script' \in [Operator -> Script]
        /\ \A x \in Operator \ {o} : script'[x] = script[x]
        /\ script'[o].at = "infra" /\ script'[o].line = script[o].line
    BY <2>1 DEF FarmInv, FarmTypeOK, Script, StartPlaces
  <2>3. FarmTypeOK'
    BY <1>1, <2>2, StartedNames DEF FarmInv, FarmTypeOK, ScriptOK
  <2>4. HandOnBento'
    BY <1>1, <2>2 DEF FarmInv, HandOnBento, MayHaveTheHandOn
  <2>8. MayHaveSignal(signalled)'
    BY <1>1 DEF FarmInv, MayHaveSignal, MayHaveTheHandOn
  <2>5. bento_agent_pids' = {}
    BY <1>1, <2>1 DEF bento_agent_pids
  <2>6. ASSUME ~overlap' PROVE \A x \in Operator \ {o} : ~Starting(x)'
    BY <2>1, <2>2, <2>6 DEF Starting
  <2>7. QED
    BY <1>1, <2>3, <2>4, <2>5, <2>6, <2>8 DEF FarmInv, OneStart, TwiceOnlyByOverlap
<1>4. QED
  BY <1>2, <1>3

LEMMA SpawnInv ==
    ASSUME FarmInv, NEW o \in Operator, Spawn(o)
    PROVE  FarmInv'
<1> DEFINE k == script[o].line
<1>1. PICK p \in Pid :
        /\ process[p] = "free" /\ process' = [process EXCEPT ![p] = Started[k]]
        /\ script' = [script EXCEPT ![o].at = "record", ![o].pid = p]
  BY DEF Spawn, NewPids, FreePids
<1>2. /\ script[o].at = "spawn"
      /\ process' = [process EXCEPT ![p] = Started[k]]
      /\ script' = [script EXCEPT ![o].at = "record", ![o].pid = p]
      /\ UNCHANGED <<signalled, pidFile, latecomers, overlap>>
  BY <1>1 DEF Spawn
<1>3. k \in DOMAIN Started /\ Started[k] \in Names
  BY <1>2, StartedNames DEF FarmInv, FarmTypeOK, ScriptOK, Script, StartPlaces
<1> HIDE DEF k
<1>4. /\ script' \in [Operator -> Script]
      /\ \A x \in Operator \ {o} : script'[x] = script[x]
      /\ script'[o].at = "record" /\ script'[o].line = k
  <2>1. script \in [Operator -> Script] /\ script[o] \in Script
    BY DEF FarmInv, FarmTypeOK
  <2> DEFINE s == [script[o] EXCEPT !.at = "record", !.pid = p]
  <2>2. s \in Script /\ s.at = "record" /\ s.line = script[o].line
    BY <2>1 DEF Script, StartPlaces
  <2>3. script' = [script EXCEPT ![o] = s]
    BY <1>2, <2>1
  <2> HIDE DEF s
  <2>4. QED
    BY <2>1, <2>2, <2>3 DEF k
<1>5. FarmTypeOK'
  BY <1>1, <1>2, <1>3, <1>4, StartedNames DEF FarmInv, FarmTypeOK, ScriptOK, StartPlaces
<1>6. \A q \in Pid : process'[q] = IF q = p THEN Started[k] ELSE process[q]
  BY <1>2 DEF FarmInv, FarmTypeOK
<1>7. HandOnBento'
  BY <1>1, <1>2, <1>3, <1>4, <1>6, StartedNames DEF FarmInv, HandOnBento, MayHaveTheHandOn
<1>13. MayHaveSignal(signalled)'
  BY <1>1, <1>2, <1>3, <1>6, StartedNames DEF FarmInv, MayHaveSignal, MayHaveTheHandOn
<1>8. \A q \in bento_agent_pids' : q = p \/ (q \in bento_agent_pids /\ process'[q] = process[q])
  BY <1>6 DEF bento_agent_pids
<1>9. ASSUME ~overlap
      PROVE  /\ \A x \in Operator : Starting(x) => x = o
             /\ \A q \in bento_agent_pids : \E n \in DOMAIN Started :
                    process[q] = Started[n] /\ n < k
  BY <1>2, <1>9 DEF FarmInv, OneStart, Starting, StartedBy, k
<1>10. ~overlap' => OneStart'
  <2>1. SUFFICES ASSUME ~overlap PROVE OneStart'
    BY <1>2
  <2>2. \A x \in Operator : Starting(x)' => x = o
    BY <1>4, <1>9, <2>1 DEF Starting
  <2>3. ASSUME NEW q \in bento_agent_pids'
        PROVE  \E n \in DOMAIN Started : process'[q] = Started[n] /\ StartedBy(script'[o], n)
    BY <1>1, <1>3, <1>4, <1>6, <1>8, <1>9, <2>1 DEF StartedBy
  <2>4. QED
    BY <2>2, <2>3 DEF OneStart
<1>11. TwiceOnlyByOverlap'
  <2>1. SUFFICES ASSUME ~overlap, NEW q \in bento_agent_pids', NEW r \in bento_agent_pids',
                        process'[q] = process'[r]
                 PROVE  q = r
    BY <1>2 DEF TwiceOnlyByOverlap
  <2>2. \A q1 \in bento_agent_pids : process[q1] # Started[k]
    BY <1>3, <1>9, <2>1, StartedNames, FarmAssumption DEF IsInjective
  <2>3. process'[p] = Started[k]
    BY <1>1, <1>6
  <2>4. QED
    BY <1>8, <2>1, <2>2, <2>3 DEF FarmInv, TwiceOnlyByOverlap
<1>12. QED
  BY <1>2, <1>5, <1>7, <1>10, <1>11, <1>13 DEF FarmInv

LEMMA RecordInv ==
    ASSUME FarmInv, NEW o \in Operator, Record(o)
    PROVE  FarmInv'
<1>1. /\ script[o].at = "record" /\ script[o] \in Script /\ script[o].line \in DOMAIN Started
      /\ UNCHANGED <<process, latecomers, overlap>> /\ MayHaveSignal(signalled')
  BY StartedNames DEF Record, Quiet, FarmInv, FarmTypeOK, ScriptOK, StartPlaces, Script
<1>2. pidFile' = Append(pidFile, script[o].pid)
  BY DEF Record
<1>3. CASE script[o].pid \in Pid
  <2>1. pidFile' \in Seq(Pid)
    BY <1>2, <1>3 DEF FarmInv, FarmTypeOK
  <2>2. CASE script[o].line = Len(Started)
    <3>1. ScriptOK(NoScript) /\ NoScript.at = "none"
      BY DEF NoScript, Script, ScriptOK, StartPlaces
    <3>2. script' = [script EXCEPT ![o] = NoScript]
      BY <2>2 DEF Record, Ends
    <3>3. QED
      BY <1>1, <2>1, <3>1, <3>2, ScriptInv DEF StartPlaces
  <2>3. CASE script[o].line # Len(Started)
    <3> DEFINE s == [at |-> "spawn", line |-> script[o].line + 1, pid |-> 0,
                     held |-> script[o].held]
    <3>1. script' = [script EXCEPT ![o] = s]
      BY <1>1, <2>3 DEF Record, Script
    <3>2. s \in Script /\ s.at = "spawn" /\ s.line = script[o].line + 1
      BY <1>1 DEF Script, StartPlaces
    <3>3. ScriptOK(s)
      BY <1>1, <2>3, <3>2, StartedNames DEF ScriptOK
    <3>4. \A k \in DOMAIN Started : StartedBy(script[o], k) => StartedBy(s, k)
      BY <1>1, <3>2, StartedNames DEF StartedBy
    <3>5. Starting(o)
      BY <1>1 DEF Starting
    <3> HIDE DEF s
    <3>6. QED
      BY <1>1, <2>1, <3>1, <3>2, <3>3, <3>4, <3>5, ScriptInv
  <2>4. QED
    BY <2>2, <2>3
<1>4. script[o].pid \in Pid
  BY <1>1 DEF FarmInv, FarmTypeOK, ScriptOK
<1>5. QED
  BY <1>3, <1>4

\* What a stop.sh reads is a line of a pid file.
LEMMA LinesArePids ==
    ASSUME FarmInv, NEW o \in Operator
    PROVE  Lines(o) \in Seq(Pid)
BY DEF FarmInv, FarmTypeOK, Lines, Script

LEMMA StopInv ==
    ASSUME FarmInv, NEW o \in Operator, Stop(o) \/ InfraHealthy(o)
    PROVE  FarmInv'
<1>1. CASE Stop(o)
  <2>1. PICK at \in {"strays", "read"} : script' = [script EXCEPT ![o].at = at]
    BY <1>1 DEF Stop, Goes
  <2> DEFINE s == [script[o] EXCEPT !.at = at]
  <2>2. script' = [script EXCEPT ![o] = s] /\ ScriptOK(s) /\ s.at = at
    BY <2>1 DEF FarmInv, FarmTypeOK, ScriptOK, Script, StartPlaces
  <2>3. UNCHANGED <<process, latecomers, overlap>> /\ pidFile' \in Seq(Pid)
        /\ MayHaveSignal(signalled')
    BY <1>1 DEF Stop, Quiet, FarmInv, FarmTypeOK
  <2> HIDE DEF s
  <2>4. QED
    BY <2>2, <2>3, ScriptInv DEF StartPlaces
<1>2. CASE InfraHealthy(o)
  <2> DEFINE s == [script[o] EXCEPT !.at = "spawn"]
  <2>1. script' = [script EXCEPT ![o] = s] /\ ScriptOK(s)
        /\ s.at = "spawn" /\ s.line = script[o].line
    BY <1>2 DEF InfraHealthy, Goes, FarmInv, FarmTypeOK, ScriptOK, Script, StartPlaces
  <2>2. UNCHANGED <<process, latecomers, overlap>> /\ pidFile' \in Seq(Pid)
        /\ MayHaveSignal(signalled')
    BY <1>2 DEF InfraHealthy, Quiet, FarmInv, FarmTypeOK
  <2>3. Starting(o) /\ \A k : StartedBy(script[o], k) => StartedBy(s, k)
    BY <1>2, <2>1 DEF InfraHealthy, Starting, StartedBy
  <2> HIDE DEF s
  <2>4. QED
    BY <2>1, <2>2, <2>3, ScriptInv
<1>3. QED
  BY <1>1, <1>2

LEMMA ReadLineInv ==
    ASSUME FarmInv, NEW o \in Operator, ReadLine(o)
    PROVE  FarmInv'
<1> DEFINE p == Lines(o)[script[o].line]
<1>1. /\ script[o] \in Script /\ script[o].at = "read"
      /\ KillsProcess(p) => script' = [script EXCEPT ![o].at = "kill", ![o].pid = p]
      /\ ~KillsProcess(p) => script' = [script EXCEPT ![o].line = @ + 1]
  BY DEF ReadLine, FarmInv, FarmTypeOK
<1>2. p \in Pid
  BY <1>1, LinesArePids DEF ReadLine, Script
<1> HIDE DEF p
<1>3. UNCHANGED <<process, latecomers, overlap>> /\ pidFile' \in Seq(Pid)
      /\ MayHaveSignal(signalled')
  BY DEF ReadLine, Quiet, FarmInv, FarmTypeOK
<1>4. CASE KillsProcess(p)
  <2> DEFINE s == [script[o] EXCEPT !.at = "kill", !.pid = p]
  <2>1. script' = [script EXCEPT ![o] = s]
    BY <1>1, <1>4 DEF FarmInv, FarmTypeOK
  <2>2. ScriptOK(s) /\ s.at = "kill" /\ s.pid = p
    BY <1>1, <1>2 DEF ScriptOK, Script, StartPlaces
  <2>3. MayHaveTheHandOn(p)
    BY <1>2, <1>4, StartedNames DEF KillsProcess, MayHaveTheHandOn
  <2> HIDE DEF s
  <2>4. QED
    BY <1>2, <1>3, <2>1, <2>2, <2>3, ScriptInv DEF StartPlaces
<1>5. CASE ~KillsProcess(p)
  <2> DEFINE n == script[o].line + 1
             s == [script[o] EXCEPT !.line = n]
  <2>1. n \in Nat \ {0}
    BY <1>1 DEF Script
  <2>2. script' = [script EXCEPT ![o] = s]
    BY <1>1, <1>5
  <2> HIDE DEF n
  <2>3. ScriptOK(s) /\ s.at = "read"
    BY <1>1, <2>1 DEF ScriptOK, Script, StartPlaces
  <2> HIDE DEF s
  <2>4. QED
    BY <1>3, <2>2, <2>3, ScriptInv DEF StartPlaces
<1>6. QED
  BY <1>4, <1>5

LEMMA KillInv ==
    ASSUME FarmInv, NEW o \in Operator, Kill(o)
    PROVE  FarmInv'
<1>1. script[o] \in Script /\ script[o].at = "kill" /\ MayHaveTheHandOn(script[o].pid)
  BY DEF Kill, FarmInv, FarmTypeOK, HandOnBento
<1>2. UNCHANGED <<process, pidFile, latecomers, overlap>>
  BY DEF Kill, Quiet
<1>6. MayHaveSignal(signalled')
  BY <1>1 DEF Kill, FarmInv, MayHaveSignal, MayHaveTheHandOn
<1>3. CASE process[script[o].pid] = "free"
  BY <1>2, <1>3, <1>6, EndsInv DEF Kill
<1>4. CASE process[script[o].pid] # "free"
  <2> DEFINE n == script[o].line + 1
             s == [script[o] EXCEPT !.at = "read", !.line = n, !.pid = 0]
  <2>1. n \in Nat \ {0}
    BY <1>1 DEF Script
  <2>2. script' = [script EXCEPT ![o] = s]
    BY <1>1, <1>4 DEF Kill, FarmInv, FarmTypeOK
  <2> HIDE DEF n
  <2>3. ScriptOK(s) /\ s.at = "read" /\ pidFile' \in Seq(Pid)
    BY <1>1, <1>2, <2>1 DEF ScriptOK, Script, StartPlaces, FarmInv, FarmTypeOK
  <2> HIDE DEF s
  <2>4. QED
    BY <1>2, <1>6, <2>2, <2>3, ScriptInv DEF StartPlaces
<1>5. QED
  BY <1>3, <1>4

\* The pid file goes; other stops keep the lines they read, and nobody changes place but o.
LEMMA RemoveFileInv ==
    ASSUME FarmInv, NEW o \in Operator, RemoveFile(o)
    PROVE  FarmInv'
<1>1. /\ script[o].at = "read" /\ pidFile' = <<>>
      /\ UNCHANGED <<process, signalled, latecomers, overlap>>
      /\ script' = [x \in Operator |->
                    IF x = o THEN [script[o] EXCEPT !.at = "strays"]
                    ELSE IF script[x].at \in {"read", "kill"}
                         THEN [script[x] EXCEPT !.held = Lines(x)]
                         ELSE script[x]]
  BY DEF RemoveFile, Quiet
<1>2. ASSUME NEW x \in Operator
      PROVE  /\ ScriptOK(script'[x])
             /\ script'[x].at = "kill" => script[x].at = "kill"
             /\ script'[x].at \in StartPlaces => script[x].at \in StartPlaces
             /\ script'[x].at # "strays" => script'[x].at = script[x].at
             /\ script'[x].line = script[x].line /\ script'[x].pid = script[x].pid
  <2>1. ScriptOK(script[x]) /\ script[x] \in Script /\ Lines(x) \in Seq(Pid)
    BY LinesArePids DEF FarmInv, FarmTypeOK
  <2>2. CASE x = o
    <3>1. script'[x] = [script[x] EXCEPT !.at = "strays"]
      BY <1>1, <2>2
    <3>2. QED
      BY <2>1, <3>1 DEF ScriptOK, Script, StartPlaces
  <2>3. CASE x # o /\ script[x].at \in {"read", "kill"}
    <3>1. script'[x] = [script[x] EXCEPT !.held = Lines(x)]
      BY <1>1, <2>3
    <3>2. QED
      BY <2>1, <2>3, <3>1 DEF ScriptOK, Script, StartPlaces
  <2>4. CASE x # o /\ script[x].at \notin {"read", "kill"}
    <3>1. script'[x] = script[x]
      BY <1>1, <2>4
    <3>2. QED
      BY <2>1, <3>1
  <2>5. QED
    BY <2>2, <2>3, <2>4
<1>3. FarmTypeOK'
  <2>1. script' = [x \in Operator |-> script'[x]]
    BY <1>1
  <2>2. \A x \in Operator : script'[x] \in Script
    BY <1>2 DEF ScriptOK
  <2>3. pidFile' \in Seq(Pid)
    BY <1>1
  <2>4. QED
    BY <1>1, <1>2, <2>1, <2>2, <2>3 DEF FarmInv, FarmTypeOK, ScriptOK
<1>4. HandOnBento' /\ MayHaveSignal(signalled)'
  BY <1>1, <1>2 DEF FarmInv, HandOnBento, MayHaveSignal, MayHaveTheHandOn
<1>5. bento_agent_pids' = bento_agent_pids
  BY <1>1 DEF bento_agent_pids
<1>6. \A x \in Operator : Starting(x)' =>
          Starting(x) /\ \A k : StartedBy(script[x], k) => StartedBy(script'[x], k)
  BY <1>2 DEF Starting, StartPlaces, StartedBy
<1>7. ~overlap' => OneStart'
  BY <1>1, <1>5, <1>6 DEF FarmInv, OneStart
<1>8. QED
  BY <1>1, <1>3, <1>4, <1>5, <1>7 DEF FarmInv, TwiceOnlyByOverlap

LEMMA FarmNextInv == FarmInv /\ [FarmNext]_farmVars => FarmInv'
<1> SUFFICES ASSUME FarmInv, [FarmNext]_farmVars PROVE FarmInv'
  OBVIOUS
<1>1. CASE AgentExits \/ SignalledEnds
  <2>1. (\E p : Ended(p)) /\ UNCHANGED <<pidFile, script, overlap>>
    BY <1>1 DEF AgentExits, SignalledEnds
  <2>2. QED
    BY <2>1, EndedInv
<1>2. CASE StrangerStarts
  BY <1>2, StrangerStartsInv
<1>3. ASSUME NEW o \in Operator, CutShort(o) \/ KillStrays(o) PROVE FarmInv'
  <2>1. MayHaveSignal(Strays(Names))
    BY StartedNames DEF Strays, MayHaveSignal, MayHaveTheHandOn
  <2>2. MayHaveSignal(signalled')
    BY <1>3, <2>1 DEF CutShort, KillStrays, FarmInv, MayHaveSignal
  <2>3. QED
    BY <1>3, <2>2, EndsInv DEF CutShort, KillStrays, Quiet
<1>4. ASSUME NEW o \in Operator, ScriptStep(o) PROVE FarmInv'
  BY <1>3, <1>4, StartInv, StopInv, SpawnInv, RecordInv, ReadLineInv, KillInv, RemoveFileInv
     DEF ScriptStep
<1>5. CASE UNCHANGED farmVars
  BY <1>5 DEF farmVars, FarmInv, FarmTypeOK, HandOnBento, MayHaveSignal, MayHaveTheHandOn,
     OneStart, Starting, bento_agent_pids, TwiceOnlyByOverlap
<1>6. QED
  BY <1>1, <1>2, <1>3, <1>4, <1>5 DEF FarmNext

\* The invariant of the farm's scripts holds of every behaviour.
THEOREM FarmInvariance == FarmSpec => []FarmInv
BY FarmInitInv, FarmNextInv, PTL DEF FarmSpec

\* However many operators remove and read pid files at once, and whatever exits, is cut
\* short or gets whose pid, stop.sh signals a program that is not bento's only when that
\* got its pid between the look at it and the kill.
THEOREM OnlyLatecomersAreKilled == FarmSpec => []OnlyLatecomersKilled
<1>1. FarmInv => OnlyLatecomersKilled
  BY DEF FarmInv, MayHaveSignal, MayHaveTheHandOn, OnlyLatecomersKilled
<1>2. QED
  BY <1>1, FarmInvariance, PTL

\* No agent runs twice, unless one start began before another had ended.
THEOREM AgentsRunOnce == FarmSpec => []TwiceOnlyByOverlap
<1>1. FarmInv => TwiceOnlyByOverlap
  BY DEF FarmInv
<1>2. QED
  BY <1>1, FarmInvariance, PTL

-----------------------------------------------------------------------------
(* build.sh, check_config.sh, deploy_verifier.sh, demo_quorum_ok.sh        *)

Guest == Arbitrator \cup {NoGuest}

Run == [name : {"none", "build", "check", "deploy", "again", "demo"},
        at : {"none", "build", "recheck", "cargo", "verdict", "link", "image", "forge",
              "write", "reread", "binaries", "prove", "attest"},
        todo : SUBSET Bins, then : {"none", "verdict", "image", "prove"},
        guest : Guest, addr : Nat]

DeployTypeOK ==
    /\ chain \in Seq(Guest)
    /\ config \in [arb : Arbitrator, verifier : 0 .. Len(chain)]
    /\ env \in [arb : Arbitrator, verifier : 0 .. Len(chain)]
    /\ target \in [Bins -> Guest]
    /\ run \in Run

\* Which scripts come to which places.
Places ==
    /\ At("binaries") => run.name = "demo"
    /\ At("build") => run.name \in {"build", "deploy", "demo"}
    /\ At("recheck") => run.name \in {"deploy", "again"}

\* As long as nobody edits the file, a running script has sourced what stands in it, but
\* for the entry that it writes itself.
SourcedIsCurrent ==
    ~edited /\ ~At("none") =>
        /\ env.arb = config.arb
        /\ At("reread") \/ env.verifier = config.verifier

\* What is linked, and what comes after the build of deploy_verifier.sh, is of the
\* arbitrator that has been sourced.
BuiltAsSourced ==
    ~edited =>
        /\ At("link") => run.guest = env.arb
        /\ At("link") /\ run.then = "image" => \A b \in Bins \ run.todo : target[b] = env.arb
        /\ At("image") => \A b \in Bins : target[b] = env.arb
        /\ At("forge") => run.guest = env.arb /\ \A b \in Bins : target[b] = env.arb
        /\ At("write") \/ At("reread") =>
               chain[run.addr] = env.arb /\ \A b \in Bins : target[b] = env.arb

AddressExists == At("write") \/ At("reread") => run.addr \in 1 .. Len(chain)

\* After a deployment the binaries stay those of the file.
DeployedIsBuilt ==
    deployed =>
        /\ ~edited /\ ~At("reread")
        /\ config.verifier # 0 /\ chain[config.verifier] = config.arb
        /\ \A b \in Bins : target[b] = config.arb

DeploymentInv ==
    /\ DeployTypeOK
    /\ Places
    /\ SourcedIsCurrent
    /\ BuiltAsSourced
    /\ AddressExists
    /\ DeployedIsBuilt
    /\ At("attest") => proof = Seeded
    /\ DeployedDemoAttests

USE DEF Guest, At, Bins

LEMMA NoRunIsRun == NoRun \in Run /\ NoRun.at = "none"
BY DEF NoRun, Run

LEMMA DeploymentInitInv == DeploymentInit => DeploymentInv
<1> SUFFICES ASSUME DeploymentInit PROVE DeploymentInv
  OBVIOUS
<1>1. DeployTypeOK
  BY NoRunIsRun DEF DeploymentInit, DeployTypeOK
<1>2. run.at = "none" /\ ~deployed
  BY NoRunIsRun DEF DeploymentInit
<1>3. QED
  BY <1>1, <1>2 DEF DeploymentInv, Places, SourcedIsCurrent, BuiltAsSourced, AddressExists,
     DeployedIsBuilt, DeployedDemoAttests

\* The file changes under the scripts: nothing of it is claimed any more.
LEMMA EditInv ==
    ASSUME DeploymentInv, Edit \/ Clear
    PROVE  DeploymentInv'
<1>1. /\ edited' = TRUE /\ deployed' = FALSE
      /\ config' \in [arb : Arbitrator, verifier : 0 .. Len(chain)]
      /\ UNCHANGED <<target, chain, run, env, proof>>
  BY DEF Edit, Clear, Forgets, DeploymentInv, DeployTypeOK
<1>2. QED
  BY <1>1 DEF DeploymentInv, DeployTypeOK, Places, SourcedIsCurrent, BuiltAsSourced,
     AddressExists, DeployedIsBuilt, DeployedDemoAttests

\* A script ends with a result that a deployed contract allows.
LEMMA FinishInv ==
    ASSUME DeploymentInv, NEW result, Finishes(result),
           deployed' /\ config.arb = Seeded => result \notin {"unproved", "reverted"},
           deployed' => /\ ~edited
                        /\ config.verifier # 0 /\ chain[config.verifier] = config.arb
                        /\ \A b \in Bins : target[b] = config.arb,
           UNCHANGED <<config, target, chain, env, edited>>
    PROVE  DeploymentInv'
<1>1. run'.at = "none" /\ run' \in Run /\ outcome' = result
  BY NoRunIsRun DEF Finishes
<1>2. QED
  BY <1>1 DEF DeploymentInv, DeployTypeOK, Places, SourcedIsCurrent, BuiltAsSourced,
     AddressExists, DeployedIsBuilt, DeployedDemoAttests

LEMMA BeginInv ==
    ASSUME DeploymentInv, NEW name \in DOMAIN First, Begin(name)
    PROVE  DeploymentInv'
<1>1. name \in {"build", "check", "deploy", "demo"}
  BY DEF First
<1>2. /\ run' \in Run /\ run'.name = name
      /\ run'.at \in {"build", "cargo", "recheck", "binaries"}
      /\ run'.at = "build" <=> name = "build"
      /\ run'.at = "recheck" <=> name = "deploy"
      /\ run'.at = "binaries" <=> name = "demo"
  <2>1. run' = [NoRun EXCEPT !.name = name, !.at = First[name]]
    BY DEF Begin
  <2>2. CASE name = "build"
    BY <2>1, <2>2 DEF First, NoRun, Run
  <2>3. CASE name = "check"
    BY <2>1, <2>3 DEF First, NoRun, Run
  <2>4. CASE name = "deploy"
    BY <2>1, <2>4 DEF First, NoRun, Run
  <2>5. CASE name = "demo"
    BY <2>1, <2>5 DEF First, NoRun, Run
  <2>6. QED
    BY <1>1, <2>2, <2>3, <2>4, <2>5
<1>3. /\ env' = config /\ outcome' = "none" /\ edited' = FALSE /\ At("none")
      /\ UNCHANGED <<config, target, chain, deployed>>
  BY DEF Begin
<1>4. QED
  BY <1>2, <1>3 DEF DeploymentInv, DeployTypeOK, Places, SourcedIsCurrent, BuiltAsSourced,
     AddressExists, DeployedIsBuilt, DeployedDemoAttests

\* A script goes on to a place before the deployment; a build starts from the file.
LEMMA GoesOnInv ==
    ASSUME DeploymentInv, run.at \notin {"none", "reread"}, run' \in Run,
           run'.at \in {"build", "recheck", "cargo", "link", "prove", "attest"},
           run'.at = "build" => run'.name \in {"build", "deploy", "demo"},
           run'.at = "recheck" => run'.name \in {"deploy", "again"},
           run'.at = "link" => (run'.guest = config.arb /\ run'.todo = Bins) \/ run'.then # "image",
           run'.at = "link" => run'.guest = config.arb,
           run'.at = "attest" => proof' = Seeded,
           UNCHANGED <<config, target, chain, env, edited, deployed, outcome>>
    PROVE  DeploymentInv'
BY DEF DeploymentInv, DeployTypeOK, Places, SourcedIsCurrent, BuiltAsSourced,
   AddressExists, DeployedIsBuilt, DeployedDemoAttests

\* Any end but "verified" leaves the claims of an earlier deployment as they are.
LEMMA EndsOtherwise ==
    ASSUME DeploymentInv, NEW result, Finishes(result), result \notin {"unproved", "reverted"},
           UNCHANGED <<config, target, chain, env, edited, deployed>>
    PROVE  DeploymentInv'
BY FinishInv DEF DeploymentInv, DeployedIsBuilt

LEMMA CutInv ==
    ASSUME DeploymentInv, Cut
    PROVE  DeploymentInv'
BY EndsOtherwise DEF Cut

\* Wherever a build starts, cargo takes the arbitrator that stands in the file.
LEMMA CompilesInv ==
    ASSUME DeploymentInv, Build \/ CheckBuild
    PROVE  DeploymentInv'
<1>1. /\ UNCHANGED <<config, target, chain, env, edited, deployed, outcome>>
      /\ run \in Run /\ config.arb \in Guest
      /\ run.at \notin {"none", "reread"}
  BY DEF Build, CheckBuild, Rest, history, DeploymentInv, DeployTypeOK
<1>2. CASE Build
  <2>1. run.name \in {"build", "deploy", "demo"}
    BY <1>2 DEF Build, DeploymentInv, Places
  <2>2. AfterBuild[run.name] \in {"none", "image", "prove"}
    BY <2>1 DEF AfterBuild
  <2> DEFINE place == AfterBuild[run.name]
  <2>3. run' = [run EXCEPT !.at = "link", !.guest = config.arb, !.todo = Bins, !.then = place]
    BY <1>2 DEF Build, Compiles, BuiltByBuildSh
  <2> HIDE DEF place
  <2>4. run' \in Run /\ run'.at = "link" /\ run'.guest = config.arb /\ run'.todo = Bins
    BY <1>1, <2>2, <2>3 DEF Run, place
  <2>5. QED
    BY <1>1, <2>4, GoesOnInv
<1>3. CASE CheckBuild
  <2>1. run' = [run EXCEPT !.at = "link", !.guest = config.arb, !.todo = {"image_id"},
                           !.then = "verdict"]
    BY <1>3 DEF CheckBuild, Compiles
  <2>2. /\ run' \in Run /\ run'.at = "link" /\ run'.guest = config.arb
        /\ run'.then = "verdict"
    BY <1>1, <2>1 DEF Run
  <2>3. QED
    BY <1>1, <2>2, GoesOnInv
<1>4. QED
  BY <1>2, <1>3

\* One binary more is of the guest that cargo compiled.
LEMMA LinkInv ==
    ASSUME DeploymentInv, Link
    PROVE  DeploymentInv'
<1>1. PICK b \in run.todo :
        /\ target' = [target EXCEPT ![b] = run.guest]
        /\ IF run.todo # {b} THEN run' = [run EXCEPT !.todo = @ \ {b}] /\ UNCHANGED outcome
           ELSE IF run.then = "none" THEN Finishes("built")
           ELSE run' = [run EXCEPT !.todo = {}, !.at = run.then] /\ UNCHANGED outcome
  BY DEF Link
<1>2. /\ At("link") /\ run \in Run /\ b \in Bins /\ run.guest \in Guest
      /\ UNCHANGED <<config, chain, env, proof, edited, deployed>>
  BY <1>1 DEF Link, history, DeploymentInv, DeployTypeOK, Run
<1>3. /\ target' \in [Bins -> Guest]
      /\ target'[b] = run.guest
      /\ \A c \in Bins \ {b} : target'[c] = target[c]
  BY <1>1, <1>2 DEF DeploymentInv, DeployTypeOK
<1>4. ~edited => run.guest = env.arb /\ env.arb = config.arb
  BY <1>2 DEF DeploymentInv, BuiltAsSourced, SourcedIsCurrent
<1>5. \/ /\ run' \in Run /\ run'.name = run.name /\ UNCHANGED outcome
         /\ \/ run'.at = "link" /\ run'.todo = run.todo \ {b} /\ run'.then = run.then
               /\ run'.guest = run.guest
            \/ run'.at \in {"verdict", "image", "prove"} /\ run'.at = run.then /\ run.todo = {b}
      \/ run' = NoRun /\ outcome' = "built"
  <2>1. CASE run.todo # {b}
    <3> DEFINE rest == run.todo \ {b}
    <3>1. run' = [run EXCEPT !.todo = rest] /\ UNCHANGED outcome /\ rest \subseteq Bins
      BY <1>1, <1>2, <2>1 DEF Run
    <3> HIDE DEF rest
    <3>2. run' \in Run /\ run'.todo = rest /\ run'.at = "link" /\ run'.name = run.name
          /\ run'.then = run.then /\ run'.guest = run.guest
      BY <1>2, <3>1 DEF Run
    <3>3. QED
      BY <3>1, <3>2 DEF rest
  <2>2. CASE run.todo = {b} /\ run.then = "none"
    BY <1>1, <2>2 DEF Finishes
  <2>3. CASE run.todo = {b} /\ run.then # "none"
    <3> DEFINE place == run.then
    <3>1. run' = [run EXCEPT !.todo = {}, !.at = place] /\ UNCHANGED outcome
      BY <1>1, <2>3
    <3>2. place \in {"verdict", "image", "prove"}
      BY <1>2, <2>3 DEF Run
    <3> HIDE DEF place
    <3>3. run' \in Run /\ run'.at = place /\ run'.name = run.name
      BY <1>2, <3>1, <3>2 DEF Run
    <3>4. QED
      BY <2>3, <3>1, <3>2, <3>3 DEF place
  <2>4. QED
    BY <2>1, <2>2, <2>3
<1>6. DeployTypeOK' /\ Places' /\ SourcedIsCurrent' /\ AddressExists'
  BY <1>2, <1>3, <1>5, NoRunIsRun DEF DeploymentInv, DeployTypeOK, Places, SourcedIsCurrent,
     AddressExists
<1>7. BuiltAsSourced'
  <2>1. CASE run'.at = "link" /\ run'.todo = run.todo \ {b} /\ run'.then = run.then
             /\ run'.guest = run.guest
    BY <1>2, <1>3, <1>4, <2>1 DEF DeploymentInv, BuiltAsSourced
  <2>2. CASE run'.at = run.then /\ run'.at \in {"verdict", "image", "prove"} /\ run.todo = {b}
    BY <1>2, <1>3, <1>4, <2>2 DEF DeploymentInv, BuiltAsSourced
  <2>3. CASE run'.at = "none"
    BY <2>3 DEF BuiltAsSourced
  <2>4. QED
    BY <1>5, <2>1, <2>2, <2>3, NoRunIsRun
<1>8. DeployedIsBuilt'
  BY <1>2, <1>3, <1>4, <1>5, NoRunIsRun DEF DeploymentInv, DeployedIsBuilt
<1>9. DeployedDemoAttests' /\ ~At("attest")'
  BY <1>2, <1>5, NoRunIsRun DEF DeploymentInv, DeployedDemoAttests
<1>10. QED
  BY <1>6, <1>7, <1>8, <1>9 DEF DeploymentInv

\* check_config.sh fails, or is run again for its messages.
LEMMA CheckFailsInv ==
    ASSUME DeploymentInv, CheckFails, run.at \in {"recheck", "verdict"},
           UNCHANGED <<config, target, chain, env, edited, deployed>>
    PROVE  DeploymentInv'
<1>1. CASE run.name = "deploy"
  <2>1. run' = [run EXCEPT !.name = "again", !.at = "recheck"] /\ UNCHANGED outcome
    BY <1>1 DEF CheckFails
  <2>2. run' \in Run /\ run'.at = "recheck" /\ run'.name = "again"
    BY <2>1 DEF DeploymentInv, DeployTypeOK, Run
  <2>3. QED
    BY <2>1, <2>2, GoesOnInv
<1>2. CASE run.name # "deploy"
  BY <1>2, EndsOtherwise DEF CheckFails
<1>3. QED
  BY <1>1, <1>2

\* A script goes on to another place, and nothing else changes.
LEMMA MovesTo ==
    ASSUME DeploymentInv, NEW place \in {"build", "cargo", "prove", "attest"}, Moves(place)
    PROVE  run' \in Run /\ run'.at = place /\ run'.name = run.name
BY DEF Moves, DeploymentInv, DeployTypeOK, Run

LEMMA CheckInv ==
    ASSUME DeploymentInv, Recheck \/ Verdict
    PROVE  DeploymentInv'
<1>1. CASE Recheck
  <2>1. run.at = "recheck" /\ UNCHANGED <<config, target, chain, env, proof, edited, deployed>>
    BY <1>1 DEF Recheck, Rest, history
  <2>2. CASE config = env
    BY <1>1, <2>1, <2>2, MovesTo, GoesOnInv DEF Recheck
  <2>3. CASE config # env
    BY <1>1, <2>1, <2>3, CheckFailsInv DEF Recheck
  <2>4. QED
    BY <2>2, <2>3
<1>2. CASE Verdict
  <2>1. run.at = "verdict" /\ UNCHANGED <<config, target, chain, env, proof, edited, deployed>>
    BY <1>2 DEF Verdict
  <2>2. \/ Finishes("failed")
        \/ CheckFails
        \/ run.name = "deploy" /\ Moves("build") /\ UNCHANGED outcome
        \/ Finishes("config OK")
    BY <1>2 DEF Verdict
  <2>3. CASE Finishes("failed") \/ Finishes("config OK")
    BY <2>1, <2>3, EndsOtherwise
  <2>4. CASE CheckFails
    BY <2>1, <2>4, CheckFailsInv
  <2>5. CASE run.name = "deploy" /\ Moves("build") /\ UNCHANGED outcome
    BY <2>1, <2>5, MovesTo, GoesOnInv
  <2>6. QED
    BY <2>2, <2>3, <2>4, <2>5
<1>3. QED
  BY <1>1, <1>2

\* What the script is about to deploy, or finds deployed, is the guest of the file.
LEMMA ReadImageInv ==
    ASSUME DeploymentInv, ReadImage
    PROVE  DeploymentInv'
<1>1. run.at = "image" /\ UNCHANGED <<config, target, chain, env, edited>>
  BY DEF ReadImage
<1>2. /\ target["image_id"] \in Guest /\ run \in Run
      /\ ~edited => /\ \A b \in Bins : target[b] = env.arb
                    /\ env.arb = config.arb /\ env.verifier = config.verifier
  BY <1>1 DEF DeploymentInv, DeployTypeOK, BuiltAsSourced, SourcedIsCurrent
<1>3. CASE /\ run' = [run EXCEPT !.at = "forge", !.guest = target["image_id"]]
           /\ UNCHANGED <<outcome, deployed>>
  <2>1. run' \in Run /\ run'.at = "forge" /\ run'.guest = target["image_id"]
    BY <1>2, <1>3 DEF Run
  <2>2. QED
    BY <1>1, <1>2, <1>3, <2>1 DEF DeploymentInv, DeployTypeOK, Places, SourcedIsCurrent,
       BuiltAsSourced, AddressExists, DeployedIsBuilt, DeployedDemoAttests
<1>4. CASE env.verifier # 0 /\ HasImage(env.verifier, target["image_id"]) /\ Verified
  BY <1>1, <1>2, <1>4, FinishInv DEF Verified, HasImage
<1>5. CASE Finishes("mismatch") /\ UNCHANGED deployed
  BY <1>1, <1>5, EndsOtherwise
<1>6. QED
  BY <1>3, <1>4, <1>5 DEF ReadImage

LEMMA ForgeInv ==
    ASSUME DeploymentInv, Forge
    PROVE  DeploymentInv'
<1> DEFINE n == Len(chain) + 1
<1>1. /\ run.at = "forge" /\ run \in Run /\ chain \in Seq(Guest) /\ run.guest \in Guest
      /\ chain' = Append(chain, run.guest)
      /\ run' = [run EXCEPT !.at = "write", !.addr = n]
      /\ UNCHANGED <<config, target, env, outcome, edited, deployed>>
  BY DEF Forge, history, DeploymentInv, DeployTypeOK, Run
<1>2. /\ chain' \in Seq(Guest) /\ Len(chain') = n /\ n \in Nat \ {0} /\ Len(chain) \in Nat
      /\ chain'[n] = run.guest
      /\ \A k \in 1 .. Len(chain) : chain'[k] = chain[k]
  BY <1>1
<1> HIDE DEF n
<1>3. run' \in Run /\ run'.at = "write" /\ run'.addr = n
  BY <1>1, <1>2 DEF Run
<1>4. \A k \in 0 .. Len(chain) : k \in 0 .. Len(chain')
  BY <1>2 DEF n
<1>5. DeployTypeOK'
  BY <1>1, <1>2, <1>3, <1>4 DEF DeploymentInv, DeployTypeOK
<1>6. DeployedIsBuilt'
  BY <1>1, <1>2, <1>3 DEF DeploymentInv, DeployTypeOK, DeployedIsBuilt
<1>7. BuiltAsSourced' /\ AddressExists'
  BY <1>1, <1>2, <1>3 DEF DeploymentInv, BuiltAsSourced, AddressExists
<1>8. QED
  BY <1>1, <1>3, <1>5, <1>6, <1>7 DEF DeploymentInv, Places, SourcedIsCurrent,
     DeployedDemoAttests

LEMMA WriteBackInv ==
    ASSUME DeploymentInv, WriteBack
    PROVE  DeploymentInv'
<1>1. /\ run.at = "write" /\ run \in Run /\ run.addr \in 0 .. Len(chain)
      /\ config' = [config EXCEPT !.verifier = run.addr]
      /\ run' = [run EXCEPT !.at = "reread"]
      /\ deployed' = FALSE
      /\ UNCHANGED <<target, chain, env, outcome, edited>>
  BY DEF WriteBack, Moves, DeploymentInv, DeployTypeOK, AddressExists
<1>2. /\ config' \in [arb : Arbitrator, verifier : 0 .. Len(chain)]
      /\ config'.arb = config.arb
  BY <1>1 DEF DeploymentInv, DeployTypeOK
<1>3. run' \in Run /\ run'.at = "reread" /\ run'.addr = run.addr
  BY <1>1 DEF Run
<1>4. QED
  BY <1>1, <1>2, <1>3 DEF DeploymentInv, DeployTypeOK, Places, SourcedIsCurrent,
     BuiltAsSourced, AddressExists, DeployedIsBuilt, DeployedDemoAttests

LEMMA RereadInv ==
    ASSUME DeploymentInv, Reread
    PROVE  DeploymentInv'
<1>1. run.at = "reread" /\ UNCHANGED <<config, target, chain, env, edited>>
  BY DEF Reread
<1>2. CASE config.verifier = run.addr /\ Verified
  <2>1. run.addr # 0
    BY <1>1 DEF DeploymentInv, AddressExists
  <2>2. ~edited => /\ chain[run.addr] = env.arb /\ env.arb = config.arb
                   /\ \A b \in Bins : target[b] = env.arb
    BY <1>1 DEF DeploymentInv, BuiltAsSourced, SourcedIsCurrent
  <2>3. QED
    BY <1>1, <1>2, <2>1, <2>2, FinishInv DEF Verified
<1>3. CASE Finishes("failed") /\ UNCHANGED deployed
  BY <1>1, <1>3, EndsOtherwise
<1>4. QED
  BY <1>2, <1>3 DEF Reread

\* The demo proves with, and attests to, what is deployed.
LEMMA DemoInv ==
    ASSUME DeploymentInv, FindBinaries \/ Prove \/ AttestOnChain
    PROVE  DeploymentInv'
<1>1. UNCHANGED <<config, target, chain, env, edited, deployed>>
  BY DEF FindBinaries, Prove, AttestOnChain, Rest, history
<1>2. CASE FindBinaries
  <2>1. run.at = "binaries" /\ run.name = "demo" /\ UNCHANGED <<outcome, proof>>
    BY <1>2 DEF FindBinaries, Rest, DeploymentInv, Places
  <2>2. Moves("build") \/ Moves("prove")
    BY <1>2 DEF FindBinaries
  <2>3. QED
    BY <1>1, <2>1, <2>2, MovesTo, GoesOnInv
<1>3. CASE Prove
  <2>1. CASE target["zkq-prove"] = Seeded
    <3>1. run.at = "prove" /\ Moves("attest") /\ proof' = Seeded /\ UNCHANGED outcome
      BY <1>3, <2>1 DEF Prove
    <3>2. QED
      BY <1>1, <3>1, MovesTo, GoesOnInv
  <2>2. CASE target["zkq-prove"] # Seeded
    <3>1. Finishes("unproved") /\ ~(deployed /\ config.arb = Seeded)
      BY <1>3, <2>2 DEF Prove, DeploymentInv, DeployedIsBuilt
    <3>2. QED
      BY <1>1, <3>1, FinishInv DEF DeploymentInv, DeployedIsBuilt
  <2>3. QED
    BY <2>1, <2>2
<1>4. CASE AttestOnChain
  <2>1. run.at = "attest" /\ proof = Seeded
    BY <1>4 DEF AttestOnChain, DeploymentInv
  <2>2. CASE env.verifier = 0 \/ chain[env.verifier] = proof
    <3>1. Finishes("skipped") \/ Finishes("attested")
      BY <1>4, <2>2 DEF AttestOnChain
    <3>2. QED
      BY <1>1, <3>1, EndsOtherwise
  <2>3. CASE env.verifier # 0 /\ chain[env.verifier] # proof
    <3>1. Finishes("reverted")
      BY <1>4, <2>3 DEF AttestOnChain
    <3>2. ~(deployed /\ config.arb = Seeded)
      BY <2>1, <2>3 DEF DeploymentInv, DeployedIsBuilt, SourcedIsCurrent
    <3>3. QED
      BY <1>1, <3>1, <3>2, FinishInv DEF DeploymentInv, DeployedIsBuilt
  <2>4. QED
    BY <2>2, <2>3
<1>5. QED
  BY <1>2, <1>3, <1>4

LEMMA DeploymentNextInv == DeploymentInv /\ [DeploymentNext]_deployVars => DeploymentInv'
<1> SUFFICES ASSUME DeploymentInv, [DeploymentNext]_deployVars PROVE DeploymentInv'
  OBVIOUS
<1>1. CASE Edit \/ Clear \/ Cut
  BY <1>1, EditInv, CutInv
<1>2. CASE \E name \in DOMAIN First : Begin(name)
  BY <1>2, BeginInv
<1>3. CASE Step
  BY <1>3, LinkInv, CompilesInv, CheckInv, ReadImageInv, ForgeInv, WriteBackInv, RereadInv,
     DemoInv DEF Step
<1>4. CASE UNCHANGED deployVars
  BY <1>4 DEF deployVars, history, DeploymentInv, DeployTypeOK, Places, SourcedIsCurrent,
     BuiltAsSourced, AddressExists, DeployedIsBuilt, DeployedDemoAttests
<1>5. QED
  BY <1>1, <1>2, <1>3, <1>4 DEF DeploymentNext

\* The invariant of the deployment's scripts holds of every behaviour.
THEOREM DeploymentInvariance == DeploymentSpec => []DeploymentInv
BY DeploymentInitInv, DeploymentNextInv, PTL DEF DeploymentSpec

\* "VERIFIED" stays true until the file is edited: VERIFIER is a contract of the
\* configured guest, although file, binaries and chain were read at different times.
THEOREM VerifiedIsCurrent == DeploymentSpec => []DeployedIsCurrent
<1>1. DeploymentInv => DeployedIsCurrent
  BY DEF DeploymentInv, DeployedIsBuilt, DeployedIsCurrent
<1>2. QED
  BY <1>1, DeploymentInvariance, PTL

\* And a demo after it never fails for a proof of the wrong image.
THEOREM VerifiedDemoAttests == DeploymentSpec => []DeployedDemoAttests
<1>1. DeploymentInv => DeployedDemoAttests
  BY DEF DeploymentInv
<1>2. QED
  BY <1>1, DeploymentInvariance, PTL
=============================================================================
