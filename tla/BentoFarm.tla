------------------------------ MODULE BentoFarm ------------------------------
(***************************************************************************)
(* The processes of the infra host: scripts/bento/start_server.sh and      *)
(* stop.sh, run by operators who do not wait for each other, over one      *)
(* process table and one pid file.  Each command of a script is a step.    *)
(* The containers, the GPUs and what the agents do are external.  kill is  *)
(* a signal: who gets it runs on for a while.  An agent may also exit by   *)
(* itself, and its pid may then go to another program or to a new agent,   *)
(* between the two lines of stop.sh that look at a pid and kill it too.    *)
(***************************************************************************)
EXTENDS Integers, SequencesExt

CONSTANTS
    Pid,            \* of a small table
    Started,        \* what start_server.sh starts, in its order: rest_api, aux, ...
    Operator,
    Regular,        \* operators who run the scripts of Cycle over and over; others run one
    Cycle,
    MaxFaults       \* exits of agents, ends of processes under the hand of stop.sh, other
                    \* pids in a file that are given anew, scripts cut short

ASSUME FarmAssumption ==
    /\ Started \in Seq(STRING) /\ IsInjective(Started)
    /\ "aux" \in Range(Started) /\ {"free", "stranger"} \cap Range(Started) = {}
    /\ Cycle # <<>> /\ Range(Cycle) \subseteq {"start", "stop"}
    /\ Pid \subseteq Nat \ {0} /\ MaxFaults \in Nat

VARIABLES
    process,     \* [Pid -> a name, "free" or "stranger"]
    signalled,   \* pids of processes that got a signal and have not ended yet
    pidFile,     \* the lines of $BENTO_PIDS; none is as good as an empty one
    script,      \* of an operator: [at, line, pid, held]
    turn,        \* index in Cycle of the script an operator runs next
    faults,
    latecomers,  \* (history) strangers that got their pid when a stop.sh had just found
                 \* bento's process there
    overlap      \* (history) two starts had passed the test and not ended

farmVars == <<process, signalled, pidFile, script, turn, faults, latecomers, overlap>>

Names == Range(Started)

Agents == Names \ {"rest_api"}

\* at: "none" between two scripts; line: of the pid file or of Started; pid: the one
\* under way; held: the lines of a pid file that was removed while it is read.
NoScript == [at |-> "none", line |-> 1, pid |-> 0, held |-> <<>>]

FarmInit ==
    /\ process = [p \in Pid |-> "free"]
    /\ pidFile = <<>>
    /\ script = [o \in Operator |-> NoScript]
    /\ turn \in [Operator -> 1 .. Len(Cycle)]
    /\ \A o \in Regular : turn[o] = 1
    /\ signalled = {} /\ faults = 0
    /\ latecomers = {}
    /\ overlap = FALSE

-----------------------------------------------------------------------------
(* The processes.                                                          *)

\* bento_agent_pids: rest_api is not among them.
bento_agent_pids == {p \in Pid : process[p] \in Agents}

Ended(p) ==
    /\ process' = [process EXCEPT ![p] = "free"]
    /\ signalled' = signalled \ {p}
    /\ latecomers' = latecomers \ {p}

AgentExits ==
    /\ faults < MaxFaults
    /\ \E p \in Pid \ signalled : process[p] \in Names /\ Ended(p)
    /\ faults' = faults + 1
    /\ UNCHANGED <<pidFile, script, turn, overlap>>

\* A line of stop.sh has found it to be bento's, the next one has yet to kill it.
UnderTheHand(p) == \E o \in Operator : script[o].at = "kill" /\ script[o].pid = p

SignalledEnds ==
    /\ \E p \in signalled :
        /\ Ended(p)
        /\ IF UnderTheHand(p) THEN faults < MaxFaults /\ faults' = faults + 1
                                ELSE UNCHANGED faults
    /\ UNCHANGED <<pidFile, script, turn, overlap>>

FreePids == {p \in Pid : process[p] = "free"}

Remembered == Range(pidFile) \cup UNION {Range(script[o].held) : o \in Operator}

\* A pid that a file remembers is given anew: a mishap, and when stop.sh has its hand on
\* it the same one as the end of the process that had it.
GivenAnew(p) ==
    IF p \in Remembered /\ ~UnderTheHand(p)
    THEN faults < MaxFaults /\ faults' = faults + 1
    ELSE UNCHANGED faults

\* Only such a pid would be noticed.
StrangerStarts ==
    /\ \E p \in FreePids \cap Remembered :
        /\ process' = [process EXCEPT ![p] = "stranger"]
        /\ latecomers' = IF UnderTheHand(p) THEN latecomers \cup {p} ELSE latecomers
        /\ GivenAnew(p)
    /\ UNCHANGED <<signalled, pidFile, script, turn, overlap>>

-----------------------------------------------------------------------------
(* Both scripts.                                                           *)

\* The script of o goes on at this place.
Goes(o, at) == script' = [script EXCEPT ![o].at = at]

\* It ends, and o runs the next one.
Ends(o) ==
    /\ script' = [script EXCEPT ![o] = NoScript]
    /\ turn' = [turn EXCEPT ![o] = IF o \in Regular THEN (@ % Len(Cycle)) + 1 ELSE Len(Cycle) + 1]

Runs(o, name) == script[o].at = "none" /\ turn[o] <= Len(Cycle) /\ Cycle[turn[o]] = name

\* By a signal, or when the infra does not become healthy.
CutShort(o) ==
    /\ script[o].at # "none" /\ faults < MaxFaults
    /\ faults' = faults + 1
    /\ Ends(o)
    /\ UNCHANGED <<process, signalled, pidFile, latecomers, overlap>>

Quiet == UNCHANGED <<faults, latecomers>>

-----------------------------------------------------------------------------
(* start_server.sh, start_bg                                               *)

Starting(o) == script[o].at \in {"infra", "spawn", "record"}

\* Mutant: the test looks at the pid file.
RefusedByFile == pidFile # <<>>

\* "agents already running; run stop.sh first"
Refused == bento_agent_pids # {}

Start(o) ==
    /\ Runs(o, "start")
    /\ IF Refused THEN Ends(o) /\ UNCHANGED overlap
       ELSE /\ Goes(o, "infra") /\ UNCHANGED turn
            /\ overlap' = (overlap \/ \E x \in Operator : Starting(x))
    /\ Quiet /\ UNCHANGED <<process, signalled, pidFile>>

\* docker compose up, and postgres, redis and minio become healthy.
InfraHealthy(o) ==
    /\ script[o].at = "infra"
    /\ Goes(o, "spawn")
    /\ Quiet /\ UNCHANGED <<process, signalled, pidFile, turn, overlap>>

\* Of the pids that no file has one is as good as another.
NewPids == (FreePids \cap Remembered)
           \cup {p \in FreePids \ Remembered : \A q \in FreePids \ Remembered : p <= q}

\* nohup "$@" &
Spawn(o) ==
    /\ script[o].at = "spawn"
    /\ \E p \in NewPids :
           /\ process' = [process EXCEPT ![p] = Started[script[o].line]]
           /\ script' = [script EXCEPT ![o].at = "record", ![o].pid = p]
           /\ GivenAnew(p)
    /\ UNCHANGED <<signalled, pidFile, turn, latecomers, overlap>>

\* echo "$! $name" >>"$BENTO_PIDS"
Record(o) ==
    /\ script[o].at = "record"
    /\ pidFile' = Append(pidFile, script[o].pid)
    /\ IF script[o].line = Len(Started) THEN Ends(o)
       ELSE /\ script' = [script EXCEPT ![o].at = "spawn", ![o].line = @ + 1, ![o].pid = 0]
            /\ UNCHANGED turn
    /\ Quiet /\ UNCHANGED <<process, signalled, overlap>>

-----------------------------------------------------------------------------
(* stop.sh                                                                 *)

Stop(o) ==
    /\ Runs(o, "stop")
    /\ Goes(o, IF pidFile = <<>> THEN "strays" ELSE "read")
    /\ Quiet /\ UNCHANGED <<process, signalled, pidFile, turn, overlap>>

\* The file it has open: lines that are appended are read too, unless it was removed.
Lines(o) == IF script[o].held # <<>> THEN script[o].held ELSE pidFile

\* Mutant: any live process is taken for one of bento.
KillsAnyProcess(p) == process[p] # "free"

\* kill -0 and the test of the command line.
KillsProcess(p) == process[p] \in Names

ReadLine(o) ==
    /\ script[o].at = "read" /\ script[o].line <= Len(Lines(o))
    /\ LET p == Lines(o)[script[o].line]
       IN  IF KillsProcess(p) THEN script' = [script EXCEPT ![o].at = "kill", ![o].pid = p]
           ELSE script' = [script EXCEPT ![o].line = @ + 1]
    /\ Quiet /\ UNCHANGED <<process, signalled, pidFile, turn, overlap>>

\* kill: when the process has gone since, it fails and set -e ends the script.
Kill(o) ==
    LET p == script[o].pid IN
    /\ script[o].at = "kill"
    /\ IF process[p] = "free" THEN Ends(o)
       ELSE /\ script' = [script EXCEPT ![o].at = "read", ![o].line = @ + 1, ![o].pid = 0]
            /\ UNCHANGED turn
    /\ signalled' = signalled \cup ({p} \ {q \in Pid : process[q] = "free"})
    /\ Quiet /\ UNCHANGED <<process, pidFile, overlap>>

\* rm -f: whoever else is reading the file keeps its lines.
RemoveFile(o) ==
    /\ script[o].at = "read" /\ script[o].line > Len(Lines(o))
    /\ pidFile' = <<>>
    /\ script' = [x \in Operator |->
                    IF x = o THEN [script[o] EXCEPT !.at = "strays"]
                    ELSE IF script[x].at \in {"read", "kill"}
                         THEN [script[x] EXCEPT !.held = Lines(x)]
                         ELSE script[x]]
    /\ Quiet /\ UNCHANGED <<process, signalled, turn, overlap>>

\* Mutant: nothing is looked for outside the pid file.
StraysNone(names) == {}

\* pkill, twice, for what was started outside the pid file.
Strays(names) == {p \in Pid : process[p] \in names}

KillStrays(o) ==
    /\ script[o].at = "strays"
    /\ signalled' = signalled \cup Strays(Names)
    /\ Ends(o)
    /\ Quiet /\ UNCHANGED <<process, pidFile, overlap>>

-----------------------------------------------------------------------------
ScriptStep(o) ==
    \/ Start(o) \/ InfraHealthy(o) \/ Spawn(o) \/ Record(o)
    \/ Stop(o) \/ ReadLine(o) \/ Kill(o) \/ RemoveFile(o) \/ KillStrays(o)

FarmNext ==
    \/ AgentExits
    \/ SignalledEnds
    \/ StrangerStarts
    \/ \E o \in Operator : CutShort(o) \/ ScriptStep(o)

FarmSpec == FarmInit /\ [][FarmNext]_farmVars

-----------------------------------------------------------------------------
(* Properties.                                                             *)

\* stop.sh signals a program that is not bento's only when that got its pid after the
\* look at it and before the kill: a pid file that is stale, grows or is removed while it
\* is read, and agents that end and whose pids go round, are not enough.
OnlyLatecomersKilled ==
    \A p \in signalled : process[p] = "stranger" => p \in latecomers

\* The test of start_server.sh suffices to have each agent once, whatever exits, is
\* interrupted or is left out of the pid file, unless a second start began before the
\* first had ended: between its test and its agents nothing holds another one off.
TwiceOnlyByOverlap ==
    ~overlap => \A p, q \in bento_agent_pids : process[p] = process[q] => p = q

\* "aux is MANDATORY: without it tasks sit 'ready' forever".  Whenever aux is down, an
\* operator who keeps running the scripts of Cycle gets it up again.
AuxReturns == []<>(\E p \in Pid : process[p] = "aux")
=============================================================================
