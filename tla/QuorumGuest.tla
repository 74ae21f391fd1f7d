----------------------------- MODULE QuorumGuest -----------------------------
(***************************************************************************)
(* The zkVM guest (methods/guest/src/main.rs): `main` as a state machine,  *)
(* one action per numbered check and per iteration of the commit loop.     *)
(*                                                                         *)
(* Every frame comes from the untrusted host.  The guest reads each frame  *)
(* once and keeps what later steps need, so a frame is chosen in the       *)
(* action that checks it.  A raw transaction is [parses, tx, genuine]:     *)
(* whether its length fits its header, its fields, and whether it carries  *)
(* a valid signature, which the host can have only for a signed one.       *)
(***************************************************************************)
EXTENDS OracleNetwork

CONSTANTS
    MaxCommits,    \* bound on n, the number of entries of the commits frame
    None           \* what a variable holds before the run sets it

ASSUME GuestAssumption == MaxCommits \in Nat

VARIABLES
    pc,          \* the check that comes next, or how the run ended
    epoch,       \* of the checked packet
    pubkeys,     \* its list, indexed by computor
    query_id,
    reply,
    left,        \* iterations of the commit loop still to run
    seen,        \* computor indices counted
    count,
    eligible,    \* history: computors that own some commit the loop has read
    journals     \* journals committed by finished runs

runVars == <<epoch, pubkeys, query_id, reply, left, seen, count, eligible>>
vars == <<signedPackets, signedTxs, journals, pc, runVars>>

Raw == [parses : BOOLEAN, tx : Signable, genuine : BOOLEAN]

Ended == {"panicked", "no_quorum", "done"}

\* A run holds nothing of the one before: the guest starts from fresh memory.
Fresh ==
    /\ epoch = 0 /\ pubkeys = None /\ query_id = None /\ reply = None
    /\ left = 0 /\ seen = {} /\ count = 0 /\ eligible = {}

Forget ==
    /\ epoch' = 0 /\ pubkeys' = None /\ query_id' = None /\ reply' = None
    /\ left' = 0 /\ seen' = {} /\ count' = 0 /\ eligible' = {}

Init ==
    /\ NetInit
    /\ journals = {}
    /\ pc = "idle"
    /\ Fresh

\* Any failed assertion: no journal, no proof, the memory is gone.
Panic == pc' = "panicked" /\ Forget /\ UNCHANGED <<netVars, journals>>

Presentable(raw) == raw.genuine => raw.tx \in signedTxs

-----------------------------------------------------------------------------
\* read_frame x 6, the packet length and the queryId length.
ReadFrames(q, r, wellFormed) ==
    /\ pc = "idle"
    /\ IF wellFormed
       THEN /\ pc' = "packet"
            /\ query_id' = q
            /\ reply' = r
            /\ UNCHANGED <<epoch, pubkeys, left, seen, count, eligible, journals, netVars>>
       ELSE Panic

\* 1. Arbitrator-signed list, epoch != 0, distinct pubkeys.
PacketAccepted(p, genuine) ==
    /\ genuine
    /\ p.epoch # 0
    /\ Injective(p.pubkeys)

CheckPacket(p, genuine) ==
    /\ pc = "packet"
    /\ genuine => p \in signedPackets
    /\ IF PacketAccepted(p, genuine)
       THEN /\ pc' = "query"
            /\ epoch' = p.epoch
            /\ pubkeys' = p.pubkeys
            /\ UNCHANGED <<query_id, reply, left, seen, count, eligible, journals, netVars>>
       ELSE Panic

\* 2. Query transaction.
QueryAccepted(raw) ==
    /\ raw.parses
    /\ raw.tx.input_type = QUERY_INPUT_TYPE
    /\ raw.tx.dest_is_zero
    /\ raw.genuine
    /\ raw.tx.tick = QueryTick(query_id)

CheckQuery(raw) ==
    /\ pc = "query"
    /\ Presentable(raw)
    /\ IF QueryAccepted(raw)
       THEN pc' = "reveal" /\ UNCHANGED <<runVars, journals, netVars>>
       ELSE Panic

\* find_computor: the index of a key in the (duplicate free) list.
FindComputor(key) == {i \in Index : pubkeys[i] = key}

\* Mutant: anybody may reveal.
RevealByAnyone(raw) ==
    /\ raw.parses
    /\ raw.tx.input_type = REVEAL_INPUT_TYPE
    /\ raw.tx.dest_is_zero
    /\ raw.tx.amount = 0
    /\ raw.genuine
    /\ raw.tx.input.body = <<query_id, reply>>

\* 3. Reveal transaction.
RevealAccepted(raw) ==
    /\ raw.parses
    /\ raw.tx.input_type = REVEAL_INPUT_TYPE
    /\ raw.tx.dest_is_zero
    /\ raw.tx.amount = 0
    /\ FindComputor(raw.tx.source) # {}
    /\ raw.genuine
    /\ raw.tx.input.body = <<query_id, reply>>

\* The loop over the commits frame starts here; n is the frame's own count.
CheckReveal(raw, n) ==
    /\ pc = "reveal"
    /\ Presentable(raw)
    /\ IF RevealAccepted(raw)
       THEN /\ pc' = "commits"
            /\ left' = n
            /\ UNCHANGED <<epoch, pubkeys, query_id, reply, seen, count, eligible, journals, netVars>>
       ELSE Panic

\* Mutant: the knowledge proof may be anybody's.
EligibleCopied(raw, i) ==
    /\ raw.parses
    /\ raw.tx.input_type = COMMIT_INPUT_TYPE
    /\ raw.tx.dest_is_zero
    /\ raw.tx.amount = 0
    /\ raw.tx.tick > QueryTick(query_id)
    /\ i \in FindComputor(raw.tx.source)
    /\ \E k \in Index :
           CommitItem(query_id, K12(reply), KnowledgeProof(reply, k)) \in raw.tx.input.items
    /\ raw.genuine

\* 4. check_commit, but for the test of `seen`: the commit is one of computor i.
Eligible(raw, i) ==
    /\ raw.parses
    /\ raw.tx.input_type = COMMIT_INPUT_TYPE
    /\ raw.tx.dest_is_zero
    /\ raw.tx.amount = 0
    /\ raw.tx.tick > QueryTick(query_id)
    /\ i \in FindComputor(raw.tx.source)
    /\ CommitItem(query_id, K12(reply), KnowledgeProof(reply, i)) \in raw.tx.input.items
    /\ raw.genuine

\* Mutant: a computor may be counted again.
CountsTwice(raw, i) == Eligible(raw, i)

\* check_commit(raw) = Some(i)
Counts(raw, i) == Eligible(raw, i) /\ i \notin seen

\* Mutants: the break comes one commit too early, one too late.
AfterCountEarly(c) == IF c + 1 >= Quorum THEN "journal" ELSE "commits"
\* The loop breaks as soon as the quorum is reached.
AfterCount(c) == IF c >= Quorum THEN "journal" ELSE "commits"

\* One iteration of the loop.
ReadCommit(raw) ==
    /\ pc = "commits"
    /\ left > 0
    /\ Presentable(raw)
    /\ left' = left - 1
    /\ eligible' = eligible \cup {i \in Index : Eligible(raw, i)}
    /\ \/ \E i \in Index :
            /\ Counts(raw, i)
            /\ seen' = seen \cup {i}
            /\ count' = count + 1
            /\ pc' = AfterCount(count + 1)
       \/ /\ \A i \in Index : ~ Counts(raw, i)
          /\ UNCHANGED <<seen, count, pc>>
    /\ UNCHANGED <<epoch, pubkeys, query_id, reply, journals, netVars>>

\* The frame ends inside an entry.
TruncatedCommits ==
    /\ pc = "commits"
    /\ left > 0
    /\ Panic

\* The loop ran out of entries below the quorum.
EndCommits ==
    /\ pc = "commits"
    /\ left = 0
    /\ pc' = "no_quorum"
    /\ UNCHANGED <<runVars, journals, netVars>>

CommitJournal ==
    /\ pc = "journal"
    /\ journals' = journals \cup
           {[epoch |-> epoch, query |-> query_id, digest |-> K12(reply)]}
    /\ pc' = "done"
    /\ UNCHANGED <<runVars, netVars>>

\* The host runs the guest again on another fixture.
NextRun ==
    /\ pc \in Ended
    /\ pc' = "idle"
    /\ Forget
    /\ UNCHANGED <<journals, netVars>>

Next ==
    \/ NetNext /\ UNCHANGED <<journals, pc, runVars>>
    \/ \E q \in QueryId, r \in Reply, ok \in BOOLEAN : ReadFrames(q, r, ok)
    \/ \E p \in Packet, g \in BOOLEAN : CheckPacket(p, g)
    \/ \E raw \in Raw : CheckQuery(raw)
    \/ \E raw \in Raw, n \in 0 .. MaxCommits : CheckReveal(raw, n)
    \/ \E raw \in Raw : ReadCommit(raw)
    \/ TruncatedCommits
    \/ EndCommits
    \/ CommitJournal
    \/ NextRun

Spec == Init /\ [][Next]_vars

-----------------------------------------------------------------------------
TypeOK ==
    /\ signedPackets \subseteq Packet
    /\ signedTxs \subseteq Signable
    /\ pc \in {"idle", "packet", "query", "reveal", "commits", "journal"} \cup Ended
    /\ epoch \in Nat
    /\ pubkeys \in [Index -> Key] \cup {None}
    /\ query_id \in QueryId \cup {None}
    /\ reply \in Reply \cup {None}
    /\ left \in 0 .. MaxCommits
    /\ seen \subseteq Index
    /\ count \in 0 .. Quorum
    /\ eligible \subseteq Index
    /\ journals \subseteq [epoch : Nat, query : QueryId, digest : {K12(r) : r \in Reply}]

InLoop == pc \in {"commits", "journal", "no_quorum", "done"}

\* The verdict depends only on which commits the loop read, never on their order,
\* on repetitions, or on forged, late or foreign ones in between (check_commit reports
\* an index, and main marks it in `seen`, only after the last check): the counted
\* computors are exactly those that own a good commit among the ones read.
CountedExactly ==
    InLoop => seen = eligible /\ count = Cardinality(seen)

\* A run fails for want of a quorum only if fewer than Quorum computors own a good
\* commit in the frame, and commits a journal only if Quorum do (the break, and the
\* final `count < QUORUM`).
QuorumDecides ==
    /\ pc = "no_quorum" => Cardinality(eligible) < Quorum
    /\ pc \in {"journal", "done"} => Cardinality(eligible) = Quorum

\* SECURITY.md, "What a valid proof states": behind every committed journal there are
\* a signed duplicate-free list of its epoch, the query, a reveal by a list member
\* and commits of at least Quorum distinct computors to this digest for this query,
\* each later than the query and each with the knowledge proof of its own index; this
\* also of an arbitrator that equivocates.
JournalSound == \A j \in journals : Backed(j.epoch, j.query, j.digest)

\* No two proofs give one query two answers in one epoch, as long as fewer than
\* 2 * Quorum - N computors are Byzantine and the arbitrator signs one list for it (the
\* constant Equivocates is FALSE): the quorums of main's count overlap in a correct
\* computor of that list.
Agreement ==
    \A j, k \in journals :
        j.epoch = k.epoch /\ j.query = k.query => j.digest = k.digest

\* The guest implements the promise of QuorumStatement: the only step that adds a
\* journal is one the statement allows, every other is a stutter.
Statement == INSTANCE QuorumStatement
ImplementsStatement == Statement!StSpec
=============================================================================
