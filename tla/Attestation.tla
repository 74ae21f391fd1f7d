----------------------------- MODULE Attestation -----------------------------
(***************************************************************************)
(* From a journal to the chain: the host's `zkq-prove` (host/src/main.rs), *)
(* its proof.json, and the contract contracts/QubicQuorumVerifier.sol.     *)
(*                                                                         *)
(* The zkVM and the RiscZeroVerifierRouter are external and taken as       *)
(* sound: a receipt of a real kind exists for our image only for a journal *)
(* the guest committed, and the router accepts the Groth16 seals of such   *)
(* receipts.  Everything else is adversarial: anyone may run another guest *)
(* under another image id, write any proof.json, and send any calldata;    *)
(* the router may be stopped by its owners at any time.                    *)
(***************************************************************************)
EXTENDS QuorumStatement, Sequences

CONSTANTS
    Calldata,      \* journals anybody may put in a file or in calldata, of 44 bytes
    RealKind       \* kinds of receipt the prover makes: composite, succinct, groth16

VARIABLES
    receipts,         \* receipts of a real kind that exist
    routerStopped,    \* the router's emergency stop
    isAttested,       \* set of <<digest, epoch>>
    attestedQueryId,  \* query id per <<digest, epoch>>; 0 is Solidity's default
    events            \* QuorumAttested events, in order

chainVars == <<isAttested, attestedQueryId, events>>
vars == <<signedPackets, signedTxs, journals, receipts, routerStopped, chainVars>>

Image == {"IMAGE_ID", "foreign"}
Receipt == [image : Image, journal : Calldata, kind : RealKind \cup {"fake"}]

Digest == {K12(r) : r \in Reply}
Pair == {<<j.digest, j.epoch>> : j \in Calldata}

NoSeal == [kind |-> "empty"]

\* risc0 encode_seal: Groth16 and dev receipts have an EVM seal, STARK receipts none.
encode_seal(r) ==
    IF r.kind \in {"groth16", "fake"}
    THEN [kind |-> r.kind, image |-> r.image, journal |-> r.journal]
    ELSE NoSeal

Seal == {encode_seal(r) : r \in Receipt}

ASSUME AttestationAssumption ==
    /\ "groth16" \in RealKind
    /\ IsFiniteSet(Calldata)
    /\ Calldata \subseteq [epoch : Nat, query : QueryId, digest : Digest]

Init ==
    /\ StInit
    /\ receipts = {}
    /\ routerStopped = FALSE
    /\ isAttested = {}
    /\ attestedQueryId = [x \in Pair |-> 0]
    /\ events = <<>>

-----------------------------------------------------------------------------
(* The host.                                                               *)

\* `zkq-prove --mode kind`: the guest must have committed the journal.
HostProve(j, kind) ==
    /\ j \in journals
    /\ receipts' = receipts \cup {[image |-> "IMAGE_ID", journal |-> j, kind |-> kind]}
    /\ UNCHANGED <<netVars, journals, routerStopped, chainVars>>

\* Somebody else's guest, say one with another arbitrator, under its own image id.
ForeignProve(j) ==
    /\ receipts' = receipts \cup {[image |-> "foreign", journal |-> j, kind |-> "groth16"]}
    /\ UNCHANGED <<netVars, journals, routerStopped, chainVars>>

\* Receipt::verify(image) in a process with RISC0_DEV_MODE = devMode.
ReceiptVerifies(r, image, devMode) ==
    IF r.kind = "fake" THEN devMode ELSE r \in receipts /\ r.image = image

\* proof.json as `prove` writes it.
ProofOf(r) ==
    [image_id |-> r.image, journal_hex |-> r.journal, seal_hex |-> encode_seal(r),
     receipt_kind |-> r.kind, receipt |-> r]

\* Every proof.json anybody may write.
ProofFile ==
    [image_id : Image, journal_hex : Calldata, seal_hex : Seal,
     receipt_kind : RealKind \cup {"fake"}, receipt : Receipt]

\* Mutant: the seal field is not compared with the receipt.
VerifySealUnchecked(f, allowFake, devMode) ==
    /\ f.image_id = "IMAGE_ID"
    /\ allowFake \/ f.receipt.kind # "fake"
    /\ ReceiptVerifies(f.receipt, "IMAGE_ID", devMode)
    /\ f.journal_hex = f.receipt.journal
    /\ f.receipt_kind = f.receipt.kind

\* `zkq-prove verify`: every field is recomputed from the receipt.
Verify(f, allowFake, devMode) ==
    /\ f.image_id = "IMAGE_ID"
    /\ allowFake \/ f.receipt.kind # "fake"
    /\ ReceiptVerifies(f.receipt, "IMAGE_ID", devMode)
    /\ f.journal_hex = f.receipt.journal
    /\ f.receipt_kind = f.receipt.kind
    /\ f.seal_hex = encode_seal(f.receipt)

-----------------------------------------------------------------------------
(* The chain.                                                              *)

\* IRiscZeroVerifier.verify(seal, imageId, sha256(journal)) does not revert.
RouterAccepts(seal, image, journal) ==
    /\ ~ routerStopped
    /\ seal.kind = "groth16"
    /\ seal.image = image
    /\ seal.journal = journal
    /\ [image |-> image, journal |-> journal, kind |-> "groth16"] \in receipts

\* Mutant: the seal is checked against the image it names.
SealAcceptedForAnyImage(seal, journal) ==
    \E image \in Image : RouterAccepts(seal, image, journal)

\* The call ROUTER.verify(seal, IMAGE_ID, sha256(journal)).
SealAccepted(seal, journal) == RouterAccepts(seal, "IMAGE_ID", journal)

\* Mutant: an attested pair is verified and written again.
AttestAgain(journal, seal) ==
    LET pair == <<journal.digest, journal.epoch>> IN
    /\ journal.epoch # 0
    /\ SealAccepted(seal, journal)
    /\ isAttested' = isAttested \cup {pair}
    /\ attestedQueryId' = [attestedQueryId EXCEPT ![pair] = journal.query]
    /\ events' = IF Len(events) > Cardinality(Pair) THEN events
                 ELSE Append(events, [digest |-> journal.digest, epoch |-> journal.epoch,
                                      queryId |-> journal.query])
    /\ UNCHANGED <<netVars, journals, receipts, routerStopped>>

\* attest(journal, seal) on a 44-byte journal, where it changes the state.  Its other
\* ends do not: BadJournalLength and ZeroEpoch revert, a pair already attested returns
\* before the router is asked, a seal the router refuses reverts.
Attest(journal, seal) ==
    LET pair == <<journal.digest, journal.epoch>> IN
    /\ journal.epoch # 0
    /\ pair \notin isAttested
    /\ SealAccepted(seal, journal)
    /\ isAttested' = isAttested \cup {pair}
    /\ attestedQueryId' = [attestedQueryId EXCEPT ![pair] = journal.query]
    /\ events' = Append(events, [digest |-> journal.digest, epoch |-> journal.epoch,
                                 queryId |-> journal.query])
    /\ UNCHANGED <<netVars, journals, receipts, routerStopped>>

\* The router's owners stop it, or an operator points the name at a live one again.
ToggleRouter ==
    /\ routerStopped' = ~ routerStopped
    /\ UNCHANGED <<netVars, journals, receipts, chainVars>>

Next ==
    \/ StNext /\ UNCHANGED <<receipts, routerStopped, chainVars>>
    \/ \E j \in journals, k \in RealKind : HostProve(j, k)
    \/ \E j \in Calldata : ForeignProve(j)
    \/ \E j \in Calldata, s \in Seal : Attest(j, s)
    \/ ToggleRouter

Spec == Init /\ [][Next]_vars

-----------------------------------------------------------------------------
TypeOK ==
    /\ signedPackets \subseteq Packet
    /\ signedTxs \subseteq Signable
    /\ journals \subseteq Journal
    /\ receipts \subseteq [image : Image, journal : Calldata \cup Journal, kind : RealKind]
    /\ routerStopped \in BOOLEAN
    /\ isAttested \subseteq Pair
    /\ attestedQueryId \in [Pair -> QueryId \cup {0}]
    /\ \A i \in 1 .. Len(events) : <<events[i].digest, events[i].epoch>> \in isAttested

\* The contract's notice: a recorded (digest, epoch) means that a quorum of the signed
\* list of that epoch committed to the digest for the query that attestedQueryId names,
\* whatever calldata, foreign proofs and fake receipts were sent to it.
AttestedIsBacked ==
    \A x \in isAttested : Backed(x[2], attestedQueryId[x], x[1])

\* An indexer that reads only the events knows the storage: one event per attested
\* pair, with the query id that the storage still holds.
EventsMirrorStorage ==
    /\ Len(events) = Cardinality(isAttested)
    /\ \A x \in isAttested : \E i \in 1 .. Len(events) :
           events[i] = [digest |-> x[1], epoch |-> x[2], queryId |-> attestedQueryId[x]]

\* The chain never holds two answers to one query of one epoch while fewer than
\* 2 * Quorum - N computors are Byzantine and the arbitrator signs one list for it (the
\* constant Equivocates is FALSE; SECURITY.md leaves that open).
OneAnswerOnChain ==
    \A x, y \in isAttested :
        x[2] = y[2] /\ attestedQueryId[x] = attestedQueryId[y] => x[1] = y[1]

\* A proof.json that `zkq-prove verify` accepts without --allow-fake, even in a shell
\* with RISC0_DEV_MODE=1, states a backed answer; and if it says groth16, the journal and
\* seal that the demo takes from its fields are ones a running router accepts.
VerifiedProofIsGood ==
    \A f \in ProofFile : Verify(f, FALSE, TRUE) =>
        /\ Backed(f.journal_hex.epoch, f.journal_hex.query, f.journal_hex.digest)
        /\ f.receipt_kind = "groth16" /\ ~ routerStopped => SealAccepted(f.seal_hex, f.journal_hex)

\* The contract implements the write-once register.
Register ==
    INSTANCE AttestationRegister WITH register <- [x \in isAttested |-> attestedQueryId[x]]
ImplementsRegister == Register!RegSpec
=============================================================================
