# Verification of ZKProofDemo

TLA+ models, TLC runs and TLAPS proofs for the program in `src/`: a RISC Zero proof, checked on
Ethereum, that a quorum of a Qubic epoch's computors committed to one oracle reply.

## 1. The system

| Component | Source | State it keeps | Operations |
|---|---|---|---|
| zkVM guest | `methods/guest/src/main.rs` | one run's memory: packet, query id, reply, `seen`, `count` | read six frames; check packet, query, reveal; count commits; commit the journal |
| Host | `host/src/main.rs`, `host/src/fixture.rs` | `proof.json`, fixture files | parse and serialize fixtures, `prove`, `verify` |
| Contract | `contracts/QubicQuorumVerifier.sol` | `isAttested`, `attestedQueryId`, events | `attest` |
| Fixture generator | `crypto/tools/gen_fixture.c` | the reply buffer, the order, the commits | option checks, shuffle, signing loop, file, summary |
| C crypto port | `crypto/src/riscv_fourq_verify.c` | hash state, field and curve values | `qubic_k12`, `fourq_verify` |
| Reference crypto | `crypto/src/stock_qubic.c` | the same | `KangarooTwelve`, key generation, `sign`, `getIdentity` |
| Identity encoding, guest build | `methods/guest/identity.rs`, `build.rs` | none | public key to 60 letters and back, the arbitrator's line of `config/deploy.env` |
| Build, deploy, demos | `scripts/*.sh`, `scripts/lib/config.sh` | `config/deploy.env`, binaries, fixtures | build, deploy, attest |
| Bento farm | `scripts/bento/*.sh` | pid file, processes, task database | start, stop, status, cancel |

The generator signs a packet, a query, commits and a reveal with public demo keys and writes a
fixture. The host turns it into six frames; the guest trusts none of them and either panics or
commits a 44-byte journal `epoch | queryId | K12(reply)`. The host exports journal and Groth16 seal
in `proof.json`; anyone sends them to the contract, which asks RISC Zero's router and records the
answer. The farm only computes proofs.

What is hard here: everything the guest reads is hostile and comes in any order and any number; two
quorums must overlap in a correct computor; four sources name the same facts in `proof.json`; the
contract is permissionless and its first write wins; buffers in C are reused between iterations; the
scripts act on shared state (task database, pid file, config file) in several steps that others may
interleave with or that a crash may cut.

### What makes each component correct

| Component | Properties worth stating |
|---|---|
| Guest | a journal exists only for what a quorum of a signed list backs; the verdict depends on the set of good commits and not on their order, repetition or the junk between them; two journals of one query agree; the bytes of the commits frame are read as they are encoded; a repeated key is always found, a computor's index is always its own |
| Host, fixtures | only canonical files are accepted and all genuine ones are; what `to_env` delivers is what the fixture holds; a `proof.json` that `verify` accepts states a backed answer and its fields agree |
| Contract | the storage is a write-once register of backed answers; events tell the storage; one answer per query and epoch |
| Generator | flags spoil exactly the commits they announce, whatever the reused buffer holds |
| Hash | the padded blocks and the tree are KangarooTwelve's at every length; the unrolled permutation is Keccak's |
| Field, curve, signature | reduction and carries are right at the edges of a word, zero with its two representations included; the group formulas are the group's; what `sign` signs `verify` accepts |
| Identity | what the build bakes in is the key whose identity the scripts read; one key has one text |
| Scripts | no job is left half cancelled, and one that should end ends; stopping signals a stranger only when it got its pid between the look at it and the kill, an agent runs once, aux comes back; "VERIFIED" means a contract of the configured guest in spite of crashes, edits and half a build |

## 2. Modules

```
OracleNetwork ----- QuorumGuest ---------- MCQuorumGuest         Words -- Fixture ------\
   |    \              : implements                                   \- CommitsFrame -- HostToGuest --\
   |     \- QuorumStatement                                      PubkeyIndex ----------------------------- MCInput
   |              \- Attestation --------- MCAttestation         Identity ------------------------------/
   |                    : implements
   \- AttestationRegister                  KangarooTwelve -- StockHash ------------------\
                                           KeccakP1600 : implements KeccakReference ------ MCHash
GenFixture -- MCGenFixture                 StockKeccak : implements KeccakReference
                                             \- ShortHash : against KeccakReference ----/

CancelJob ---\
BentoFarm ----- MCOperations
Deployment --/

FieldArith -- FieldChain ----\
   |      \-- ExponentChain --- MCArith
ScalarArith -- ScalarChain --/
   |
FieldArith, ScalarArith -- FourQCurve -- FourQPoint -- FourQMul -- SchnorrQ -- MCSignature
```

**OracleNetwork** is the environment: what the arbitrator, the users and the computors may come to
sign, and `Backed(epoch, query, digest)`, the statement `SPEC.md` and `SECURITY.md` make about a
journal. Those actors run in Qubic core, outside `src/`; they are constrained only by two trust
assumptions: an arbitrator that does not equivocate signs one list per epoch (`ArbitratorSigns`; the
constant `Equivocates` lifts it, since `SECURITY.md` says that nothing proves it), and a computor that is
not Byzantine never commits to two digests of one query (`TxSigned`). K12 is symbolic and free of
collisions; a signature is valid only on what its key signed.

**QuorumStatement** is the abstract promise of a proof: a journal appears only when it is backed.
**QuorumGuest** is `main` of the guest, one action per numbered check and per turn of the commit
loop. Every frame is chosen by a hostile host at the moment the guest looks at it; the guest reads
each one once, so choosing late loses nothing. `pc` names the next check, `seen` and `count` are the
source's, `eligible` is a history variable: the computors that own some commit the loop has read.
A raw transaction is `[parses, tx, genuine]`. `NextRun` starts the guest again on other frames with
fresh memory, so that several journals exist at once.

**Attestation** goes on from a journal: the host's receipts and `proof.json`, `zkq-prove verify`, and
the contract's `attest`. Anybody runs other guests under other image ids (`ForeignProve`), writes any
`proof.json` (`ProofFile`) and sends any calldata; the router may be stopped (`ToggleRouter`). The
branches of `attest` that revert or return change nothing and are no steps. It runs over
**QuorumStatement** in place of the guest, which the guest implements. **AttestationRegister** is what
the chain promises: a write-once map from (digest, epoch) to a query.

**Fixture** is `Fixture::parse`, one action per field read, over files of bytes, with `serialize` and
`commits_frame` as operators. **CommitsFrame** is the same bytes in the guest: the walk of the loop
with a `usize` of the word's own width, whose sums wrap as in a release build. Both use **Words**, the
little-endian u32. **HostToGuest** composes them: files that are damaged on disk, parsed and handed
over by `to_env` (`Deliver`), and frames that never were a file. **PubkeyIndex** is
`reject_duplicate_pubkeys` and `find_computor`: any sort order of equal keys, and any probe a binary
search may choose. **Identity** is `config/deploy.env` and its two readers: the loop of
`scripts/lib/config.sh`, a line a step, and the guest's build, with `pubkey_to_identity`,
`identity_to_pubkey` and the reference's `getIdentity`. A letter is a number and a line the form by
which the readers tell lines apart; the checksum is any function of the key.

**KangarooTwelve** is the hash of `riscv_fourq_verify.c` over a symbolic permutation: a byte is the
set of tokens XORed into it and a node remembers the blocks it permuted, so equality of final states is
equality of everything that was hashed. Its absorb loop goes lane by lane as the code does: whole rates,
whole lanes, the tail of a lane, and pieces from within one. The uninitialised `queueNode` starts with garbage.
**KeccakP1600** is the unrolled permutation at full width, a lane being its set of one bits;
**KeccakReference** is Keccak-p from its definition.

The generator hashes with the reference's own code, written by other hands. **StockHash** is its
`KangarooTwelve` and `KangarooTwelve_F_Absorb`, with the lanes taken eight, four, two and one at a
time, on the tokens of **KangarooTwelve**. **StockKeccak** is the macro that rounds use in turn on two
banks of lanes, in place; the parities of the next round accumulate while lanes are written. The macro
has no loop: `plane` says which of its five groups of lines comes next. **ShortHash** is
`KangarooTwelve64To32`, a hash of 64 bytes whose first and last rounds leave out by hand what is constant
or not needed. Between them the code has nine rounds written out (lines 1888 to 2436). They were compared
with the tables of **StockKeccak** outside TLC, by a script: round 2 is line by line what `Reads` and
`Rolls` say, and each of the other eight is round 2 with the banks exchanged and its own constant. So
`MiddleRound` takes the tables, and neither a run nor a proof would show a term missing in one of these
lines alone.

**FieldArith** is the arithmetic of `riscv_fourq_verify.c` on pairs of words, the word's size a
constant: every carry, fold and column, and in the precompile's build `take`, which examines what the
host supplied. An element stays in 0 .. p, so that zero has two representations. **FieldChain** strings
these functions together next to exact arithmetic, **ExponentChain** is the addition chain of
`fpexp1251`. **ScalarArith** and **ScalarChain** are the scalars: Montgomery products, the calls
`sign` makes, `decompose`, `wNAF_recode` and the comb recoding of `ecc_mul_fixed`. A scalar is the number
its words hold; where the code carries from word to word with its own conditions, as the comb does
(`AddBit`), so does the model; shifts, and additions made of carry instructions, are those of the number. **FourQPoint** has the
coordinate systems and their formulas, normalisation, validation, `encode` and `decode`; **FourQCurve**
is the affine group they are compared with. **FourQMul** runs `ecc_mul_double` and `ecc_mul_fixed`
digit by digit. **SchnorrQ** is key generation, `sign` of `stock_qubic.c` and `verify` of the port, with
a hash that answers any scalar.

**GenFixture** is `gen_fixture.c`: option checks, shuffle, the signing loop over one reused reply
buffer, the summary. **CancelJob** is `cancel_job.sh`: two UPDATE statements, the agents that move
tasks between them, and the clock `updated_at` is compared with. `Habits` are the ways an operator uses the
script: by ids, or `all-stale` again and again. The second statement may fail, and `set -e` then leaves
the first done.

**BentoFarm** is `start_server.sh` and `stop.sh`, one action per command that reads or changes the process table
or the pid file, run by operators who do not wait for each other. `script[o]` is where operator o's
script is; `held` are the lines of a pid file that was removed under its reader. The agents may exit, a
signalled process ends later, a freed pid goes to a stranger or to a new agent, scripts are cut short. All
this may also happen between the two lines of `stop.sh` that look at a pid and kill it (9-10 and 11);
`latecomers` remembers the strangers that came just then.

**Deployment** is one checkout: the file, the two binaries, the chain, and `build.sh`,
`check_config.sh`, `deploy_verifier.sh` and `demo_quorum_ok.sh`, which share one script counter because
they call each other. A guest is its arbitrator, and so is its image. The operator may edit the file
between any two commands, and any script may be cut short, also between two binaries of one build.

## 3. Runs

| Run | Instance | What it checks |
|---|---|---|
| `agreement` | 4 computors, quorum 3, 1 Byzantine, 2 replies, 4 commits per frame | `CountedExactly`, `QuorumDecides`, `Agreement` |
| `hostile_frames` | 3 computors, quorum 2, 4 packets (two of them bad), a commit per missing condition, 2 queries | `JournalSound`, `ImplementsStatement` |
| `attestation` | 2 computors, quorum 2, 3 journals, 2 receipt kinds, every `proof.json` | the contract's and host's properties, `ImplementsRegister` |
| `host_to_guest` | words of 2 digits below 4; fixtures with up to 4 commits, every cut, extension and changed byte; all frames of up to 6 bytes; all lists of 4 keys out of 5; all texts of 8 letters of 3, files of two lines of six forms | `ParseInvertsSerialize`, `GuestSeesTheFixture`, `WalkIsExact`, `RepeatedKeysPanic`, `FindsTheComputor`, `BuildAndScriptsAgree` |
| `hash` | the real rate 168, capacity 32, chunk 8192; lengths 0..337, around 1 to 4 chunks, and around the first rate of a leaf; absorbing from every position; 30 states for each permutation | `HashIsK12`, `StockHashIsK12`, `AbsorbIsBytewise`, `ShortIsGeneral`, `ImplementsKeccak`, `StockImplementsKeccak`, `KnownAnswer` |
| `gen_fixture` | 4 computors, all combinations of flags, base 2 | `GoodProofsIntact`, `FlagsSpoilTheTail` |
| `operations` | 2 jobs, 3 tasks, both habits; 2 operators, 2 agents, 7 pids, 1 fault; 2 arbitrators, 2 mishaps | `ByIdFailsJobsWithTasks`, `JobsEnd`; `OnlyLatecomersKilled`, `TwiceOnlyByOverlap`, `FarmRecovers`; `DeployedIsCurrent`, `DeployedDemoAttests`, `DeploymentSettles` |
| `arith` | words of 3 bits, p = 31, order 509, scalars of 12 bits | `AccIsExact`, `PowerIsInverse`, `SignatureScalarExact`, `TakenApartExactly` |
| `signature` | words of 2 bits, p = 7, a curve of 52 points with a subgroup of order 13 | `MultipliesInTheGroup`, `SignedVerifies`, `NoTwin`, `NoUniversalSignature` |
| `printed_good`, `cancel_stale_once`, `demo_stale` | as above | violated: see section 6 |

Why the bounds are enough. In `agreement` two quorums of three among four overlap in two computors, one
of them correct, and the frame has room for a duplicate besides a quorum. In `hostile_frames` each bad
commit differs from a good one in one condition, so that a dropped check lets exactly it through; two
lists in one epoch's place exchange two computors, so that a copied knowledge proof is good for one of
them only. In `host_to_guest` a modulus of 16 against frames of 6 bytes makes more than half of all
lengths run past the end and a quarter wrap. In `hash` the message meets each boundary (lane, rate,
chunk, number of leaves) at, one before and one after; the base of the length encoding is scaled to 3,
since otherwise 256 leaves would be needed for a second digit. A fragment of an identity is three letters
of three, 27 values against a modulus of 16, as 26^14 exceeds 2^64; the files are every text alone on a
line and every pair of lines with an identity, another, and a text that decodes to the first one's key.

`operations` puts the three parts side by side, one of them moving in each behaviour: they share no
state. Of the farm there are two agents, aux and another (with `rest_api`, which `start_server.sh` does
not look for, each start after a cut stop would add a process). One operator stops and
starts the farm for ever, the other does either once, at any time; one fault suffices for each way a
script can find what another one left: an agent that exits, alone or under the hand of `stop.sh`, where
its pid may be given anew at once, a pid of the file given to another, a script cut short. Seven pids are
enough for two starts that overlap beside what the last stop has not ended yet. In the checkout two
mishaps allow an edit during a script and a crash after it; a contract is a place in the list of deployments, which only mishaps and `Clear` let grow.

In `arith` every value of a coordinate, 0 and p among them, meets every edge of a word in the other, in
chains of any length; the scalars are all of those of 12 bits against an order of 9 bits, so that they are
reduced and not reduced, odd and even, and fill four words of 3 bits, so that the comb's bit is carried
from word to word. In `signature` the curve with d = 2 + i over 49 elements keeps
what the formulas need: p = 2^3 - 1 is of the form the reduction uses, d is no square, the cofactor 4
divides the 392 that `cofactor_clearing` multiplies by, and 5 is an endomorphism's multiplier. All
scalars of 6 bits, each against the edges of the other, all points, points off the curve, all encodings with their aliases of zero, and all
private keys, multiples of the order included, occur. Two endomorphisms take the place of four, and
tables have as many groups and digits as 6 bits need. The precompile's products are used there and the
words' in `arith`, so that both builds run.

Deadlock is checked except where a call returns (`hash`, `host_to_guest`, `arith`, `signature`).

Fairness, stated in `MCOperations` for the liveness of each part:

* `JobsEnd`: the clock ticks, `psql` runs or fails once started (weak fairness), and the operator runs
  `cancel_job.sh` again and again for each argument of his habit (strong fairness, as other runs may
  come between). The agents are under no fairness: they may never move a task.
* `FarmRecovers`: each operator's script goes on (weak fairness), and a process with a signal ends at last
  (strong fairness: it may be under the hand of a `stop.sh` meanwhile). Nothing makes an agent start but
  `start_server.sh`, nobody watches it; the property is about an operator who repeats stop and start.
* `DeploymentSettles`: a script that runs takes its next step (weak fairness); the operator wants the contract and
  runs `deploy_verifier.sh` again and again, whatever he runs in between, and clears `VERIFIER=`
  when exit 2 told him to (strong fairness). Edits and cuts are bounded by `MaxMishaps`.

## 4. Proofs

Proved with TLAPS, for all values of the constants under the named assumptions of the modules
(`ASSUME`, evaluated by TLC on the runs' instances). A property is seldom inductive, since most of them
look at a component when it has finished; each invariant adds what holds on the way there.

* **OracleNetwork_proofs**: the signed sets only grow, so backing is never lost; two quorums share at
  least `2 * Quorum - N` indices (`QuorumOverlap`); hence, if fewer computors than that are Byzantine
  (`FewByzantine`; 226 with 451 of 676) and the arbitrator signs one list for the epoch (`~ Equivocates`),
  two backed answers of one query and epoch are equal (`QuorumsAgree`). `NoTwoAnswers` and
  `NoTwoAttestedAnswers` have both conditions; everything else below holds of an arbitrator that signs
  several lists as well. (`hostile_frames` has one list per epoch; with `Equivocates` TRUE it passes too, in
  three times the time.)
* **QuorumGuest_proofs**: type correctness, `CountIsExact`, `QuorumRules`, `Soundness`, `NoTwoAnswers`,
  and `Refinement` (the guest implements `QuorumStatement`). `JournalSound` is not inductive: the loop
  has forgotten the packet, query and reveal when the journal is written. `IInv` says what each passed
  check left behind: from `pc = "query"` on the list is that of a signed packet of the epoch, from
  `"reveal"` on the query was asked, in the loop the reveal exists and every index in `seen` has a
  commit. Each check turns a guess of the host into such a fact; `JournalBacked` collects them.
* **Attestation_proofs**: type correctness, `OnlyBackedIsAttested`, `EventsTellStorage` (one event per
  attested pair, with the query id in storage; no run repeats it), `NoTwoAttestedAnswers`,
  `AcceptedFileIsGood` (what `zkq-prove verify` accepts is backed), and `ContractIsRegister`: the chain
  implements `AttestationRegister`, step by step. `attest` looks at a seal and not at the network: the
  invariant carries the evidence from journals over receipts of our image to the storage.
* **Input_proofs**: the way of a fixture into the guest, at every width of the length fields.
  `ParseIsExact`: a file is accepted exactly when `serialize` writes it. The first half needs `ParseInv`,
  which looks back (what is behind the parser is what `serialize` writes of the fields held), the other
  half `GenuineInv`, which looks ahead (what is left of a genuine file is the rest of its fixture).
  `WalkFollowsTheFrame` says the same of the guest's loop, whose offsets wrap; `FixtureReachesTheGuest`
  joins both by `to_env`'s frame. They rest on what digits are (`Number` and `Word` undo each other) and
  on an induction along `Packed` and `Decoded`. A frame that does not fit memory (`FitsMemory`) cannot
  exist in the guest, and a walk over one could wrap: that is a condition of the properties.
* **Input_proofs**, the computors' keys: `DuplicatesPanic` and `SearchIsExact`. Comparing neighbours is
  enough only because the order is sorted (`NeighboursSuffice`), and the search is exact only because
  that check made the order strict; `IndexInv` adds that what lies left of `lo` is smaller than the key
  and what lies right of `hi` larger.
* **Input_proofs**, the arbitrator: `ReadersAgree`. `PrintedIs` shows that the reference, which counts
  its letters, and the guest's build, which appends them, write the same; `KeyBack` that multiplying the
  letters of a fragment together gives the fragment again, and never passes 64 bits on the way.
  `IdentityInv` says what each reader has made of the file so far: the script holds what every line it
  has read says, so that the first line, which the build takes, is one of them.
* **Operations_proofs**: `CancelledByIdFails`, `OnlyLatecomersAreKilled`, `AgentsRunOnce`, `VerifiedIsCurrent`,
  `VerifiedDemoAttests`, for any number of jobs, tasks, operators, pids and arbitrators, and any number of
  failures, faults and mishaps. `CancelInv` knows the job that the second statement is about to fail.
  `FarmInv` knows what may be at a pid between the look at it and the signal (an agent, nothing any more, or
  one that came since), that whatever is signalled runs, and that without overlap a single start has spawned every agent, in the order of its list. `DeploymentInv` knows at every command of four
  scripts that call each other whose arbitrator each binary, image and contract has.
* **GenFixture_proofs**: `ProofsStayIntact` and `SparedAreCounted`. The properties look at the list of
  commits only; `IInv` adds that the shuffle loses no computor, and that the n-th commit is the one
  the loop makes for n, whatever the reused buffer held before.
* **Arithmetic_proofs**, the field: each linear function keeps 0 .. p and is exact modulo p at every word size:
  `AddExact`, `SubExact`, `NegExact`, `ReduceExact`, `HalveExact`. `HostHasNoChoice`: of all results
  congruent to a product, `take` lets exactly one pass. The quotient and remainder of each fold are
  guessed and shown to be the only ones (`Unique`), which keeps the modulus symbolic. `MulWordsExact`
  follows the four word products through their columns to the fold and shows that none exceeds 128 bits;
  `MulExact` joins both builds; `ChainIsExact` is the invariant `AccIsExact` of every chain of operations
  but the inversion. `ExponentIsRight`: the chain of squarings and products that inverts raises to p - 2,
  for every length of the chain; that this is the inverse rests on p being prime.
* **Arithmetic_proofs**, the scalars: `MontgomeryExact` (one subtraction is enough, no carry comes out of the last
  word) and `SignatureScalar`: what `sign` leaves in the signature is r - k * h, reduced. A Montgomery
  product divides by R; `ScalarInv` says after each of the nine calls which product the registers hold and
  how many factors R it has.
* **Arithmetic_proofs**, the recodings: `RecodingLosesNothing` and `CombLosesNothing`, two of the three parts
  of `TakenApartExactly`. The digits of
  `wNAF_recode` add up to every word at every width: those of a word are the digits of a smaller one
  behind one or `w` more (`WordsRecoded`, by well-founded induction over the word), and a carry out of the
  top needs the one place more that the array of 65 has. The comb takes a bit of the half scalar with every
  digit and, under a negative sign, a bit less (`RemainingIs`; `AddBitExact` follows the bit's carry from
  word to word, at every number of words and every word size); what a row's columns add up to is the odd
  scalar but for what is left after the row (`RowsSum`), and nothing is left after the last
  (`NothingRemains`), as the comb has two bits more than the order.

* **Keccak_proofs**: `Permutes` (the unrolled rounds of the port are Keccak-p), `StockPermutes` (so are those
  of the reference, whose lanes lie elsewhere between the rounds) and `ShortHashIsGeneral` (the two one-block
  hashes are the general one), of all states of 1600 bits and all messages; TLC runs a few. The reference
  is written from the definition of Keccak and not from a table. The table lemmas evaluate it: the shift
  register gives the round constants, the walk over the lanes the rotations and `pi` the places; then a
  round is compared lane by lane. `PermInv` and `StockInv` say that the state between two rounds is that
  of the definition, moved to the lanes the unrolled code has it in.

* **Keccak_proofs**, the tree: `HashesAsDefined`. The port's `KangarooTwelve` gives the blocks of the
  definition at every length, for every rate, chunk, capacity and base of `K12Assumption`. Lanes XORed one
  by one are a run of bytes (`LanesAreRun`), and so are the pieces that start within a lane
  (`LanesFromRun`, whose rank falls in every turn); so one turn of the absorb loop takes bytes as byte after
  byte would (`TurnOf`), it brings the end nearer (`AbsorbNearer`: after the first turn the node is empty or
  all is taken, after the second less than a rate is left), and the whole loop absorbs its data
  (`AbsorbOnto`), so that a node is a function of the string that went into it, however it was cut into
  calls. A suffix and the last rate bit then make a node the sponge of its string; the chaining values in a
  row and `encbuf` make the string of the final node the tree's. `HashInv` says which string that is
  between two steps: the first chunk and the leaves before `blockNumber`, with `pos`, `queueAbsorbedLen`
  and `queue` in step. `HashIsK12` alone is not inductive, it speaks of the end.

* **Keccak_proofs**, the reference's tree: `AbsorbsBytewise` and `StockHashesAsDefined`. A node after a call
  is, for either program's loop, what byte after byte would make of it, from every node with any data in it:
  the reference's loops for 8, 4, 2 and 1 lanes cover all lanes there are (`AllLanesDone`), so that its turn
  is the port's (`SameTurn`) and what was shown of that one carries over (`StockOnto`).
  The loop over the leaves is followed turn by turn (`LoopAt`); its end, with the zero in the open leaf, in a
  leaf it fills or in one of its own (`AtEnd`), closes over the same string as the port's. Both hashes are
  therefore the definition's, and each other, of every message, where the run compares some 370 lengths.

What the proofs assume of the constants is what the code fixes: an odd order below R / 2 with its
Montgomery constants (`ScalarAssumption`), a fragment that its letters can hold (`IdentityAssumption`),
scalars of whole words (`LimbAssumption`), fixtures whose lengths fit their fields (`HostAssumption`), agents with different names, aux among them
(`FarmAssumption`), a job with tasks (`CancelAssumption`), a chunk of whole lanes that ends within a rate so
that the lane after it fits (`K12Assumption`; 8192 bytes end 128 into a rate of 168), a comb two bits wider
than the order (`CombAssumption`; 250 bits for an order of 246), and so on. `PowersAssumption`, the last
line of `CombAssumption` and the last two of `LimbAssumption` tell the prover what `^` is, which it does not know. Five models
were changed where a proof could not go on: `RemoveFile` and `Verdict` had a CASE whose conditions
overlapped, they are in the order of the script now; the loops of both hashes were RECURSIVE operators, they
are written turn by turn now (`Loop`); `wNAF` has IF for CASE, and the columns of
`CombExact` are a function of functions, the forms of a recursive function that the prover reads.

Recursive definitions. The library's induction theorems take operators and cannot be instantiated.
`UpTo` (induction over 0 .. n), `Recursion` (a recursive function exists) and `OneSolution` (only
one) are proved from well-foundedness, over sets and functions in place of operators. What the proofs need of
`Number`, `Packed`, `Digits`, `KeyOf` or `FlattenSeq`, of the register and the walk of Keccak, of the turns of
a loop, of the digits of `encbuf` and of the recodings, of the comb's columns and sums follows from them.

Only model-checked:

* `KnownAnswer`: two digests, by evaluation;
* of `TakenApartExactly` the part about `decompose`: a fact about one order and one basis;
* points, multiplications and signatures: facts about one curve;
* `JobsEnd`, `FarmRecovers`, `DeploymentSettles`: liveness is out of the prover's reach.

What the proofs trust: the zkVM and the router are sound, K12 has no collisions, signatures cannot be
forged, the arbitrator signs one list per epoch (where agreement is claimed), frames are shorter than 2^32 bytes.

## 5. Plan

1. (done) Network, guest, statement, contract, register; generator and job cancellation; hash; fixture
   format, walk and index; the proofs above.
2. (done) Field, scalars, points, multiplications, SchnorrQ; the field proofs.
3. (done) `StockHash`, `ShortHash`, `StockKeccak`; `BentoFarm`, `Deployment`, composed with `CancelJob`;
   `Identity`.
4. The field of `stock_qubic.c`, whose carries are written otherwise, against the port's; seed files
   and the byte layout of a fixture in the generator; the Keccak of `identity.rs`.
5. Proofs: (done) the register's refinement, the generator, the input, the scripts, the scalar of a
   signature, both hashes down to the lane, the field, `wNAF_recode` and the comb. Next: `decompose`, from
   an assumption on its basis, and the curve.

Related questions share a run side by side, as in `host_to_guest`, `hash`, `operations`, `arith` and
`signature`.

## 6. Findings and divergences

* `cancel_job.sh all-stale` cancels the tasks of a stale job and leaves the job running: the first
  UPDATE refreshes the `updated_at` that the second one tests (run `cancel_stale_once`). A later run
  ends it (`JobsEnd`).
* The generator's summary prints too few good commits when `--bad-commits` and `--wrong-digest` are
  combined: both are cut from the tail and overlap (run `printed_good`).
* `demo_quorum_ok.sh` says "build -> ... -> prove" and builds only when `zkq-prove` does not exist, and
  `check_config.sh` rebuilds `image_id` but not `zkq-prove`: after an edit of the arbitrator it prints
  "config OK" and the demo proves with the old guest (run `demo_stale`). After `deploy_verifier.sh`, which
  builds everything, this cannot happen (`DeployedDemoAttests`).
* Between the lines of `stop.sh` that look at a pid (9-10) and the one that kills it (11), the agent may end
  and its pid go to another program, which is then signalled. `OnlyLatecomersKilled` says that this is the
  only way a program that is not bento's is.
* Two starts that overlap give each agent twice (`TwiceOnlyByOverlap` says that nothing else does).
  `docs/BENTO.md:75` advises "Restart via `start_server.sh`" when there is no aux agent; while other agents
  run, lines 13-17 refuse, so that `stop.sh` must come first.
* A `config/deploy.env` whose last line has no newline hides that line from `scripts/lib/config.sh`
  (`while read`), but not from the guest's build. When it is the arbitrator's and another identity is exported, the
  scripts go by the exported one although line 7 says "The FILE is the truth"; `check_config.sh` then fails
  on the built guest. `BuildAndScriptsAgree` leaves this case out by its condition.
* Read, not run: `scripts/lib/config.sh:1` says that variables already set win, lines 15-19 exit when
  they differ; `SPEC.md` bounds the reply to 1..1008 bytes, which the guest does not test;
  `config/deploy.env:11` speaks of a `setImageId` the contract does not have; the knowledge proof of a
  wrong-digest commit is hashed over a buffer in which an earlier good commit wrote its index over the
  wrong reply's last byte, although the commit is refused for its digest all the same;
  `ecc_point_validate` takes 0 and all ones for zero but not p, and may refuse a point for that.

## 7. Not modelled

Constant data (curve tables, seeds, compose files), test drivers, argument parsing, printing and file
access. `stock_qubic.c` is built with `GENERIC_K12`, so that its AVX-512 branches are dead code.
The formulas of the endomorphisms (`ecc_tau`, `ecc_phi`, `ecc_psi` and their helpers) have constants
that exist for the real p only; they enter `FourQMul` as the multipliers they amount to on the
subgroup. At the real field's size nothing is computed: what holds there is what is proved, and the
tables and the constants of `decompose` are not checked.

The generator's checks of the epoch, the ticks, the message's length and missing arguments are one flag
of the options (`othersInRange`). A round of the port's Keccak is one action whose parities are those of
its new lanes, so that an assignment out of order within the macro would not be seen there; in the
reference's macro it would. `ecc_point_validate` is compared on reduced coordinates; that a coordinate p is
refused is what section 6 reports as read.

Of `stock_qubic.c`: `random`, `getSharedKey`, `getPublicKeyFromIdentity` and its own `verify`, which nothing
here calls, and the scalar variants of macros and AVX branches that this build does not select.
Of the scripts: `e2e.sh` and `demo_quorum_fail.sh`, which string together commands that are modelled;
`status.sh`, which only reads; `start_gpu_worker.sh`, which starts agents on another host; the checks
of RPC, router, signer and farm, which change nothing; mainnet prompts and `DRY_RUN`; `docker compose
down`. The identity's letters besides the
arbitrator's line, and `identity.rs`' own copy of the hash, are left out.
