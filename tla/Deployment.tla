----------------------------- MODULE Deployment -----------------------------
(***************************************************************************)
(* One checkout, one operator: build.sh, check_config.sh,                  *)
(* deploy_verifier.sh and demo_quorum_ok.sh, run one after another, with   *)
(* what they share: the file config/deploy.env, the binaries in            *)
(* target/release, the chain.                                              *)
(*                                                                         *)
(* A guest, and so its IMAGE_ID, is the arbitrator baked into it; a        *)
(* contract is the image it was deployed with, its address its place on    *)
(* the chain, and 0 an empty VERIFIER=.  The operator may edit the file at *)
(* any time and any script may be cut short anywhere.  Proofs are real     *)
(* (RISC0_DEV_MODE=0); router, signer, RPC and farm are in order.          *)
(***************************************************************************)
EXTENDS Integers, SequencesExt

CONSTANTS
    Arbitrator,
    Seeded,      \* the arbitrator whose seed signs fixtures/quorum_ok.bin
    NoGuest,     \* a binary that was never built
    MaxMishaps   \* edits of the file and scripts cut short

ASSUME DeploymentAssumption ==
    Seeded \in Arbitrator /\ NoGuest \notin Arbitrator /\ MaxMishaps \in Nat

VARIABLES
    config,      \* the file: [arb, verifier]
    target,      \* the arbitrator in each binary
    chain,       \* the images of the contracts deployed so far
    run,         \* the script: [name, at, todo, then, guest, addr]
    env,         \* the file as the script has sourced it
    proof,       \* the image of the demo's proof
    outcome,     \* of the last script
    edited,      \* (history) the file was edited since the script began
    checked,     \* (history) "config OK", and nothing edited since
    deployed,    \* (history) "VERIFIED", and nothing edited since
    mishaps

history == <<edited, checked, deployed, mishaps>>

deployVars == <<config, target, chain, run, env, proof, outcome, history>>

Bins == {"image_id", "zkq-prove"}

\* todo: binaries the build has yet to link, with the arbitrator in guest; then: where
\* the script goes on when it has.
NoRun == [name |-> "none", at |-> "none", todo |-> {}, then |-> "none", guest |-> NoGuest, addr |-> 0]

DeploymentInit ==
    /\ config \in [arb : Arbitrator, verifier : {0}]
    /\ target = [b \in Bins |-> NoGuest]
    /\ chain = <<>>
    /\ run = NoRun /\ env = config /\ proof = NoGuest /\ outcome = "none"
    /\ edited = FALSE /\ checked = FALSE /\ deployed = FALSE /\ mishaps = 0

At(place) == run.at = place

Moves(place) == run' = [run EXCEPT !.at = place]

Finishes(result) == run' = NoRun /\ outcome' = result

-----------------------------------------------------------------------------
(* The operator.                                                           *)

\* The file changes under the scripts.
Forgets == edited' = TRUE /\ checked' = FALSE /\ deployed' = FALSE

Edit ==
    /\ mishaps < MaxMishaps
    /\ config' \in [arb : Arbitrator, verifier : 0 .. Len(chain)] \ {config}
    /\ Forgets /\ mishaps' = mishaps + 1
    /\ UNCHANGED <<target, chain, run, env, proof, outcome>>

\* "clear VERIFIER= in $ZKQ_CONFIG and re-run"
Clear ==
    /\ At("none") /\ outcome = "mismatch"
    /\ config' = [config EXCEPT !.verifier = 0]
    /\ outcome' = "none"
    /\ Forgets
    /\ UNCHANGED <<target, chain, run, env, proof, mishaps>>

\* Interrupted, or a command fails: set -e.
Cut ==
    /\ ~At("none") /\ mishaps < MaxMishaps
    /\ Finishes("failed") /\ mishaps' = mishaps + 1
    /\ UNCHANGED <<config, target, chain, env, proof, edited, checked, deployed>>

-----------------------------------------------------------------------------
(* lib/config.sh and the builds.                                           *)

\* What a script does first, after sourcing the file (which build.sh has no need to).
First == [build |-> "build", check |-> "cargo", deploy |-> "recheck", demo |-> "binaries"]

Begin(name) ==
    /\ At("none")
    /\ env' = config
    /\ run' = [NoRun EXCEPT !.name = name, !.at = First[name]]
    /\ outcome' = "none" /\ proof' = NoGuest
    /\ edited' = FALSE
    /\ UNCHANGED <<config, target, chain, checked, deployed, mishaps>>

Rest == UNCHANGED <<config, target, chain, env, proof, history>>

\* cargo reads the file and compiles the guest; what is up to date it leaves alone.
Compiles(bins, place) ==
    run' = [run EXCEPT !.at = "link", !.guest = config.arb, !.todo = bins, !.then = place]

Link ==
    /\ At("link")
    /\ \E b \in run.todo :
        /\ target' = [target EXCEPT ![b] = run.guest]
        /\ IF run.todo # {b} THEN run' = [run EXCEPT !.todo = @ \ {b}] /\ UNCHANGED outcome
           ELSE IF run.then = "none" THEN Finishes("built")
           ELSE run' = [run EXCEPT !.todo = {}, !.at = run.then] /\ UNCHANGED outcome
    /\ UNCHANGED <<config, chain, env, proof, history>>

\* Mutant: build.sh builds what check_config.sh builds.
BuiltIdOnly == {"image_id"}

\* cargo build --release
BuiltByBuildSh == Bins

\* Where the script goes on that has called build.sh.
AfterBuild == [build |-> "none", deploy |-> "image", demo |-> "prove"]

Build ==
    /\ At("build")
    /\ Compiles(BuiltByBuildSh, AfterBuild[run.name])
    /\ UNCHANGED outcome /\ Rest

-----------------------------------------------------------------------------
(* check_config.sh                                                         *)

\* deploy_verifier.sh runs a check that failed once more, for its messages.
CheckFails ==
    IF run.name = "deploy"
    THEN run' = [run EXCEPT !.name = "again", !.at = "recheck"] /\ UNCHANGED outcome
    ELSE Finishes("failed")

\* It sources the file again; exported values that differ from it are an error.
Recheck ==
    /\ At("recheck")
    /\ IF config = env THEN Moves("cargo") /\ UNCHANGED outcome ELSE CheckFails
    /\ Rest

\* cargo build --bin zkq_identity --bin image_id
CheckBuild ==
    /\ At("cargo")
    /\ Compiles({"image_id"}, "verdict")
    /\ UNCHANGED outcome /\ Rest

\* Mutant: whatever is deployed is taken to be right.
AnyImage(addr, image) == TRUE

\* cast call IMAGE_ID()
HasImage(addr, image) == chain[addr] = image

\* Mutant: a mismatch is an error in the check that deploy_verifier.sh runs, too.
ToleratesNever == FALSE

\* ALLOW_IMAGE_MISMATCH
Tolerates == run.name \in {"deploy", "again"}

VerifierFits ==
    env.verifier = 0 \/ HasImage(env.verifier, target["image_id"]) \/ Tolerates

\* "built guest arbitrator == config"
GuestFits == target["image_id"] = env.arb

Verdict ==
    /\ At("verdict")
    /\ IF run.name = "again" THEN Finishes("failed")
       ELSE IF ~(GuestFits /\ VerifierFits) THEN CheckFails
       ELSE IF run.name = "deploy" THEN Moves("build") /\ UNCHANGED outcome
       ELSE Finishes("config OK")
    /\ checked' = (checked \/ (outcome' = "config OK" /\ ~edited))
    /\ UNCHANGED <<config, target, chain, env, proof, edited, deployed, mishaps>>

-----------------------------------------------------------------------------
(* deploy_verifier.sh                                                      *)

Verified == Finishes("verified") /\ deployed' = ~edited

ReadImage ==
    /\ At("image")
    /\ LET image == target["image_id"] IN
        \/ /\ env.verifier = 0
           /\ run' = [run EXCEPT !.at = "forge", !.guest = image]
           /\ UNCHANGED <<outcome, deployed>>
        \/ /\ env.verifier # 0 /\ HasImage(env.verifier, image)
           /\ Verified
        \/ /\ env.verifier # 0 /\ ~HasImage(env.verifier, image)
           /\ Finishes("mismatch") /\ UNCHANGED deployed
    /\ UNCHANGED <<config, target, chain, env, proof, edited, checked, mishaps>>

\* forge create, and the comparison of what it deployed.
Forge ==
    /\ At("forge")
    /\ chain' = Append(chain, run.guest)
    /\ run' = [run EXCEPT !.at = "write", !.addr = Len(chain) + 1]
    /\ UNCHANGED <<config, target, env, proof, outcome, history>>

\* sed
WriteBack ==
    /\ At("write")
    /\ config' = [config EXCEPT !.verifier = run.addr]
    /\ Moves("reread")
    /\ checked' = FALSE /\ deployed' = FALSE
    /\ UNCHANGED <<target, chain, env, proof, outcome, edited, mishaps>>

\* grep
Reread ==
    /\ At("reread")
    /\ IF config.verifier = run.addr THEN Verified ELSE Finishes("failed") /\ UNCHANGED deployed
    /\ UNCHANGED <<config, target, chain, env, proof, edited, checked, mishaps>>

-----------------------------------------------------------------------------
(* demo_quorum_ok.sh                                                       *)

\* [ -x zkq-prove ] || scripts/build.sh; the fixture is part of the checkout.
FindBinaries ==
    /\ At("binaries")
    /\ Moves(IF target["zkq-prove"] = NoGuest THEN "build" ELSE "prove")
    /\ UNCHANGED outcome /\ Rest

\* The guest panics over a packet that another arbitrator has signed.
Prove ==
    /\ At("prove")
    /\ IF target["zkq-prove"] = Seeded THEN Moves("attest") /\ proof' = Seeded /\ UNCHANGED outcome
       ELSE Finishes("unproved") /\ UNCHANGED proof
    /\ UNCHANGED <<config, target, chain, env, history>>

\* The contract reverts unless the proof is of its own image.
AttestOnChain ==
    /\ At("attest")
    /\ Finishes(IF env.verifier = 0 THEN "skipped"
                ELSE IF chain[env.verifier] = proof THEN "attested" ELSE "reverted")
    /\ Rest

-----------------------------------------------------------------------------
Step ==
    \/ Link \/ Build \/ Recheck \/ CheckBuild \/ Verdict
    \/ ReadImage \/ Forge \/ WriteBack \/ Reread
    \/ FindBinaries \/ Prove \/ AttestOnChain

DeploymentNext ==
    \/ Edit \/ Clear \/ Cut
    \/ \E name \in DOMAIN First : Begin(name)
    \/ Step

DeploymentSpec == DeploymentInit /\ [][DeploymentNext]_deployVars

-----------------------------------------------------------------------------
(* Properties.                                                             *)

\* "== VERIFIED" of deploy_verifier.sh: as long as nobody edits the file, from the moment
\* the script began, VERIFIER is a contract of the configured guest, although file,
\* binaries and chain were read at different times and earlier runs were cut short.
DeployedIsCurrent ==
    deployed => config.verifier # 0 /\ chain[config.verifier] = config.arb

\* From then on the demo proves with the image of that contract, which takes the proof,
\* whatever was built before, half built, or checked in between.
DeployedDemoAttests ==
    deployed /\ config.arb = Seeded => outcome \notin {"unproved", "reverted"}

\* Contracts that a crash leaves without an entry in the file, stale binaries and
\* stale entries do not keep an operator from a file that names a current contract.
DeployConverges ==
    <>[](config.verifier # 0 /\ chain[config.verifier] = config.arb)

\* demo_quorum_ok.sh, "build -> ... -> prove": a demo after "config OK" and no edit
\* proves with the guest of the file, which check_config.sh says is built.
DemoProvesTheConfig == checked /\ proof # NoGuest => proof = config.arb
=============================================================================
