------------------------------ MODULE MCInput ------------------------------
(***************************************************************************)
(* What the guest is given, on small instances: fixture files, commits     *)
(* frames, computor lists, and config/deploy.env when it is built.  A      *)
(* behaviour follows one of them.                                          *)
(***************************************************************************)
EXTENDS HostToGuest, PubkeyIndex, Identity

VARIABLE part

allVars == <<hostVars, indexVars, identityVars, part>>

MCMagic == <<2, 1>>

MCGood ==
    [computors_packet : {<<1>>}, query_id : {<<2>>},
     query_tx : {<<>>, <<1>>}, reply : {<<>>, <<0, 2>>},
     commit_txs : BoundedSeq({<<>>, <<0>>, <<1, 2>>}, 2) \cup {<<<<>>, <<>>, <<>>, <<>>>>},
     reveal_tx : {<<1>>}]

\* As it is, cut anywhere, lengthened, or with one byte changed.
MCDamage(f) ==
    {SubSeq(f, 1, n) : n \in 0 .. Len(f)}
    \cup {Append(f, b) : b \in 0 .. Radix - 1}
    \cup {[f EXCEPT ![i] = b] : i \in DOMAIN f, b \in 0 .. Radix - 1}

\* Every frame of up to six bytes: lengths of twelve and more wrap around sixteen.
MCFrames == BoundedSeq(0 .. Radix - 1, 6)

\* Fragments of three letters of three, 27 of them for 16 values; keys of two fragments.
MCChecksum(pk) == (pk[1] + 3 * pk[2]) % 8

\* Every text of the right length, alone and plain; and two lines in any form, of which
\* each has one of three texts: an identity, another one, a text that decodes to the first.
MCTexts == {getIdentity(<<9, 0>>), getIdentity(<<1, 0>>), <<1, 2, 2, 0, 0, 0, 1, 0>>}

MCFiles ==
    LET Line(forms, texts) == [form : forms, text : texts]
    IN  {<<line>> : line \in Line({"plain"}, [1 .. 8 -> 0 .. 2])}
        \cup [1 .. 2 -> Line(Forms, MCTexts)]

IndexIdle ==
    /\ pubkeys = [p \in Slot |-> p] /\ order = pubkeys /\ phase = "idle"
    /\ key = -1 /\ lo = 0 /\ hi = 0 /\ answer = -1

IdentityIdle ==
    /\ lines = <<>> /\ terminated = TRUE /\ exported = {}
    /\ value = {} /\ next = 1 /\ script = "stopped" /\ baked = {}

HostIdle == FixtureInit({<<>>}) /\ FrameInit({<<>>})

MCInit ==
    \/ part = "file" /\ HostInit /\ IndexIdle /\ IdentityIdle
    \/ part = "list" /\ IndexInit /\ HostIdle /\ IdentityIdle
    \/ part = "config" /\ IdentityInit /\ HostIdle /\ IndexIdle

MCNext ==
    /\ UNCHANGED part
    /\ \/ part = "file" /\ HostNext /\ UNCHANGED <<indexVars, identityVars>>
       \/ part = "list" /\ IndexNext /\ UNCHANGED <<hostVars, identityVars>>
       \/ part = "config" /\ IdentityNext /\ UNCHANGED <<hostVars, indexVars>>

MCSpec == MCInit /\ [][MCNext]_allVars
=============================================================================
