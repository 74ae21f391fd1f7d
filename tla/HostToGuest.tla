---------------------------- MODULE HostToGuest ----------------------------
(***************************************************************************)
(* A fixture file on its way through the host into the guest's loop: parse *)
(* (module Fixture), to_env, and the guest's walk (module CommitsFrame).   *)
(* The guest cannot know who wrote its frames: a hostile host starts with  *)
(* any bytes in the commits frame.                                         *)
(***************************************************************************)
EXTENDS Fixture, CommitsFrame

CONSTANTS
    Good,        \* fixtures that serialize writes
    Damage(_),   \* the files a file may turn into
    Frames       \* commits frames of hostile hosts

Byte == 0 .. Radix - 1

\* What a Fixture holds, with lengths that a u32 can tell.
Encodable(f) ==
    /\ f \in [computors_packet : [1 .. PACKET_SIZE -> Byte],
              query_id : [1 .. QUERY_ID_SIZE -> Byte],
              query_tx : Seq(Byte), reply : Seq(Byte), commit_txs : Seq(Seq(Byte)),
              reveal_tx : Seq(Byte)]
    /\ \A bytes \in {f.query_tx, f.reply, f.reveal_tx} \cup Range(f.commit_txs) :
           Len(bytes) < Modulus
    /\ Len(f.commit_txs) < Modulus

ASSUME HostAssumption ==
    /\ \A f \in Good : Encodable(f) /\ Damage(serialize(f)) \subseteq Seq(Byte)
    /\ Frames \subseteq Seq(Byte)

hostVars == <<fixtureVars, frameVars>>

HostInit ==
    \/ FixtureInit(UNION {Damage(serialize(f)) : f \in Good}) /\ FrameInit({<<>>})
    \/ /\ file = <<>> /\ off = 0 /\ field = "delivered" /\ left = 0 /\ fx = Empty
       /\ FrameInit(Frames)

\* Mutant: the transactions without their count.
DeliverBare ==
    /\ field = "accepted"
    /\ field' = "delivered"
    /\ commits' = Packed(fx.commit_txs)
    /\ UNCHANGED <<file, off, left, fx, pos, turns, raws, count, verdict>>

\* to_env: the commits of an accepted fixture become the guest's fifth frame.
Deliver ==
    /\ field = "accepted"
    /\ field' = "delivered"
    /\ commits' = commits_frame(fx.commit_txs)
    /\ UNCHANGED <<file, off, left, fx, pos, turns, raws, count, verdict>>

HostNext ==
    \/ FixtureNext /\ UNCHANGED frameVars
    \/ Deliver
    \/ field = "delivered" /\ FrameNext /\ UNCHANGED fixtureVars

HostSpec == HostInit /\ [][HostNext]_hostVars

-----------------------------------------------------------------------------
(* Properties.                                                             *)

\* parse accepts what serialize writes and nothing else.  Every accepted file is the
\* serialization of what was read, so that no two files give the same fixture and one
\* that was cut or lengthened is refused; and the test of the count against the file's
\* size never hits a genuine fixture, empty transactions included.
ParseInvertsSerialize ==
    /\ field = "accepted" => serialize(fx) = file
    /\ field = "rejected" => \A f \in Good : serialize(f) # file

\* The guest counts the commits the fixture holds: what an honest host delivers
\* is walked to the end or to the quorum, in order, without a panic.
GuestSeesTheFixture ==
    field = "delivered" /\ file # <<>> /\ FitsMemory =>
        /\ verdict # "panic"
        /\ IsPrefix(raws, fx.commit_txs)
        /\ verdict = "none" => raws = fx.commit_txs
=============================================================================
