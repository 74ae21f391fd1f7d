------------------------------ MODULE Fixture ------------------------------
(***************************************************************************)
(* host/src/fixture.rs: parse reads a file field by field, serialize is    *)
(* what wrote it, and commits_frame packs the commits for the guest.       *)
(***************************************************************************)
EXTENDS Words

CONSTANTS
    MAGIC,
    PACKET_SIZE,
    QUERY_ID_SIZE   \* 8

ASSUME FixtureAssumption ==
    /\ {PACKET_SIZE, QUERY_ID_SIZE} \subseteq Nat \ {0}
    /\ MAGIC \in Seq(0 .. Radix - 1)

VARIABLES
    file,        \* the bytes parse is given
    off,         \* its local of that name
    field,       \* the field it reads next, "accepted" or "rejected"
    left,        \* commits still to read
    fx           \* what it has read

fixtureVars == <<file, off, field, left, fx>>

-----------------------------------------------------------------------------
(* Encoding.                                                               *)

Blob(bytes) == Word(Len(bytes)) \o bytes

\* The transactions, each behind its length.
Packed(txs) ==
    LET upto[n \in 0 .. Len(txs)] == IF n = 0 THEN <<>> ELSE upto[n - 1] \o Blob(txs[n])
    IN  upto[Len(txs)]

\* Their count and the transactions: frame 5, and the same bytes inside the file.
commits_frame(txs) == Word(Len(txs)) \o Packed(txs)

serialize(f) ==
    MAGIC \o f.computors_packet \o f.query_id
    \o Blob(f.query_tx) \o Blob(f.reply) \o commits_frame(f.commit_txs) \o Blob(f.reveal_tx)

-----------------------------------------------------------------------------
(* Parsing.                                                                *)

Empty == [computors_packet |-> <<>>, query_id |-> <<>>, query_tx |-> <<>>,
          reply |-> <<>>, commit_txs |-> <<>>, reveal_tx |-> <<>>]

FixtureInit(files) ==
    /\ file \in files
    /\ off = 0
    /\ field = "magic"
    /\ left = 0
    /\ fx = Empty

\* take: the next n bytes are there; offsets do not overflow, they are checked.
Has(at, n) == at + n <= Len(file)
Bytes(at, n) == SubSeq(file, at + 1, at + n)

\* The length field at off is complete and so is what it announces.
HasBlob == Has(off, Field) /\ Has(off + Field, Number(Bytes(off, Field)))
BlobLen == Number(Bytes(off, Field))
BlobBytes == Bytes(off + Field, BlobLen)

Reject ==
    /\ field' = "rejected"
    /\ UNCHANGED <<file, off, left, fx>>

TakeMagic ==
    /\ field = "magic" /\ Has(0, Len(MAGIC)) /\ Bytes(0, Len(MAGIC)) = MAGIC
    /\ off' = Len(MAGIC)
    /\ field' = "packet"
    /\ UNCHANGED <<file, left, fx>>

BadMagic ==
    /\ field = "magic" /\ ~(Has(0, Len(MAGIC)) /\ Bytes(0, Len(MAGIC)) = MAGIC)
    /\ Reject

TakePacket ==
    /\ field = "packet" /\ Has(off, PACKET_SIZE + QUERY_ID_SIZE)
    /\ fx' = [fx EXCEPT !.computors_packet = Bytes(off, PACKET_SIZE),
                        !.query_id = Bytes(off + PACKET_SIZE, QUERY_ID_SIZE)]
    /\ off' = off + PACKET_SIZE + QUERY_ID_SIZE
    /\ field' = "query_tx"
    /\ UNCHANGED <<file, left>>

\* A length-prefixed field, and what is read after it.
TakeBlob(name, next) ==
    /\ field = name /\ HasBlob
    /\ fx' = [fx EXCEPT ![name] = BlobBytes]
    /\ off' = off + Field + BlobLen
    /\ field' = next
    /\ UNCHANGED <<file, left>>

\* Mutant: a commit is taken to be no shorter than three words.
CountFitsLarge(n) == n <= Len(file) \div (3 * Field)

\* n > bytes.len() / 4: the file is too short for n length fields.
CountFits(n) == n <= Len(file) \div Field

TakeCount ==
    /\ field = "count" /\ Has(off, Field)
    /\ LET n == Number(Bytes(off, Field))
       IN  /\ CountFits(n)
           /\ left' = n
    /\ off' = off + Field
    /\ field' = "commits"
    /\ UNCHANGED <<file, fx>>

TakeCommit ==
    /\ field = "commits" /\ left > 0 /\ HasBlob
    /\ fx' = [fx EXCEPT !.commit_txs = Append(@, BlobBytes)]
    /\ off' = off + Field + BlobLen
    /\ left' = left - 1
    /\ UNCHANGED <<file, field>>

EndCommits ==
    /\ field = "commits" /\ left = 0
    /\ field' = "reveal_tx"
    /\ UNCHANGED <<file, off, left, fx>>

\* off must be the end of the file.
Accept ==
    /\ field = "end" /\ off = Len(file)
    /\ field' = "accepted"
    /\ UNCHANGED <<file, off, left, fx>>

\* A field or its length runs past the end, the count is absurd, bytes are left over.
Truncated ==
    \/ field = "packet" /\ ~Has(off, PACKET_SIZE + QUERY_ID_SIZE)
    \/ field \in {"query_tx", "reply", "reveal_tx"} /\ ~HasBlob
    \/ field = "count" /\ ~(Has(off, Field) /\ CountFits(Number(Bytes(off, Field))))
    \/ field = "commits" /\ left > 0 /\ ~HasBlob
    \/ field = "end" /\ off # Len(file)

Fail == Truncated /\ Reject

FixtureNext ==
    \/ TakeMagic \/ BadMagic
    \/ TakePacket
    \/ TakeBlob("query_tx", "reply")
    \/ TakeBlob("reply", "count")
    \/ TakeCount \/ TakeCommit \/ EndCommits
    \/ TakeBlob("reveal_tx", "end")
    \/ Accept \/ Fail
=============================================================================
