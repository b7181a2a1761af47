------------------------------- MODULE Sha256 -------------------------------
(***************************************************************************)
(* The three SHA-256 drivers of the miner: the byte-wise one of            *)
(* submit/cpu_verify.cc, the one that resumes from a midstate in           *)
(* normalize/midstate.cc, and the fixed-size one of cuda/sha256d.cuh.      *)
(* All sizes are the real ones.  The compression function is a free        *)
(* symbol: a state is the sequence of blocks it has absorbed, so two       *)
(* states are equal exactly when the same blocks were compressed.          *)
(***************************************************************************)
EXTENDS Integers, Sequences, SequencesExt

CONSTANT MaxLen         \* longest message that is hashed

ASSUME ShaAssumption == MaxLen \in Nat

VARIABLES
    msg,                \* the bytes fed so far (history)
    ctx                 \* SHA256Ctx

Junk == -1              \* a byte of an uninitialised array

Zeros(n) == [i \in 1..n |-> 0]

\* Value v without its k low bytes (v >> 8k).
Shifted(v, k) ==
    LET f[i \in Nat] == IF i = 0 THEN v ELSE f[i - 1] \div 256 IN f[k]

\* Byte k of v, counted from the least significant one.
ByteAt(v, k) == Shifted(v, k) % 256

\* One call of sha256_transform.
transform(st, block) == Append(st, block)

IV == <<>>

\* The last eight bytes of the last block.  The code has no byte for bits
\* 40 to 47: byte 58 is bits 48 to 55 and byte 57 bits 56 to 63.
LengthField(bitlen) ==
    <<0, ByteAt(bitlen, 7), ByteAt(bitlen, 6), ByteAt(bitlen, 4), ByteAt(bitlen, 3),
      ByteAt(bitlen, 2), ByteAt(bitlen, 1), ByteAt(bitlen, 0)>>

-----------------------------------------------------------------------------
(* submit/cpu_verify.cc *)

sha256_init ==
    [bitlen |-> 0, state |-> IV, data |-> [i \in 1..64 |-> Junk], datalen |-> 0]

\* One turn of the loop of sha256_update.
UpdateByte(c, b) ==
    LET data == [c.data EXCEPT ![c.datalen + 1] = b]
    IN IF c.datalen + 1 = 64
       THEN [bitlen |-> c.bitlen + 512, state |-> transform(c.state, data),
             data |-> data, datalen |-> 0]
       ELSE [bitlen |-> c.bitlen, state |-> c.state, data |-> data, datalen |-> c.datalen + 1]

\* 0x80, then zeros up to the length, over one block or two; a second block is
\* started from limit bytes on.
Finalise(c, limit) ==
    LET oneBlock == c.datalen < limit
        padded == [i \in 1..64 |->
                     IF i <= c.datalen THEN c.data[i]
                     ELSE IF i = c.datalen + 1 THEN 128
                     ELSE IF i <= 56 \/ ~oneBlock THEN 0
                     ELSE c.data[i]]
        last == IF oneBlock THEN SubSeq(padded, 1, 56) ELSE Zeros(56)
        state == IF oneBlock THEN c.state ELSE transform(c.state, padded)
    IN transform(state, last \o LengthField(c.bitlen + 8 * c.datalen))

\* Fault: 56 bytes taken for a message whose padding fits one block.
FinalLateSpill(c) == Finalise(c, 57)

sha256_final(c) == Finalise(c, 56)

-----------------------------------------------------------------------------
(* normalize/midstate.cc *)

sha256_midstate_64(first64) == transform(IV, first64)

\* Whole blocks of the tail, then the rest with its padding.
FinishFrom(mid, tail, total, limit) ==
    LET full == Len(tail) \div 64
        rem == Len(tail) % 64
        absorbed[i \in 0..full] ==
          IF i = 0 THEN mid
          ELSE transform(absorbed[i - 1], SubSeq(tail, 64 * (i - 1) + 1, 64 * i))
        block == SubSeq(tail, 64 * full + 1, Len(tail)) \o <<128>> \o Zeros(63 - rem)
        spill == rem >= limit
        state == IF spill THEN transform(absorbed[full], block) ELSE absorbed[full]
        last == IF spill THEN Zeros(56) ELSE SubSeq(block, 1, 56)
    IN transform(state, last \o LengthField(8 * total))

\* Fault: the same boundary off by one.
FinishLateSpill(mid, tail, total) == FinishFrom(mid, tail, total, 57)

sha256_finish_from_midstate(mid, tail, total) == FinishFrom(mid, tail, total, 56)

-----------------------------------------------------------------------------
(* cuda/sha256d.cuh *)

\* The 64-bit length as the device writes it, most significant byte first.
BigEndian64(v) == [i \in 1..8 |-> ByteAt(v, 8 - i)]

\* First round over an 80-byte header.
sha256_80_be(header80) ==
    LET tail == SubSeq(header80, 65, 80) \o <<128>> \o Zeros(39) \o BigEndian64(640)
    IN transform(transform(IV, SubSeq(header80, 1, 64)), tail)

\* Second round, over a 32-byte digest: words 8, 9..14 and 15 are constants.
SecondRound(digest) ==
    transform(IV, digest \o <<128, 0, 0, 0>> \o Zeros(24) \o <<0, 0, 1, 0>>)

-----------------------------------------------------------------------------
(* One message is fed byte by byte. *)

ShaInit == msg = <<>> /\ ctx = sha256_init

\* The position in the message stands for the byte: no driver looks at bytes.
sha256_update ==
    /\ Len(msg) < MaxLen
    /\ msg' = Append(msg, Len(msg) + 1)
    /\ ctx' = UpdateByte(ctx, Len(msg) + 1)

-----------------------------------------------------------------------------
(* The standard's padding, as the reference. *)

PaddedMessage(m) ==
    LET pad == (64 - ((Len(m) + 9) % 64)) % 64
    IN m \o <<128>> \o Zeros(pad) \o BigEndian64(8 * Len(m))

Reference(m) ==
    LET p == PaddedMessage(m)
    IN [i \in 1..(Len(p) \div 64) |-> SubSeq(p, 64 * (i - 1) + 1, 64 * i)]

\* sha256 of cpu_verify.cc computes SHA-256 for every length, at the boundary
\* of the padding (55, 56, 63, 64 bytes) in particular: the stale bytes of
\* ctx.data and the bytes that were never initialised reach no block.
DigestIsReference == sha256_final(ctx) = Reference(msg)

\* The fast paths compute the same: resuming from the midstate of the first 64
\* bytes for every longer message, the two fixed blocks of the device for an
\* 80-byte header and its second round for a 32-byte digest.
FastPathsAgree ==
    /\ Len(msg) >= 64 =>
         sha256_finish_from_midstate(sha256_midstate_64(SubSeq(msg, 1, 64)),
                                     SubSeq(msg, 65, Len(msg)), Len(msg))
           = Reference(msg)
    /\ Len(msg) = 80 => sha256_80_be(msg) = Reference(msg)
    /\ Len(msg) = 32 => SecondRound(msg) = Reference(msg)

=============================================================================
