----------------------------- MODULE HeaderPath -----------------------------
(***************************************************************************)
(* How a job becomes a header: the notify handler hashes the coinbase and  *)
(* folds the merkle tree, the normalizer turns bytes into words and        *)
(* compact bits into targets, main() builds the DeviceJob, a kernel hashes *)
(* it for one nonce, and main() rebuilds the header of a hit, classifies   *)
(* it and hands it to SubmitRouter::verifyAndSubmit.                       *)
(*                                                                         *)
(* A u32 is the sequence of its four bytes, most significant first, so     *)
(* shifts by eight and byte swaps are exact.  A hash has HashWords words   *)
(* (8 in the code) and the digits of a number are below Base (256).        *)
(* SHA-256d is a random oracle: equal messages have equal digests, and     *)
(* nothing else is known of them.                                          *)
(***************************************************************************)
EXTENDS Sha256, Functions

CONSTANTS
    Base, HashWords,
    Versions, Times,    \* u32 values of the header
    Nonces,
    CompactBits,        \* values of nBits and of the share's nBits
    PrevHashes, Roots,  \* previous hashes and merkle roots, as bytes
    Digests,            \* values SHA-256d may return
    MaxLeaves,          \* leaves of a merkle tree
    NtimeCaps           \* policy_ntime_min_, policy_ntime_max_ (0 unset)

HashLen == 4 * HashWords

Bytes == 0..(Base - 1)

\* A u32 and a hash, as bytes; nBits, whose first byte is an exponent.
U32 == [1..4 -> Bytes]
Hash == [1..HashLen -> Bytes]
Compact == {b \in [1..4 -> Nat] : \A i \in 2..4 : b[i] \in Bytes}

ASSUME HeaderAssumption ==
    /\ Base \in Nat \ {0, 1}
    /\ HashWords \in Nat \ {0}
    /\ MaxLeaves \in Nat \ {0}
    /\ Versions \subseteq U32 /\ Times \subseteq U32 /\ Nonces \subseteq U32
    /\ CompactBits \subseteq Compact
    /\ PrevHashes \subseteq Hash /\ Roots \subseteq Hash /\ Digests \subseteq Hash
    /\ NtimeCaps \subseteq U32 \X U32

VARIABLES
    stage,              \* what was computed last
    leaves, level,      \* txids_be and level of compute_merkle_root_be
    raw,                \* RawJobInputs
    item,               \* WorkItem and GpuJobConst of the registry slot
    dj,                 \* DeviceJob
    found,              \* nonce, hashed message and digest of a device hit
    header, digest,     \* of the host
    verdict             \* what the host did with the hit

jobVars == <<raw, item, dj, found, header, digest, verdict>>
treeVars == <<leaves, level>>
vars == <<msg, ctx, stage, treeVars, jobVars>>

None == <<>>

-----------------------------------------------------------------------------
(* normalize/endianness.h *)

bswap32(w) == Reverse(w)

\* The words of an array of bytes, each loaded big-endian.
WordsOf(bytes) == [i \in 1..(Len(bytes) \div 4) |-> SubSeq(bytes, 4 * i - 3, 4 * i)]

be32BytesToLeU32Words(bytes) == [i \in 1..HashWords |-> bswap32(WordsOf(bytes)[i])]

leU32WordsToBe32Bytes(words) == FlattenSeq([i \in 1..HashWords |-> bswap32(words[i])])

\* Words stored big-endian one after the other, as the kernels do.
StoredBE(words) == FlattenSeq(words)

-----------------------------------------------------------------------------
(* Numbers, for the reference definitions. *)

\* b^n.
Power(b, n) ==
    LET p[i \in Nat] == IF i = 0 THEN 1 ELSE b * p[i - 1] IN p[n]

\* The number whose digits, most significant first, are the bytes.
ValueOf(bytes) ==
    LET v[n \in 0..Len(bytes)] == IF n = 0 THEN 0 ELSE v[n - 1] * Base + bytes[n]
    IN v[Len(bytes)]

BytesOf(v, n) == [i \in 1..n |-> (v \div Power(Base, n - i)) % Base]

\* a <= b for equally long byte strings, decided at the first difference.
LexLeq(a, b) ==
    \A i \in DOMAIN a : (\A k \in 1..(i - 1) : a[k] = b[k]) => a[i] <= b[i]

LexLess(a, b) == LexLeq(a, b) /\ a # b

-----------------------------------------------------------------------------
(* normalize/targets.cc *)

\* be[32] with the bytes bs from index idx (counted from 0) on.
PlacedAt(idx, bs) ==
    [i \in 1..HashLen |-> IF i - idx \in DOMAIN bs THEN bs[i - idx] ELSE 0]

\* m >> 8k for a number of three bytes.
ShiftRight(m, k) == [i \in 1..3 |-> IF i - k \in 1..3 THEN m[i - k] ELSE 0]

\* The bytes of the target, as compactToTargetU32LE fills be[32].  For an
\* exponent of 0 the code writes one zero byte behind the array, which is
\* taken to change nothing.
TargetBytes(nbits) ==
    LET exponent == nbits[1]
        mantissa == Tail(nbits)
    IN IF 2 * mantissa[1] >= Base \/ mantissa = <<0, 0, 0>> THEN Zeros(HashLen)
       ELSE IF exponent <= 3
            THEN PlacedAt(HashLen - exponent,
                          SubSeq(ShiftRight(mantissa, 3 - exponent), 1, exponent))
       ELSE IF exponent > HashLen THEN [i \in 1..HashLen |-> Base - 1]
       ELSE PlacedAt(HashLen - exponent, mantissa)

\* Fault: the mantissa one byte lower than its exponent says.
TargetByteOff(nbits) ==
    be32BytesToLeU32Words(<<0>> \o SubSeq(TargetBytes(nbits), 1, HashLen - 1))

compactToTargetU32LE(nbits) == be32BytesToLeU32Words(TargetBytes(nbits))

\* submit/cpu_verify.cc: the target's words become bytes again.
isHashLEQTarget(hash, target_le) == LexLeq(hash, leU32WordsToBe32Bytes(target_le))

-----------------------------------------------------------------------------
(* normalize/merkle.cc, with sha256d of two nodes as their pair *)

\* Fault: an odd last node is passed up without being paired with itself.
MergeDropsOdd(lv) == [i \in 1..(Len(lv) \div 2) |-> <<lv[2 * i - 1], lv[2 * i]>>]

\* One turn of the while loop: pairs from the left, an odd last one twice.
NextLevel(lv) ==
    [i \in 1..((Len(lv) + 1) \div 2) |->
        <<lv[2 * i - 1], IF 2 * i <= Len(lv) THEN lv[2 * i] ELSE lv[2 * i - 1]>>]

-----------------------------------------------------------------------------
(* normalize/normalizer.cc *)

ZeroWord == Zeros(4)

OrDefault(w, default) == IF w = ZeroWord THEN default ELSE w

normalizeJob(in) ==
    [version |-> in.version, nbits |-> in.nbits, ntime |-> in.ntime,
     prevhash_le |-> be32BytesToLeU32Words(in.prevhash_be),
     merkle_root_le |-> be32BytesToLeU32Words(in.merkle_root_be),
     block_target_le |-> compactToTargetU32LE(in.nbits),
     share_target_le |-> compactToTargetU32LE(in.share_nbits),
     ntime_min |-> OrDefault(in.ntime_min, in.ntime),
     ntime_max |-> OrDefault(in.ntime_max, in.ntime),
     midstate |-> in.header_first64]

-----------------------------------------------------------------------------
(* adapters/stratum_runner.cc: coinbase, merkle root, job *)

Init ==
    /\ ShaInit
    /\ stage = "coinbase"
    /\ leaves = None /\ level = None
    /\ raw = None /\ item = None /\ dj = None /\ found = None
    /\ header = None /\ digest = None /\ verdict = "none"

\* The coinbase goes through sha256 byte by byte.
HashCoinbase ==
    /\ stage = "coinbase"
    /\ sha256_update
    /\ UNCHANGED <<stage, treeVars, jobVars>>

\* sha256_final gives the txid, which becomes the first leaf; the branch
\* of the notify gives the others.
CoinbaseTxid ==
    /\ stage = "coinbase"
    /\ stage' = "merkle"
    /\ \E n \in 1..MaxLeaves :
         leaves' = [i \in 1..n |-> <<i>>] /\ level' = leaves'
    /\ msg' = <<>> /\ ctx' = sha256_init
    /\ UNCHANGED jobVars

compute_merkle_root_be ==
    /\ stage = "merkle"
    /\ Len(level) > 1
    /\ level' = NextLevel(level)
    /\ UNCHANGED <<msg, ctx, stage, leaves, jobVars>>

\* Bytes 0..63 as the notify handler lays them out: the version copied as it
\* is in (little-endian) memory, prevhash, and all but four bytes of the root.
HeaderFirst64(version, prevhash, root) ==
    bswap32(version) \o prevhash \o SubSeq(root, 1, HashLen - 4)

\* The rest of the notify handler, the policy of ingestJobWithPolicy and the
\* registry slot filled from the adapter's queue.
ingestJobWithPolicy ==
    /\ stage = "merkle"
    /\ Len(level) = 1
    /\ \E v \in Versions, t \in Times, b \in CompactBits, s \in CompactBits \cup {ZeroWord},
          p \in PrevHashes, r \in Roots, caps \in NtimeCaps :
         raw' = [source |-> "stratum", version |-> v, nbits |-> b, ntime |-> t,
                 prevhash_be |-> p, merkle_root_be |-> r,
                 header_first64 |-> HeaderFirst64(v, p, r),
                 share_nbits |-> s,
                 ntime_min |-> OrDefault(caps[1], t),
                 ntime_max |-> OrDefault(caps[2], BytesOf(ValueOf(t) + 2, 4))]
    /\ item' = normalizeJob(raw')
    /\ stage' = "job"
    /\ leaves' = None /\ level' = None
    /\ UNCHANGED <<msg, ctx, dj, found, header, digest, verdict>>

\* GbtRunner's job: no coinbase and no tree (the node gives the root), no
\* policy, no header_first64, the share's bits are the block's.
ingestTemplate ==
    /\ stage = "coinbase" /\ msg = <<>>
    /\ \E v \in Versions, t \in Times, b \in CompactBits, p \in PrevHashes, r \in Roots :
         raw' = [source |-> "gbt", version |-> v, nbits |-> b, ntime |-> t,
                 prevhash_be |-> p, merkle_root_be |-> r,
                 header_first64 |-> Zeros(2 * HashLen),
                 share_nbits |-> b,
                 ntime_min |-> ZeroWord, ntime_max |-> ZeroWord]
    /\ item' = normalizeJob(raw')
    /\ stage' = "job"
    /\ leaves' = None /\ level' = None
    /\ UNCHANGED <<msg, ctx, dj, found, header, digest, verdict>>

-----------------------------------------------------------------------------
(* tools/stratum_registry_runner.cpp and cuda/engine.cu: the device's copy *)

\* What main() copies from a snapshot, with the share's target turned around.
DeviceJob(it) ==
    [version |-> it.version, ntime |-> it.ntime, nbits |-> it.nbits,
     ntime_min |-> it.ntime_min, ntime_max |-> it.ntime_max,
     prevhash_le |-> it.prevhash_le, merkle_root_le |-> it.merkle_root_le,
     share_target_be |-> StoredBE(Reverse(it.share_target_le)),
     midstate |-> it.midstate]

uploadDeviceJobs ==
    /\ stage = "job"
    /\ dj' = DeviceJob(item)
    /\ stage' = "device"
    /\ UNCHANGED <<msg, ctx, treeVars, raw, item, found, header, digest, verdict>>

-----------------------------------------------------------------------------
(* cuda/engine.cu: the mining kernels *)

DeviceNtime ==
    LET low == IF dj.ntime_min # ZeroWord /\ LexLess(dj.ntime, dj.ntime_min)
               THEN dj.ntime_min ELSE dj.ntime
    IN IF dj.ntime_max # ZeroWord /\ LexLess(dj.ntime_max, low) THEN dj.ntime_max ELSE low

\* header[80] as every kernel assembles it.
DeviceHeader(nonce) ==
    dj.version \o StoredBE(dj.prevhash_le) \o StoredBE(dj.merkle_root_le)
      \o DeviceNtime \o dj.nbits \o nonce

\* The 80 bytes that are hashed.  A midstate stands for its 64 bytes; that of
\* a normalised job is never all zeros, so the kernels resume from it.
StubMessage(nonce) ==
    dj.midstate \o SubSeq(DeviceHeader(nonce), 2 * HashLen + 1, 2 * HashLen + 16)

\* Fault: the tail begins one word too early in the merkle root.
TailOneWordEarly(nonce) ==
    dj.midstate \o bswap32(dj.merkle_root_le[HashWords - 1])
      \o bswap32(DeviceNtime) \o bswap32(dj.nbits) \o bswap32(nonce)

\* kernel_mine_batch, and kernel_mine_batch_unroll before its tail loop.
UnrolledMessage(nonce) ==
    dj.midstate \o bswap32(dj.merkle_root_le[HashWords])
      \o bswap32(DeviceNtime) \o bswap32(dj.nbits) \o bswap32(nonce)

\* The tail loop of kernel_mine_batch_unroll hashes the header it assembled.
TailMessage(nonce) == DeviceHeader(nonce)

\* A nonce whose digest is within share_target_be is reported.
MineNonce(kernel, nonce, message) ==
    /\ stage = "device"
    /\ \E d \in Digests :
         /\ LexLeq(d, dj.share_target_be)
         /\ found' = [kernel |-> kernel, nonce |-> nonce, message |-> message, digest |-> d]
    /\ stage' = "hit"
    /\ UNCHANGED <<msg, ctx, treeVars, raw, item, dj, header, digest, verdict>>

kernel_mine_stub == \E n \in Nonces : MineNonce("stub", n, StubMessage(n))

kernel_mine_batch_unroll ==
    \E n \in Nonces : \/ MineNonce("unrolled", n, UnrolledMessage(n))
                      \/ MineNonce("tail", n, TailMessage(n))

\* A launch that finds nothing: the loop takes the next jobs.
NoHit ==
    /\ stage = "device"
    /\ stage' = "coinbase"
    /\ raw' = None /\ item' = None /\ dj' = None
    /\ UNCHANGED <<msg, ctx, treeVars, found, header, digest, verdict>>

-----------------------------------------------------------------------------
(* tools/stratum_registry_runner.cpp and submit/submit_router.cc: the host *)

\* Fault: the words of the job are stored as the kernels store them.
HostHeaderUnswapped(nonce) ==
    item.version \o StoredBE(item.prevhash_le) \o StoredBE(item.merkle_root_le)
      \o item.ntime \o item.nbits \o nonce

HostHeader(nonce) ==
    item.version \o leU32WordsToBe32Bytes(item.prevhash_le)
      \o leU32WordsToBe32Bytes(item.merkle_root_le)
      \o item.ntime \o item.nbits \o nonce

\* The hit is classified; a block goes to the solo submitter if there is one,
\* everything else through the router's check of the share target.
verifyAndSubmit(gbtSubmitter) ==
    /\ stage = "hit"
    /\ header' = HostHeader(found.nonce)
    /\ \E d \in Digests :
         /\ header' = found.message => d = found.digest
         /\ digest' = d
    /\ verdict' = IF isHashLEQTarget(digest', item.block_target_le) /\ gbtSubmitter
                  THEN "block"
                  ELSE IF isHashLEQTarget(digest', item.share_target_le)
                       THEN "submitted" ELSE "rejected"
    /\ stage' = "done"
    /\ UNCHANGED <<msg, ctx, treeVars, raw, item, dj, found>>

NextJob ==
    /\ stage = "done"
    /\ stage' = "coinbase"
    /\ raw' = None /\ item' = None /\ dj' = None /\ found' = None
    /\ header' = None /\ digest' = None /\ verdict' = "none"
    /\ UNCHANGED <<msg, ctx, treeVars>>

Next ==
    \/ HashCoinbase \/ CoinbaseTxid \/ compute_merkle_root_be
    \/ ingestJobWithPolicy \/ ingestTemplate \/ uploadDeviceJobs
    \/ kernel_mine_stub \/ kernel_mine_batch_unroll \/ NoHit
    \/ \E g \in BOOLEAN : verifyAndSubmit(g)
    \/ NextJob

Spec == Init /\ [][Next]_vars

-----------------------------------------------------------------------------
(* Properties *)

\* Nodes at a height of a tree over n leaves.
Width(n, height) == (n + Power(2, height) - 1) \div Power(2, height)

\* Node i (from 0) of a tree over n leaves: height 0 is leaf i, and above it
\* the pair of nodes 2i and 2i+1, or of 2i with itself at the right edge.
TreeNode(n, height, i) ==
    LET last(h) == Width(n, h) - 1
        node[h \in Nat] ==
          [k \in Nat |->
             IF h = 0 THEN <<k + 1>>
             ELSE <<node[h - 1][2 * k],
                    node[h - 1][IF 2 * k + 1 <= last(h - 1) THEN 2 * k + 1 ELSE 2 * k]>>]
    IN node[height][i]

\* compute_merkle_root_be computes, level by level, the tree with every odd
\* last node paired with itself, for every number of leaves.
MerkleIsTree ==
    stage = "merkle" =>
      \E h \in 0..Len(leaves) :
        level = [i \in 1..Width(Len(leaves), h) |-> TreeNode(Len(leaves), h, i - 1)]

\* docs/PRD.md: the root is recomputed from the branch, that is, each element of
\* the branch is combined with the hash so far.  The code takes the branch for
\* further leaves, which differs from two elements on.
RootFoldsBranch ==
    stage = "merkle" /\ Len(level) = 1 =>
      level[1] = FoldLeft(LAMBDA h, b : <<h, b>>, leaves[1], Tail(leaves))

\* The header that is verified, stored and submitted holds the bytes the pool
\* or node sent: what the normalizer does to prevhash and merkle root is undone.
HostHeaderIsWire ==
    stage = "done" =>
      header = raw.version \o raw.prevhash_be \o raw.merkle_root_be
                 \o raw.ntime \o raw.nbits \o found.nonce

\* The number that compact bits stand for.  Exponents beyond the hash saturate,
\* as in the code; Bitcoin Core shifts a mantissa that is small enough and calls
\* the others overflow.
CompactTarget(nbits) ==
    LET exponent == nbits[1]
        mantissa == ValueOf(Tail(nbits))
    IN IF 2 * nbits[2] >= Base THEN 0
       ELSE IF exponent <= 3 THEN mantissa \div Power(Base, 3 - exponent)
       ELSE IF exponent > HashLen THEN (IF mantissa = 0 THEN 0 ELSE Power(Base, HashLen) - 1)
       ELSE mantissa * Power(Base, exponent - 3)

\* What the host decides is the comparison of numbers: nothing above its target
\* is sent, and with an exponent of at least 3 nothing within it is rejected.
VerdictIsNumeric ==
    stage = "done" =>
      /\ verdict = "submitted" => ValueOf(digest) <= CompactTarget(raw.share_nbits)
      /\ verdict = "block" => ValueOf(digest) <= CompactTarget(raw.nbits)
      /\ verdict = "rejected" /\ raw.share_nbits[1] >= 3
           => ValueOf(digest) > CompactTarget(raw.share_nbits)

\* The unrolled kernel hashes every byte of the pool's prevhash and merkle root
\* once and in place, although they are split between the midstate (made by the
\* notify handler) and the tail, and with a time inside the policy's window.
DeviceHashesPoolFields ==
    stage = "hit" /\ found.kernel = "unrolled" /\ raw.source = "stratum" =>
      /\ SubSeq(found.message, 5, 4 + 2 * HashLen) = raw.prevhash_be \o raw.merkle_root_be
      /\ LexLeq(raw.ntime_min, raw.ntime_max) =>
           LET t == bswap32(SubSeq(found.message, 2 * HashLen + 5, 2 * HashLen + 8))
           IN LexLeq(raw.ntime_min, t) /\ LexLeq(t, raw.ntime_max)

\* docs/ARCHITECTURE.md: the header rebuilt for the CPU check is the one the
\* device hashed.  It is not, for any kernel.
HostRebuildsDeviceHeader == stage = "done" => header = found.message

\* cuda/engine.cu and the main loop: the device compares with the big-endian
\* form of the share's target, so a digest it reports passes the CPU's check.
\* The device's target is the CPU's with its bytes in reverse order.
SameDigestSameVerdict ==
    stage = "done" /\ digest = found.digest => verdict # "rejected"

\* normalize/targets.h: compact bits are decoded as in Bitcoin Core, here for the
\* exponents that are not beyond the hash.  With an exponent of 1 or 2 the code
\* shifts the mantissa twice.
CompactAsInCore ==
    stage = "job" /\ raw.share_nbits[1] <= HashLen =>
      ValueOf(leU32WordsToBe32Bytes(item.share_target_le)) = CompactTarget(raw.share_nbits)
=============================================================================
