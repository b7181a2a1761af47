----------------------------- MODULE DeviceRing -----------------------------
(***************************************************************************)
(* The device-side hit ring of src/src/cuda/engine.cu: thread blocks that  *)
(* collect hits in a shared-memory buffer and flush it into a global ring  *)
(* under an atomic write index, and the host, which launches, waits for    *)
(* the grid to finish and drains at most MaxOut records.                   *)
(*                                                                         *)
(* Blocks of a launch interleave freely.  A record is stored field by      *)
(* field after its place was reserved, so blocks that share a slot can mix *)
(* their fields.  What reading past an array returns is Garbage.  Hashing  *)
(* is left out: a block may find a hit at any time, MaxHits at most.       *)
(***************************************************************************)
EXTENDS Naturals, Sequences

CONSTANTS Blocks,      \* thread blocks of a launch
          Cap,         \* g_hit_cap
          Modulus,     \* 2^32: the write index and the drain offset wrap
          LocalCap,    \* entries of s_hits (64)
          MaxOut,      \* records per drain (64)
          MaxHits,     \* bound: hits per block and launch
          Launches,    \* bound
          Ids,         \* hits are numbered modulo Ids
          Garbage

ASSUME DeviceRingAssumption ==
  /\ Cap \in Nat \ {0} /\ Modulus \in Nat \ {0} /\ LocalCap \in Nat \ {0} /\ MaxOut \in Nat \ {0}
  /\ MaxHits \in Nat /\ Launches \in Nat /\ Ids \in Nat \ {0}
  /\ Garbage \notin 0..(Ids - 1)
  /\ Cap < Modulus

VARIABLES wr,       \* g_hit_write_idx
          buf,      \* g_hit_buf: slot -> fields
          rd,       \* s_device_drain_offset
          hpc,      \* the host: "idle", "kernel" or "drain"
          bpc,      \* block -> "mine", "flush" or "done"
          shits,    \* block -> s_hits, the entries in use
          scount,   \* block -> s_count
          todo,     \* block -> stores to g_hit_buf not yet performed
          launches,
          kernel,   \* "batch" (shared-memory buffer) or "stub" (straight to the ring)
          next,     \* history: number of the next hit
          queue,    \* history: what the undrained places were reserved for
          overrun,  \* history: more than Cap places were outstanding
          out, want \* the last drain: what it returned, what it should

vars == <<wr, buf, rd, hpc, bpc, shits, scount, todo, launches, kernel, next, queue, overrun, out, want>>

Fields == {"work_id", "nonce"}
Slots == 0..(Cap - 1)
Hits == 0..(Ids - 1)

(* initDeviceHitBuffer and kernel_init_hit_buf. *)
Init ==
  /\ wr = 0 /\ rd = 0
  /\ buf = [s \in Slots |-> [f \in Fields |-> Garbage]]
  /\ hpc = "idle" /\ launches = 0 /\ kernel = "batch"
  /\ bpc = [b \in Blocks |-> "done"]
  /\ shits = [b \in Blocks |-> <<>>]
  /\ scount = [b \in Blocks |-> 0]
  /\ todo = [b \in Blocks |-> <<>>]
  /\ next = 0 /\ queue = <<>> /\ overrun = FALSE
  /\ out = <<>> /\ want = <<>>

(* nonces_per_thread > 1 selects a batch kernel, 1 the stub. *)
Launch(k) ==
  /\ hpc = "idle" /\ launches < Launches
  /\ hpc' = "kernel" /\ launches' = launches + 1 /\ kernel' = k
  /\ bpc' = [b \in Blocks |-> "mine"]
  /\ shits' = [b \in Blocks |-> <<>>]
  /\ scount' = [b \in Blocks |-> 0]
  /\ UNCHANGED <<wr, buf, rd, todo, next, queue, overrun, out, want>>

(* The two stores that put hit h into the place reserved as index i. *)
Stores(i, h) == <<<<i % Cap, "work_id", h>>, <<i % Cap, "nonce", h>>>>

Available == IF wr >= rd THEN wr - rd ELSE Modulus - rd + wr

(* atomicInc or atomicAdd on the write index. *)
Reserve(hs) ==
  /\ wr' = (wr + Len(hs)) % Modulus
  /\ queue' = queue \o hs
  /\ overrun' = (overrun \/ Available + Len(hs) > Cap)

(* A hit while s_hits has room. *)
HitLocal(b) ==
  /\ bpc[b] = "mine" /\ kernel = "batch" /\ scount[b] < MaxHits
  /\ scount[b] < LocalCap
  /\ shits' = [shits EXCEPT ![b] = Append(@, next)]
  /\ scount' = [scount EXCEPT ![b] = @ + 1]
  /\ next' = (next + 1) % Ids
  /\ UNCHANGED <<wr, buf, rd, hpc, bpc, todo, launches, kernel, queue, overrun, out, want>>

(* A hit when it is full: s_count still counts it. *)
HitGlobal(b) ==
  /\ bpc[b] = "mine" /\ kernel = "batch" /\ scount[b] < MaxHits
  /\ scount[b] >= LocalCap
  /\ Reserve(<<next>>)
  /\ todo' = [todo EXCEPT ![b] = @ \o Stores(wr, next)]
  /\ scount' = [scount EXCEPT ![b] = @ + 1]
  /\ next' = (next + 1) % Ids
  /\ UNCHANGED <<buf, rd, hpc, bpc, shits, launches, kernel, out, want>>

(* The stub tests one nonce per job and writes its hit at once. *)
HitStub(b) ==
  /\ bpc[b] = "mine" /\ kernel = "stub"
  /\ Reserve(<<next>>)
  /\ todo' = [todo EXCEPT ![b] = @ \o Stores(wr, next)]
  /\ bpc' = [bpc EXCEPT ![b] = "flush"]
  /\ next' = (next + 1) % Ids
  /\ UNCHANGED <<buf, rd, hpc, shits, scount, launches, kernel, out, want>>

(* What thread 0 copies: s_count entries of s_hits, past its end if there  *)
(* were more hits than entries.                                            *)
Collected(b) == [i \in 1..scount[b] |-> IF i <= LocalCap THEN shits[b][i] ELSE Garbage]

StoresOf(b) ==
  [k \in 1..(2 * scount[b]) |->
     LET i == (k - 1) \div 2
     IN  Stores((wr + i) % Modulus, Collected(b)[i + 1])[((k - 1) % 2) + 1]]

FlushReservesOne(b) ==
  /\ bpc[b] = "mine"
  /\ bpc' = [bpc EXCEPT ![b] = "flush"]
  /\ wr' = IF scount[b] > 0 THEN (wr + 1) % Modulus ELSE wr
  /\ queue' = queue \o Collected(b)
  /\ overrun' = (overrun \/ Available + scount[b] > Cap)
  /\ todo' = [todo EXCEPT ![b] = @ \o StoresOf(b)]
  /\ UNCHANGED <<buf, rd, hpc, shits, scount, launches, kernel, next, out, want>>

(* After __syncthreads; nothing to do without local hits. *)
Flush(b) ==
  /\ bpc[b] = "mine"
  /\ bpc' = [bpc EXCEPT ![b] = "flush"]
  /\ Reserve(Collected(b))
  /\ todo' = [todo EXCEPT ![b] = @ \o StoresOf(b)]
  /\ UNCHANGED <<buf, rd, hpc, shits, scount, launches, kernel, next, out, want>>

Store(b) ==
  /\ todo[b] # <<>>
  /\ LET t == Head(todo[b])
     IN  buf' = [buf EXCEPT ![t[1]][t[2]] = t[3]]
  /\ todo' = [todo EXCEPT ![b] = Tail(@)]
  /\ UNCHANGED <<wr, rd, hpc, bpc, shits, scount, launches, kernel, next, queue, overrun, out, want>>

BlockDone(b) ==
  /\ bpc[b] = "flush" /\ todo[b] = <<>>
  /\ bpc' = [bpc EXCEPT ![b] = "done"]
  /\ UNCHANGED <<wr, buf, rd, hpc, shits, scount, todo, launches, kernel, next, queue, overrun, out, want>>

(* cudaDeviceSynchronize returns. *)
Synchronize ==
  /\ hpc = "kernel"
  /\ \A b \in Blocks : bpc[b] = "done"
  /\ hpc' = "drain"
  /\ UNCHANGED <<wr, buf, rd, bpc, shits, scount, todo, launches, kernel, next, queue, overrun, out, want>>

CopyStraight(n) ==
  [k \in 1..n |-> IF (rd % Cap) + k - 1 < Cap THEN buf[(rd % Cap) + k - 1]
                  ELSE [f \in Fields |-> Garbage]]

(* One or two copies, the second from the start of the ring. *)
Copy(n) ==
  LET start == rd % Cap
      first == IF n < Cap - start THEN n ELSE Cap - start
      Slot(k) == IF k <= first THEN start + k - 1 ELSE k - first - 1
  IN  [k \in 1..n |-> IF Slot(k) < Cap THEN buf[Slot(k)] ELSE [f \in Fields |-> Garbage]]

drainDeviceHits ==
  /\ hpc = "drain"
  /\ LET n == IF Available > MaxOut THEN MaxOut ELSE Available
     IN  /\ out' = Copy(n)
         /\ rd' = (rd + n) % Modulus
         /\ want' = [k \in 1..n |-> [f \in Fields |-> IF k <= Len(queue) THEN queue[k] ELSE Garbage]]
         /\ queue' = SubSeq(queue, n + 1, Len(queue))
  /\ hpc' = "idle"
  /\ UNCHANGED <<wr, buf, bpc, shits, scount, todo, launches, kernel, next, overrun>>

Finished == hpc = "idle" /\ launches = Launches /\ UNCHANGED vars

Next ==
  \/ \E k \in {"batch", "stub"} : Launch(k)
  \/ Synchronize \/ drainDeviceHits \/ Finished
  \/ \E b \in Blocks :
       HitLocal(b) \/ HitGlobal(b) \/ HitStub(b) \/ Flush(b) \/ Store(b) \/ BlockDone(b)

Spec == Init /\ [][Next]_vars

-----------------------------------------------------------------------------
(* Types of the host's and the device's state. *)
TypeOK ==
  /\ wr \in 0..(Modulus - 1) /\ rd \in 0..(Modulus - 1)
  /\ buf \in [Slots -> [Fields -> Hits \cup {Garbage}]]
  /\ hpc \in {"idle", "kernel", "drain"} /\ launches \in 0..Launches
  /\ bpc \in [Blocks -> {"mine", "flush", "done"}]
  /\ shits \in [Blocks -> Seq(Hits)] /\ scount \in [Blocks -> 0..MaxHits]
  /\ todo \in [Blocks -> Seq(Slots \X Fields \X (Hits \cup {Garbage}))]
  /\ kernel \in {"batch", "stub"} /\ next \in Hits /\ queue \in Seq(Hits \cup {Garbage}) /\ overrun \in BOOLEAN

(* The index arithmetic counts hits, across the wrap of both indices: what  *)
(* the host believes is available is what blocks reserved and it has not    *)
(* drained.                                                                 *)
BacklogExact == ~overrun => Available = Len(queue)

(* Outside a launch every undrained hit is in its slot, whole: the host     *)
(* never finds a reserved place that no block has filled, nor two blocks'   *)
(* fields in one record, unless more than Cap hits were outstanding.        *)
SettledWhenDrained ==
  hpc = "drain" /\ ~overrun =>
    \A k \in 1..Len(queue) : \A f \in Fields : buf[((rd + k - 1) % Modulus) % Cap][f] = queue[k]

(* Every drain returns what the oldest places were reserved for, each once, *)
(* whole, and in the order of reservation, unless the ring was overrun.     *)
DrainedInOrder == ~overrun => out = want

(* The host gets nothing that no thread found, unless the ring was overrun. *)
OnlyFoundHits ==
  ~overrun => \A k \in DOMAIN out : \A f \in Fields : out[k][f] # Garbage
=============================================================================
