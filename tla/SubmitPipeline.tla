--------------------------- MODULE SubmitPipeline ---------------------------
(***************************************************************************)
(* The path of a hit through the miner: registry slots and the table       *)
(* workid_to_source, one kernel launch per loop iteration, the drained     *)
(* hits, SubmitRouter, the router callback that sends a share to a pool    *)
(* and then persists it, and the outbox with its restart replay            *)
(* (src/src/tools/stratum_registry_runner.cpp, src/src/submit/             *)
(* submit_router.cc, src/src/store/outbox.h).                              *)
(*                                                                         *)
(* All of it runs on the main thread.  Each outbox call, each send and     *)
(* each loop step is one action so that the process can die between any    *)
(* two of them.  A header is abstracted to the source whose job it was     *)
(* built from.  Pools are external: a send succeeds or fails.              *)
(***************************************************************************)
EXTENDS Outbox, FiniteSets

CONSTANTS Sources,        \* registry slots, numbered; slot order is their order
          Stratum,        \* the slots that have a stratum runner and submitter
          JobsOf,         \* source -> work ids its pool may announce
          Winners,        \* the (work id, nonce) pairs the device reports
          CpuRejects,     \* those of them that the CPU check does not confirm
          BlockHits,      \* those of them that also meet the block target
          HasGbtSubmitter,\* a pool entry has profile gbt and an rpc section
          Span,           \* nonces one launch tests per job
          MaxBase,        \* bound: launches per process run
          DrainMax,       \* hits drained per iteration (64 in the code)
          ReplayMax,      \* records replayed at startup (128 in the code)
          MaxFileCells,   \* outbox.max_bytes, in cells
          RotateInterval, \* outbox.rotate_interval_sec, in clock ticks, 0 = off
          RotateOnStart,  \* the values outbox.rotate_on_start may have at a start
          TicksPerSec,    \* clock resolution
          ClockStart, MaxClock,  \* bounds of the wall clock, in ticks
          MaxCrashes      \* bound: process deaths

Epoch(t) == t \div TicksPerSec

ASSUME PipelineAssumption ==
  /\ Sources \subseteq Nat \ {0} /\ Stratum \subseteq Sources
  /\ \A s \in Sources : JobsOf[s] \subseteq Nat \ {0}
  /\ Winners \subseteq Nat \X Nat
  /\ \A p \in Winners, s \in Sources : [wid |-> p[1], nonce |-> p[2], hdr |-> s] \in Hit
  /\ Span \in Nat \ {0} /\ DrainMax \in Nat \ {0} /\ ReplayMax \in Nat \ {0}
  /\ MaxBase \in Nat /\ MaxFileCells \in Nat /\ RotateInterval \in Nat
  /\ TicksPerSec \in Nat \ {0} /\ ClockStart \in Nat \ {0} /\ MaxClock \in Nat
  /\ ClockStart <= MaxClock
  /\ MaxCrashes \in Nat
  /\ RotateOnStart \subseteq BOOLEAN /\ HasGbtSubmitter \in BOOLEAN
  /\ \A t \in ClockStart..MaxClock : Epoch(t) \in Epochs

None == 0   \* no source / no work id: sources and work ids are positive

VARIABLES pc,        \* where the main thread is
          ret,       \* where the router callback returns to
          cur,       \* the record being routed
          slot,      \* source -> work id of the job in its registry slot
          wmap,      \* workid_to_source
          base,      \* nonce_base
          ring,      \* hits in the device ring
          hits,      \* drained hits not yet handled in this iteration
          replayed,  \* records replayed since startup, in order
          clock,     \* system_clock
          lastRot,   \* last_outbox_rotate_ms
          crashes,
          sent,      \* <<source, record>> handed to a pool since startup
          everSent,  \* the same, since the beginning
          resent,    \* records handed to the same pool more than once
          found,     \* hits that verifyAndSubmit accepted, ever
          casualties,\* hits whose append was cut short or never reached
          dropped,   \* block hits that went nowhere
          nameReused \* a rotation overwrote an older backup

hist == <<sent, everSent, resent, found, casualties, dropped>>
loopVars == <<slot, wmap, base, ring, hits>>
timeVars == <<clock, lastRot, crashes>>
vars == <<outboxVars, pc, ret, cur, loopVars, replayed, timeVars, hist, nameReused>>

WorkIds == UNION {JobsOf[s] : s \in Sources}

Init ==
  /\ OutboxInit
  /\ pc = "down" /\ ret = "idle" /\ cur = Junk
  /\ slot = [s \in Sources |-> None]
  /\ wmap = [w \in WorkIds |-> None]
  /\ base = 0 /\ ring = {} /\ hits = {} /\ replayed = <<>>
  /\ clock = ClockStart /\ lastRot = 0 /\ crashes = 0
  /\ sent = {} /\ everSent = {} /\ resent = {}
  /\ found = {} /\ casualties = {} /\ dropped = {}
  /\ nameReused = FALSE

Rotating == /\ rotateFile(Epoch(clock))
            /\ lastRot' = clock
            /\ nameReused' = (nameReused \/ baks[Epoch(clock)] \notin {<<>>, baks'[Epoch(clock)]})

-----------------------------------------------------------------------------
(* Startup. *)

(* The configuration is read at every start.  After a forced rotation the  *)
(* queue is empty and replay_pending does nothing.                         *)
StartRotated ==
  /\ pc = "down"
  /\ TRUE \in RotateOnStart
  /\ Rotating
  /\ pc' = "idle"
  /\ UNCHANGED <<ret, cur, loopVars, replayed, clock, crashes, hist>>

StartNoFile ==
  /\ pc = "down"
  /\ FALSE \in RotateOnStart
  /\ ~present
  /\ pc' = "replay"
  /\ UNCHANGED <<outboxVars, ret, cur, loopVars, replayed, timeVars, hist, nameReused>>

StartLoad ==
  /\ pc = "down"
  /\ FALSE \in RotateOnStart
  /\ LoadBegin
  /\ pc' = "load"
  /\ UNCHANGED <<ret, cur, loopVars, replayed, timeVars, hist, nameReused>>

Load ==
  /\ pc = "load"
  /\ LoadRecord
  /\ UNCHANGED <<pc, ret, cur, loopVars, replayed, timeVars, hist, nameReused>>

Loaded ==
  /\ pc = "load"
  /\ LoadEnd
  /\ pc' = "replay"
  /\ UNCHANGED <<ret, cur, loopVars, replayed, timeVars, hist, nameReused>>

ReplayNewestFirst ==
  /\ pc = "replay"
  /\ Len(replayed) < ReplayMax
  /\ op = "none" /\ q # <<>>
  /\ q' = SubSeq(q, 1, Len(q) - 1)
  /\ cur' = q[Len(q)]
  /\ replayed' = Append(replayed, q[Len(q)])
  /\ pc' = "enqueue" /\ ret' = "replay"
  /\ UNCHANGED <<seen, file, present, baks, op, idx, loopVars, timeVars, hist, nameReused>>

(* replay_pending: take one record and route it without re-verification. *)
ReplayDequeue ==
  /\ pc = "replay"
  /\ Len(replayed) < ReplayMax
  /\ tryDequeue
  /\ cur' = Head(q)
  /\ replayed' = Append(replayed, Head(q))
  /\ pc' = "enqueue" /\ ret' = "replay"
  /\ UNCHANGED <<loopVars, timeVars, hist, nameReused>>

ReplayDone ==
  /\ pc = "replay"
  /\ q = <<>> \/ Len(replayed) = ReplayMax
  /\ pc' = "idle"
  /\ UNCHANGED <<outboxVars, ret, cur, loopVars, replayed, timeVars, hist, nameReused>>

-----------------------------------------------------------------------------
(* The main loop. *)

(* reg.set: a slot holds one job, replaced in place. *)
set(s, w) == slot' = [slot EXCEPT ![s] = w]

(* A job polled from the adapter of source s replaces the slot's job. *)
DrainAdapter(s, w) ==
  /\ pc = "idle"
  /\ w \in JobsOf[s]
  /\ set(s, w)
  /\ wmap' = [wmap EXCEPT ![w] = s]
  /\ UNCHANGED <<outboxVars, pc, ret, cur, base, ring, hits, replayed, timeVars, hist, nameReused>>

Active == {s \in Sources : slot[s] # None}

(* Position of slot s in the DeviceJob table. *)
JobIndex(s) == Cardinality({t \in Active : t < s})

SnapshotOfLast(w) == CHOOSE s \in Active : \A t \in Active : t <= s

(* id_to_snap.emplace keeps the first slot of a work id. *)
SnapshotOf(w) == CHOOSE s \in Active : slot[s] = w /\ \A t \in Active : slot[t] = w => s <= t

(* What a launch reports: the winning nonces of every job's window. *)
DeviceHits ==
  {h \in { [wid |-> slot[s], nonce |-> base + JobIndex(s) + k, job |-> s, at |-> base] :
              s \in Active, k \in 0..(Span - 1) } :
     <<h.wid, h.nonce>> \in Winners}

(* Launch, then drain at most DrainMax hits; the others wait in the device *)
(* ring for a later iteration.                                             *)
Launch ==
  /\ pc = "idle"
  /\ Active # {}
  /\ base < MaxBase
  /\ LET all == ring \cup DeviceHits
     IN  \E d \in SUBSET all :
           /\ Cardinality(d) = IF Cardinality(all) < DrainMax THEN Cardinality(all) ELSE DrainMax
           /\ hits' = d
           /\ ring' = all \ d
  /\ base' = base + 1
  /\ pc' = "hits"
  /\ UNCHANGED <<outboxVars, ret, cur, slot, wmap, replayed, timeVars, hist, nameReused>>

Pair(h) == <<h.wid, h.nonce>>

ToBlockPath(h) == HasGbtSubmitter /\ Pair(h) \in BlockHits

HasSnapshot(h) == \E s \in Active : slot[s] = h.wid

(* The record of a hit: its header comes from this iteration's snapshot of *)
(* its work id.                                                            *)
Rec(h) == [wid |-> h.wid, nonce |-> h.nonce, hdr |-> SnapshotOf(h.wid)]

TakeHit(h) == pc = "hits" /\ h \in hits /\ hits' = hits \ {h}

(* A hit that waited in the ring while its job was replaced. *)
StaleHit(h) ==
  /\ TakeHit(h)
  /\ ~HasSnapshot(h)
  /\ UNCHANGED <<outboxVars, pc, ret, cur, slot, wmap, base, ring, replayed, timeVars, hist, nameReused>>

(* The GbtSubmitter that main() builds never gets a template, so it has no *)
(* coinbase and submitHeader returns false before any RPC: only metrics    *)
(* record the hit.                                                         *)
BlockHit(h) ==
  /\ TakeHit(h)
  /\ HasSnapshot(h) /\ ToBlockPath(h)
  /\ dropped' = dropped \cup {Rec(h)}
  /\ UNCHANGED <<outboxVars, pc, ret, cur, slot, wmap, base, ring, replayed, timeVars,
                 sent, everSent, resent, found, casualties, nameReused>>

(* verifyAndSubmit returns before it routes when the CPU hash misses the   *)
(* share target.                                                           *)
VerifyFails(h) ==
  /\ TakeHit(h)
  /\ HasSnapshot(h) /\ ~ToBlockPath(h) /\ Pair(h) \in CpuRejects
  /\ UNCHANGED <<outboxVars, pc, ret, cur, slot, wmap, base, ring, replayed, timeVars, hist, nameReused>>

verifyAndSubmit(h) ==
  /\ TakeHit(h)
  /\ HasSnapshot(h) /\ ~ToBlockPath(h) /\ Pair(h) \notin CpuRejects
  /\ found' = found \cup {Rec(h)}
  /\ cur' = Rec(h)
  /\ pc' = "enqueue" /\ ret' = "hits"
  /\ UNCHANGED <<outboxVars, slot, wmap, base, ring, replayed, timeVars,
                 sent, everSent, resent, casualties, dropped, nameReused>>

HitsDone ==
  /\ pc = "hits"
  /\ hits = {}
  /\ pc' = "idle"
  /\ UNCHANGED <<outboxVars, ret, cur, loopVars, replayed, timeVars, hist, nameReused>>

-----------------------------------------------------------------------------
(* SubmitRouter and its callback. *)

(* outbox_->enqueue, whose answer is not looked at: the callback runs for  *)
(* a duplicate too.                                                        *)
RouteEnqueue ==
  /\ pc = "enqueue"
  /\ enqueue(cur)
  /\ pc' = "send"
  /\ UNCHANGED <<ret, cur, loopVars, replayed, timeVars, hist, nameReused>>

Destination(r) == IF r # Junk /\ r.wid \in WorkIds THEN wmap[r.wid] ELSE None

SendOk ==
  /\ pc = "send"
  /\ LET s == Destination(cur)
     IN  /\ s \in Stratum
         /\ sent' = sent \cup {<<s, cur>>}
         /\ everSent' = everSent \cup {<<s, cur>>}
         /\ resent' = resent \cup {r \in {cur} : <<s, r>> \in everSent}
  /\ pc' = "rotate"
  /\ UNCHANGED <<outboxVars, ret, cur, loopVars, replayed, timeVars,
                 found, casualties, dropped, nameReused>>

(* No stratum destination, or the runner is not connected. *)
SendNot ==
  /\ pc = "send"
  /\ pc' = "rotate"
  /\ UNCHANGED <<outboxVars, ret, cur, loopVars, replayed, timeVars, hist, nameReused>>

RotationDue ==
  \/ present /\ Len(file) >= MaxFileCells
  \/ RotateInterval > 0 /\ clock - lastRot > RotateInterval

RotateIfNeeded ==
  /\ pc = "rotate"
  /\ RotationDue
  /\ Rotating
  /\ pc' = "append"
  /\ UNCHANGED <<ret, cur, loopVars, replayed, clock, crashes, hist>>

RotateNotNeeded ==
  /\ pc = "rotate"
  /\ ~RotationDue
  /\ pc' = "append"
  /\ UNCHANGED <<outboxVars, ret, cur, loopVars, replayed, timeVars, hist, nameReused>>

Persist(n) ==
  /\ pc = "append"
  /\ appendToFile(cur, n)
  /\ casualties' = casualties \cup {r \in {cur} : n < 3}
  /\ pc' = ret
  /\ UNCHANGED <<ret, cur, loopVars, replayed, timeVars,
                 sent, everSent, resent, found, dropped, nameReused>>

-----------------------------------------------------------------------------
(* The environment. *)

Tick ==
  /\ clock < MaxClock
  /\ clock' = clock + 1
  /\ UNCHANGED <<outboxVars, pc, ret, cur, loopVars, replayed, lastRot, crashes, hist, nameReused>>

InCallback == pc \in {"enqueue", "send", "rotate", "append"}

Crash ==
  /\ pc # "down"
  /\ crashes < MaxCrashes
  /\ crashes' = crashes + 1
  /\ Die
  /\ pc' = "down" /\ ret' = "idle" /\ cur' = Junk
  /\ slot' = [s \in Sources |-> None]
  /\ wmap' = [w \in WorkIds |-> None]
  /\ base' = 0 /\ ring' = {} /\ hits' = {} /\ replayed' = <<>> /\ lastRot' = 0
  /\ sent' = {}
  /\ casualties' = casualties \cup {r \in {cur} : InCallback}
  /\ UNCHANGED <<clock, everSent, resent, found, dropped, nameReused>>

-----------------------------------------------------------------------------
Next ==
  \/ StartRotated \/ StartNoFile \/ StartLoad \/ Load \/ Loaded
  \/ ReplayDequeue \/ ReplayDone
  \/ \E s \in Sources, w \in WorkIds : DrainAdapter(s, w)
  \/ Launch
  \/ \E h \in hits : StaleHit(h)
  \/ \E h \in hits : BlockHit(h)
  \/ \E h \in hits : VerifyFails(h)
  \/ \E h \in hits : verifyAndSubmit(h)
  \/ HitsDone
  \/ RouteEnqueue \/ SendOk \/ SendNot
  \/ RotateIfNeeded \/ RotateNotNeeded
  \/ \E n \in 0..3 : Persist(n)
  \/ Tick \/ Crash

Spec == Init /\ [][Next]_vars

-----------------------------------------------------------------------------
(* Types of the main thread's state. *)
TypeOK ==
  /\ OutboxTypeOK
  /\ pc \in {"down", "load", "replay", "idle", "hits", "enqueue", "send", "rotate", "append"}
  /\ ret \in {"idle", "replay", "hits"}
  /\ cur \in Records
  /\ slot \in [Sources -> WorkIds \cup {None}]
  /\ wmap \in [WorkIds -> Sources \cup {None}]
  /\ base \in 0..MaxBase
  /\ ring \cup hits \subseteq [wid : WorkIds, nonce : Nat, job : Sources, at : 0..MaxBase]
  /\ replayed \in Seq(Records)
  /\ clock \in ClockStart..MaxClock
  /\ lastRot \in 0..MaxClock
  /\ crashes \in 0..MaxCrashes
  /\ sent \subseteq Sources \X Records /\ everSent \subseteq Sources \X Records
  /\ resent \subseteq Records
  /\ found \subseteq Hit /\ casualties \subseteq Records /\ dropped \subseteq Hit
  /\ nameReused \in BOOLEAN

OnDisk(r) == \/ Intact(file, r)
             \/ \E e \in Epochs : Intact(baks[e], r)

(* A verified hit is never lost silently, over any interleaving of hits,    *)
(* rotations, restarts and replays: it is whole in the outbox file or in a  *)
(* backup, or it is the one being routed, or its own append was cut short   *)
(* or overtaken by the process's death.  The one thing that can break this  *)
(* is a rotation onto a backup name already used in the same second.        *)
NoSilentLoss ==
  ~nameReused =>
    \A h \in found : \/ OnDisk(h)
                     \/ h \in casualties
                     \/ InCallback /\ cur = h

(* Startup recovers what the file holds: when the load is over, every hit   *)
(* whose three parts are in the file has its key in the dedupe set, so it   *)
(* was queued for replay.                                                   *)
LoadRecoversFile ==
  pc = "replay" /\ replayed = <<>> =>
    \A h \in Hit : Intact(file, h) => Key(h) \in seen

(* replay_pending routes each pending record once per startup, although it  *)
(* puts the record back through enqueue while it drains the same queue.     *)
ReplayOnce ==
  \A i, j \in DOMAIN replayed : Key(replayed[i]) = Key(replayed[j]) => i = j

(* The startup replay takes the oldest pending record first and passes none *)
(* over, although every record it routes is appended to the file again,     *)
(* behind those still waiting: until a rotation takes the file away         *)
(* (lastRot is no longer 0), what was replayed is the first record of its   *)
(* key in the file, and for every earlier such record, replayed before it.  *)
(* What the limit of 128 leaves over is the newest of what was pending.     *)
ReplayOldestFirst ==
  lastRot = 0 =>
    \A i \in DOMAIN replayed : \E k \in 1..Frames(file) :
      /\ replayed[i] = Decode(file, k) /\ FirstOfKey(file, k)
      /\ \A j \in 1..(k - 1) :
           FirstOfKey(file, j) => \E m \in 1..(i - 1) : replayed[m] = Decode(file, j)

(* A share goes to the pool whose job it was mined for: the source that     *)
(* workid_to_source names is the one whose snapshot built the header.       *)
RoutedToOrigin == \A m \in everSent : m[2] # Junk => m[1] = m[2].hdr

(* No pool is handed the same (work_id, nonce, header) twice. *)
NoMultiSubmit == resent = {}

(* When the startup replay routes a record of a stratum job, the router     *)
(* knows which pool to hand it to.                                          *)
ReplayHasDestination ==
  pc = "send" /\ ret = "replay" /\ cur # Junk => Destination(cur) # None

(* Every record still queued when the startup replay or a hit's callback    *)
(* is over is in the file that the next startup would load.                 *)
PendingReplayable ==
  pc = "idle" => \A i \in DOMAIN q : Intact(file, q[i])

(* A block hit that the solo submitter cannot take is not thrown away. *)
BlockNotDropped == dropped = {}
=============================================================================
