---------------------------- MODULE LaunchTuning ----------------------------
(***************************************************************************)
(* What a launch tests and how the main loop tunes the next one: the plan  *)
(* (src/src/cuda/launch_plan.h), the feedback from kernel time and         *)
(* occupancy (src/src/cuda/auto_tune.h and stratum_registry_runner.cpp),   *)
(* the saved profile (src/src/cuda/auto_tune.cpp), and which nonces of a   *)
(* job successive launches cover (the start nonces of engine.cu).          *)
(*                                                                         *)
(* Nonces are counted from nonce_base, so the "+= 1" after a launch moves  *)
(* every frontier down, and the wrap of 32 bits needs no case of its own.  *)
(* A slot that has had a job stays active until the process ends.          *)
(*                                                                         *)
(* A kernel time is its relation to the budget: "zero" (below one          *)
(* millisecond, which the cast truncates to 0), "under" (below 80%),       *)
(* "within" or "over".                                                     *)
(***************************************************************************)
EXTENDS Integers, FiniteSets

CONSTANTS NumSlots,     \* sources
          MinThreads,   \* 64: clamp of a block, floor of the tuning
          StartTpb,     \* 256: block size the plan starts from
          MaxTpb,       \* 1024: clamp of a block
          MaxThreads,   \* 1024: cap of desired_threads_per_job
          MaxBatch,     \* 1000000: cap of nonces_per_thread
          Configs,      \* configured [threads, npt]
          NoProfile,    \* no profile file, or one that does not parse
          MaxRestarts   \* bound

Knobs == [threads : Nat \ {0}, npt : Nat \ {0}]

ASSUME TuningAssumption ==
  /\ NumSlots \in Nat \ {0} /\ MinThreads \in Nat \ {0}
  /\ StartTpb \in Nat \ {0} /\ MaxTpb \in Nat \ {0}
  /\ MinThreads <= StartTpb /\ StartTpb <= MaxTpb
  /\ MaxThreads \in Nat /\ MinThreads <= MaxThreads
  /\ MaxBatch \in Nat \ {0}
  /\ Configs \subseteq Knobs /\ Configs # {}
  /\ NoProfile \notin Knobs
  /\ MaxRestarts \in Nat

VARIABLES threads, npt,     \* desired_threads_per_job, nonces_per_thread
          saved,            \* the profile file
          active,           \* slots with a job
          last,             \* time of the last launch
          restarts,
          watch,            \* the slot that the history is kept for
          begun,            \* history: a launch has had the job in it
          frontier,         \* history: its first nonce not tested yet
          skipped, moved    \* history: nonces passed over, moves of its index

knobVars == <<threads, npt>>
history == <<begun, frontier, skipped, moved>>
vars == <<knobVars, saved, active, last, restarts, watch, history>>

Slots == 1..NumSlots

MaxOf(a, b) == IF a >= b THEN a ELSE b

MinOf(a, b) == IF a <= b THEN a ELSE b

-----------------------------------------------------------------------------
(* The launch plan.  desired_threads_per_job is never 0, so there is one.   *)

clampThreadsPerBlock(t) == MaxOf(MinThreads, MinOf(MaxTpb, t))

(* StartTpb, halved while it exceeds d and has not fallen below the clamp; *)
(* StartTpb turns of the loop are enough.                                  *)
Halved(d) ==
  LET tpb[turn \in Nat] ==
        IF turn = 0 THEN StartTpb
        ELSE LET t == tpb[turn - 1] IN IF t > d /\ t >= MinThreads THEN t \div 2 ELSE t
  IN  tpb[StartTpb]

(* computeLaunchPlan: threads of a job, blocks_per_job * threads_per_block. *)
computeLaunchPlan(d) ==
  LET tpb == clampThreadsPerBlock(Halved(d))
  IN  tpb * ((d + tpb - 1) \div tpb)

(* Nonces of one job in a launch.  Without micro-batches the kernel is     *)
(* kernel_mine_stub, in which one thread of a job works.                   *)
Window(d, n) == IF n > 1 THEN computeLaunchPlan(d) * n ELSE 1

(* nonces_tested per job as main() computes it, after nonces_per_thread    *)
(* has been tuned.                                                         *)
Estimate(d, n, tuned) == IF n > 1 THEN computeLaunchPlan(d) * tuned ELSE 1

(* The index of a slot's job among the uploaded ones. *)
JobIndex(s) == Cardinality({t \in active : t < s})

(* start_nonce of the job's first thread: nonce_base + j. *)
StartNonce(s) == JobIndex(s)

-----------------------------------------------------------------------------
(* The tuning. *)

BatchIgnoresOver(time, n) ==
  IF time = "under" THEN MinOf(2 * n, MaxBatch) ELSE n

BatchIgnoresUnder(time, n) ==
  IF time = "over" THEN MaxOf(n \div 2, 1) ELSE n

autoTuneMicroBatch(time, n) ==
  CASE time = "under" -> MinOf(2 * n, MaxBatch)
    [] time = "over"  -> MaxOf(n \div 2, 1)
    [] OTHER          -> n

TuneQuadruples(time, low, d) ==
  IF low /\ d < MaxThreads THEN MinOf(MaxThreads, 4 * d)
  ELSE CASE time \in {"zero", "under"}      -> MinOf(MaxThreads, 2 * d)
         [] time = "over" /\ d > MinThreads -> MaxOf(MinThreads, d \div 2)
         [] OTHER                           -> d

TuneThreads(time, low, d) ==
  IF low /\ d < MaxThreads THEN MinOf(MaxThreads, 2 * d)
  ELSE CASE time \in {"zero", "under"}      -> MinOf(MaxThreads, 2 * d)
         [] time = "over" /\ d > MinThreads -> MaxOf(MinThreads, d \div 2)
         [] OTHER                           -> d

AdvanceByWindow == Window(threads, npt')

(* nonce_base += 1. *)
Advance == 1

-----------------------------------------------------------------------------
(* The main loop. *)

loadTuningProfile(c, p) == IF p = NoProfile THEN c ELSE p

Begin(k) ==
  /\ threads' = k.threads /\ npt' = k.npt
  /\ active' = {} /\ last' = "none"
  /\ begun' = FALSE /\ frontier' = 0 /\ skipped' = 0 /\ moved' = 0

Init ==
  /\ \E c \in Configs : threads = c.threads /\ npt = c.npt
  /\ saved = NoProfile /\ active = {} /\ last = "none"
  /\ restarts = 0 /\ watch \in Slots
  /\ begun = FALSE /\ frontier = 0 /\ skipped = 0 /\ moved = 0

(* A new job replaces the one in its slot; the first job of a slot moves   *)
(* the jobs of later slots one place up.                                   *)
SetSlot(s) ==
  /\ active' = active \cup {s}
  /\ IF s = watch
     THEN begun' = FALSE /\ frontier' = 0 /\ skipped' = 0 /\ moved' = 0
     ELSE /\ moved' = IF begun /\ s \notin active /\ s < watch THEN moved + 1 ELSE moved
          /\ UNCHANGED <<begun, frontier, skipped>>
  /\ UNCHANGED <<knobVars, saved, last, restarts, watch>>

(* The watched job's nonces in a launch, and nonce_base moving on. *)
Cover ==
  LET start == StartNonce(watch)
      known == IF begun THEN frontier ELSE start
  IN  /\ begun' = TRUE
      /\ frontier' = MaxOf(known, start + Window(threads, npt)) - Advance
      /\ skipped' = skipped + MaxOf(0, start - known)
      /\ UNCHANGED moved

Launch(time, low) ==
  /\ active # {}
  /\ npt' = autoTuneMicroBatch(time, npt)
  /\ threads' = TuneThreads(time, low, threads)
  /\ last' = time
  /\ IF watch \in active THEN Cover ELSE UNCHANGED history
  /\ UNCHANGED <<active, restarts, watch>>

(* saveTuningProfile, in some iterations; the file may not open. *)
Iterate(time, low) ==
  /\ Launch(time, low)
  /\ \/ UNCHANGED saved
     \/ saved' = [threads |-> threads', npt |-> npt']

(* The process dies and starts again.  A death inside saveTuningProfile    *)
(* leaves a truncated file.                                                *)
Restart(c, p) ==
  /\ restarts < MaxRestarts
  /\ restarts' = restarts + 1
  /\ saved' = p
  /\ Begin(loadTuningProfile(c, p))
  /\ UNCHANGED watch

Times == {"zero", "under", "within", "over"}

Next ==
  \/ \E s \in Slots : SetSlot(s)
  \/ \E time \in Times, low \in BOOLEAN : Iterate(time, low)
  \/ \E c \in Configs, p \in {saved, NoProfile} : Restart(c, p)

(* The main loop goes on; nothing is assumed of kernel times. *)
Spec ==
  /\ Init /\ [][Next]_vars
  /\ WF_vars(\E time \in Times, low \in BOOLEAN : Iterate(time, low))

-----------------------------------------------------------------------------
(* Types.  The knobs stay positive and within the larger of their cap and  *)
(* what was configured, over restarts too.                                 *)
TypeOK ==
  /\ threads \in 1..MaxThreads \/ \E c \in Configs : threads \in 1..c.threads
  /\ npt \in 1..MaxBatch \/ \E c \in Configs : npt \in 1..c.npt
  /\ saved \in Knobs \cup {NoProfile}
  /\ active \subseteq Slots /\ watch \in Slots /\ begun \in BOOLEAN
  /\ last \in Times \cup {"none"} /\ restarts \in 0..MaxRestarts
  /\ frontier \in Int /\ skipped \in Nat /\ moved \in 0..NumSlots

(* However the tuning changes the window between launches, the nonces that *)
(* were tested of a job have at most one hole for each time its index      *)
(* moved (an earlier slot getting its first job moves start_nonce by 2).   *)
HolesOnlyFromMoves == skipped <= moved

(* A launch over budget never makes the next launch larger, though low     *)
(* occupancy doubles the threads at the same time.  (A step after which    *)
(* the last launch was over budget is that launch, or changes no knob.)    *)
OverBudgetNeverGrows ==
  [][last' = "over" => Window(threads', npt') <= Window(threads, npt)]_vars

(* Launches do not stay over budget above the smallest one, a nonce a job. *)
ShrinksToBudget == last = "over" ~> (last # "over" \/ Window(threads, npt) = 1)

(* Launches measurably under budget do not stay there below the caps.      *)
GrowsToBudget ==
  last = "under" ~> (last # "under" \/ (npt = MaxBatch /\ threads = MaxThreads))

(* The same for launches that take less than a millisecond. *)
FastLaunchGrows == last = "zero" ~> (last # "zero" \/ npt >= MaxBatch)

(* All jobs of a launch are tested with the same nonces. *)
SameNonceAcrossJobs == \A s, t \in active : StartNonce(s) = StartNonce(t)

(* The nonces_tested that the hashrate is computed from were tested. *)
EstimateExact ==
  [][\A time \in Times, low \in BOOLEAN :
       Iterate(time, low) => Estimate(threads, npt, npt') = Window(threads, npt)]_vars
=============================================================================
