---------------------------- MODULE Backpressure ----------------------------
(***************************************************************************)
(* The scheduler and its per-source penalties: the runner threads' health  *)
(* counters (src/src/adapters/stratum_runner.cc), the evaluation that the  *)
(* main loop makes of them every two seconds, and SchedulerState::select   *)
(* (src/src/scheduler/scheduler.h, src/src/tools/                          *)
(* stratum_registry_runner.cpp).                                           *)
(*                                                                         *)
(* The counters are atomics that the runner threads change at any time,    *)
(* also between the main thread's reads of two of them.  avgSubmitMs() is  *)
(* always 0, since last_submit_sent_ is never assigned, so the latency     *)
(* term of the penalty is left out.                                        *)
(***************************************************************************)
EXTENDS Integers, FiniteSetsExt

CONSTANTS Sources,       \* slots, numbered; slot order is their order
          Stratum,       \* those with a stratum runner
          Weight,        \* source -> source_weight
          Cap,           \* max_weight_cap
          MaxIds,        \* select's max_ids (64)
          MaxAnswers,    \* bound: accepted and rejected submits per source
          MaxFailures,   \* bound: failed connects in a row
          MaxDisconnects \* bound: disconnects per source

ASSUME BackpressureAssumption ==
  /\ Sources \subseteq Nat /\ IsFiniteSet(Sources) /\ Stratum \subseteq Sources
  /\ Weight \in [Sources -> Nat \ {0}] /\ Cap \in Nat \ {0} /\ MaxIds \in Nat \ {0}
  /\ MaxAnswers \in Nat /\ MaxFailures \in Nat /\ MaxDisconnects \in Nat

VARIABLES acc, rej,          \* accepted_submits_, rejected_submits_
          cf, qd,            \* consecutive_connect_failures_, consecutive_quick_disconnects_
          connected,         \* the runner is in its receive loop
          lastAcc, lastRej,  \* last_acc, last_rej
          penalty,           \* src_penalty, and so source_penalty
          sid,               \* the source whose turn it is in the evaluation, or Idle
          dacc,              \* accepts since the last evaluation, once read, or Unread
          filled,            \* slots that hold a job
          selected           \* source -> times select returned its job

counters == <<acc, rej, cf, qd, connected>>
evalVars == <<lastAcc, lastRej, penalty, sid, dacc>>
schedVars == <<counters, evalVars, filled, selected>>

Idle == -1
Unread == -1

SchedInit ==
  /\ acc = [s \in Stratum |-> 0] /\ rej = [s \in Stratum |-> 0]
  /\ cf = [s \in Stratum |-> 0] /\ qd = [s \in Stratum |-> 0]
  /\ connected = [s \in Stratum |-> FALSE]
  /\ lastAcc = [s \in Stratum |-> 0] /\ lastRej = [s \in Stratum |-> 0]
  /\ penalty = [s \in Sources |-> 0]
  /\ sid = Idle /\ dacc = Unread
  /\ filled = {} /\ selected = [s \in Sources |-> 0]

-----------------------------------------------------------------------------
(* The runner threads. *)

ConnectFails(s) ==
  /\ ~connected[s] /\ cf[s] < MaxFailures
  /\ cf' = [cf EXCEPT ![s] = @ + 1]
  /\ UNCHANGED <<acc, rej, qd, connected, evalVars, filled, selected>>

ConnectSucceeds(s) ==
  /\ ~connected[s]
  /\ cf' = [cf EXCEPT ![s] = 0]
  /\ connected' = [connected EXCEPT ![s] = TRUE]
  /\ UNCHANGED <<acc, rej, qd, evalVars, filled, selected>>

(* Any end of a session counts, however long it lasted. *)
Disconnect(s) ==
  /\ connected[s] /\ qd[s] < MaxDisconnects
  /\ qd' = [qd EXCEPT ![s] = @ + 1]
  /\ connected' = [connected EXCEPT ![s] = FALSE]
  /\ UNCHANGED <<acc, rej, cf, evalVars, filled, selected>>

Accepted(s) ==
  /\ connected[s] /\ acc[s] < MaxAnswers
  /\ acc' = [acc EXCEPT ![s] = @ + 1]
  /\ UNCHANGED <<rej, cf, qd, connected, evalVars, filled, selected>>

Rejected(s) ==
  /\ connected[s] /\ rej[s] < MaxAnswers
  /\ rej' = [rej EXCEPT ![s] = @ + 1]
  /\ UNCHANGED <<acc, cf, qd, connected, evalVars, filled, selected>>

Notified(s) ==
  /\ s \notin filled
  /\ filled' = filled \cup {s}
  /\ UNCHANGED <<counters, evalVars, selected>>

-----------------------------------------------------------------------------
(* The main thread. *)

After(s) == LET later == {t \in Sources : t > s} IN IF later = {} THEN Idle ELSE Min(later)

(* More than two seconds since the last evaluation, and there is a job. *)
EvaluateBegin ==
  /\ sid = Idle /\ filled # {}
  /\ sid' = Min(Sources)
  /\ UNCHANGED <<counters, lastAcc, lastRej, penalty, dacc, filled, selected>>

ReadAccepted ==
  /\ sid \in Stratum /\ dacc = Unread
  /\ dacc' = acc[sid] - lastAcc[sid]
  /\ lastAcc' = [lastAcc EXCEPT ![sid] = acc[sid]]
  /\ UNCHANGED <<counters, lastRej, penalty, sid, filled, selected>>

Above(n, bounds) == Cardinality({b \in bounds : n > b})

(* Points of a stratum source in this evaluation. *)
Points(s, drej) == (IF drej > dacc THEN 1 ELSE 0) + Above(cf[s], {0, 3, 7}) + Above(qd[s], {0, 3})

StickyPenalty(prev, p) == IF prev + p > 5 THEN 5 ELSE prev + p

NextPenalty(prev, p) ==
  IF p = 0 /\ prev > 0 THEN prev - 1
  ELSE IF p > 0 THEN (IF prev + p < 5 THEN prev + p ELSE 5)
  ELSE prev

(* Rejects and connection health, then the penalty. *)
Evaluate ==
  /\ sid \in Stratum /\ dacc # Unread
  /\ lastRej' = [lastRej EXCEPT ![sid] = rej[sid]]
  /\ penalty' = [penalty EXCEPT ![sid] = NextPenalty(@, Points(sid, rej[sid] - lastRej[sid]))]
  /\ dacc' = Unread
  /\ sid' = After(sid)
  /\ UNCHANGED <<counters, lastAcc, filled, selected>>

EvaluateOther ==
  /\ sid \in Sources \ Stratum
  /\ penalty' = [penalty EXCEPT ![sid] = NextPenalty(@, 0)]
  /\ sid' = After(sid)
  /\ UNCHANGED <<counters, lastAcc, lastRej, dacc, filled, selected>>

SubtractPenalty(s) ==
  LET w == IF Weight[s] > Cap THEN Cap ELSE Weight[s]
  IN  IF penalty[s] > w THEN 0 ELSE w - penalty[s]

EffectiveWeight(s) ==
  LET w == IF Weight[s] > Cap THEN Cap ELSE Weight[s]
  IN  IF penalty[s] = 0 THEN w ELSE IF penalty[s] >= w THEN 1 ELSE w - penalty[s]

(* What select leaves for slot s of its max_ids. *)
RoomFor(s) == MaxIds - MapThenSumSet(EffectiveWeight, {t \in filled : t < s})

Replicas(s) == IF s \notin filled \/ RoomFor(s) <= 0 THEN 0 ELSE Min({EffectiveWeight(s), RoomFor(s)})

select ==
  /\ sid = Idle /\ filled # {}
  /\ selected' = [s \in Sources |-> Replicas(s)]
  /\ UNCHANGED <<counters, evalVars, filled>>

-----------------------------------------------------------------------------
RunnerStep(s) ==
  \/ ConnectFails(s) \/ ConnectSucceeds(s) \/ Disconnect(s) \/ Accepted(s) \/ Rejected(s)

MainStep == EvaluateBegin \/ ReadAccepted \/ Evaluate \/ EvaluateOther

SchedNext ==
  \/ \E s \in Stratum : RunnerStep(s)
  \/ \E s \in Sources : Notified(s)
  \/ MainStep
  \/ select

(* The main loop goes on evaluating, a runner goes on trying to connect,    *)
(* and jobs arrive.                                                        *)
Fairness ==
  /\ WF_schedVars(MainStep)
  /\ \A s \in Stratum : SF_schedVars(ConnectSucceeds(s))
  /\ \A s \in Sources : WF_schedVars(Notified(s))

SchedSpec == SchedInit /\ [][SchedNext]_schedVars /\ Fairness

-----------------------------------------------------------------------------
(* Types of the counters, the evaluation and the selection. *)
SchedTypeOK ==
  /\ acc \in [Stratum -> 0..MaxAnswers] /\ rej \in [Stratum -> 0..MaxAnswers]
  /\ cf \in [Stratum -> 0..MaxFailures] /\ qd \in [Stratum -> 0..MaxDisconnects]
  /\ connected \in [Stratum -> BOOLEAN]
  /\ lastAcc \in [Stratum -> 0..MaxAnswers] /\ lastRej \in [Stratum -> 0..MaxAnswers]
  /\ penalty \in [Sources -> 0..5]
  /\ sid \in Sources \cup {Idle} /\ dacc \in -1..MaxAnswers
  /\ filled \subseteq Sources /\ selected \in [Sources -> 0..MaxIds]

(* No penalty silences a source: whatever its rejects and disconnects,      *)
(* select returns the job of every slot that has one at least once, as long *)
(* as the capped weights of all sources fit max_ids.                        *)
SelectsEverySource ==
  [][select /\ Cardinality(Sources) * Cap <= MaxIds => \A s \in filled : selected'[s] >= 1]_schedVars

(* Nothing the runner does puts a source beyond recovery except a           *)
(* disconnect: when failures and rejects end, its penalty goes back to 0    *)
(* and stays there.                                                         *)
RecoversUnlessDisconnected ==
  \A s \in Stratum : <>[](penalty[s] = 0 \/ qd[s] > 0)

(* The same for every source: the penalty decays once conditions improve. *)
PenaltyRecovers ==
  \A s \in Stratum : <>[](penalty[s] = 0)
=============================================================================
