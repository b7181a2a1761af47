--------------------------- MODULE StratumSession ---------------------------
(***************************************************************************)
(* One stratum source: the StratumRunner thread (src/src/adapters/         *)
(* stratum_runner.cc, src/src/net/stratum_client.cc), the StratumAdapter   *)
(* it shares with the main thread (src/src/adapters/stratum_adapter.cc),   *)
(* the main thread's polling and share submission, and the pool.           *)
(*                                                                         *)
(* The pool and TCP are external: FIFO in both directions, nothing         *)
(* survives a disconnect except lines already received by the client's     *)
(* kernel.  A session is numbered and stands for its extranonce1.  A job   *)
(* carries the id the pool gave it, the session that announced it, and     *)
(* the extranonce1 and difficulty it was built with.  Logging, JSON and    *)
(* hex are left out, and so is the clean_jobs and ntime policy, which no   *)
(* code path reads back.                                                   *)
(***************************************************************************)
EXTENDS Naturals, Sequences

CONSTANTS JobIds,        \* job ids the pool announces
          Diffs,         \* difficulties the pool sets
          NoJob,         \* the empty last_job_id_, the empty slot
          MaxSessions,   \* bound: TCP connections that come up
          MaxNotifies,   \* bound: mining.notify messages
          MaxDiffs,      \* bound: mining.set_difficulty messages
          MaxShares,     \* bound: shares found
          MaxAttempt,    \* attempt and failure counters saturate here
          LossyTimeouts, \* a receive timeout may fall inside a line
          Tls,           \* use_tls_: the socket's recv ignores its timeout
          Answers        \* what a pool may answer to mining.subscribe

ASSUME SessionAssumption ==
  /\ JobIds \subseteq Nat /\ Diffs \subseteq Nat \ {0} /\ NoJob \notin JobIds
  /\ MaxSessions \in Nat \ {0} /\ MaxNotifies \in Nat /\ MaxDiffs \in Nat
  /\ MaxShares \in Nat /\ MaxAttempt \in Nat \ {0} /\ LossyTimeouts \in BOOLEAN
  /\ Tls \in BOOLEAN /\ Answers \subseteq {"whole", "noSize", "noExtranonce"}

VARIABLES
  (* connection and pool *)
  link,      \* "closed" or "open", as the client's kernel sees it
  sock,      \* sock_ is non-null
  session,   \* connections established so far
  up, down,  \* requests and lines in flight
  psub,      \* the pool has answered this session's subscribe
  pdiff,     \* the difficulty the pool last set
  notifies, diffs,
  (* runner thread *)
  pc, stop, attempt, failures, disconnects,
  en1,       \* extranonce1_ (0 = never subscribed)
  lastJob,   \* last_job_id_
  lastN,     \* history: which notify set last_job_id_
  accepted, rejected,
  stamped,   \* last_submit_sent_ is not the zero time point
  pending,   \* pending_work_id_ / pending_nonce_
  reported,  \* calls of on_accepted_
  (* adapter, shared under its mutex *)
  astate, aen, anbits, aq,
  (* main thread *)
  mpc, mining,
  (* history *)
  ingested, drained, shares, tries,
  lost       \* this session's extranonce1 may be missing: a timeout lost a
             \* line, or the answer to subscribe did not have one

poolVars == <<up, down, psub, pdiff, notifies, diffs>>
runnerVars == <<stop, attempt, failures, disconnects, en1, lastJob, lastN, accepted, rejected,
                stamped, pending, reported>>
adapterVars == <<astate, aen, anbits, aq>>
mainVars == <<mpc, mining, drained, shares, tries>>
vars == <<link, sock, session, poolVars, pc, runnerVars, adapterVars, mainVars, ingested, lost>>

(* compactFromDifficulty: one easy target whatever the difficulty. *)
compactFromDifficulty(d) == 1

Job == [id : JobIds, n : 1..MaxNotifies, ses : 1..MaxSessions, en : 0..MaxSessions, diff : Diffs \cup {0}, nbits : {0, 1},
        lost : BOOLEAN]

Init ==
  /\ link = "closed" /\ sock = FALSE /\ session = 0
  /\ up = <<>> /\ down = <<>> /\ psub = FALSE /\ pdiff = 0 /\ notifies = 0 /\ diffs = 0
  /\ pc = "connect" /\ stop = FALSE /\ attempt = 0 /\ failures = 0 /\ disconnects = 0
  /\ en1 = 0 /\ lastJob = NoJob /\ lastN = 0 /\ accepted = 0 /\ rejected = 0
  /\ stamped = FALSE /\ pending = NoJob /\ reported = 0
  /\ astate = "disconnected" /\ aen = 0 /\ anbits = 0 /\ aq = <<>>
  /\ mpc = "loop" /\ mining = NoJob
  /\ ingested = <<>> /\ drained = 0 /\ shares = <<>> /\ tries = 0 /\ lost = FALSE

-----------------------------------------------------------------------------
(* runLoop. *)

Saturate(n) == IF n < MaxAttempt THEN n + 1 ELSE n

ConnectFails ==
  /\ pc = "connect" /\ ~stop
  /\ pc' = "backoff"
  /\ sock' \in {TRUE, ~Tls}  \* made before connect() failed, unless the build has no TLS
  /\ failures' = Saturate(failures) /\ attempt' = Saturate(attempt)
  /\ UNCHANGED <<link, session, poolVars, stop, disconnects, en1, lastJob, lastN, accepted, rejected,
                 stamped, pending, reported, adapterVars, mainVars, ingested, lost>>

BackoffOver ==
  /\ pc = "backoff"
  /\ pc' = "connect"
  /\ UNCHANGED <<link, sock, session, poolVars, runnerVars, adapterVars, mainVars, ingested, lost>>

ConnectSucceeds ==
  /\ pc = "connect" /\ ~stop
  /\ session < MaxSessions
  /\ pc' = "hello"
  /\ link' = "open" /\ sock' = TRUE /\ session' = session + 1
  /\ up' = <<>> /\ down' = <<>> /\ psub' = FALSE /\ pdiff' = 0
  /\ failures' = 0 /\ attempt' = 0 /\ lost' = FALSE
  /\ UNCHANGED <<notifies, diffs, stop, disconnects, en1, lastJob, lastN, accepted, rejected,
                 stamped, pending, reported, adapterVars, mainVars, ingested>>

(* The loop tests the flag in front of every line, and only there. *)
NextLine == IF stop THEN "close" ELSE "recv"

(* Three requests whose outcome is not looked at, then adapter_->connect(). *)
Hello ==
  /\ pc = "hello"
  /\ pc' = NextLine
  /\ up' = IF link = "open" THEN up \o <<[t |-> "subscribe"], [t |-> "authorize"], [t |-> "configure"]>> ELSE up
  /\ astate' = "connecting"
  /\ UNCHANGED <<link, sock, session, down, psub, pdiff, notifies, diffs, runnerVars,
                 aen, anbits, aq, mainVars, ingested, lost>>

(* The main thread holds mu_ while it sends. *)
MutexFree == mpc # "sending"

Receive(t) == /\ pc = "recv" /\ down # <<>> /\ Head(down).t = t
              /\ down' = Tail(down) /\ pc' = NextLine

onSubscribed(e) == aen' = e /\ astate' = "subscribed"

SubscribedOnce ==
  /\ Receive("subscribe") /\ MutexFree
  /\ en1' = IF en1 = 0 THEN Head(down).en ELSE en1
  /\ onSubscribed(IF aen = 0 THEN Head(down).en ELSE aen)
  /\ UNCHANGED <<link, sock, session, up, psub, pdiff, notifies, diffs, stop, attempt,
                 failures, disconnects, lastJob, lastN, accepted, rejected, stamped, pending, reported,
                 anbits, aq, mainVars, ingested, lost>>

(* extranonce1_ is assigned before the size is read, and the adapter is    *)
(* told after it; each of the two reads may throw.                         *)
RecvSubscribed ==
  /\ Receive("subscribe") /\ MutexFree
  /\ LET m == Head(down)
     IN  /\ en1' = IF m.form = "noExtranonce" THEN en1 ELSE m.en
         /\ lost' = (lost \/ m.form = "noExtranonce")
         /\ IF m.form = "whole" THEN onSubscribed(m.en) ELSE UNCHANGED <<aen, astate>>
  /\ UNCHANGED <<link, sock, session, up, psub, pdiff, notifies, diffs, stop, attempt,
                 failures, disconnects, lastJob, lastN, accepted, rejected, stamped, pending, reported,
                 anbits, aq, mainVars, ingested>>

(* The authorize answer is only logged; the configure answer sets the      *)
(* version mask policy, which no modelled field depends on.                *)
RecvLogged ==
  /\ Receive("authorize") \/ Receive("configure")
  /\ UNCHANGED <<link, sock, session, up, psub, pdiff, notifies, diffs, runnerVars,
                 adapterVars, mainVars, ingested, lost>>

RecvSetDifficulty ==
  /\ Receive("set_difficulty")
  /\ anbits' = compactFromDifficulty(Head(down).diff)
  /\ UNCHANGED <<link, sock, session, up, psub, pdiff, notifies, diffs, runnerVars,
                 astate, aen, aq, mainVars, ingested, lost>>

(* The job of a notify, with the runner's extranonce1 and the adapter's    *)
(* share target.                                                           *)
JobOf(m) == [id |-> m.id, n |-> m.n, ses |-> m.ses, en |-> en1, diff |-> m.diff,
             nbits |-> anbits, lost |-> lost]

(* normalizeJob has a result for every input. *)
ingestJobWithPolicy(j) == aq' = Append(aq, j) /\ ingested' = Append(ingested, j)

NotifyKeepsOldId ==
  /\ Receive("notify") /\ MutexFree
  /\ LET m == Head(down)
     IN  /\ IF lastJob = NoJob THEN lastJob' = m.id /\ lastN' = m.n ELSE UNCHANGED <<lastJob, lastN>>
         /\ IF m.good THEN ingestJobWithPolicy(JobOf(m)) ELSE UNCHANGED <<aq, ingested>>
  /\ UNCHANGED <<link, sock, session, up, psub, pdiff, notifies, diffs, stop, attempt,
                 failures, disconnects, en1, accepted, rejected, stamped, pending, reported,
                 astate, aen, anbits, mainVars, lost>>

(* last_job_id_ first; then the parameters, any of which may throw, and    *)
(* only after them the coinbase from extranonce1_, the policy's share      *)
(* target and the adapter's queue.                                         *)
RecvNotify ==
  /\ Receive("notify") /\ MutexFree
  /\ LET m == Head(down)
     IN  /\ lastJob' = m.id /\ lastN' = m.n
         /\ IF m.good THEN ingestJobWithPolicy(JobOf(m)) ELSE UNCHANGED <<aq, ingested>>
  /\ UNCHANGED <<link, sock, session, up, psub, pdiff, notifies, diffs, stop, attempt,
                 failures, disconnects, en1, accepted, rejected, stamped, pending, reported,
                 astate, aen, anbits, mainVars, lost>>

ResultFallsThrough ==
  /\ Receive("submit")
  /\ accepted' = IF Head(down).result = "true" THEN accepted + 1 ELSE accepted
  /\ rejected' = rejected + 1
  /\ reported' = IF stamped /\ Head(down).result = "true" THEN reported + 1 ELSE reported
  /\ stamped' = FALSE
  /\ UNCHANGED <<link, sock, session, up, psub, pdiff, notifies, diffs, stop, attempt,
                 failures, disconnects, en1, lastJob, lastN, pending, adapterVars, mainVars, ingested, lost>>

(* A result that is there but is no Boolean (null beside an error) throws  *)
(* before anything is counted.  on_accepted_ is called only when           *)
(* last_submit_sent_ was stamped.                                          *)
RecvSubmitResult ==
  /\ Receive("submit")
  /\ LET r == Head(down).result
     IN  /\ accepted' = IF r = "true" THEN accepted + 1 ELSE accepted
         /\ rejected' = IF r = "false" THEN rejected + 1 ELSE rejected
         /\ reported' = IF r = "true" /\ stamped THEN reported + 1 ELSE reported
         /\ stamped' = (stamped /\ r = "other")
  /\ UNCHANGED <<link, sock, session, up, psub, pdiff, notifies, diffs, stop, attempt,
                 failures, disconnects, en1, lastJob, lastN, pending, adapterVars, mainVars, ingested, lost>>

(* recv timed out after part of a line: recvLine returns kTimeout and the  *)
(* bytes it had are gone; what is left of the line does not parse.         *)
TimeoutInsideLine ==
  /\ LossyTimeouts /\ ~Tls
  /\ pc = "recv" /\ down # <<>>
  /\ down' = Tail(down) /\ pc' = NextLine
  /\ lost' = TRUE
  /\ UNCHANGED <<link, sock, session, up, psub, pdiff, notifies, diffs, runnerVars,
                 adapterVars, mainVars, ingested>>

LeaveRecvOnCloseOnly ==
  /\ pc = "recv"
  /\ link = "closed" /\ down = <<>>
  /\ pc' = "close"
  /\ UNCHANGED <<link, sock, session, poolVars, runnerVars, adapterVars, mainVars, ingested, lost>>

(* recvLine says kTimeout and the flag is up, or it says kClosed.  The     *)
(* recv of the TLS socket has no timeout: it waits for a line or the end.  *)
LeaveRecv ==
  /\ pc = "recv"
  /\ (stop /\ ~Tls) \/ (link = "closed" /\ down = <<>>)
  /\ pc' = "close"
  /\ UNCHANGED <<link, sock, session, poolVars, runnerVars, adapterVars, mainVars, ingested, lost>>

(* client_->close() frees sock_ without taking mu_. *)
CloseSocket ==
  /\ pc = "close"
  /\ pc' = "cooldown"
  /\ sock' = FALSE /\ link' = "closed" /\ up' = <<>> /\ down' = <<>>
  /\ disconnects' = Saturate(disconnects)
  /\ UNCHANGED <<session, psub, pdiff, notifies, diffs, stop, attempt, failures, en1, lastJob, lastN,
                 accepted, rejected, stamped, pending, reported, adapterVars, mainVars, ingested, lost>>

CooldownBreaksLoop ==
  /\ pc = "cooldown"
  /\ pc' = "exited"
  /\ UNCHANGED <<link, sock, session, poolVars, runnerVars, adapterVars, mainVars, ingested, lost>>

CooldownOver ==
  /\ pc = "cooldown"
  /\ pc' = "connect"
  /\ UNCHANGED <<link, sock, session, poolVars, runnerVars, adapterVars, mainVars, ingested, lost>>

ExitThread ==
  /\ pc = "connect" /\ stop
  /\ pc' = "exited"
  /\ UNCHANGED <<link, sock, session, poolVars, runnerVars, adapterVars, mainVars, ingested, lost>>

Runner ==
  \/ ConnectFails \/ BackoffOver \/ ConnectSucceeds \/ Hello
  \/ RecvSubscribed \/ RecvLogged \/ RecvSetDifficulty \/ RecvNotify \/ RecvSubmitResult
  \/ TimeoutInsideLine
  \/ LeaveRecv \/ CloseSocket \/ CooldownOver \/ ExitThread

-----------------------------------------------------------------------------
(* The main thread. *)

PollNewest ==
  /\ mpc = "loop"
  /\ aq # <<>>
  /\ mining' = aq[Len(aq)]
  /\ aq' = SubSeq(aq, 1, Len(aq) - 1)
  /\ drained' = drained + 1
  /\ UNCHANGED <<link, sock, session, poolVars, pc, runnerVars, astate, aen, anbits,
                 mpc, shares, tries, ingested, lost>>

pollNormalizedFull ==
  /\ mpc = "loop"
  /\ aq # <<>>
  /\ mining' = Head(aq)
  /\ aq' = Tail(aq)
  /\ drained' = drained + 1
  /\ UNCHANGED <<link, sock, session, poolVars, pc, runnerVars, astate, aen, anbits,
                 mpc, shares, tries, ingested, lost>>

(* A hit on the mined job reaches submitShare.  With a job id and a        *)
(* socket it takes mu_ and starts to send under last_job_id_; otherwise it *)
(* returns false, which the router callback does not look at.              *)
SubmitBegin ==
  /\ mpc = "loop"
  /\ mining # NoJob
  /\ tries < MaxShares
  /\ tries' = tries + 1
  /\ mpc' = IF lastJob # NoJob /\ sock THEN "sending" ELSE "sent"
  /\ UNCHANGED <<link, sock, session, poolVars, pc, runnerVars, adapterVars,
                 mining, drained, shares, ingested, lost>>

(* The last byte is handed to the kernel (or the send fails) and mu_ is    *)
(* released.                                                               *)
SubmitEnd ==
  /\ mpc = "sending"
  /\ mpc' = "sent"
  /\ IF link = "open" /\ sock
     THEN /\ up' = Append(up, [t |-> "submit"])
          /\ shares' = Append(shares, [mined |-> mining, id |-> lastJob, n |-> lastN])
     ELSE UNCHANGED <<up, shares>>
  /\ UNCHANGED <<link, sock, session, down, psub, pdiff, notifies, diffs, pc, runnerVars,
                 adapterVars, mining, drained, tries, ingested, lost>>

setPendingSubmit ==
  /\ mpc = "sent"
  /\ mpc' = "loop"
  /\ pending' = mining.id
  /\ UNCHANGED <<link, sock, session, poolVars, pc, stop, attempt, failures, disconnects, en1,
                 lastJob, lastN, accepted, rejected, stamped, reported, adapterVars,
                 mining, drained, shares, tries, ingested, lost>>

(* stop(): raise the flag, then join. *)
Stop ==
  /\ mpc = "loop"
  /\ stop' = TRUE
  /\ mpc' = "join"
  /\ UNCHANGED <<link, sock, session, poolVars, pc, attempt, failures, disconnects, en1, lastJob, lastN,
                 accepted, rejected, stamped, pending, reported, adapterVars,
                 mining, drained, shares, tries, ingested, lost>>

Joined == mpc = "join" /\ pc = "exited" /\ UNCHANGED vars

MainThread == pollNormalizedFull \/ SubmitBegin \/ SubmitEnd \/ setPendingSubmit \/ Stop \/ Joined

-----------------------------------------------------------------------------
(* The pool. *)

PoolAnswers ==
  /\ link = "open" /\ up # <<>>
  /\ up' = Tail(up)
  /\ psub' = (psub \/ Head(up).t = "subscribe")
  /\ \/ /\ Head(up).t = "subscribe"
        /\ \E form \in Answers : down' = Append(down, [t |-> "subscribe", en |-> session, form |-> form])
     \/ Head(up).t \in {"authorize", "configure"} /\ down' = Append(down, Head(up))
     \/ /\ Head(up).t = "submit"
        /\ \E r \in {"true", "false", "other"} : down' = Append(down, [t |-> "submit", result |-> r])
  /\ UNCHANGED <<link, sock, session, pdiff, notifies, diffs, pc, runnerVars, adapterVars,
                 mainVars, ingested, lost>>

PoolSetsDifficulty(d) ==
  /\ link = "open" /\ psub /\ diffs < MaxDiffs
  /\ diffs' = diffs + 1
  /\ pdiff' = d
  /\ down' = Append(down, [t |-> "set_difficulty", diff |-> d])
  /\ UNCHANGED <<link, sock, session, up, psub, notifies, pc, runnerVars, adapterVars,
                 mainVars, ingested, lost>>

(* good: the parameters are laid out and typed the way runLoop reads them. *)
PoolNotifies(j, good) ==
  /\ link = "open" /\ psub /\ notifies < MaxNotifies
  /\ notifies' = notifies + 1
  /\ down' = Append(down, [t |-> "notify", id |-> j, n |-> notifies + 1, ses |-> session,
                           diff |-> pdiff, good |-> good])
  /\ UNCHANGED <<link, sock, session, up, psub, pdiff, diffs, pc, runnerVars, adapterVars,
                 mainVars, ingested, lost>>

(* The connection ends; lines still on the wire are lost from the back. *)
PoolDisconnects ==
  /\ link = "open" /\ session < MaxSessions
  /\ link' = "closed"
  /\ \E n \in 0..Len(down) : down' = SubSeq(down, 1, n)
  /\ up' = <<>>
  /\ UNCHANGED <<sock, session, psub, pdiff, notifies, diffs, pc, runnerVars, adapterVars,
                 mainVars, ingested, lost>>

Pool ==
  \/ PoolAnswers
  \/ \E d \in Diffs : PoolSetsDifficulty(d)
  \/ \E j \in JobIds, good \in BOOLEAN : PoolNotifies(j, good)
  \/ PoolDisconnects

-----------------------------------------------------------------------------
Next == Runner \/ MainThread \/ Pool

(* The runner thread is always scheduled: its sleeps end, and LeaveRecv is *)
(* enabled with the flag up only where recv has a timeout.  About the      *)
(* outside two things are assumed: a send in progress ends, and connection *)
(* attempts that go on for ever succeed.                                   *)
Fairness == /\ WF_vars(Runner)
            /\ WF_vars(SubmitEnd)
            /\ SF_vars(ConnectSucceeds)

Spec == Init /\ [][Next]_vars /\ Fairness

-----------------------------------------------------------------------------
(* Types of the threads', the adapter's and the pool's state. *)
TypeOK ==
  /\ link \in {"open", "closed"} /\ sock \in BOOLEAN /\ session \in 0..MaxSessions
  /\ psub \in BOOLEAN /\ pdiff \in Diffs \cup {0}
  /\ notifies \in 0..MaxNotifies /\ diffs \in 0..MaxDiffs
  /\ pc \in {"connect", "backoff", "hello", "recv", "close", "cooldown", "exited"}
  /\ stop \in BOOLEAN /\ attempt \in 0..MaxAttempt
  /\ failures \in 0..MaxAttempt /\ disconnects \in 0..MaxAttempt
  /\ en1 \in 0..MaxSessions /\ lastJob \in JobIds \cup {NoJob} /\ lastN \in 0..MaxNotifies
  /\ accepted \in 0..MaxShares /\ rejected \in 0..MaxShares /\ reported \in 0..MaxShares
  /\ stamped \in BOOLEAN /\ pending \in JobIds \cup {NoJob}
  /\ astate \in {"disconnected", "connecting", "subscribed"}
  /\ aen \in 0..MaxSessions /\ anbits \in {0, 1} /\ aq \in Seq(Job)
  /\ mpc \in {"loop", "sending", "sent", "join"} /\ mining \in Job \cup {NoJob}
  /\ ingested \in Seq(Job) /\ drained \in 0..MaxNotifies /\ tries \in 0..MaxShares
  /\ lost \in BOOLEAN

(* Every job handed to the adapter was built with the extranonce1 of the    *)
(* session that announced it, across reconnects, unless a receive timeout   *)
(* had lost a line of that session or its subscribe answer had no           *)
(* extranonce1 that can be read.                                            *)
JobsBuiltForTheirSession ==
  \A i \in DOMAIN ingested : ingested[i].en = ingested[i].ses \/ ingested[i].lost

(* The same although a receive timeout falls inside a line. *)
TimeoutKeepsSession ==
  \A i \in DOMAIN ingested : ingested[i].en = ingested[i].ses

(* Jobs cross from the runner thread to the main thread in order, none lost *)
(* and none doubled, whatever reconnects happen in between.                 *)
JobsHandedOverInOrder ==
  /\ aq = SubSeq(ingested, drained + 1, Len(ingested))
  /\ mining = IF drained = 0 THEN NoJob ELSE ingested[drained]

(* Answers are counted at most once per share put on the wire, across       *)
(* disconnects that lose shares or answers.                                 *)
AnswersWithinShares == accepted + rejected <= Len(shares)

(* The id a share goes out under may be newer than the job it was mined on, *)
(* because the runner thread moves last_job_id_ before the main thread      *)
(* polls the job, but it is never an older one, across reconnects and       *)
(* notifies that fail to parse.                                             *)
ShareNotUnderOlderJob == \A i \in DOMAIN shares : shares[i].n >= shares[i].mined.n

(* stop() returns when the pool is not on TLS: the thread it joins always   *)
(* leaves its loops, from a backoff, a handshake, a receive or a cooldown.  *)
StopJoins == (stop /\ ~Tls) ~> pc = "exited"

(* The same on TLS, where recv waits for as long as the pool is silent.     *)
StopJoinsTls == stop ~> pc = "exited"

(* After a disconnect the runner gets back to reading a session, unless it  *)
(* is stopped.                                                              *)
Reconnects == (pc = "cooldown" /\ session < MaxSessions) ~> (pc = "recv" \/ stop)

(* A share is submitted under the id of the job it was mined on. *)
ShareUnderItsJob == \A i \in DOMAIN shares : shares[i].id = shares[i].mined.id

(* Every accepted share is reported to on_accepted_, which prunes it from   *)
(* the outbox.                                                              *)
AcceptedReported == reported = accepted

(* mining.set_difficulty decides the share target: jobs announced under     *)
(* different difficulties get different share targets.                      *)
VarDiffApplied ==
  \A i, k \in DOMAIN ingested :
    /\ ingested[i].diff # 0 /\ ingested[k].diff # 0
    /\ ingested[i].diff # ingested[k].diff
    => ingested[i].nbits # ingested[k].nbits

(* The socket object is not freed or replaced while a send uses it. *)
SocketAliveDuringSend == mpc = "sending" => sock
=============================================================================
