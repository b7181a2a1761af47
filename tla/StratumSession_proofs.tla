----------------------- MODULE StratumSession_proofs -----------------------
(***************************************************************************)
(* Proofs about StratumSession, for every bound: jobs are built with the   *)
(* extranonce1 of their own session, reach the main thread in order, are   *)
(* never shared under an older job's id, and the answers that the client   *)
(* counts stay within the shares it sent.                                  *)
(*                                                                         *)
(* Four inductive invariants, each built on those before it:               *)
(*   BaseInv   types, with the lines on the wire, and a session while the  *)
(*             link is up;                                                 *)
(*   WireInv   what is on its way to the runner: lines of this session     *)
(*             only, the subscribe answer in front of every notify, and    *)
(*             notifies in the order of their numbers;                     *)
(*   JobInv    the properties of jobs, and that last_job_id_ is as new as  *)
(*             every job ingested;                                         *)
(*   CountInv  shares and answers on the wire, counted: a share becomes an *)
(*             answer and an answer is counted once.                       *)
(***************************************************************************)
EXTENDS StratumSession, FiniteSetTheorems, TLAPS

(* The requests of the client. *)
UpMsg == [t : {"subscribe", "authorize", "configure", "submit"}]

(* The lines of the pool, by kind. *)
SubscribeMsg == [t : {"subscribe"}, en : 1..MaxSessions, form : Answers]
LoggedMsg == [t : {"authorize", "configure"}]
ResultMsg == [t : {"submit"}, result : {"true", "false", "other"}]
DifficultyMsg == [t : {"set_difficulty"}, diff : Diffs]
NotifyMsg == [t : {"notify"}, id : JobIds, n : 1..MaxNotifies, ses : 1..MaxSessions,
              diff : Diffs \cup {0}, good : BOOLEAN]

(* Any line of the pool. *)
DownMsg == SubscribeMsg \cup LoggedMsg \cup ResultMsg \cup DifficultyMsg \cup NotifyMsg

(* A share, with the job it is of and the one it went out under. *)
Share == [mined : Job, id : JobIds \cup {NoJob}, n : 0..MaxNotifies]

(* TypeOK, with the wire and the shares, and without the upper bounds of    *)
(* the counters that follow from what the other invariants say.             *)
ConnTypes ==
  /\ link \in {"open", "closed"} /\ sock \in BOOLEAN /\ session \in 0..MaxSessions
  /\ psub \in BOOLEAN /\ pdiff \in Diffs \cup {0}
  /\ notifies \in 0..MaxNotifies /\ diffs \in 0..MaxDiffs
  /\ lost \in BOOLEAN

RunnerTypes ==
  /\ pc \in {"connect", "backoff", "hello", "recv", "close", "cooldown", "exited"}
  /\ stop \in BOOLEAN /\ attempt \in 0..MaxAttempt
  /\ failures \in 0..MaxAttempt /\ disconnects \in 0..MaxAttempt
  /\ en1 \in 0..MaxSessions /\ lastJob \in JobIds \cup {NoJob} /\ lastN \in 0..MaxNotifies
  /\ accepted \in Nat /\ rejected \in Nat /\ reported \in Nat
  /\ stamped \in BOOLEAN /\ pending \in JobIds \cup {NoJob}

MainTypes ==
  /\ astate \in {"disconnected", "connecting", "subscribed"}
  /\ aen \in 0..MaxSessions /\ anbits \in {0, 1}
  /\ mpc \in {"loop", "sending", "sent", "join"} /\ mining \in Job \cup {NoJob}
  /\ drained \in Nat /\ tries \in 0..MaxShares

QueueTypes ==
  /\ aq \in Seq(Job) /\ ingested \in Seq(Job)
  /\ up \in Seq(UpMsg) /\ down \in Seq(DownMsg) /\ shares \in Seq(Share)

Base == ConnTypes /\ RunnerTypes /\ MainTypes /\ QueueTypes

(* There is a session while the link is up, and a job while a share of it   *)
(* is being sent.                                                           *)
InSession ==
  /\ link = "open" => session >= 1
  /\ mpc \in {"sending", "sent"} => mining # NoJob

(* What the other invariants take for granted. *)
BaseInv == Base /\ InSession

-----------------------------------------------------------------------------
(* A line has the fields that its kind has. *)
LEMMA MsgFields ==
  ASSUME NEW m \in DownMsg
  PROVE  /\ m.t = "subscribe" => m.en \in 1..MaxSessions
         /\ m.t = "set_difficulty" => m.diff \in Diffs
         /\ m.t = "notify" => m \in NotifyMsg
BY DEF DownMsg, SubscribeMsg, LoggedMsg, ResultMsg, DifficultyMsg, NotifyMsg

(* The first element of a sequence, and the rest. *)
LEMMA HeadTail ==
  ASSUME NEW S, NEW s \in Seq(S), s # <<>>
  PROVE  /\ Head(s) \in S /\ Tail(s) \in Seq(S) /\ Head(s) = s[1]
         /\ Len(s) \in Nat /\ Len(s) >= 1 /\ Len(Tail(s)) = Len(s) - 1
         /\ \A i \in 1..(Len(s) - 1) : Tail(s)[i] = s[i + 1]
OBVIOUS

(* Appending an element. *)
LEMMA AppendType ==
  ASSUME NEW S, NEW s \in Seq(S), NEW e \in S
  PROVE  Append(s, e) \in Seq(S)
OBVIOUS

(* The job of a notify is a job. *)
LEMMA JobOfType ==
  ASSUME Base, NEW m \in NotifyMsg
  PROVE  JobOf(m) \in Job
BY SessionAssumption DEF Base, ConnTypes, RunnerTypes, MainTypes, NotifyMsg, JobOf, Job

(* The initial state. *)
LEMMA BaseInit == Init => BaseInv
<1> SUFFICES ASSUME Init PROVE BaseInv
  OBVIOUS
<1>1. 0 \in 0..MaxSessions /\ 0 \in 0..MaxNotifies /\ 0 \in 0..MaxDiffs /\ 0 \in 0..MaxAttempt
      /\ 0 \in 0..MaxShares
  BY SessionAssumption
<1>2. <<>> \in Seq(UpMsg) /\ <<>> \in Seq(DownMsg) /\ <<>> \in Seq(Share) /\ <<>> \in Seq(Job)
  OBVIOUS
<1>3. Base
  BY <1>1, <1>2 DEF Init, Base, ConnTypes, RunnerTypes, MainTypes, QueueTypes
<1>4. InSession
  BY DEF Init, InSession
<1> QED BY <1>3, <1>4 DEF BaseInv

(* Counters saturate. *)
LEMMA SaturateType ==
  ASSUME NEW n \in 0..MaxAttempt
  PROVE  Saturate(n) \in 0..MaxAttempt
BY SessionAssumption DEF Saturate

(* Steps of the runner thread keep the types. *)
LEMMA BaseRunner == BaseInv /\ Runner => BaseInv'
<1> SUFFICES ASSUME Base, InSession, Runner PROVE Base' /\ InSession'
  BY DEF BaseInv
<1> USE DEF Base, poolVars, runnerVars, adapterVars, mainVars
<1>0. <<>> \in Seq(UpMsg) /\ <<>> \in Seq(DownMsg) /\ 0 \in 0..MaxAttempt
  BY SessionAssumption
<1>1. CASE ConnectFails
  <2>1. failures' \in 0..MaxAttempt /\ attempt' \in 0..MaxAttempt
    BY <1>1, SaturateType DEF ConnectFails, ConnTypes, RunnerTypes, MainTypes, QueueTypes
  <2>2. sock' \in BOOLEAN
    BY <1>1, SessionAssumption, Zenon DEF ConnectFails
  <2>3. ConnTypes' /\ InSession'
    BY <1>1, <2>2 DEF ConnectFails, ConnTypes, InSession
  <2>4. RunnerTypes' /\ MainTypes' /\ QueueTypes'
    BY <1>1, <2>1 DEF ConnectFails, RunnerTypes, MainTypes, QueueTypes
  <2> QED BY <2>3, <2>4
<1>2. CASE BackoffOver \/ LeaveRecv \/ CooldownOver \/ ExitThread
  <2>1. CASE BackoffOver
    BY <2>1 DEF BackoffOver, ConnTypes, RunnerTypes, MainTypes, QueueTypes, InSession
  <2>2. CASE LeaveRecv
    BY <2>2 DEF LeaveRecv, ConnTypes, RunnerTypes, MainTypes, QueueTypes, InSession
  <2>3. CASE CooldownOver \/ ExitThread
    <3>1. ConnTypes'
      BY <2>3 DEF CooldownOver, ExitThread, ConnTypes
    <3>2. RunnerTypes'
      BY <2>3 DEF CooldownOver, ExitThread, RunnerTypes
    <3>3. MainTypes'
      BY <2>3 DEF CooldownOver, ExitThread, MainTypes
    <3>4. QueueTypes'
      BY <2>3 DEF CooldownOver, ExitThread, QueueTypes
    <3>5. InSession'
      BY <2>3 DEF CooldownOver, ExitThread, InSession
    <3> QED BY <3>1, <3>2, <3>3, <3>4, <3>5
  <2> QED BY <1>2, <2>1, <2>2, <2>3
<1>3. CASE ConnectSucceeds
  <2>1. session' \in 0..MaxSessions /\ session' >= 1
    BY <1>3, SessionAssumption DEF ConnectSucceeds, ConnTypes, RunnerTypes, MainTypes, QueueTypes
  <2> QED
    BY <1>0, <1>3, <2>1
    DEF ConnectSucceeds, ConnTypes, RunnerTypes, MainTypes, QueueTypes, InSession
<1>4. CASE Hello
  <2>1. <<[t |-> "subscribe"], [t |-> "authorize"], [t |-> "configure"]>> \in Seq(UpMsg)
    BY DEF UpMsg
  <2>2. up' \in Seq(UpMsg)
    BY <1>4, <2>1 DEF Hello, ConnTypes, RunnerTypes, MainTypes, QueueTypes
  <2> QED BY <1>4, <2>2 DEF Hello, NextLine, ConnTypes, RunnerTypes, MainTypes, QueueTypes, InSession
<1>5. CASE RecvSubscribed
  <2>1. Head(down) \in DownMsg /\ Tail(down) \in Seq(DownMsg)
    BY <1>5, HeadTail DEF RecvSubscribed, Receive, ConnTypes, RunnerTypes, MainTypes, QueueTypes
  <2>2. Head(down).en \in 0..MaxSessions
    BY <1>5, <2>1, MsgFields, SessionAssumption DEF RecvSubscribed, Receive
  <2>3. /\ en1' \in 0..MaxSessions /\ aen' \in 0..MaxSessions
        /\ astate' \in {"disconnected", "connecting", "subscribed"}
    BY <1>5, <2>2 DEF RecvSubscribed, onSubscribed, RunnerTypes, MainTypes
  <2>4. lost' \in BOOLEAN
    BY <1>5, Zenon DEF RecvSubscribed
  <2>5. ConnTypes' /\ InSession'
    BY <1>5, <2>4 DEF RecvSubscribed, ConnTypes, InSession
  <2>6. RunnerTypes'
    BY <1>5, <2>3 DEF RecvSubscribed, Receive, NextLine, RunnerTypes
  <2>7. MainTypes'
    BY <1>5, <2>3 DEF RecvSubscribed, MainTypes
  <2>8. QueueTypes'
    BY <1>5, <2>1 DEF RecvSubscribed, Receive, QueueTypes
  <2> QED BY <2>5, <2>6, <2>7, <2>8
<1>6. CASE RecvLogged \/ TimeoutInsideLine
  <2>1. Tail(down) \in Seq(DownMsg)
    BY <1>6, HeadTail
    DEF RecvLogged, TimeoutInsideLine, Receive, ConnTypes, RunnerTypes, MainTypes,
        QueueTypes
  <2>2. CASE RecvLogged
    <3>1. ConnTypes'
      BY <2>1, <2>2 DEF RecvLogged, Receive, ConnTypes
    <3>2. RunnerTypes'
      BY <2>1, <2>2 DEF RecvLogged, Receive, NextLine, RunnerTypes
    <3>3. MainTypes'
      BY <2>1, <2>2 DEF RecvLogged, Receive, MainTypes
    <3>4. QueueTypes'
      BY <2>1, <2>2 DEF RecvLogged, Receive, QueueTypes
    <3>5. InSession'
      BY <2>1, <2>2 DEF RecvLogged, Receive, InSession
    <3> QED BY <3>1, <3>2, <3>3, <3>4, <3>5
  <2>3. CASE TimeoutInsideLine
    BY <2>1, <2>3 DEF TimeoutInsideLine, NextLine, ConnTypes, RunnerTypes, MainTypes, QueueTypes, InSession
  <2> QED BY <1>6, <2>2, <2>3
<1>7. CASE RecvSetDifficulty
  <2>1. Tail(down) \in Seq(DownMsg)
    BY <1>7, HeadTail DEF RecvSetDifficulty, Receive, ConnTypes, RunnerTypes, MainTypes, QueueTypes
  <2> QED
    BY <1>7, <2>1
    DEF RecvSetDifficulty, Receive, NextLine, compactFromDifficulty, ConnTypes, RunnerTypes,
        MainTypes, QueueTypes, InSession
<1>8. CASE RecvNotify
  <2> DEFINE m == Head(down)
  <2>1. m \in NotifyMsg /\ Tail(down) \in Seq(DownMsg)
    BY <1>8, HeadTail, MsgFields
    DEF RecvNotify, Receive, ConnTypes, RunnerTypes, MainTypes, QueueTypes
  <2>2. JobOf(m) \in Job
    BY <2>1, JobOfType
  <2>3. m.id \in JobIds /\ m.n \in 0..MaxNotifies
    BY <2>1, SessionAssumption DEF NotifyMsg
  <2>4. /\ lastJob' = m.id /\ lastN' = m.n /\ down' = Tail(down) /\ pc' \in {"recv", "close"}
        /\ \/ aq' = Append(aq, JobOf(m)) /\ ingested' = Append(ingested, JobOf(m))
           \/ UNCHANGED <<aq, ingested>>
    BY <1>8 DEF RecvNotify, Receive, NextLine, ingestJobWithPolicy
  <2> HIDE DEF m
  <2>5. aq' \in Seq(Job) /\ ingested' \in Seq(Job)
    <3>1. aq \in Seq(Job) /\ ingested \in Seq(Job)
      BY DEF ConnTypes, RunnerTypes, MainTypes, QueueTypes
    <3>2. Append(aq, JobOf(m)) \in Seq(Job) /\ Append(ingested, JobOf(m)) \in Seq(Job)
      BY <2>2, <3>1, AppendType
    <3> QED BY <2>4, <3>1, <3>2, Zenon
  <2>6. ConnTypes' /\ InSession'
    BY <1>8 DEF RecvNotify, ConnTypes, InSession
  <2>7. RunnerTypes'
    BY <1>8, <2>3, <2>4 DEF RecvNotify, RunnerTypes
  <2>8. MainTypes'
    BY <1>8 DEF RecvNotify, MainTypes
  <2>9. QueueTypes'
    BY <1>8, <2>1, <2>4, <2>5 DEF RecvNotify, QueueTypes
  <2> QED BY <2>6, <2>7, <2>8, <2>9
<1>9. CASE RecvSubmitResult
  <2>1. Tail(down) \in Seq(DownMsg)
    BY <1>9, HeadTail DEF RecvSubmitResult, Receive, ConnTypes, RunnerTypes, MainTypes, QueueTypes
  <2>2. accepted \in Nat /\ rejected \in Nat /\ reported \in Nat
    BY DEF ConnTypes, RunnerTypes, MainTypes, QueueTypes
  <2>3. /\ accepted' \in {accepted, accepted + 1} /\ rejected' \in {rejected, rejected + 1}
        /\ reported' \in {reported, reported + 1}
    BY <1>9 DEF RecvSubmitResult
  <2>4. accepted' \in Nat /\ rejected' \in Nat /\ reported' \in Nat
    BY <2>2, <2>3
  <2>a. stamped' \in BOOLEAN
    BY <1>9, Zenon DEF RecvSubmitResult
  <2>5. /\ pc' \in {"recv", "close"} /\ down' = Tail(down)
        /\ UNCHANGED <<link, sock, session, up, psub, pdiff, notifies, diffs, stop, attempt,
                       failures, disconnects, en1, lastJob, lastN, pending, adapterVars, mainVars,
                       ingested, lost>>
    BY <1>9 DEF RecvSubmitResult, Receive, NextLine
  <2>6. ConnTypes' /\ InSession'
    BY <2>5 DEF ConnTypes, InSession
  <2>7. RunnerTypes'
    BY <2>4, <2>5, <2>a DEF RunnerTypes
  <2>8. MainTypes' /\ QueueTypes'
    BY <2>1, <2>5 DEF MainTypes, QueueTypes
  <2> QED BY <2>6, <2>7, <2>8
<1>10. CASE CloseSocket
  <2>1. disconnects' \in 0..MaxAttempt
    BY <1>10, SaturateType DEF CloseSocket, ConnTypes, RunnerTypes, MainTypes, QueueTypes
  <2>2. ConnTypes'
    BY <1>0, <1>10, <2>1 DEF CloseSocket, ConnTypes
  <2>3. RunnerTypes'
    BY <1>0, <1>10, <2>1 DEF CloseSocket, RunnerTypes
  <2>4. MainTypes'
    BY <1>0, <1>10, <2>1 DEF CloseSocket, MainTypes
  <2>5. QueueTypes'
    BY <1>0, <1>10, <2>1 DEF CloseSocket, QueueTypes
  <2>6. InSession'
    BY <1>0, <1>10, <2>1 DEF CloseSocket, InSession
  <2> QED BY <2>2, <2>3, <2>4, <2>5, <2>6
<1> QED BY <1>1, <1>2, <1>3, <1>4, <1>5, <1>6, <1>7, <1>8, <1>9, <1>10 DEF Runner

(* Steps of the main thread keep the types. *)
LEMMA BaseMain == BaseInv /\ MainThread => BaseInv'
<1> SUFFICES ASSUME Base, InSession, MainThread PROVE Base' /\ InSession'
  BY DEF BaseInv
<1> USE DEF Base, poolVars, runnerVars, adapterVars, mainVars
<1>1. CASE pollNormalizedFull
  <2>1. Head(aq) \in Job /\ Tail(aq) \in Seq(Job) /\ drained + 1 \in Nat
    BY <1>1, HeadTail DEF pollNormalizedFull, ConnTypes, RunnerTypes, MainTypes, QueueTypes
  <2> QED
    BY <1>1, <2>1
    DEF pollNormalizedFull, ConnTypes, RunnerTypes, MainTypes, QueueTypes, InSession
<1>2. CASE SubmitBegin
  <2>1. tries' \in 0..MaxShares /\ mpc' \in {"sending", "sent"}
    BY <1>2, SessionAssumption DEF SubmitBegin, ConnTypes, RunnerTypes, MainTypes, QueueTypes
  <2> QED BY <1>2, <2>1 DEF SubmitBegin, ConnTypes, RunnerTypes, MainTypes, QueueTypes, InSession
<1>3. CASE SubmitEnd
  <2>1. [t |-> "submit"] \in UpMsg
    BY DEF UpMsg
  <2>2. mining \in Job
    BY <1>3 DEF SubmitEnd, ConnTypes, RunnerTypes, MainTypes, QueueTypes, InSession
  <2>3. [mined |-> mining, id |-> lastJob, n |-> lastN] \in Share
    BY <2>2 DEF Share, ConnTypes, RunnerTypes, MainTypes, QueueTypes
  <2>4. up' \in Seq(UpMsg) /\ shares' \in Seq(Share)
    <3>1. up \in Seq(UpMsg) /\ shares \in Seq(Share)
      BY DEF ConnTypes, RunnerTypes, MainTypes, QueueTypes
    <3>2. \/ /\ up' = Append(up, [t |-> "submit"])
             /\ shares' = Append(shares, [mined |-> mining, id |-> lastJob, n |-> lastN])
          \/ UNCHANGED <<up, shares>>
      BY <1>3 DEF SubmitEnd
    <3>3. /\ Append(up, [t |-> "submit"]) \in Seq(UpMsg)
          /\ Append(shares, [mined |-> mining, id |-> lastJob, n |-> lastN]) \in Seq(Share)
      BY <2>1, <2>3, <3>1, AppendType
    <3> QED BY <3>1, <3>2, <3>3, Zenon
  <2> QED BY <1>3, <2>4 DEF SubmitEnd, ConnTypes, RunnerTypes, MainTypes, QueueTypes, InSession
<1>4. CASE setPendingSubmit
  <2>1. mining.id \in JobIds
    BY <1>4 DEF setPendingSubmit, ConnTypes, RunnerTypes, MainTypes, QueueTypes, InSession, Job
  <2> QED
    BY <1>4, <2>1
    DEF setPendingSubmit, ConnTypes, RunnerTypes, MainTypes, QueueTypes, InSession
<1>5. CASE Stop \/ Joined
  <2>1. CASE Stop
    BY <2>1 DEF Stop, ConnTypes, RunnerTypes, MainTypes, QueueTypes, InSession
  <2>2. CASE Joined
    BY <2>2 DEF Joined, vars, ConnTypes, RunnerTypes, MainTypes, QueueTypes, InSession
  <2> QED BY <1>5, <2>1, <2>2
<1> QED BY <1>1, <1>2, <1>3, <1>4, <1>5 DEF MainThread

(* Steps of the pool keep the types. *)
LEMMA BasePool == BaseInv /\ Pool => BaseInv'
<1> SUFFICES ASSUME Base, InSession, Pool PROVE Base' /\ InSession'
  BY DEF BaseInv
<1> USE DEF Base, poolVars, runnerVars, adapterVars, mainVars
<1>1. CASE PoolAnswers
  <2>1. Head(up) \in UpMsg /\ Tail(up) \in Seq(UpMsg)
    BY <1>1, HeadTail DEF PoolAnswers, ConnTypes, RunnerTypes, MainTypes, QueueTypes
  <2>2. session \in 1..MaxSessions
    BY <1>1, SessionAssumption
    DEF PoolAnswers, ConnTypes, RunnerTypes, MainTypes, QueueTypes, InSession
  <2>3. PICK m \in DownMsg : down' = Append(down, m)
    <3>1. CASE \E form \in Answers : down' = Append(down, [t |-> "subscribe", en |-> session, form |-> form])
      BY <2>2, <3>1 DEF DownMsg, SubscribeMsg
    <3>2. CASE Head(up).t \in {"authorize", "configure"} /\ down' = Append(down, Head(up))
      BY <2>1, <3>2 DEF DownMsg, LoggedMsg, UpMsg
    <3>3. CASE \E r \in {"true", "false", "other"} : down' = Append(down, [t |-> "submit", result |-> r])
      BY <3>3 DEF DownMsg, ResultMsg
    <3> QED BY <1>1, <3>1, <3>2, <3>3 DEF PoolAnswers
  <2>4. down' \in Seq(DownMsg)
    BY <2>3 DEF ConnTypes, RunnerTypes, MainTypes, QueueTypes
  <2>5. psub' \in BOOLEAN
    BY <1>1, Zenon DEF PoolAnswers
  <2> QED
    BY <1>1, <2>1, <2>4, <2>5
    DEF PoolAnswers, ConnTypes, RunnerTypes, MainTypes, QueueTypes, InSession
<1>2. ASSUME NEW d \in Diffs, PoolSetsDifficulty(d) PROVE Base' /\ InSession'
  <2>1. [t |-> "set_difficulty", diff |-> d] \in DownMsg
    BY DEF DownMsg, DifficultyMsg
  <2>2. down' \in Seq(DownMsg) /\ diffs' \in 0..MaxDiffs
    BY <1>2, <2>1, SessionAssumption
    DEF PoolSetsDifficulty, ConnTypes, RunnerTypes, MainTypes, QueueTypes
  <2> QED
    BY <1>2, <2>2
    DEF PoolSetsDifficulty, ConnTypes, RunnerTypes, MainTypes, QueueTypes, InSession
<1>3. ASSUME NEW j \in JobIds, NEW good \in BOOLEAN, PoolNotifies(j, good) PROVE Base' /\ InSession'
  <2>1. notifies + 1 \in 1..MaxNotifies /\ notifies + 1 \in 0..MaxNotifies /\ session \in 1..MaxSessions
    BY <1>3, SessionAssumption
    DEF PoolNotifies, ConnTypes, RunnerTypes, MainTypes, QueueTypes, InSession
  <2> DEFINE m == [t |-> "notify", id |-> j, n |-> notifies + 1, ses |-> session,
                   diff |-> pdiff, good |-> good]
  <2>2. m \in DownMsg
    BY <2>1 DEF DownMsg, NotifyMsg, ConnTypes, RunnerTypes, MainTypes, QueueTypes
  <2>3. down' = Append(down, m)
    BY <1>3 DEF PoolNotifies
  <2> HIDE DEF m
  <2>4. down' \in Seq(DownMsg)
    BY <2>2, <2>3 DEF ConnTypes, RunnerTypes, MainTypes, QueueTypes
  <2> QED
    BY <1>3, <2>1, <2>4
    DEF PoolNotifies, ConnTypes, RunnerTypes, MainTypes, QueueTypes, InSession
<1>4. CASE PoolDisconnects
  <2>1. down' \in Seq(DownMsg)
    BY <1>4 DEF PoolDisconnects, ConnTypes, RunnerTypes, MainTypes, QueueTypes
  <2> QED
    BY <1>4, <2>1
    DEF PoolDisconnects, ConnTypes, RunnerTypes, MainTypes, QueueTypes, InSession
<1> QED BY <1>1, <1>2, <1>3, <1>4 DEF Pool

(* Every step keeps the types. *)
LEMMA BaseStep == BaseInv /\ [Next]_vars => BaseInv'
<1>1. BaseInv /\ UNCHANGED vars => BaseInv'
  BY DEF vars, poolVars, runnerVars, adapterVars, mainVars, BaseInv, Base, ConnTypes, RunnerTypes, MainTypes, QueueTypes, InSession
<1> QED BY <1>1, BaseRunner, BaseMain, BasePool DEF Next

(* BaseInv holds always. *)
LEMMA BaseAlways == Spec => []BaseInv
BY BaseInit, BaseStep, PTL DEF Spec
-----------------------------------------------------------------------------
(* What is on its way to the runner. *)

(* Lines on their way belong to the current session. *)
OfSession ==
  \A i \in DOMAIN down : /\ down[i].t = "subscribe" => down[i].en = session
                         /\ down[i].t = "notify" => down[i].ses = session

(* The runner has the session's extranonce1, or its answer is in front of   *)
(* every notify, unless a line was lost.                                    *)
SubscribedFirst ==
  ~lost => \A i \in DOMAIN down : down[i].t = "notify" =>
             en1 = session \/ \E j \in 1..(i - 1) : down[j].t = "subscribe"

(* The same of the notifies that the pool may still send. *)
SubscribeOnItsWay ==
  ~lost /\ link = "open" /\ psub =>
    en1 = session \/ \E j \in DOMAIN down : down[j].t = "subscribe"

(* Notifies arrive in the order of their numbers, all of them newer than    *)
(* the one that set last_job_id_.                                           *)
Numbered ==
  /\ lastN <= notifies
  /\ \A i \in DOMAIN down : down[i].t = "notify" => lastN < down[i].n /\ down[i].n <= notifies
  /\ \A i, j \in DOMAIN down :
       i < j /\ down[i].t = "notify" /\ down[j].t = "notify" => down[i].n < down[j].n

(* The wire, from the pool to the runner. *)
WireInv == OfSession /\ SubscribedFirst /\ SubscribeOnItsWay /\ Numbered

(* Lengths and places of a sequence. *)
LEMMA SeqFacts ==
  ASSUME NEW S, NEW s \in Seq(S)
  PROVE  Len(s) \in Nat /\ DOMAIN s = 1..Len(s) /\ \A i \in DOMAIN s : s[i] \in S
OBVIOUS

(* A step that touches nothing of it. *)
LEMMA WireSame ==
  ASSUME WireInv, UNCHANGED <<down, session, link, psub, notifies, lost, en1, lastN>>
  PROVE  WireInv'
BY DEF WireInv, OfSession, SubscribedFirst, SubscribeOnItsWay, Numbered

(* The runner takes the first line. *)
LEMMA WireTail ==
  ASSUME BaseInv, WireInv, down # <<>>, down' = Tail(down),
         UNCHANGED <<session, link, psub, notifies>>,
         lost' \/ (UNCHANGED lost /\ (en1' = session \/ (UNCHANGED en1 /\ Head(down).t # "subscribe"))),
         lastN' = lastN \/ (Head(down).t = "notify" /\ lastN' = Head(down).n)
  PROVE  WireInv'
<1> DEFINE n == Len(down)
<1>1. /\ n \in Nat /\ n >= 1 /\ DOMAIN down = 1..n /\ DOMAIN down' = 1..(n - 1) /\ Head(down) = down[1]
      /\ \A i \in 1..(n - 1) : down'[i] = down[i + 1]
  BY HeadTail, SeqFacts DEF BaseInv, Base, QueueTypes
<1> HIDE DEF n
<1>2. \A i \in DOMAIN down' : i + 1 \in DOMAIN down /\ down'[i] = down[i + 1] /\ i \in Nat /\ 1 < i + 1
  BY <1>1
<1>3. OfSession'
  BY <1>2 DEF WireInv, OfSession
<1>4. Numbered'
  <2>1. CASE lastN' = lastN
    BY <1>2, <2>1 DEF WireInv, Numbered
  <2>2. CASE Head(down).t = "notify" /\ lastN' = Head(down).n
    <3>1. 1 \in DOMAIN down /\ down[1].t = "notify" /\ lastN' = down[1].n
      BY <1>1, <2>2
    <3> QED BY <1>2, <3>1 DEF WireInv, Numbered
  <2> QED BY <2>1, <2>2
<1>5. SubscribedFirst' /\ SubscribeOnItsWay'
  <2>1. CASE lost' \/ en1' = session
    BY <2>1 DEF SubscribedFirst, SubscribeOnItsWay
  <2>2. CASE UNCHANGED lost /\ UNCHANGED en1 /\ Head(down).t # "subscribe"
    <3>1. down[1].t # "subscribe"
      BY <1>1, <2>2
    <3>2. ASSUME NEW j \in DOMAIN down, down[j].t = "subscribe"
          PROVE  j - 1 \in DOMAIN down' /\ down'[j - 1] = down[j]
      BY <1>1, <3>1, <3>2
    <3>3. SubscribeOnItsWay'
      BY <2>2, <3>2 DEF WireInv, SubscribeOnItsWay
    <3>4. SubscribedFirst'
      <4> SUFFICES ASSUME ~lost, en1 # session, NEW i \in DOMAIN down', down'[i].t = "notify"
                   PROVE  \E j \in 1..(i - 1) : down'[j].t = "subscribe"
        BY <2>2 DEF SubscribedFirst
      <4>1. PICK j \in 1..((i + 1) - 1) : down[j].t = "subscribe"
        BY <1>2 DEF WireInv, SubscribedFirst
      <4>2. j \in DOMAIN down /\ j - 1 \in 1..(i - 1)
        BY <1>1, <3>1, <4>1
      <4> QED BY <3>2, <4>1, <4>2
    <3> QED BY <3>3, <3>4
  <2> QED BY <2>1, <2>2
<1> QED BY <1>3, <1>4, <1>5 DEF WireInv

(* The pool puts a line at the end. *)
LEMMA WireAppend ==
  ASSUME BaseInv, WireInv, link = "open", NEW m \in DownMsg, down' = Append(down, m),
         UNCHANGED <<session, link, lost, en1, lastN>>,
         m.t = "subscribe" => m.en = session,
         m.t # "notify" => notifies' = notifies,
         m.t = "notify" => psub /\ m.ses = session /\ m.n = notifies + 1 /\ notifies' = notifies + 1,
         psub' => psub \/ m.t = "subscribe"
  PROVE  WireInv'
<1> DEFINE n == Len(down)
<1>1. /\ n \in Nat /\ DOMAIN down = 1..n /\ DOMAIN down' = 1..(n + 1)
      /\ down'[n + 1] = m /\ \A i \in 1..n : down'[i] = down[i]
  BY DEF BaseInv, Base, QueueTypes
<1> HIDE DEF n
<1>2. \A i \in DOMAIN down' : (i \in DOMAIN down /\ down'[i] = down[i] /\ i < n + 1) \/ (i = n + 1 /\ down'[i] = m)
  BY <1>1
<1>a. notifies \in Nat /\ lastN \in Nat
  BY DEF BaseInv, Base, ConnTypes, RunnerTypes
<1>b. \A i \in DOMAIN down : down[i].t = "notify" => down[i].n \in Nat
  BY MsgFields, SeqFacts DEF BaseInv, Base, QueueTypes, NotifyMsg
<1>3. OfSession'
  BY <1>2 DEF WireInv, OfSession
<1>4. Numbered'
  <2>1. lastN' <= notifies' /\ notifies <= notifies'
    BY <1>a DEF WireInv, Numbered
  <2>2. \A i \in DOMAIN down' : down'[i].t = "notify" => lastN' < down'[i].n /\ down'[i].n <= notifies'
    BY <1>2, <1>a, <1>b, <2>1 DEF WireInv, Numbered
  <2>3. ASSUME NEW i \in DOMAIN down', NEW j \in DOMAIN down', i < j,
               down'[i].t = "notify", down'[j].t = "notify"
        PROVE  down'[i].n < down'[j].n
    <3>1. i \in DOMAIN down /\ down'[i] = down[i]
      BY <1>1, <1>2, <2>3
    <3>2. CASE j \in DOMAIN down /\ down'[j] = down[j]
      BY <2>3, <3>1, <3>2 DEF WireInv, Numbered
    <3>3. CASE down'[j] = m
      BY <1>a, <1>b, <2>3, <3>1, <3>3 DEF WireInv, Numbered
    <3> QED BY <1>2, <3>2, <3>3
  <2> QED BY <2>1, <2>2, <2>3 DEF Numbered
<1>5. SubscribeOnItsWay'
  <2> SUFFICES ASSUME ~lost, psub', en1 # session
               PROVE  \E j \in DOMAIN down' : down'[j].t = "subscribe"
    BY DEF SubscribeOnItsWay
  <2>1. CASE m.t = "subscribe"
    BY <1>1, <2>1
  <2>2. CASE psub
    <3>1. PICK j \in DOMAIN down : down[j].t = "subscribe"
      BY <2>2 DEF WireInv, SubscribeOnItsWay
    <3> QED BY <1>1, <3>1
  <2> QED BY <2>1, <2>2
<1>6. SubscribedFirst'
  <2> SUFFICES ASSUME ~lost, en1 # session, NEW i \in DOMAIN down', down'[i].t = "notify"
               PROVE  \E j \in 1..(i - 1) : down'[j].t = "subscribe"
    BY DEF SubscribedFirst
  <2>1. CASE i \in DOMAIN down /\ down'[i] = down[i]
    <3>1. PICK j \in 1..(i - 1) : down[j].t = "subscribe"
      BY <2>1 DEF WireInv, SubscribedFirst
    <3>2. j \in 1..n
      BY <1>1, <2>1
    <3> QED BY <1>1, <3>1, <3>2
  <2>2. CASE i = n + 1 /\ m.t = "notify"
    <3>1. PICK j \in DOMAIN down : down[j].t = "subscribe"
      BY <2>2 DEF WireInv, SubscribeOnItsWay
    <3>2. j \in 1..(i - 1) /\ down'[j] = down[j]
      BY <1>1, <2>2
    <3> QED BY <3>1, <3>2
  <2> QED BY <1>2, <2>1, <2>2
<1> QED BY <1>3, <1>4, <1>5, <1>6 DEF WireInv

(* The connection ends and loses lines from the back. *)
LEMMA WirePrefix ==
  ASSUME BaseInv, WireInv, NEW k \in 0..Len(down), down' = SubSeq(down, 1, k), link' = "closed",
         UNCHANGED <<session, lost, en1, lastN, notifies>>
  PROVE  WireInv'
<1>1. \A i \in DOMAIN down' : i \in DOMAIN down /\ down'[i] = down[i] /\ i \in 1..k
  BY DEF BaseInv, Base, QueueTypes
<1>2. DOMAIN down' = 1..k
  BY DEF BaseInv, Base, QueueTypes
<1>3. OfSession' /\ Numbered'
  BY <1>1 DEF WireInv, OfSession, Numbered
<1>4. SubscribeOnItsWay'
  BY DEF SubscribeOnItsWay
<1>5. SubscribedFirst'
  <2> SUFFICES ASSUME ~lost, en1 # session, NEW i \in DOMAIN down', down'[i].t = "notify"
               PROVE  \E j \in 1..(i - 1) : down'[j].t = "subscribe"
    BY DEF SubscribedFirst
  <2>1. PICK j \in 1..(i - 1) : down[j].t = "subscribe"
    BY <1>1 DEF WireInv, SubscribedFirst
  <2>2. j \in DOMAIN down'
    BY <1>1, <1>2
  <2> QED BY <1>1, <2>1, <2>2
<1> QED BY <1>3, <1>4, <1>5 DEF WireInv

(* A connection that is new or gone has nothing on its way. *)
LEMMA WireEmpty ==
  ASSUME WireInv, down' = <<>>, UNCHANGED <<lastN, notifies>>, link' = "closed" \/ psub' = FALSE
  PROVE  WireInv'
BY DEF WireInv, OfSession, SubscribedFirst, SubscribeOnItsWay, Numbered

(* Every step keeps it. *)
LEMMA WireStep == BaseInv /\ WireInv /\ [Next]_vars => WireInv'
<1> SUFFICES ASSUME BaseInv, WireInv, [Next]_vars PROVE WireInv'
  OBVIOUS
<1> USE DEF poolVars, runnerVars
<1>1. CASE ConnectFails \/ BackoffOver \/ Hello \/ LeaveRecv \/ CooldownOver \/ ExitThread
  BY <1>1, WireSame DEF ConnectFails, BackoffOver, Hello, LeaveRecv, CooldownOver, ExitThread
<1>2. CASE MainThread \/ UNCHANGED vars
  BY <1>2, WireSame
  DEF MainThread, pollNormalizedFull, SubmitBegin, SubmitEnd, setPendingSubmit, Stop, Joined, vars
<1>3. CASE ConnectSucceeds \/ CloseSocket
  BY <1>3, WireEmpty DEF ConnectSucceeds, CloseSocket
<1>4. CASE RecvSubscribed
  <2>1. /\ down # <<>> /\ Head(down).t = "subscribe"
        /\ lost' \/ (lost' = lost /\ en1' = Head(down).en)
    <3>1. down # <<>> /\ Head(down).t = "subscribe" /\ lost \in BOOLEAN
      BY <1>4 DEF RecvSubscribed, Receive, BaseInv, Base, ConnTypes
    <3>2. CASE Head(down).form = "noExtranonce"
      BY <1>4, <3>1, <3>2, Zenon DEF RecvSubscribed
    <3>3. CASE Head(down).form # "noExtranonce"
      <4>1. en1' = Head(down).en
        BY <1>4, <3>3 DEF RecvSubscribed
      <4>2. lost' = lost
        BY <1>4, <3>1, <3>3 DEF RecvSubscribed
      <4> QED BY <3>1, <4>1, <4>2
    <3> QED BY <3>2, <3>3
  <2>2. Head(down) = down[1] /\ 1 \in DOMAIN down
    BY <2>1, HeadTail, SeqFacts DEF BaseInv, Base, QueueTypes
  <2>3. lost' \/ (lost' = lost /\ en1' = session)
    BY <2>1, <2>2 DEF WireInv, OfSession
  <2> QED BY <1>4, <2>3, WireTail DEF RecvSubscribed, Receive
<1>5. CASE RecvLogged \/ RecvSetDifficulty \/ RecvSubmitResult
  BY <1>5, WireTail DEF RecvLogged, RecvSetDifficulty, RecvSubmitResult, Receive
<1>6. CASE RecvNotify
  BY <1>6, WireTail DEF RecvNotify, Receive
<1>7. CASE TimeoutInsideLine
  BY <1>7, WireTail DEF TimeoutInsideLine
<1>8. CASE PoolAnswers
  <2>1. Head(up) \in UpMsg
    BY <1>8, HeadTail DEF PoolAnswers, BaseInv, Base, QueueTypes
  <2>2. session \in 1..MaxSessions
    BY <1>8, SessionAssumption DEF PoolAnswers, BaseInv, Base, ConnTypes, InSession
  <2>3. /\ link = "open" /\ UNCHANGED <<session, link, lost, en1, lastN, notifies>>
        /\ psub' = (psub \/ Head(up).t = "subscribe")
    BY <1>8 DEF PoolAnswers
  <2>4. ASSUME NEW form \in Answers, Head(up).t = "subscribe",
               down' = Append(down, [t |-> "subscribe", en |-> session, form |-> form])
        PROVE  WireInv'
    <3> DEFINE m == [t |-> "subscribe", en |-> session, form |-> form]
    <3>1. m \in DownMsg /\ m.t = "subscribe" /\ m.en = session
      BY <2>2 DEF DownMsg, SubscribeMsg
    <3> HIDE DEF m
    <3> QED BY <2>3, <2>4, <3>1, WireAppend DEF m
  <2>5. CASE Head(up).t \in {"authorize", "configure"} /\ down' = Append(down, Head(up))
    <3>1. Head(up) \in DownMsg
      BY <2>1, <2>5 DEF DownMsg, LoggedMsg, UpMsg
    <3> QED BY <2>3, <2>5, <3>1, WireAppend
  <2>6. ASSUME NEW r \in {"true", "false", "other"}, Head(up).t = "submit",
               down' = Append(down, [t |-> "submit", result |-> r])
        PROVE  WireInv'
    <3> DEFINE m == [t |-> "submit", result |-> r]
    <3>1. m \in DownMsg /\ m.t = "submit"
      BY DEF DownMsg, ResultMsg
    <3> HIDE DEF m
    <3> QED BY <2>3, <2>6, <3>1, WireAppend DEF m
  <2> QED BY <1>8, <2>4, <2>5, <2>6 DEF PoolAnswers
<1>9. ASSUME NEW d \in Diffs, PoolSetsDifficulty(d) PROVE WireInv'
  <2> DEFINE m == [t |-> "set_difficulty", diff |-> d]
  <2>1. m \in DownMsg /\ m.t = "set_difficulty"
    BY DEF DownMsg, DifficultyMsg
  <2>2. down' = Append(down, m) /\ link = "open" /\ psub
        /\ UNCHANGED <<session, link, lost, en1, lastN, notifies>>
    BY <1>9 DEF PoolSetsDifficulty
  <2> HIDE DEF m
  <2> QED BY <2>1, <2>2, WireAppend
<1>10. ASSUME NEW j \in JobIds, NEW good \in BOOLEAN, PoolNotifies(j, good) PROVE WireInv'
  <2> DEFINE m == [t |-> "notify", id |-> j, n |-> notifies + 1, ses |-> session,
                   diff |-> pdiff, good |-> good]
  <2>1. notifies + 1 \in 1..MaxNotifies /\ session \in 1..MaxSessions
    BY <1>10, SessionAssumption DEF PoolNotifies, BaseInv, Base, ConnTypes, InSession
  <2>2. m \in DownMsg /\ m.t = "notify" /\ m.n = notifies + 1 /\ m.ses = session
    BY <2>1 DEF DownMsg, NotifyMsg, BaseInv, Base, ConnTypes
  <2>3. down' = Append(down, m) /\ link = "open" /\ psub /\ notifies' = notifies + 1
        /\ UNCHANGED <<session, link, lost, en1, lastN>>
    BY <1>10 DEF PoolNotifies
  <2> HIDE DEF m
  <2> QED BY <2>2, <2>3, WireAppend
<1>11. CASE PoolDisconnects
  <2>1. PICK k \in 0..Len(down) : down' = SubSeq(down, 1, k)
    BY <1>11 DEF PoolDisconnects
  <2> QED BY <1>11, <2>1, WirePrefix DEF PoolDisconnects
<1> QED
  BY <1>1, <1>2, <1>3, <1>4, <1>5, <1>6, <1>7, <1>8, <1>9, <1>10, <1>11 DEF Next, Runner, Pool

(* WireInv holds always. *)
LEMMA WireAlways == Spec => []WireInv
<1>1. Init => WireInv
  BY DEF Init, WireInv, OfSession, SubscribedFirst, SubscribeOnItsWay, Numbered
<1> QED BY <1>1, WireStep, BaseAlways, PTL DEF Spec
-----------------------------------------------------------------------------
(* Jobs, from the notify to the share. *)

(* last_job_id_ is at least as new as every job that was ingested, and      *)
(* notifies are numbered, so there are no more jobs than its number.        *)
IngestedPast ==
  /\ Len(ingested) <= lastN
  /\ \A i \in DOMAIN ingested : ingested[i].n <= lastN

(* The main thread took no more than there was. *)
DrainedPast == drained <= Len(ingested)

(* The properties of jobs and what they rest on. *)
JobInv ==
  /\ JobsBuiltForTheirSession /\ IngestedPast /\ DrainedPast
  /\ JobsHandedOverInOrder /\ ShareNotUnderOlderJob

(* A step that touches nothing of it. *)
LEMMA JobSame ==
  ASSUME JobInv, UNCHANGED <<ingested, lastN, drained, aq, mining, shares>>
  PROVE  JobInv'
BY DEF JobInv, JobsBuiltForTheirSession, IngestedPast, DrainedPast, JobsHandedOverInOrder,
       ShareNotUnderOlderJob

(* Appending leaves what was there in place. *)
LEMMA AppendFacts ==
  ASSUME NEW S, NEW s \in Seq(S), NEW e \in S
  PROVE  /\ Len(s) \in Nat /\ Len(Append(s, e)) = Len(s) + 1
         /\ DOMAIN Append(s, e) = 1..(Len(s) + 1)
         /\ \A i \in 1..Len(s) : Append(s, e)[i] = s[i]
         /\ Append(s, e)[Len(s) + 1] = e
OBVIOUS

(* What is left to hand over grows with the jobs. *)
LEMMA QueueGrows ==
  ASSUME NEW S, NEW s \in Seq(S), NEW e \in S, NEW n \in Nat, n <= Len(s)
  PROVE  Append(SubSeq(s, n + 1, Len(s)), e) = SubSeq(Append(s, e), n + 1, Len(Append(s, e)))
OBVIOUS

(* Taking the oldest leaves what follows it. *)
LEMMA QueueShrinks ==
  ASSUME NEW S, NEW s \in Seq(S), NEW n \in Nat, n <= Len(s),
         SubSeq(s, n + 1, Len(s)) # <<>>
  PROVE  /\ n + 1 <= Len(s)
         /\ Head(SubSeq(s, n + 1, Len(s))) = s[n + 1]
         /\ Tail(SubSeq(s, n + 1, Len(s))) = SubSeq(s, n + 2, Len(s))
OBVIOUS

(* A notify: the job it makes is of its session and is the newest. *)
LEMMA JobNotify ==
  ASSUME BaseInv, WireInv, JobInv, RecvNotify
  PROVE  JobInv'
<1> DEFINE m == Head(down)
           n == Len(ingested)
<1>1. m \in NotifyMsg /\ m.t = "notify" /\ m = down[1] /\ 1 \in DOMAIN down
  BY HeadTail, MsgFields, SeqFacts DEF RecvNotify, Receive, BaseInv, Base, QueueTypes
<1>2. m.ses = session /\ lastN < m.n
  BY <1>1 DEF WireInv, OfSession, Numbered
<1>3. lost \/ en1 = session
  <2>1. ~ \E j \in 1..(1 - 1) : down[j].t = "subscribe"
    OBVIOUS
  <2> QED BY <1>1, <2>1 DEF WireInv, SubscribedFirst
<1>4. /\ lastN' = m.n /\ UNCHANGED <<drained, mining, shares>>
      /\ \/ aq' = Append(aq, JobOf(m)) /\ ingested' = Append(ingested, JobOf(m))
         \/ UNCHANGED <<aq, ingested>>
  BY DEF RecvNotify, ingestJobWithPolicy, mainVars
<1>5. JobOf(m) \in Job /\ JobOf(m).n = m.n /\ JobOf(m).ses = m.ses /\ JobOf(m).en = en1
      /\ JobOf(m).lost = lost
  BY <1>1, JobOfType DEF JobOf, BaseInv
<1>6. m.n \in Nat /\ lastN \in Nat /\ drained \in Nat /\ ingested \in Seq(Job) /\ aq \in Seq(Job)
      /\ \A i \in DOMAIN ingested : ingested[i].n \in Nat
  <2>1. lastN \in Nat /\ drained \in Nat /\ ingested \in Seq(Job) /\ aq \in Seq(Job)
    BY DEF BaseInv, Base, RunnerTypes, MainTypes, QueueTypes
  <2>2. \A i \in DOMAIN ingested : ingested[i].n \in Nat
    <3>1. \A j \in Job : j.n \in Nat
      BY DEF Job
    <3>2. \A i \in DOMAIN ingested : ingested[i] \in Job
      BY <2>1, SeqFacts
    <3> QED BY <3>1, <3>2
  <2>3. m.n \in Nat
    BY <1>1 DEF NotifyMsg
  <2> QED BY <2>1, <2>2, <2>3
<1>7. ShareNotUnderOlderJob'
  BY <1>4 DEF JobInv, ShareNotUnderOlderJob
<1>8. n \in Nat /\ DOMAIN ingested = 1..n
  BY <1>6
<1> HIDE DEF m
<1>9. CASE UNCHANGED <<aq, ingested>>
  <2>1. JobsBuiltForTheirSession' /\ DrainedPast' /\ JobsHandedOverInOrder'
    BY <1>4, <1>9 DEF JobInv, JobsBuiltForTheirSession, DrainedPast, JobsHandedOverInOrder
  <2>2. IngestedPast'
    BY <1>2, <1>4, <1>6, <1>8, <1>9 DEF JobInv, IngestedPast
  <2> QED BY <1>7, <2>1, <2>2 DEF JobInv
<1>10. CASE aq' = Append(aq, JobOf(m)) /\ ingested' = Append(ingested, JobOf(m))
  <2> DEFINE j == JobOf(m)
  <2>1. /\ Len(ingested') = n + 1 /\ DOMAIN ingested' = 1..(n + 1)
        /\ \A i \in 1..n : ingested'[i] = ingested[i]
        /\ ingested'[n + 1] = j
    BY <1>5, <1>6, <1>10, AppendFacts
  <2>2. aq' = Append(aq, j) /\ ingested' = Append(ingested, j) /\ j \in Job
        /\ j.n = m.n /\ j.ses = m.ses /\ j.en = en1 /\ j.lost = lost
    BY <1>5, <1>10
  <2> HIDE DEF j, n
  <2>3. \A i \in 1..(n + 1) : i \in 1..n \/ i = n + 1
    BY <1>8
  <2>4. JobsBuiltForTheirSession'
    BY <1>2, <1>3, <1>8, <2>1, <2>2, <2>3 DEF JobInv, JobsBuiltForTheirSession
  <2>5. IngestedPast'
    <3>1. n <= lastN /\ \A i \in 1..n : ingested[i].n <= lastN
      BY <1>8 DEF JobInv, IngestedPast, n
    <3> QED BY <1>2, <1>4, <1>6, <1>8, <2>1, <2>2, <2>3, <3>1 DEF IngestedPast
  <2>6. DrainedPast'
    BY <1>4, <1>6, <1>8, <2>1 DEF JobInv, DrainedPast, n
  <2>7. JobsHandedOverInOrder'
    <3>1. aq = SubSeq(ingested, drained + 1, Len(ingested)) /\ drained <= Len(ingested)
      BY DEF JobInv, JobsHandedOverInOrder, DrainedPast
    <3>2. Append(SubSeq(ingested, drained + 1, Len(ingested)), j)
            = SubSeq(Append(ingested, j), drained + 1, Len(Append(ingested, j)))
      BY <1>6, <2>2, <3>1, QueueGrows
    <3>3. aq' = SubSeq(ingested', drained' + 1, Len(ingested'))
      BY <1>4, <2>2, <3>1, <3>2
    <3>4. drained # 0 => ingested'[drained] = ingested[drained]
      BY <1>6, <1>8, <2>1, <3>1 DEF n
    <3> QED BY <1>4, <3>3, <3>4 DEF JobInv, JobsHandedOverInOrder
  <2> QED BY <1>7, <2>4, <2>5, <2>6, <2>7 DEF JobInv
<1> QED BY <1>4, <1>9, <1>10

(* The main thread takes the oldest job. *)
LEMMA JobPoll ==
  ASSUME BaseInv, JobInv, pollNormalizedFull
  PROVE  JobInv'
<1>1. /\ aq # <<>> /\ mining' = Head(aq) /\ aq' = Tail(aq) /\ drained' = drained + 1
      /\ UNCHANGED <<ingested, lastN, shares>>
  BY DEF pollNormalizedFull, runnerVars
<1>2. /\ ingested \in Seq(Job) /\ drained \in Nat /\ drained <= Len(ingested)
      /\ aq = SubSeq(ingested, drained + 1, Len(ingested))
  BY DEF BaseInv, Base, MainTypes, QueueTypes, JobInv, DrainedPast, JobsHandedOverInOrder
<1>3. /\ drained + 1 <= Len(ingested) /\ Head(aq) = ingested[drained + 1]
      /\ Tail(aq) = SubSeq(ingested, drained + 2, Len(ingested))
  BY <1>1, <1>2, QueueShrinks
<1>4. drained' + 1 = drained + 2 /\ drained' # 0
  BY <1>1, <1>2
<1>5. DrainedPast' /\ JobsHandedOverInOrder'
  BY <1>1, <1>3, <1>4 DEF DrainedPast, JobsHandedOverInOrder
<1>6. JobsBuiltForTheirSession' /\ IngestedPast' /\ ShareNotUnderOlderJob'
  BY <1>1 DEF JobInv, JobsBuiltForTheirSession, IngestedPast, ShareNotUnderOlderJob
<1> QED BY <1>5, <1>6 DEF JobInv

(* A share goes out under last_job_id_. *)
LEMMA JobSubmit ==
  ASSUME BaseInv, JobInv, SubmitEnd
  PROVE  JobInv'
<1>1. UNCHANGED <<ingested, lastN, drained, aq, mining>> /\ mpc = "sending"
  BY DEF SubmitEnd, runnerVars, adapterVars
<1>2. JobsBuiltForTheirSession' /\ IngestedPast' /\ DrainedPast' /\ JobsHandedOverInOrder'
  BY <1>1
  DEF JobInv, JobsBuiltForTheirSession, IngestedPast, DrainedPast, JobsHandedOverInOrder
<1>3. mining # NoJob /\ mining \in Job /\ drained \in Nat /\ ingested \in Seq(Job)
  BY <1>1 DEF BaseInv, Base, MainTypes, QueueTypes, InSession
<1>4. mining = ingested[drained] /\ drained # 0 /\ drained <= Len(ingested)
  BY <1>3 DEF JobInv, JobsHandedOverInOrder, DrainedPast
<1>5. mining.n <= lastN
  <2>1. drained \in DOMAIN ingested
    BY <1>3, <1>4
  <2> QED BY <1>4, <2>1 DEF JobInv, IngestedPast
<1>6. lastN >= mining.n
  BY <1>3, <1>5 DEF BaseInv, Base, RunnerTypes, Job
<1>7. ShareNotUnderOlderJob'
  <2> DEFINE sh == [mined |-> mining, id |-> lastJob, n |-> lastN]
  <2>1. sh \in Share /\ sh.mined = mining /\ sh.n = lastN
    BY <1>3 DEF Share, BaseInv, Base, RunnerTypes
  <2>2. shares' = Append(shares, sh) \/ shares' = shares
    BY DEF SubmitEnd
  <2>3. shares \in Seq(Share)
    BY DEF BaseInv, Base, QueueTypes
  <2> HIDE DEF sh
  <2>4. \A i \in DOMAIN shares' : (i \in DOMAIN shares /\ shares'[i] = shares[i]) \/ shares'[i] = sh
    BY <2>1, <2>2, <2>3
  <2> QED BY <1>6, <2>1, <2>4 DEF JobInv, ShareNotUnderOlderJob
<1> QED BY <1>2, <1>7 DEF JobInv

(* Every step keeps it. *)
LEMMA JobStep == BaseInv /\ WireInv /\ JobInv /\ [Next]_vars => JobInv'
<1> SUFFICES ASSUME BaseInv, WireInv, JobInv, [Next]_vars PROVE JobInv'
  OBVIOUS
<1> USE DEF poolVars, runnerVars, adapterVars, mainVars
<1>1. CASE \/ ConnectFails \/ BackoffOver \/ ConnectSucceeds \/ Hello \/ RecvSubscribed
           \/ RecvLogged \/ RecvSetDifficulty
  BY <1>1, JobSame
  DEF ConnectFails, BackoffOver, ConnectSucceeds, Hello, RecvSubscribed, RecvLogged,
      RecvSetDifficulty
<1>2. CASE \/ RecvSubmitResult \/ TimeoutInsideLine \/ LeaveRecv \/ CloseSocket
           \/ CooldownOver \/ ExitThread
  BY <1>2, JobSame
  DEF RecvSubmitResult, TimeoutInsideLine, LeaveRecv, CloseSocket, CooldownOver, ExitThread
<1>3. CASE RecvNotify
  BY <1>3, JobNotify
<1>4. CASE pollNormalizedFull
  BY <1>4, JobPoll
<1>5. CASE SubmitEnd
  BY <1>5, JobSubmit
<1>6. CASE SubmitBegin \/ setPendingSubmit \/ Stop \/ Joined \/ UNCHANGED vars
  BY <1>6, JobSame DEF SubmitBegin, setPendingSubmit, Stop, Joined, vars
<1>7. CASE Pool
  <2>1. UNCHANGED <<ingested, lastN, drained, aq, mining, shares>>
    BY <1>7 DEF Pool, PoolAnswers, PoolSetsDifficulty, PoolNotifies, PoolDisconnects
  <2> QED BY <2>1, JobSame
<1> QED
  BY <1>1, <1>2, <1>3, <1>4, <1>5, <1>6, <1>7 DEF Next, Runner, MainThread

(* JobInv holds always. *)
LEMMA JobAlways == Spec => []JobInv
<1>1. Init => JobInv
  BY DEF Init, JobInv, JobsBuiltForTheirSession, IngestedPast, DrainedPast,
         JobsHandedOverInOrder, ShareNotUnderOlderJob
<1> QED BY <1>1, JobStep, BaseAlways, WireAlways, PTL DEF Spec

(* Every job is built with the extranonce1 of the session that announced    *)
(* it, over any number of reconnects, unless a receive timeout lost a line  *)
(* of that session or its subscribe answer had no readable extranonce1.     *)
THEOREM SessionJobsBuilt == Spec => []JobsBuiltForTheirSession
<1>1. JobInv => JobsBuiltForTheirSession
  BY DEF JobInv
<1> QED BY <1>1, JobAlways, PTL

(* Jobs reach the main thread in order, none lost and none doubled. *)
THEOREM SessionJobsInOrder == Spec => []JobsHandedOverInOrder
<1>1. JobInv => JobsHandedOverInOrder
  BY DEF JobInv
<1> QED BY <1>1, JobAlways, PTL

(* A share never goes out under the id of a job older than its own. *)
THEOREM SessionShareNotOlder == Spec => []ShareNotUnderOlderJob
<1>1. JobInv => ShareNotUnderOlderJob
  BY DEF JobInv
<1> QED BY <1>1, JobAlways, PTL
-----------------------------------------------------------------------------
(* Counting shares and answers. *)

(* The places in a line sequence where a share or its answer is. *)
Submits(s) == {i \in 1..Len(s) : s[i].t = "submit"}

(* How many there are. *)
InFlight(s) == Cardinality(Submits(s))

(* Answers counted, answers on their way and shares on their way are no     *)
(* more than the shares sent.                                               *)
AnswersComing == accepted + rejected + InFlight(up) + InFlight(down) <= Len(shares)

(* Every share sent, and the one being sent, was tried. *)
SharesTried == Len(shares) + (IF mpc = "sending" THEN 1 ELSE 0) <= tries

(* Only accepted shares are reported. *)
ReportedAccepted == reported <= accepted

(* The three together. *)
CountInv == AnswersComing /\ SharesTried /\ ReportedAccepted

(* There are finitely many. *)
LEMMA InFlightType ==
  ASSUME NEW S, NEW s \in Seq(S)
  PROVE  IsFiniteSet(Submits(s)) /\ InFlight(s) \in Nat
<1>1. Len(s) \in Nat
  OBVIOUS
<1>2. IsFiniteSet(1..Len(s))
  BY <1>1, FS_Interval
<1>3. Submits(s) \in SUBSET (1..Len(s))
  BY DEF Submits
<1>4. IsFiniteSet(Submits(s))
  BY <1>2, <1>3, FS_Subset
<1> QED BY <1>4, FS_CardinalityType DEF InFlight

(* None on a new connection. *)
LEMMA InFlightEmpty == InFlight(<<>>) = 0
<1>1. Submits(<<>>) = {}
  BY DEF Submits
<1> QED BY <1>1, FS_EmptySet DEF InFlight

(* A line more. *)
LEMMA InFlightAppend ==
  ASSUME NEW S, NEW s \in Seq(S), NEW e \in S
  PROVE  InFlight(Append(s, e)) = InFlight(s) + (IF e.t = "submit" THEN 1 ELSE 0)
<1> DEFINE n == Len(s)
           r == Append(s, e)
<1>1. n \in Nat /\ Len(r) = n + 1 /\ r[n + 1] = e /\ \A i \in 1..n : r[i] = s[i]
  OBVIOUS
<1>2. IsFiniteSet(Submits(s)) /\ InFlight(s) \in Nat
  BY InFlightType
<1> HIDE DEF r, n
<1>3. Submits(s) \subseteq 1..n
  BY DEF Submits, n
<1>4. CASE e.t = "submit"
  <2>1. Submits(r) = Submits(s) \cup {n + 1}
    BY <1>1, <1>4 DEF Submits, n
  <2>2. n + 1 \notin Submits(s)
    BY <1>1, <1>3
  <2>3. Cardinality(Submits(s) \cup {n + 1}) = Cardinality(Submits(s)) + 1
    BY <1>2, <2>2, FS_AddElement
  <2> QED BY <1>4, <2>1, <2>3 DEF InFlight, r
<1>5. CASE e.t # "submit"
  <2>1. Submits(r) = Submits(s)
    BY <1>1, <1>5 DEF Submits, n
  <2> QED BY <1>2, <1>5, <2>1 DEF InFlight, r
<1> QED BY <1>4, <1>5

(* The first line is taken. *)
LEMMA InFlightTail ==
  ASSUME NEW S, NEW s \in Seq(S), s # <<>>
  PROVE  InFlight(Tail(s)) + (IF Head(s).t = "submit" THEN 1 ELSE 0) <= InFlight(s)
<1> DEFINE n == Len(s)
           r == Tail(s)
           T == Submits(s) \ {1}
           f == [i \in Submits(r) |-> i + 1]
<1>1. /\ n \in Nat /\ n >= 1 /\ Len(r) = n - 1 /\ Head(s) = s[1] /\ r \in Seq(S)
      /\ \A i \in 1..(n - 1) : r[i] = s[i + 1]
  BY HeadTail
<1>2. IsFiniteSet(Submits(s)) /\ InFlight(s) \in Nat
  BY InFlightType
<1>3. IsFiniteSet(T) /\ Cardinality(T) = IF 1 \in Submits(s) THEN InFlight(s) - 1 ELSE InFlight(s)
  BY <1>2, FS_RemoveElement DEF InFlight
<1> HIDE DEF r, n
<1>4. \A i \in Submits(r) : i \in Nat /\ i + 1 \in T
  BY <1>1 DEF Submits, n
<1> HIDE DEF T
<1>5. f \in [Submits(r) -> T]
  BY <1>4
<1>6. \A a, b \in Submits(r) : f[a] = f[b] => a = b
  BY <1>4
<1> HIDE DEF f
<1>7. f \in Injection(Submits(r), T)
  BY <1>5, <1>6 DEF Injection, IsInjective
<1>8. InFlight(r) <= Cardinality(T)
  BY <1>3, <1>7, FS_Injection DEF InFlight
<1>9. InFlight(r) \in Nat
  BY <1>1, InFlightType
<1>10. 1 \in Submits(s) <=> Head(s).t = "submit"
  BY <1>1 DEF Submits, n
<1>11. CASE Head(s).t = "submit"
  BY <1>2, <1>3, <1>8, <1>9, <1>10, <1>11 DEF r
<1>12. CASE Head(s).t # "submit"
  BY <1>2, <1>3, <1>8, <1>9, <1>10, <1>12 DEF r
<1> QED BY <1>11, <1>12

(* Lines are lost from the back. *)
LEMMA InFlightPrefix ==
  ASSUME NEW S, NEW s \in Seq(S), NEW k \in 0..Len(s)
  PROVE  InFlight(SubSeq(s, 1, k)) <= InFlight(s)
<1>1. /\ Len(s) \in Nat /\ Len(SubSeq(s, 1, k)) = k
      /\ \A i \in 1..k : SubSeq(s, 1, k)[i] = s[i]
  OBVIOUS
<1>2. Submits(SubSeq(s, 1, k)) \in SUBSET Submits(s)
  BY <1>1 DEF Submits
<1> QED BY <1>2, InFlightType, FS_Subset DEF InFlight

(* The requests of a new session are no shares. *)
LEMMA InFlightHello ==
  ASSUME NEW s \in Seq(UpMsg)
  PROVE  InFlight(s \o <<[t |-> "subscribe"], [t |-> "authorize"], [t |-> "configure"]>>)
           = InFlight(s)
<1> DEFINE h == <<[t |-> "subscribe"], [t |-> "authorize"], [t |-> "configure"]>>
           r == s \o h
<1>1. h \in Seq(UpMsg) /\ Len(h) = 3 /\ \A i \in 1..3 : h[i].t # "submit"
  BY DEF UpMsg
<1> HIDE DEF h
<1>a. /\ Len(s) \in Nat /\ Len(h) \in Nat /\ Len(r) = Len(s) + Len(h)
      /\ \A i \in 1..Len(s) : r[i] = s[i]
      /\ \A i \in 1..Len(r) : i \notin 1..Len(s) => r[i] = h[i - Len(s)]
  <2>a. s \in Seq(UpMsg) /\ h \in Seq(UpMsg)
    BY <1>1
  <2>1. Len(s) \in Nat /\ Len(h) \in Nat /\ Len(r) = Len(s) + Len(h)
    BY <2>a
  <2>2. ASSUME NEW i \in 1..Len(s) PROVE r[i] = s[i]
    BY <1>1, <2>1
  <2>3. ASSUME NEW i \in 1..Len(r), i \notin 1..Len(s) PROVE r[i] = h[i - Len(s)]
    <3>1. i \in 1..(Len(s) + Len(h)) /\ ~(i <= Len(s))
      BY <2>1, <2>3
    <3> QED BY <1>1, <3>1
  <2> QED BY <2>1, <2>2, <2>3
<1> HIDE DEF r
<1>2. /\ Len(s) \in Nat /\ Len(r) = Len(s) + 3 /\ \A i \in 1..Len(s) : r[i] = s[i]
      /\ \A i \in 1..Len(r) : i \notin 1..Len(s) => i - Len(s) \in 1..3 /\ r[i] = h[i - Len(s)]
  BY <1>1, <1>a
<1>3. Submits(r) = Submits(s)
  BY <1>1, <1>2 DEF Submits
<1> QED BY <1>3 DEF InFlight, r, h

(* A step after which no more lines are on their way, and which counts      *)
(* nothing, keeps the count.                                                *)
LEMMA CountSame ==
  ASSUME BaseInv, BaseInv', CountInv,
         InFlight(up') <= InFlight(up), InFlight(down') <= InFlight(down),
         UNCHANGED <<accepted, rejected, reported, shares>>,
         UNCHANGED <<mpc, tries>> \/ (tries' = tries + 1 /\ mpc = "loop") \/ (UNCHANGED tries /\ mpc' # "sending")
  PROVE  CountInv'
<1>1. /\ InFlight(up) \in Nat /\ InFlight(down) \in Nat
      /\ InFlight(up') \in Nat /\ InFlight(down') \in Nat
      /\ accepted \in Nat /\ rejected \in Nat /\ Len(shares) \in Nat /\ tries \in Nat
  <2>1. /\ up \in Seq(UpMsg) /\ down \in Seq(DownMsg) /\ shares \in Seq(Share)
        /\ up' \in Seq(UpMsg) /\ down' \in Seq(DownMsg)
    BY DEF BaseInv, Base, QueueTypes
  <2>2. accepted \in Nat /\ rejected \in Nat /\ tries \in Nat
    BY DEF BaseInv, Base, RunnerTypes, MainTypes
  <2>3. Len(shares) \in Nat
    BY <2>1
  <2> QED BY <2>1, <2>2, <2>3, InFlightType
<1>2. AnswersComing'
  BY <1>1 DEF CountInv, AnswersComing
<1>3. SharesTried' /\ ReportedAccepted'
  BY <1>1 DEF CountInv, SharesTried, ReportedAccepted
<1> QED BY <1>2, <1>3 DEF CountInv

(* One answer taken off the wire pays for one answer counted. *)
LEMMA CountSum ==
  ASSUME NEW a \in Nat, NEW r \in Nat, NEW u \in Nat, NEW d \in Nat, NEW n \in Nat,
         NEW a2 \in Nat, NEW r2 \in Nat, NEW d2 \in Nat,
         a2 + r2 <= a + r + 1, d2 + 1 <= d, a + r + u + d <= n
  PROVE  a2 + r2 + u + d2 <= n
OBVIOUS

(* Every step keeps the count. *)
LEMMA CountStep == BaseInv /\ CountInv /\ [Next]_vars => CountInv'
<1> SUFFICES ASSUME BaseInv, CountInv, [Next]_vars PROVE CountInv'
  OBVIOUS
<1> USE DEF poolVars, runnerVars, adapterVars, mainVars
<1>0. BaseInv'
  BY BaseStep
<1>a. /\ up \in Seq(UpMsg) /\ down \in Seq(DownMsg) /\ shares \in Seq(Share)
      /\ accepted \in Nat /\ rejected \in Nat /\ reported \in Nat /\ tries \in Nat
  BY DEF BaseInv, Base, QueueTypes, RunnerTypes, MainTypes
<1>b. /\ InFlight(up) \in Nat /\ InFlight(down) \in Nat /\ Len(shares) \in Nat
      /\ InFlight(up') \in Nat /\ InFlight(down') \in Nat
  BY <1>0, <1>a, InFlightType, SeqFacts DEF BaseInv, Base, QueueTypes
<1>1. CASE ConnectFails \/ BackoffOver \/ LeaveRecv \/ CooldownOver \/ ExitThread
  <2>1. UNCHANGED <<up, down, accepted, rejected, reported, shares, mpc, tries>>
    BY <1>1 DEF ConnectFails, BackoffOver, LeaveRecv, CooldownOver, ExitThread
  <2> QED BY <1>0, <1>b, <2>1, CountSame
<1>2. CASE ConnectSucceeds \/ CloseSocket
  BY <1>0, <1>2, <1>b, CountSame, InFlightEmpty DEF ConnectSucceeds, CloseSocket
<1>3. CASE Hello
  <2>1. InFlight(up') <= InFlight(up)
    BY <1>3, <1>a, <1>b, InFlightHello DEF Hello
  <2> QED BY <1>0, <1>3, <1>b, <2>1, CountSame DEF Hello
<1>4. CASE RecvSubscribed \/ RecvLogged \/ RecvSetDifficulty \/ RecvNotify \/ TimeoutInsideLine
  <2>1. down # <<>> /\ down' = Tail(down) /\ up' = up
        /\ UNCHANGED <<accepted, rejected, reported, shares, mpc, tries>>
    BY <1>4
    DEF RecvSubscribed, RecvLogged, RecvSetDifficulty, RecvNotify, TimeoutInsideLine, Receive
  <2>2. InFlight(down') <= InFlight(down)
    BY <1>a, <1>b, <2>1, InFlightTail
  <2> QED BY <1>0, <1>b, <2>1, <2>2, CountSame
<1>5. CASE RecvSubmitResult
  <2>1. down # <<>> /\ down' = Tail(down) /\ Head(down).t = "submit"
        /\ UNCHANGED <<up, shares, mpc, tries>>
    BY <1>5 DEF RecvSubmitResult, Receive
  <2>2. InFlight(down') + 1 <= InFlight(down)
    BY <1>a, <2>1, InFlightTail
  <2>3. \/ accepted' = accepted + 1 /\ rejected' = rejected /\ reported' \in {reported, reported + 1}
        \/ rejected' = rejected + 1 /\ accepted' = accepted /\ reported' = reported
        \/ UNCHANGED <<accepted, rejected, reported>>
    BY <1>5 DEF RecvSubmitResult
  <2>4. AnswersComing'
    <3>1. accepted \in Nat /\ rejected \in Nat
      BY <1>a
    <3>2. accepted' \in Nat /\ rejected' \in Nat /\ accepted' + rejected' <= accepted + rejected + 1
      BY <2>3, <3>1
    <3>3. InFlight(up') = InFlight(up) /\ Len(shares') = Len(shares)
      BY <2>1
    <3> DEFINE u == InFlight(up)
               d == InFlight(down)
               n == Len(shares)
               d2 == InFlight(down')
    <3>4. accepted + rejected + u + d <= n
      BY DEF CountInv, AnswersComing
    <3>5. u \in Nat /\ d \in Nat /\ n \in Nat /\ d2 \in Nat
      BY <1>b
    <3>6. d2 + 1 <= d
      BY <2>2
    <3>7. accepted' + rejected' + u + d2 <= n => AnswersComing'
      BY <3>3 DEF AnswersComing
    <3> HIDE DEF u, d, n, d2
    <3>8. accepted' + rejected' + u + d2 <= n
      BY <3>1, <3>2, <3>4, <3>5, <3>6, CountSum
    <3> QED BY <3>7, <3>8
  <2>5. SharesTried' /\ ReportedAccepted'
    BY <1>a, <2>1, <2>3 DEF CountInv, SharesTried, ReportedAccepted
  <2> QED BY <2>4, <2>5 DEF CountInv
<1>6. CASE pollNormalizedFull \/ SubmitBegin \/ setPendingSubmit \/ Stop \/ Joined \/ UNCHANGED vars
  <2>1. UNCHANGED <<up, down, accepted, rejected, reported, shares>>
    BY <1>6 DEF pollNormalizedFull, SubmitBegin, setPendingSubmit, Stop, Joined, vars
  <2>2. \/ UNCHANGED <<mpc, tries>> \/ (tries' = tries + 1 /\ mpc = "loop")
        \/ (UNCHANGED tries /\ mpc' # "sending")
    BY <1>6 DEF pollNormalizedFull, SubmitBegin, setPendingSubmit, Stop, Joined, vars
  <2> QED BY <1>0, <1>b, <2>1, <2>2, CountSame
<1>7. CASE SubmitEnd
  <2> DEFINE u == [t |-> "submit"]
             sh == [mined |-> mining, id |-> lastJob, n |-> lastN]
  <2>1. UNCHANGED <<down, accepted, rejected, reported, tries>> /\ mpc = "sending" /\ mpc' = "sent"
    BY <1>7 DEF SubmitEnd
  <2>2. (up' = Append(up, u) /\ shares' = Append(shares, sh)) \/ UNCHANGED <<up, shares>>
    BY <1>7 DEF SubmitEnd
  <2>3. u \in UpMsg /\ u.t = "submit"
    BY DEF UpMsg
  <2> HIDE DEF u
  <2>4. InFlight(Append(up, u)) = InFlight(up) + 1
    BY <1>a, <1>b, <2>3, InFlightAppend
  <2>5. Len(Append(shares, sh)) = Len(shares) + 1
    BY <1>a
  <2> HIDE DEF sh
  <2>6. \/ InFlight(up') = InFlight(up) + 1 /\ Len(shares') = Len(shares) + 1
        \/ InFlight(up') = InFlight(up) /\ Len(shares') = Len(shares)
    BY <2>2, <2>4, <2>5
  <2>7. AnswersComing'
    BY <1>a, <1>b, <2>1, <2>6 DEF CountInv, AnswersComing
  <2>8. SharesTried' /\ ReportedAccepted'
    BY <1>a, <1>b, <2>1, <2>6 DEF CountInv, SharesTried, ReportedAccepted
  <2> QED BY <2>7, <2>8 DEF CountInv
<1>8. CASE PoolAnswers
  <2> DEFINE c == IF Head(up).t = "submit" THEN 1 ELSE 0
  <2>1. up # <<>> /\ up' = Tail(up) /\ UNCHANGED <<accepted, rejected, reported, shares, mpc, tries>>
    BY <1>8 DEF PoolAnswers
  <2>2. InFlight(up') + c <= InFlight(up)
    BY <1>a, <2>1, InFlightTail
  <2>3. PICK m \in DownMsg : down' = Append(down, m) /\ (m.t = "submit" <=> Head(up).t = "submit")
    <3>1. Head(up) \in UpMsg
      BY <1>a, <2>1, HeadTail
    <3>2. session \in 1..MaxSessions
      BY <1>8, SessionAssumption DEF PoolAnswers, BaseInv, Base, ConnTypes, InSession
    <3>3. ASSUME NEW form \in Answers, Head(up).t = "subscribe",
                 down' = Append(down, [t |-> "subscribe", en |-> session, form |-> form])
          PROVE  \E m \in DownMsg : down' = Append(down, m) /\ (m.t = "submit" <=> Head(up).t = "submit")
      <4>1. [t |-> "subscribe", en |-> session, form |-> form] \in DownMsg
        BY <3>2 DEF DownMsg, SubscribeMsg
      <4> QED BY <3>3, <4>1
    <3>4. CASE Head(up).t \in {"authorize", "configure"} /\ down' = Append(down, Head(up))
      <4>1. Head(up) \in DownMsg
        BY <3>1, <3>4 DEF DownMsg, LoggedMsg, UpMsg
      <4> QED BY <3>4, <4>1
    <3>5. ASSUME NEW r \in {"true", "false", "other"}, Head(up).t = "submit",
                 down' = Append(down, [t |-> "submit", result |-> r])
          PROVE  \E m \in DownMsg : down' = Append(down, m) /\ (m.t = "submit" <=> Head(up).t = "submit")
      <4>1. [t |-> "submit", result |-> r] \in DownMsg
        BY DEF DownMsg, ResultMsg
      <4> QED BY <3>5, <4>1
    <3> QED BY <1>8, <3>3, <3>4, <3>5 DEF PoolAnswers
  <2>4. InFlight(down') = InFlight(down) + c
    BY <1>a, <2>3, InFlightAppend
  <2>5. c \in Nat
    OBVIOUS
  <2> HIDE DEF c
  <2>6. AnswersComing'
    BY <1>a, <1>b, <2>1, <2>2, <2>4, <2>5 DEF CountInv, AnswersComing
  <2>7. SharesTried' /\ ReportedAccepted'
    BY <2>1 DEF CountInv, SharesTried, ReportedAccepted
  <2> QED BY <2>6, <2>7 DEF CountInv
<1>9. ASSUME NEW d \in Diffs, PoolSetsDifficulty(d) PROVE CountInv'
  <2> DEFINE m == [t |-> "set_difficulty", diff |-> d]
  <2>1. m \in DownMsg /\ m.t # "submit"
    BY DEF DownMsg, DifficultyMsg
  <2>2. down' = Append(down, m) /\ UNCHANGED <<up, accepted, rejected, reported, shares, mpc, tries>>
    BY <1>9 DEF PoolSetsDifficulty
  <2> HIDE DEF m
  <2>3. InFlight(down') <= InFlight(down)
    BY <1>a, <1>b, <2>1, <2>2, InFlightAppend
  <2> QED BY <1>0, <1>b, <2>2, <2>3, CountSame
<1>10. ASSUME NEW j \in JobIds, NEW good \in BOOLEAN, PoolNotifies(j, good) PROVE CountInv'
  <2> DEFINE m == [t |-> "notify", id |-> j, n |-> notifies + 1, ses |-> session,
                   diff |-> pdiff, good |-> good]
  <2>1. notifies + 1 \in 1..MaxNotifies /\ session \in 1..MaxSessions
    BY <1>10, SessionAssumption DEF PoolNotifies, BaseInv, Base, ConnTypes, InSession
  <2>2. m \in DownMsg /\ m.t # "submit"
    BY <2>1 DEF DownMsg, NotifyMsg, BaseInv, Base, ConnTypes
  <2>3. down' = Append(down, m) /\ UNCHANGED <<up, accepted, rejected, reported, shares, mpc, tries>>
    BY <1>10 DEF PoolNotifies
  <2> HIDE DEF m
  <2>4. InFlight(down') <= InFlight(down)
    BY <1>a, <1>b, <2>2, <2>3, InFlightAppend
  <2> QED BY <1>0, <1>b, <2>3, <2>4, CountSame
<1>11. CASE PoolDisconnects
  <2>1. PICK k \in 0..Len(down) : down' = SubSeq(down, 1, k)
    BY <1>11 DEF PoolDisconnects
  <2>2. InFlight(down') <= InFlight(down)
    BY <1>a, <2>1, InFlightPrefix
  <2> QED BY <1>0, <1>11, <1>b, <2>2, CountSame, InFlightEmpty DEF PoolDisconnects
<1> QED
  BY <1>1, <1>2, <1>3, <1>4, <1>5, <1>6, <1>7, <1>8, <1>9, <1>10, <1>11
  DEF Next, Runner, MainThread, Pool

(* CountInv holds always. *)
LEMMA CountAlways == Spec => []CountInv
<1>1. Init => CountInv
  BY InFlightEmpty DEF Init, CountInv, AnswersComing, SharesTried, ReportedAccepted
<1> QED BY <1>1, CountStep, BaseAlways, PTL DEF Spec

(* Answers are counted at most once per share put on the wire. *)
THEOREM SessionAnswersWithinShares == Spec => []AnswersWithinShares
<1>1. BaseInv /\ CountInv => AnswersWithinShares
  <2> SUFFICES ASSUME BaseInv, CountInv PROVE AnswersWithinShares
    OBVIOUS
  <2>1. /\ InFlight(up) \in Nat /\ InFlight(down) \in Nat /\ Len(shares) \in Nat
        /\ accepted \in Nat /\ rejected \in Nat
    BY InFlightType, SeqFacts DEF BaseInv, Base, QueueTypes, RunnerTypes
  <2> QED BY <2>1 DEF CountInv, AnswersComing, AnswersWithinShares
<1> QED BY <1>1, BaseAlways, CountAlways, PTL

(* Threads, adapter and pool keep their types, the counters their bounds. *)
THEOREM SessionTypes == Spec => []TypeOK
<1>1. BaseInv /\ WireInv /\ JobInv /\ CountInv => TypeOK
  <2> SUFFICES ASSUME BaseInv, WireInv, JobInv, CountInv PROVE TypeOK
    OBVIOUS
  <2>1. /\ InFlight(up) \in Nat /\ InFlight(down) \in Nat /\ Len(shares) \in Nat
        /\ accepted \in Nat /\ rejected \in Nat /\ reported \in Nat /\ tries \in 0..MaxShares
    BY InFlightType, SeqFacts DEF BaseInv, Base, QueueTypes, RunnerTypes, MainTypes
  <2>2. Len(shares) <= tries
    BY <2>1 DEF CountInv, SharesTried
  <2>3. accepted \in 0..MaxShares /\ rejected \in 0..MaxShares /\ reported \in 0..MaxShares
    BY <2>1, <2>2, SessionAssumption DEF CountInv, AnswersComing, ReportedAccepted
  <2>4. drained \in Nat /\ Len(ingested) \in Nat /\ lastN \in 0..MaxNotifies
    BY SeqFacts DEF BaseInv, Base, QueueTypes, RunnerTypes, MainTypes
  <2>5. drained \in 0..MaxNotifies
    BY <2>4, SessionAssumption DEF JobInv, DrainedPast, IngestedPast
  <2> QED
    BY <2>3, <2>5 DEF TypeOK, BaseInv, Base, ConnTypes, RunnerTypes, MainTypes, QueueTypes
<1> QED BY <1>1, BaseAlways, WireAlways, JobAlways, CountAlways, PTL
=============================================================================
