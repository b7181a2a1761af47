-------------------------- MODULE GbtSource_proofs --------------------------
(***************************************************************************)
(* Proofs about GbtSource for every set of tips, every set of shapes and   *)
(* any number of changes of the node's template.                           *)
(*                                                                         *)
(* None of the three safety properties is inductive by itself.  What links *)
(* them is LastIsJob: unless a malformed template was remembered, the tip  *)
(* in last_prevhash is that of the newest job.  UpdateFollows says that    *)
(* between ingestTemplate and updateTemplate the template in hand is the   *)
(* newest job, and Answered extends PolledTipHasJob to every place outside *)
(* the handler, where the template of an earlier poll is still in hand     *)
(* after a failed one.                                                     *)
(***************************************************************************)
EXTENDS GbtSource, TLAPS

Usable == {"full", "nocoinbase", "commitment", "badbody"}

(* The node's revision counts its changes. *)
RevisionCounts == rev = changes

(* Only jobs that exist have been spoilt. *)
SpoiltPast == spoilt \subseteq 0..Len(ingested)

(* last_prevhash is the tip of the newest job, unless a malformed template *)
(* was remembered after it.                                                *)
LastIsJob ==
  ~bad => last = IF ingested = <<>> THEN NoTip ELSE ingested[Len(ingested)].tip

(* The template that updateTemplate will cache is the newest job. *)
UpdateFollows == pc = "update" => ingested # <<>> /\ answer = ingested[Len(ingested)]

(* Outside the handler a usable template in hand has its job. *)
Answered ==
  ~bad /\ pc # "handle" /\ answer.shape \in Usable =>
    ingested # <<>> /\ ingested[Len(ingested)].tip = answer.tip

(* What has been polled is no longer in the queue, and nothing else. *)
PolledPast == polled <= Len(ingested)

GbtInv ==
  /\ TypeOK /\ RevisionCounts /\ SpoiltPast /\ LastIsJob /\ UpdateFollows /\ Answered
  /\ CacheMatchesJob /\ PolledPast /\ JobsHandedOverInOrder /\ JobsAreNewTips

-----------------------------------------------------------------------------
(* Appending a job leaves the jobs before it in their places. *)
LEMMA AppendFacts ==
  ASSUME NEW S, NEW s \in Seq(S), NEW e \in S
  PROVE  /\ Append(s, e) \in Seq(S) /\ Append(s, e) # <<>>
         /\ Len(Append(s, e)) = Len(s) + 1
         /\ \A i \in 1..Len(s) : Append(s, e)[i] = s[i]
         /\ Append(s, e)[Len(s) + 1] = e
OBVIOUS

(* What is left to hand over grows with the jobs. *)
LEMMA QueueGrows ==
  ASSUME NEW S, NEW s \in Seq(S), NEW e \in S, NEW n \in Nat, n <= Len(s)
  PROVE  Append(SubSeq(s, n + 1, Len(s)), e)
           = SubSeq(Append(s, e), n + 1, Len(Append(s, e)))
OBVIOUS

(* Taking the oldest leaves what follows it. *)
LEMMA QueueShrinks ==
  ASSUME NEW S, NEW s \in Seq(S), NEW n \in Nat, n <= Len(s),
         SubSeq(s, n + 1, Len(s)) # <<>>
  PROVE  /\ n + 1 <= Len(s)
         /\ Head(SubSeq(s, n + 1, Len(s))) = s[n + 1]
         /\ Tail(SubSeq(s, n + 1, Len(s))) = SubSeq(s, n + 2, Len(s))
OBVIOUS

(* The initial state. *)
LEMMA InvInit == Init => GbtInv
<1> SUFFICES ASSUME Init PROVE GbtInv
  OBVIOUS
<1>1. TypeOK
  <2>1. 0 \in 0..MaxChanges
    BY GbtAssumption
  <2>2. {answer, coinbase, txs, mining} \subseteq Templates \cup {NoTemplate}
    BY DEF Init
  <2>3. aq \in Seq(Templates) /\ ingested \in Seq(Templates)
    BY DEF Init
  <2> QED BY <2>1, <2>2, <2>3 DEF Init, TypeOK
<1>2. RevisionCounts /\ SpoiltPast /\ PolledPast /\ JobsAreNewTips /\ CacheMatchesJob
  BY DEF Init, RevisionCounts, SpoiltPast, PolledPast, JobsAreNewTips, CacheMatchesJob
<1>3. JobsHandedOverInOrder
  BY DEF Init, JobsHandedOverInOrder
<1>4. LastIsJob /\ UpdateFollows
  BY DEF Init, LastIsJob, UpdateFollows
<1>5. Answered
  BY DEF Init, Answered, Usable, NoTemplate, Template
<1> QED BY <1>1, <1>2, <1>3, <1>4, <1>5 DEF GbtInv

(* A step that moves the runner thread between places outside the handler,  *)
(* or moves the main thread or the node, disturbs nothing that the          *)
(* invariant relates.                                                       *)
LEMMA InvControl ==
  ASSUME GbtInv, TypeOK', RevisionCounts',
         UNCHANGED <<last, answer, aq, cacheVars, ingested, polled, spoilt>>,
         pc' = pc \/ (pc # "handle" /\ pc # "update" /\ pc' # "update")
  PROVE  GbtInv'
<1>1. SpoiltPast' /\ PolledPast' /\ JobsHandedOverInOrder' /\ JobsAreNewTips'
  BY DEF GbtInv, SpoiltPast, PolledPast, JobsHandedOverInOrder, JobsAreNewTips
<1>2. LastIsJob' /\ UpdateFollows'
  BY DEF GbtInv, LastIsJob, UpdateFollows, bad
<1>3. Answered'
  BY DEF GbtInv, Answered, bad
<1>4. CacheMatchesJob'
  BY DEF GbtInv, CacheMatchesJob, cacheVars
<1> QED BY <1>1, <1>2, <1>3, <1>4 DEF GbtInv

(* Types, and the count of the node's changes, are kept by every step. *)
LEMMA TypeStep ==
  ASSUME GbtInv, [Next]_vars
  PROVE  TypeOK' /\ RevisionCounts'
<1> USE DEF GbtInv, TypeOK, RevisionCounts, nodeVars, cacheVars, mainVars
<1>1. CASE FetchFails \/ FetchHangs \/ HangEnds \/ Sleep \/ ExitThread
  BY <1>1 DEF FetchFails, FetchHangs, HangEnds, Sleep, ExitThread
<1>2. CASE NoPrevHash \/ SameTip
  BY <1>2 DEF NoPrevHash, SameTip
<1>3. CASE BadHead
  <2>1. answer \in Templates /\ answer.tip \in Tips
    BY <1>3 DEF BadHead, Templates, NoTemplate, Template
  <2>2. Len(ingested) \in Nat
    OBVIOUS
  <2> QED BY <1>3, <2>1, <2>2 DEF BadHead
<1>4. CASE ingestTemplate
  <2>1. answer \in Templates /\ answer.tip \in Tips
    BY <1>4 DEF ingestTemplate, Templates, NoTemplate, Template
  <2>2. aq' \in Seq(Templates) /\ ingested' \in Seq(Templates)
    BY <1>4, <2>1 DEF ingestTemplate
  <2> QED BY <1>4, <2>1, <2>2 DEF ingestTemplate
<1>5. CASE updateTemplate
  <2>1. CoinbasesFor(answer) \subseteq {answer, NoTemplate}
    BY DEF CoinbasesFor, buildCoinbaseTx
  <2> QED BY <1>5, <2>1 DEF updateTemplate
<1>6. ASSUME NEW s \in Shapes, fetchTemplate(s) PROVE TypeOK' /\ RevisionCounts'
  <2>1. answer' \in Templates
    BY <1>6 DEF fetchTemplate, Template, Templates
  <2> QED BY <1>6, <2>1 DEF fetchTemplate
<1>7. CASE pollNormalizedFull
  <2>1. Head(aq) \in Templates /\ Tail(aq) \in Seq(Templates) /\ polled + 1 \in Nat
    BY <1>7 DEF pollNormalizedFull
  <2> QED BY <1>7, <2>1 DEF pollNormalizedFull
<1>8. CASE Stop \/ Joined
  BY <1>8 DEF Stop, Joined, vars
<1>9. ASSUME NEW t \in Tips, NewTip(t) PROVE TypeOK' /\ RevisionCounts'
  BY <1>9, GbtAssumption DEF NewTip
<1>10. CASE NewRevision
  BY <1>10, GbtAssumption DEF NewRevision
<1>11. CASE UNCHANGED vars
  BY <1>11 DEF vars
<1> QED
  BY <1>1, <1>2, <1>3, <1>4, <1>5, <1>6, <1>7, <1>8, <1>9, <1>10, <1>11 DEF Next, Handle

(* Every step keeps the invariant. *)
LEMMA InvStep == GbtInv /\ [Next]_vars => GbtInv'
<1> SUFFICES ASSUME GbtInv, [Next]_vars PROVE GbtInv'
  OBVIOUS
<1>0. TypeOK /\ TypeOK' /\ RevisionCounts'
  BY TypeStep DEF GbtInv
<1> DEFINE n == Len(ingested)
<1>a. n \in Nat /\ DOMAIN ingested = 1..n /\ (ingested = <<>> <=> n = 0)
  BY <1>0 DEF TypeOK
<1>1. CASE FetchFails \/ FetchHangs \/ HangEnds \/ Sleep \/ ExitThread
  BY <1>0, <1>1, InvControl
  DEF FetchFails, FetchHangs, HangEnds, Sleep, ExitThread, mainVars, cacheVars
<1>2. ASSUME NEW s \in Shapes, fetchTemplate(s) PROVE GbtInv'
  <2> USE <1>2 DEF fetchTemplate, mainVars, cacheVars
  <2>1. SpoiltPast' /\ PolledPast' /\ JobsHandedOverInOrder' /\ JobsAreNewTips'
    BY DEF GbtInv, SpoiltPast, PolledPast, JobsHandedOverInOrder, JobsAreNewTips
  <2>2. LastIsJob' /\ UpdateFollows' /\ Answered'
    BY DEF GbtInv, LastIsJob, UpdateFollows, Answered, bad
  <2>3. CacheMatchesJob'
    BY DEF GbtInv, CacheMatchesJob
  <2> QED BY <1>0, <2>1, <2>2, <2>3 DEF GbtInv
<1>3. CASE NoPrevHash
  <2> USE <1>3 DEF NoPrevHash, mainVars, cacheVars
  <2>1. SpoiltPast' /\ PolledPast' /\ JobsHandedOverInOrder' /\ JobsAreNewTips'
    BY DEF GbtInv, SpoiltPast, PolledPast, JobsHandedOverInOrder, JobsAreNewTips
  <2>2. LastIsJob' /\ UpdateFollows'
    BY DEF GbtInv, LastIsJob, UpdateFollows, bad
  <2>3. Answered'
    BY DEF Answered, Usable
  <2>4. CacheMatchesJob'
    BY DEF GbtInv, CacheMatchesJob
  <2> QED BY <1>0, <2>1, <2>2, <2>3, <2>4 DEF GbtInv
<1>4. CASE SameTip
  <2> USE <1>4 DEF SameTip, mainVars, cacheVars
  <2>1. SpoiltPast' /\ PolledPast' /\ JobsHandedOverInOrder' /\ JobsAreNewTips'
    BY DEF GbtInv, SpoiltPast, PolledPast, JobsHandedOverInOrder, JobsAreNewTips
  <2>2. LastIsJob' /\ UpdateFollows'
    BY DEF GbtInv, LastIsJob, UpdateFollows, bad
  <2>3. Answered'
    <3>1. answer.tip \in Tips /\ last # NoTip
      BY <1>0, GbtAssumption DEF TypeOK, Templates, NoTemplate, Template
    <3> QED BY <3>1 DEF GbtInv, LastIsJob, Answered, bad
  <2>4. CacheMatchesJob'
    BY DEF GbtInv, CacheMatchesJob
  <2> QED BY <1>0, <2>1, <2>2, <2>3, <2>4 DEF GbtInv
<1>5. CASE BadHead
  <2> USE <1>5 DEF BadHead, mainVars, cacheVars
  <2>1. PolledPast' /\ JobsHandedOverInOrder' /\ JobsAreNewTips'
    BY DEF GbtInv, PolledPast, JobsHandedOverInOrder, JobsAreNewTips
  <2>2. SpoiltPast'
    <3>1. Len(ingested) \in 0..Len(ingested) /\ spoilt \subseteq 0..Len(ingested)
      BY <1>a DEF GbtInv, SpoiltPast
    <3> QED BY <3>1 DEF SpoiltPast
  <2>3. bad'
    BY DEF bad
  <2>4. LastIsJob' /\ UpdateFollows' /\ Answered'
    BY <2>3 DEF LastIsJob, UpdateFollows, Answered
  <2>5. CacheMatchesJob'
    BY DEF GbtInv, CacheMatchesJob
  <2> QED BY <1>0, <2>1, <2>2, <2>4, <2>5 DEF GbtInv
<1>6. CASE ingestTemplate
  <2> USE <1>6 DEF ingestTemplate, mainVars, cacheVars
  <2>1. answer \in Templates
    BY <1>0 DEF TypeOK, NoTemplate, Template
  <2>2. /\ ingested' \in Seq(Templates) /\ ingested' # <<>> /\ Len(ingested') = n + 1
        /\ \A i \in 1..n : ingested'[i] = ingested[i]
        /\ ingested'[n + 1] = answer
    BY <1>0, <2>1, AppendFacts DEF TypeOK
  <2> HIDE DEF n
  <2>3. SpoiltPast' /\ ~bad'
    BY <1>a, <2>2 DEF GbtInv, SpoiltPast, bad, n
  <2>4. LastIsJob' /\ UpdateFollows' /\ Answered' /\ CacheMatchesJob'
    BY <1>a, <2>2 DEF LastIsJob, UpdateFollows, Answered, CacheMatchesJob
  <2>5. PolledPast'
    BY <1>0, <1>a, <2>2 DEF GbtInv, PolledPast, TypeOK, n
  <2>6. JobsHandedOverInOrder'
    <3>1. /\ ingested \in Seq(Templates) /\ polled \in Nat /\ polled <= Len(ingested)
          /\ aq = SubSeq(ingested, polled + 1, Len(ingested))
      BY <1>0 DEF GbtInv, PolledPast, JobsHandedOverInOrder, TypeOK
    <3>2. Append(SubSeq(ingested, polled + 1, Len(ingested)), answer)
            = SubSeq(Append(ingested, answer), polled + 1, Len(Append(ingested, answer)))
      BY <2>1, <3>1, QueueGrows
    <3>3. ingested' = Append(ingested, answer) /\ aq' = Append(aq, answer) /\ polled' = polled
      OBVIOUS
    <3> QED BY <3>1, <3>2, <3>3 DEF JobsHandedOverInOrder
  <2>7. JobsAreNewTips'
    <3> SUFFICES ASSUME NEW i \in 1..n, i \notin spoilt
                 PROVE  ingested'[i].tip # ingested'[i + 1].tip
      BY <1>a, <2>2 DEF JobsAreNewTips
    <3>1. CASE i < n
      BY <1>a, <2>2, <3>1 DEF GbtInv, JobsAreNewTips, n
    <3>2. CASE i = n
      <4>1. ~bad /\ ingested # <<>>
        BY <1>a, <3>2 DEF bad, n
      <4>2. last = ingested[i].tip /\ ingested'[i] = ingested[i] /\ ingested'[i + 1] = answer
        BY <1>a, <2>2, <3>2, <4>1 DEF GbtInv, LastIsJob, n
      <4> QED BY <4>2
    <3> QED BY <1>a, <3>1, <3>2
  <2> QED BY <1>0, <2>3, <2>4, <2>5, <2>6, <2>7 DEF GbtInv
<1>7. CASE updateTemplate
  <2> USE <1>7 DEF updateTemplate, mainVars
  <2>1. SpoiltPast' /\ PolledPast' /\ JobsHandedOverInOrder' /\ JobsAreNewTips'
    BY DEF GbtInv, SpoiltPast, PolledPast, JobsHandedOverInOrder, JobsAreNewTips
  <2>2. LastIsJob' /\ UpdateFollows' /\ Answered'
    BY DEF GbtInv, LastIsJob, UpdateFollows, Answered, bad
  <2>3. CoinbasesFor(answer) \subseteq {answer, NoTemplate}
    BY DEF CoinbasesFor, buildCoinbaseTx
  <2>4. CacheMatchesJob'
    BY <2>3 DEF GbtInv, UpdateFollows, CacheMatchesJob
  <2> QED BY <1>0, <2>1, <2>2, <2>4 DEF GbtInv
<1>8. CASE pollNormalizedFull
  <2> USE <1>8 DEF pollNormalizedFull, mainVars, cacheVars
  <2>1. SpoiltPast' /\ JobsAreNewTips' /\ LastIsJob' /\ UpdateFollows' /\ Answered'
    BY DEF GbtInv, SpoiltPast, JobsAreNewTips, LastIsJob, UpdateFollows, Answered, bad
  <2>2. CacheMatchesJob'
    BY DEF GbtInv, CacheMatchesJob
  <2>3. /\ ingested \in Seq(Templates) /\ polled \in Nat /\ polled <= n
        /\ aq = SubSeq(ingested, polled + 1, n)
    BY <1>0 DEF GbtInv, TypeOK, PolledPast, JobsHandedOverInOrder
  <2>4. polled + 1 <= n /\ Tail(aq) = SubSeq(ingested, polled + 2, n)
    BY <2>3, QueueShrinks
  <2>5. (polled + 1) + 1 = polled + 2
    BY <2>3
  <2>6. PolledPast' /\ JobsHandedOverInOrder'
    BY <2>4, <2>5 DEF PolledPast, JobsHandedOverInOrder
  <2> QED BY <1>0, <2>1, <2>2, <2>6 DEF GbtInv
<1>9. CASE Stop \/ Joined \/ NewRevision \/ (\E t \in Tips : NewTip(t)) \/ UNCHANGED vars
  BY <1>0, <1>9, InvControl DEF Stop, Joined, NewRevision, NewTip, vars, mainVars, cacheVars
<1> QED BY <1>1, <1>2, <1>3, <1>4, <1>5, <1>6, <1>7, <1>8, <1>9 DEF Next, Handle

-----------------------------------------------------------------------------
(* The solo source keeps the invariant, whatever the node answers. *)
THEOREM GbtInvariant == Spec => []GbtInv
BY InvInit, InvStep, PTL DEF Spec

(* Node, threads and caches keep their types. *)
THEOREM GbtTypes == Spec => []TypeOK
<1>1. GbtInv => TypeOK
  BY DEF GbtInv
<1> QED BY <1>1, GbtInvariant, PTL

(* The parts that the submitter would build a block from are those of the   *)
(* newest job, outside the window between ingestTemplate and updateTemplate. *)
THEOREM GbtCacheMatchesJob == Spec => []CacheMatchesJob
<1>1. GbtInv => CacheMatchesJob
  BY DEF GbtInv
<1> QED BY <1>1, GbtInvariant, PTL

(* A poll that was answered with a usable template leaves a job for its     *)
(* tip, unless last_prevhash came from a malformed one.                     *)
THEOREM GbtPolledTipHasJob == Spec => []PolledTipHasJobUnlessMalformed
<1>1. GbtInv => PolledTipHasJobUnlessMalformed
  BY DEF GbtInv, Answered, Usable, PolledTipHasJobUnlessMalformed, PolledTipHasJob
<1> QED BY <1>1, GbtInvariant, PTL

(* Jobs reach the main thread in order, none lost and none twice, and two   *)
(* jobs in a row are for different tips.                                    *)
THEOREM GbtJobsInOrder == Spec => [](JobsHandedOverInOrder /\ JobsAreNewTips)
<1>1. GbtInv => JobsHandedOverInOrder /\ JobsAreNewTips
  BY DEF GbtInv
<1> QED BY <1>1, GbtInvariant, PTL
=============================================================================
