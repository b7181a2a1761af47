------------------------------ MODULE GbtSource ------------------------------
(***************************************************************************)
(* The solo source: the GbtRunner thread (src/src/adapters/gbt_runner.cc)  *)
(* that polls getblocktemplate, the GbtAdapter queue it shares with the    *)
(* main thread (src/src/adapters/gbt_adapter.cc), and the template cache   *)
(* of its GbtSubmitter (src/src/submit/gbt_submitter.cc).                  *)
(*                                                                         *)
(* The node is external.  A template is the tip it builds on, a revision   *)
(* (transactions and time change without the tip) and its shape:           *)
(*   "full"        everything runLoop and updateTemplate look for          *)
(*   "nocoinbase"  no coinbasetxn and no witness commitment                *)
(*   "commitment"  no coinbasetxn but a default_witness_commitment, as a   *)
(*                 node that leaves the coinbase to the miner              *)
(*   "badbody"     a transaction that does not parse                       *)
(*   "badhead"     version, bits or curtime missing or of another type     *)
(*   "noprev"      no previousblockhash                                    *)
(* normalizeJob always succeeds, so ingestTemplate always queues.          *)
(***************************************************************************)
EXTENDS Naturals, Sequences

CONSTANTS Tips,        \* block hashes
          Shapes,      \* shapes the node may answer with
          Stalls,      \* the node may stop answering without closing
          AllowSynth,  \* allow_synth_coinbase
          NoTip,       \* the empty last_prevhash
          MaxChanges   \* bound: new tips and new revisions of a tip

ASSUME GbtAssumption ==
  /\ Shapes \subseteq {"full", "nocoinbase", "commitment", "badbody", "badhead", "noprev"}
  /\ NoTip \notin Tips /\ Stalls \in BOOLEAN /\ AllowSynth \in BOOLEAN
  /\ MaxChanges \in Nat

VARIABLES tip, rev, changes,  \* the node's template
          pc, stop,           \* runner thread
          last,               \* last_prevhash
          answer,             \* the template being handled
          aq,                 \* GbtAdapter::q_
          coinbase, txs,      \* GbtSubmitter: templates the cached parts come from
          mpc, mining,        \* main thread: its place, the job in the slot
          ingested, polled,   \* history
          spoilt              \* history: jobs (by number) a malformed template followed

nodeVars == <<tip, rev, changes>>
cacheVars == <<coinbase, txs>>
mainVars == <<mpc, mining, polled>>
vars == <<nodeVars, pc, stop, last, answer, aq, cacheVars, mainVars, ingested, spoilt>>

Template(t, r, s) == [tip |-> t, rev |-> r, shape |-> s]

NoTemplate == Template(NoTip, 0, "noprev")

Templates == [tip : Tips, rev : 0..MaxChanges, shape : Shapes]

Init ==
  /\ tip \in Tips /\ rev = 0 /\ changes = 0
  /\ pc = "top" /\ stop = FALSE /\ last = NoTip /\ answer = NoTemplate
  /\ aq = <<>> /\ coinbase = NoTemplate /\ txs = NoTemplate
  /\ mpc = "loop" /\ mining = NoTemplate
  /\ ingested = <<>> /\ polled = 0 /\ spoilt = {}

-----------------------------------------------------------------------------
(* runLoop. *)

FetchFails ==
  /\ pc = "top" /\ ~stop
  /\ pc' = "sleep"
  /\ UNCHANGED <<nodeVars, stop, last, answer, aq, cacheVars, mainVars, ingested, spoilt>>

fetchTemplate(s) ==
  /\ pc = "top" /\ ~stop
  /\ answer' = Template(tip, rev, s)
  /\ pc' = "handle"
  /\ UNCHANGED <<nodeVars, stop, last, aq, cacheVars, mainVars, ingested, spoilt>>

(* httpPostJson reads until the peer closes and tries again when a read    *)
(* times out, however often.                                               *)
FetchHangs ==
  /\ Stalls
  /\ pc = "top" /\ ~stop
  /\ pc' = "hung"
  /\ UNCHANGED <<nodeVars, stop, last, answer, aq, cacheVars, mainVars, ingested, spoilt>>

HangEnds ==
  /\ pc = "hung"
  /\ pc' = "sleep"
  /\ UNCHANGED <<nodeVars, stop, last, answer, aq, cacheVars, mainVars, ingested, spoilt>>

(* get<std::string>() throws before last_prevhash is assigned. *)
NoPrevHash ==
  /\ pc = "handle"
  /\ answer.shape = "noprev"
  /\ pc' = "sleep"
  /\ UNCHANGED <<nodeVars, stop, last, answer, aq, cacheVars, mainVars, ingested, spoilt>>

SameTip ==
  /\ pc = "handle"
  /\ answer.shape # "noprev" /\ answer.tip = last
  /\ pc' = "sleep"
  /\ UNCHANGED <<nodeVars, stop, last, answer, aq, cacheVars, mainVars, ingested, spoilt>>

(* A field throws after last_prevhash was assigned. *)
BadHead ==
  /\ pc = "handle"
  /\ answer.shape = "badhead" /\ answer.tip # last
  /\ last' = answer.tip /\ spoilt' = spoilt \cup {Len(ingested)}
  /\ pc' = "sleep"
  /\ UNCHANGED <<nodeVars, stop, answer, aq, cacheVars, mainVars, ingested>>

IngestFirstTipOnly ==
  /\ pc = "handle"
  /\ answer.shape \notin {"noprev", "badhead"} /\ answer.tip # last
  /\ last' = answer.tip
  /\ IF last = NoTip
     THEN aq' = Append(aq, answer) /\ ingested' = Append(ingested, answer) /\ pc' = "update"
     ELSE pc' = "sleep" /\ UNCHANGED <<aq, ingested>>
  /\ UNCHANGED <<nodeVars, stop, answer, cacheVars, mainVars, spoilt>>

ingestTemplate ==
  /\ pc = "handle"
  /\ answer.shape \notin {"noprev", "badhead"} /\ answer.tip # last
  /\ last' = answer.tip
  /\ aq' = Append(aq, answer)
  /\ ingested' = Append(ingested, answer)
  /\ pc' = "update"
  /\ UNCHANGED <<nodeVars, stop, answer, cacheVars, mainVars, spoilt>>

(* The synthesised coinbase is of this template; it is not built when the  *)
(* commitment is not 64 digits long.                                       *)
buildCoinbaseTx(t) == {t, NoTemplate}

CoinbasesFor(t) ==
  CASE t.shape = "nocoinbase" -> {NoTemplate}
    [] t.shape = "commitment" -> IF AllowSynth THEN buildCoinbaseTx(t) ELSE {NoTemplate}
    [] OTHER                  -> {t}

UpdateKeepsCoinbase ==
  /\ pc = "update"
  /\ coinbase' \in IF answer.shape = "nocoinbase" THEN {coinbase} ELSE CoinbasesFor(answer)
  /\ txs' = answer
  /\ pc' = "sleep"
  /\ UNCHANGED <<nodeVars, stop, last, answer, aq, mainVars, ingested, spoilt>>

(* The cache is of the runner's own submitter_, not of the gbt_submitter   *)
(* that main() routes blocks to: nothing calls updateTemplate on that one. *)
(* Both caches are cleared first; a transaction that throws leaves the     *)
(* ones before it, which are of this template too.                         *)
updateTemplate ==
  /\ pc = "update"
  /\ coinbase' \in CoinbasesFor(answer)
  /\ txs' = answer
  /\ pc' = "sleep"
  /\ UNCHANGED <<nodeVars, stop, last, answer, aq, mainVars, ingested, spoilt>>

Sleep ==
  /\ pc = "sleep"
  /\ pc' = "top"
  /\ UNCHANGED <<nodeVars, stop, last, answer, aq, cacheVars, mainVars, ingested, spoilt>>

ExitThread ==
  /\ pc = "top" /\ stop
  /\ pc' = "exited"
  /\ UNCHANGED <<nodeVars, stop, last, answer, aq, cacheVars, mainVars, ingested, spoilt>>

Handle == NoPrevHash \/ SameTip \/ BadHead \/ ingestTemplate \/ updateTemplate

-----------------------------------------------------------------------------
(* The main thread and the node. *)

PollOnce ==
  /\ mpc = "loop"
  /\ aq # <<>> /\ mining = NoTemplate
  /\ mining' = Head(aq)
  /\ aq' = Tail(aq)
  /\ polled' = polled + 1
  /\ UNCHANGED <<nodeVars, pc, stop, last, answer, cacheVars, mpc, ingested, spoilt>>

pollNormalizedFull ==
  /\ mpc = "loop"
  /\ aq # <<>>
  /\ mining' = Head(aq)
  /\ aq' = Tail(aq)
  /\ polled' = polled + 1
  /\ UNCHANGED <<nodeVars, pc, stop, last, answer, cacheVars, mpc, ingested, spoilt>>

Stop ==
  /\ mpc = "loop"
  /\ stop' = TRUE
  /\ mpc' = "join"
  /\ UNCHANGED <<nodeVars, pc, last, answer, aq, cacheVars, mining, polled, ingested, spoilt>>

Joined == mpc = "join" /\ pc = "exited" /\ UNCHANGED vars

NewTip(t) ==
  /\ changes < MaxChanges /\ t # tip
  /\ tip' = t /\ rev' = rev + 1 /\ changes' = changes + 1
  /\ UNCHANGED <<pc, stop, last, answer, aq, cacheVars, mainVars, ingested, spoilt>>

NewRevision ==
  /\ changes < MaxChanges
  /\ rev' = rev + 1 /\ changes' = changes + 1
  /\ UNCHANGED <<tip, pc, stop, last, answer, aq, cacheVars, mainVars, ingested, spoilt>>

-----------------------------------------------------------------------------
Next ==
  \/ FetchFails \/ FetchHangs \/ HangEnds \/ Handle \/ Sleep \/ ExitThread
  \/ \E s \in Shapes : fetchTemplate(s)
  \/ pollNormalizedFull \/ Stop \/ Joined
  \/ \E t \in Tips : NewTip(t)
  \/ NewRevision

(* The runner thread runs, the main loop keeps polling, and a node that is *)
(* asked again and again answers in full again and again.                  *)
Fairness ==
  /\ WF_vars(Handle) /\ WF_vars(Sleep) /\ WF_vars(ExitThread)
  /\ SF_vars(fetchTemplate("full"))
  /\ WF_vars(pollNormalizedFull)

Spec == Init /\ [][Next]_vars /\ Fairness

-----------------------------------------------------------------------------
(* Types of the node's, the threads' and the caches' state. *)
TypeOK ==
  /\ tip \in Tips /\ rev \in 0..MaxChanges /\ changes \in 0..MaxChanges
  /\ pc \in {"top", "hung", "handle", "update", "sleep", "exited"} /\ stop \in BOOLEAN
  /\ last \in Tips \cup {NoTip}
  /\ {answer, coinbase, txs, mining} \subseteq Templates \cup {NoTemplate}
  /\ aq \in Seq(Templates) /\ ingested \in Seq(Templates)
  /\ mpc \in {"loop", "join"} /\ polled \in Nat /\ spoilt \subseteq Nat

(* Polling the same tip again makes no new job, across failed and           *)
(* incomplete answers in between: two jobs in a row are for different tips, *)
(* unless a malformed template of another tip was remembered between them.  *)
JobsAreNewTips ==
  \A i \in (1..(Len(ingested) - 1)) \ spoilt : ingested[i].tip # ingested[i + 1].tip

(* last_prevhash was assigned from a malformed template. *)
bad == Len(ingested) \in spoilt

(* Jobs reach the main thread in the order they were ingested, none lost    *)
(* and none twice.                                                          *)
JobsHandedOverInOrder == aq = SubSeq(ingested, polled + 1, Len(ingested))

(* Outside the window between ingestTemplate and updateTemplate, what the   *)
(* submitter would put into a block belongs to the newest job, or it has no *)
(* coinbase: never an older template's.                                     *)
CacheMatchesJob ==
  pc # "update" /\ ingested # <<>> =>
    /\ txs = ingested[Len(ingested)]
    /\ coinbase \in {txs, NoTemplate}

(* A poll that got a well-formed template leaves the runner with a job for  *)
(* that tip, whatever it was answered before.                               *)
PolledTipHasJob ==
  pc = "sleep" /\ answer.shape \in {"full", "nocoinbase", "commitment", "badbody"} =>
    ingested # <<>> /\ ingested[Len(ingested)].tip = answer.tip

(* The same, unless a malformed template for the tip came first: no other   *)
(* failed or incomplete answer, and no return to an earlier tip, makes a    *)
(* tip look seen that has no job.                                           *)
PolledTipHasJobUnlessMalformed == ~bad => PolledTipHasJob

(* The node's tip is mined, unless it changes again, the miner stops, the   *)
(* tip's first template was malformed or a request is never answered.       *)
TipEventuallyMined ==
  \A t \in Tips :
    tip = t ~> (mining.tip = t \/ tip # t \/ stop \/ bad \/ pc = "hung")

(* stop() returns: the thread leaves its loop, unless it is inside a        *)
(* request that the node never answers.                                     *)
StopJoins == stop ~> pc \in {"exited", "hung"}

(* The runner gets back to polling after a request that went wrong. *)
PollsAgain == pc = "hung" ~> pc = "top"
=============================================================================
