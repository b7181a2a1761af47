------------------------- MODULE Lifecycle_proofs -------------------------
(***************************************************************************)
(* Proofs about Lifecycle, for every set of configuration files, number of *)
(* pools, edits and restarts: no runner or server thread outlives what it  *)
(* uses, and the loop runs what the file says.                             *)
(*                                                                         *)
(* LifeInv carries the first.  The locals that threads use exist from the  *)
(* front of one list: main builds them in its order and destroys them from *)
(* its end, so how many there are says which, and whoever lives needs at   *)
(* least as many as its owner's place.  RunInv, over LifeInv, carries the  *)
(* second: what each of the five reads took from the file, and which       *)
(* sources have been started so far.                                       *)
(***************************************************************************)
EXTENDS Lifecycle, TLAPS

(* Where a thread can be. *)
States == {"none", "bind", "top", "blocked", "ended"}

(* Nothing of the process exists yet, or any more. *)
Bare == {"begin", "arguments", "select", "all"} \cup Over

(* Where main can be. *)
Phases == Starting \cup Looping \cup {"stopping", "joining", "unwind"} \cup Over

(* main's locals that threads use, all of them. *)
Full == <<"strat_adapters", "strat_runners", "gbt_adapter", "gbt_runner", "input", "metrics", "metrics_http">>

(* Their names. *)
Objects == {"strat_adapters", "strat_runners", "gbt_adapter", "gbt_runner",
            "input", "metrics", "metrics_http"}

(* Types of the flags, the threads and where main is. *)
ThreadTypes ==
  /\ thread \in [Threads -> States] /\ stop \in [Threads -> BOOLEAN]
  /\ pc \in Phases /\ g_stop \in BOOLEAN

(* Types of what was read and started. *)
StartTypes ==
  /\ file \in Files
  /\ pools \in Seq(PoolKinds) /\ Len(pools) <= MaxPools /\ idx \in Nat \ {0}
  /\ runners \in Seq(1..MaxPools)

(* Type of the frame. *)
FrameTypes == frame \in Seq(Objects)

(* The frame is a part of Full, from its start. *)
Shape ==
  /\ Len(frame) <= 7
  /\ \A k \in 1..Len(frame) : frame[k] = Full[k]

(* How much of it there is. *)
Built ==
  /\ pc \in Bare => Len(frame) = 0
  /\ pc \in {"sources", "input"} => Len(frame) = 4
  /\ pc \in {"device", "metrics"} => Len(frame) = 5
  /\ pc \in Looping \cup {"stopping", "joining"} => Len(frame) = 7

(* Whoever lives has its owner. *)
Owners ==
  /\ runners # <<>> => Len(frame) >= 2
  /\ \A i \in 1..MaxPools : Live(Stratum(i)) => i \in Range(runners)
  /\ Live(Gbt) => Len(frame) >= 4
  /\ Live(Server) => Len(frame) = 7


(* The objects and the threads that use them. *)
LifeInv == ThreadTypes /\ StartTypes /\ FrameTypes /\ Shape /\ Built /\ Owners

-----------------------------------------------------------------------------
(* The object constructed last, and those before it. *)
LEMMA FrontFacts ==
  ASSUME NEW S, NEW f \in Seq(S), f # <<>>
  PROVE  /\ Front(f) \in Seq(S) /\ Last(f) = f[Len(f)] /\ Len(f) \in Nat \ {0}
         /\ Len(Front(f)) = Len(f) - 1 /\ \A k \in 1..(Len(f) - 1) : Front(f)[k] = f[k]
<1>1. Len(f) \in Nat \ {0} OBVIOUS
<1>2. Front(f) = SubSeq(f, 1, Len(f) - 1) /\ Last(f) = f[Len(f)] BY DEF Front, Last
<1> DEFINE n == Len(f) - 1
           g == SubSeq(f, 1, n)
<1>3. g \in Seq(S) /\ Len(g) = n /\ \A k \in 1..n : g[k] = f[k]
  <2>1. n \in Nat /\ n < Len(f) BY <1>1
  <2> HIDE DEF n
  <2>2. g \in Seq(S) BY <1>1, <2>1
  <2>3. Len(g) = n BY <1>1, <2>1
  <2>4. \A k \in 1..n : g[k] = f[k] BY <1>1, <2>1
  <2> QED BY <2>2, <2>3, <2>4
<1> HIDE DEF g
<1>4. Front(f) = g BY <1>2 DEF g
<1> QED BY <1>1, <1>2, <1>3, <1>4

(* A sequence of runners grows at its end. *)
LEMMA RangeAppend ==
  ASSUME NEW S, NEW f \in Seq(S), NEW x \in S
  PROVE  Range(f) \subseteq Range(Append(f, x)) /\ x \in Range(Append(f, x))
<1> DEFINE g == Append(f, x)
<1>1. /\ g \in Seq(S) /\ DOMAIN f = 1..Len(f) /\ DOMAIN g = 1..(Len(f) + 1) /\ Len(f) \in Nat
      /\ g[Len(f) + 1] = x /\ \A k \in 1..Len(f) : g[k] = f[k]
  OBVIOUS
<1> HIDE DEF g
<1>2. ASSUME NEW y \in Range(f) PROVE y \in Range(g)
  <2>1. PICK k \in DOMAIN f : y = f[k] BY DEF Range
  <2>2. k \in DOMAIN g /\ g[k] = y BY <1>1, <2>1
  <2> QED BY <2>2 DEF Range
<1>3. x \in Range(g)
  <2>1. Len(f) + 1 \in DOMAIN g /\ g[Len(f) + 1] = x BY <1>1
  <2> QED BY <2>1 DEF Range
<1> QED BY <1>2, <1>3 DEF g

(* Two sequences, one after the other. *)
LEMMA Concat ==
  ASSUME NEW S, NEW f \in Seq(S), NEW g \in Seq(S)
  PROVE  /\ f \o g \in Seq(S) /\ Len(f \o g) = Len(f) + Len(g)
         /\ \A k \in 1..Len(f) : (f \o g)[k] = f[k]
         /\ \A k \in 1..Len(g) : (f \o g)[Len(f) + k] = g[k]
  OBVIOUS

(* Runners are taken from the front. *)
LEMMA RangeTail ==
  ASSUME NEW S, NEW f \in Seq(S), f # <<>>, NEW y \in Range(f), y # Head(f)
  PROVE  y \in Range(Tail(f))
<1> DEFINE g == Tail(f)
<1>1. /\ DOMAIN f = 1..Len(f) /\ DOMAIN g = 1..(Len(f) - 1) /\ Len(f) \in Nat \ {0} /\ Head(f) = f[1]
      /\ \A k \in 1..(Len(f) - 1) : g[k] = f[k + 1]
  OBVIOUS
<1> HIDE DEF g
<1>2. PICK k \in DOMAIN f : y = f[k] BY DEF Range
<1>3. k # 1 BY <1>1, <1>2
<1>4. k - 1 \in DOMAIN g /\ g[k - 1] = y
  <2>1. k - 1 \in 1..(Len(f) - 1) /\ (k - 1) + 1 = k BY <1>1, <1>2, <1>3
  <2> QED BY <1>1, <1>2, <2>1
<1>5. y \in Range(g) BY <1>4 DEF Range
<1> QED BY <1>5 DEF g

(* Threads have different names. *)
LEMMA Names ==
  /\ Gbt \in Threads /\ Server \in Threads /\ Stdin \in Threads
  /\ \A i \in 1..MaxPools : Stratum(i) \in Threads
  /\ Gbt # Server /\ Gbt # Stdin /\ Server # Stdin
  /\ \A i : Stratum(i) # Gbt /\ Stratum(i) # Server /\ Stratum(i) # Stdin
  /\ \A i, j : Stratum(i) = Stratum(j) => i = j
  /\ \A t \in Threads : t = Gbt \/ t = Server \/ t = Stdin \/ \E i \in 1..MaxPools : t = Stratum(i)
  BY DEF Threads, Gbt, Server, Stdin, Stratum

(* What a file gives. *)
LEMMA LoadType ==
  ASSUME NEW f \in Files
  PROVE  /\ loadFromJsonFile(f).pools \in Seq(PoolKinds)
         /\ Len(loadFromJsonFile(f).pools) \in Nat /\ Len(loadFromJsonFile(f).pools) <= MaxPools
<1>1. CASE f.form \in {"missing", "unparsable"}
  <2>1. loadFromJsonFile(f).pools = <<>> BY <1>1 DEF loadFromJsonFile, Defaults
  <2>2. <<>> \in Seq(PoolKinds) /\ Len(<<>>) = 0 OBVIOUS
  <2> QED BY <2>1, <2>2, LifecycleAssumption
<1>2. CASE f.form \notin {"missing", "unparsable"}
  <2>1. loadFromJsonFile(f).pools = f.pools BY <1>2 DEF loadFromJsonFile
  <2>2. f.pools \in Seq(PoolKinds) /\ Len(f.pools) <= MaxPools BY LifecycleAssumption
  <2> QED BY <2>1, <2>2
<1> QED BY <1>1, <1>2

(* An empty sequence of objects or runners. *)
LEMMA Empties ==
  /\ <<>> \in Seq(Objects) /\ <<>> \in Seq(PoolKinds) /\ <<>> \in Seq(1..MaxPools) /\ Len(<<>>) = 0
  /\ Len(<<>>) <= MaxPools
  BY LifecycleAssumption

(* Full, one by one. *)
LEMMA FullFacts ==
  /\ Full[1] = "strat_adapters" /\ Full[2] = "strat_runners" /\ Full[3] = "gbt_adapter"
  /\ Full[4] = "gbt_runner" /\ Full[5] = "input" /\ Full[6] = "metrics" /\ Full[7] = "metrics_http"
  BY DEF Full

(* A process that has nothing. *)
HasNothing ==
  /\ file \in Files /\ pools = <<>> /\ idx = 1 /\ runners = <<>> /\ frame = <<>> /\ g_stop = FALSE /\ pc \in Bare
  /\ thread = [t \in Threads |-> "none"] /\ stop = [t \in Threads |-> FALSE]

(* It has nothing that could be wrong. *)
LEMMA Nothing == HasNothing => LifeInv
<1> SUFFICES ASSUME HasNothing PROVE LifeInv OBVIOUS
<1> USE DEF HasNothing
<1>1. ThreadTypes BY DEF ThreadTypes, States, Phases, Bare, Over, Starting
<1>2. StartTypes BY Empties DEF StartTypes
<1>3. FrameTypes BY Empties DEF FrameTypes
<1>4. Len(frame) = 0 BY Empties
<1>5. Shape /\ Built BY <1>4 DEF Shape, Built, Bare, Looping, Over
<1>6. Owners
  <2>1. \A t \in Threads : ~Live(t) BY DEF Live, Idle
  <2> QED BY <2>1, Names DEF Owners
<1> QED BY <1>1, <1>2, <1>3, <1>5, <1>6 DEF LifeInv

(* The end of the process. *)
LEMMA EndsLife ==
  ASSUME LifeInv, NEW how \in Over, Ends(how)
  PROVE  LifeInv'
<1>1. file' \in Files BY DEF LifeInv, StartTypes, Ends, configVars
<1>2. /\ pools' = <<>> /\ idx' = 1 /\ runners' = <<>> /\ frame' = <<>> /\ g_stop' = FALSE /\ pc' \in Bare
      /\ thread' = [t \in Threads |-> "none"] /\ stop' = [t \in Threads |-> FALSE]
  BY DEF Ends, Bare
<1>3. HasNothing' BY <1>1, <1>2 DEF HasNothing
<1> QED BY <1>3, Nothing, PTL

(* Every way the process can end is one. *)
LEMMA EndsWays ==
  /\ Terminates => Ends("terminated")
  /\ Exits => Ends("exited")
  /\ Abort => Ends("terminated")
  BY DEF Terminates, Exits, Abort, EndsWhileSaving

(* Threads go on: none comes to life. *)
LEMMA ThreadsLife ==
  ASSUME LifeInv, UNCHANGED <<file, pools, idx, runners, frame, pc>>,
         thread' \in [Threads -> States], stop' \in [Threads -> BOOLEAN], g_stop' \in BOOLEAN,
         \A t \in Threads : Live(t)' => Live(t)
  PROVE  LifeInv'
<1>1. ThreadTypes' BY DEF LifeInv, ThreadTypes
<1>2. StartTypes' /\ FrameTypes' BY DEF LifeInv, StartTypes, FrameTypes
<1>3. Shape' /\ Built' BY DEF LifeInv, Shape, Built
<1>4. Owners'
  <2>1. \A i \in 1..MaxPools : Live(Stratum(i))' => Live(Stratum(i)) BY Names
  <2>2. (Live(Gbt)' => Live(Gbt)) /\ (Live(Server)' => Live(Server)) BY Names
  <2> QED BY <2>1, <2>2 DEF LifeInv, Owners, Live
<1> QED BY <1>1, <1>2, <1>3, <1>4 DEF LifeInv

(* main goes on, without objects and threads. *)
LEMMA PhaseLife ==
  ASSUME LifeInv, UNCHANGED <<file, pools, idx, runners, frame, thread, stop, g_stop>>, pc' \in Phases,
         \/ pc \in Bare /\ pc' \in Bare
         \/ pc \in {"sources", "input"} /\ pc' \in {"sources", "input"}
         \/ pc \in {"device", "metrics"} /\ pc' \in {"device", "metrics"}
         \/ pc \in Looping \cup {"stopping", "joining"} /\ pc' \in Looping \cup {"stopping", "joining", "unwind"}
  PROVE  LifeInv'
<1>1. ThreadTypes' BY DEF LifeInv, ThreadTypes
<1>2. StartTypes' /\ FrameTypes' BY DEF LifeInv, StartTypes, FrameTypes
<1>3. Shape' BY DEF LifeInv, Shape
<1>4. Built' BY DEF LifeInv, Built, Bare, Looping, Over
<1>5. Owners' BY DEF LifeInv, Owners, Live
<1> QED BY <1>1, <1>2, <1>3, <1>4, <1>5 DEF LifeInv

(* Startup. *)
LEMMA StartLife == LifeInv /\ (LoadWeights \/ LegacyArguments \/ SelectPool \/ LoadAll \/ StartSource
                              \/ BuildRouter \/ StartInput \/ InitDevice \/ StartMetrics) => LifeInv'
<1> SUFFICES ASSUME LifeInv,
                    LoadWeights \/ LegacyArguments \/ SelectPool \/ LoadAll \/ StartSource
                      \/ BuildRouter \/ StartInput \/ InitDevice \/ StartMetrics
             PROVE  LifeInv'
  OBVIOUS
<1> USE DEF configVars, ledgerVars, startVars, objectVars, threadVars
<1>t. Terminates \/ Exits => LifeInv' BY EndsWays, EndsLife DEF Over
<1>1. CASE LoadWeights
  <2>1. CASE ~Throws(file)
    <3>1. /\ UNCHANGED <<file, pools, idx, runners, frame, thread, stop, g_stop>>
          /\ pc \in Bare /\ pc' \in Bare /\ pc' \in Phases
      BY <1>1, <2>1 DEF LoadWeights, Read, Bare, Phases, Starting
    <3> QED BY <3>1, PhaseLife
  <2> QED BY <1>1, <1>t, <2>1 DEF LoadWeights, Read
<1>2. CASE LegacyArguments
  <2>1. CASE pc' = "all" /\ UNCHANGED <<configVars, ledgerVars, startVars, objectVars, threadVars>>
    <3>1. /\ UNCHANGED <<file, pools, idx, runners, frame, thread, stop, g_stop>>
          /\ pc \in Bare /\ pc' \in Bare /\ pc' \in Phases
      BY <1>2, <2>1 DEF LegacyArguments, Bare, Phases, Starting
    <3> QED BY <3>1, PhaseLife
  <2> QED BY <1>2, <1>t, <2>1 DEF LegacyArguments
<1>3. CASE SelectPool
  <2>1. CASE pc' = "all" /\ UNCHANGED <<configVars, ledgerVars, startVars, objectVars, threadVars>>
    <3>1. /\ UNCHANGED <<file, pools, idx, runners, frame, thread, stop, g_stop>>
          /\ pc \in Bare /\ pc' \in Bare /\ pc' \in Phases
      BY <1>3, <2>1 DEF SelectPool, Bare, Phases, Starting
    <3> QED BY <3>1, PhaseLife
  <2>2. Terminates \/ Exits \/ (pc' = "all" /\ UNCHANGED <<configVars, ledgerVars, startVars, objectVars, threadVars>>)
    BY <1>3 DEF SelectPool, Read
  <2> QED BY <1>t, <2>1, <2>2
<1>4. CASE LoadAll
  <2>1. CASE ~Throws(file)
    <3>1. /\ pools' = loadFromJsonFile(file).pools /\ frame' = Locals /\ idx' = 1
          /\ UNCHANGED <<file, runners, thread, stop, g_stop>> /\ pc = "all" /\ pc' \in {"input", "sources"}
      BY <1>4, <2>1 DEF LoadAll, Read
    <3>2. ThreadTypes' BY <3>1 DEF LifeInv, ThreadTypes, Phases, Starting
    <3>3. StartTypes' BY <3>1, LoadType DEF LifeInv, StartTypes
    <3>4. FrameTypes' /\ Len(frame') = 4 /\ \A k \in 1..4 : frame'[k] = Full[k]
      <4>1. /\ Locals \in Seq(Objects) /\ Len(Locals) = 4
            /\ Locals[1] = Full[1] /\ Locals[2] = Full[2] /\ Locals[3] = Full[3] /\ Locals[4] = Full[4]
        BY FullFacts DEF Locals, Objects
      <4>2. \A k \in 1..4 : k = 1 \/ k = 2 \/ k = 3 \/ k = 4 OBVIOUS
      <4> QED BY <3>1, <4>1, <4>2, Zenon DEF FrameTypes
    <3>5. Shape' BY <3>4 DEF Shape
    <3>6. Built' BY <3>1, <3>4 DEF Built, Bare, Looping, Over
    <3>7. Owners'
      <4>1. Len(frame) = 0 BY <3>1 DEF LifeInv, Built, Bare
      <4>2. runners = <<>> /\ ~Live(Gbt) /\ ~Live(Server) BY <4>1 DEF LifeInv, Owners
      <4> QED BY <3>1, <3>4, <4>2 DEF LifeInv, Owners, Live
    <3> QED BY <3>2, <3>3, <3>4, <3>5, <3>6, <3>7 DEF LifeInv
  <2> QED BY <1>4, <1>t, <2>1 DEF LoadAll, Read
<1>5. CASE StartSource
  <2>0. /\ pc = "sources" /\ pc' = pc /\ idx' = idx + 1 /\ UNCHANGED <<file, pools, frame, g_stop>>
        /\ idx \in 1..Len(pools) /\ idx \in 1..MaxPools /\ Len(frame) = 4
    BY <1>5, LifecycleAssumption DEF StartSource, LifeInv, StartTypes, Built
  <2>1. FrameTypes' /\ Shape' /\ Built' BY <2>0 DEF LifeInv, FrameTypes, Shape, Built
  <2>2. CASE UNCHANGED <<thread, stop, runners>>
    <3>1. ThreadTypes' /\ Owners' BY <2>0, <2>2 DEF LifeInv, ThreadTypes, Owners, Live
    <3>2. StartTypes' BY <2>0, <2>2 DEF LifeInv, StartTypes
    <3> QED BY <2>1, <3>1, <3>2 DEF LifeInv
  <2>3. CASE Starts(Gbt) /\ UNCHANGED runners
    <3>1. ThreadTypes' BY <2>0, <2>3, Names DEF LifeInv, ThreadTypes, Starts, States
    <3>2. StartTypes' BY <2>0, <2>3 DEF LifeInv, StartTypes
    <3>3. \A t \in Threads : t # Gbt => thread'[t] = thread[t] BY <2>3 DEF LifeInv, ThreadTypes, Starts
    <3>4. Owners' BY <2>0, <2>3, <3>3, Names DEF LifeInv, Owners, Live
    <3> QED BY <2>1, <3>1, <3>2, <3>4 DEF LifeInv
  <2>4. CASE Starts(Stratum(idx)) /\ runners' = Append(runners, idx)
    <3>0. Stratum(idx) \in Threads /\ Stratum(idx) # Server BY <2>0, Names
    <3>1. ThreadTypes' BY <2>0, <2>4, <3>0 DEF LifeInv, ThreadTypes, Starts, States
    <3>2. StartTypes' BY <2>0, <2>4 DEF LifeInv, StartTypes
    <3>3. \A t \in Threads : t # Stratum(idx) => thread'[t] = thread[t] BY <2>4 DEF LifeInv, ThreadTypes, Starts
    <3>4. Range(runners) \subseteq Range(runners') /\ idx \in Range(runners')
      BY <2>0, <2>4, RangeAppend DEF LifeInv, StartTypes
    <3>5. \A i \in 1..MaxPools : Live(Stratum(i))' => i \in Range(runners')
      BY <3>3, <3>4, Names DEF LifeInv, Owners, Live
    <3>6. thread'[Gbt] = thread[Gbt] /\ thread'[Server] = thread[Server] BY <3>3, Names
    <3>7. Owners' BY <2>0, <3>5, <3>6 DEF LifeInv, Owners, Live
    <3> QED BY <2>1, <3>1, <3>2, <3>7 DEF LifeInv
  <2> QED BY <1>5, <2>2, <2>3, <2>4 DEF StartSource
<1>6. CASE BuildRouter
  <2>1. /\ UNCHANGED <<file, pools, idx, runners, frame, thread, stop, g_stop>>
        /\ pc = "sources" /\ pc' = "input" /\ pc' \in Phases
    BY <1>6 DEF BuildRouter, Phases, Starting
  <2> QED BY <2>1, PhaseLife
<1>7. CASE StartInput
  <2>0. /\ pc = "input" /\ pc' = "device" /\ UNCHANGED <<file, pools, idx, runners, g_stop>>
        /\ frame' = Append(frame, "input") /\ Starts(Stdin) /\ Len(frame) = 4 /\ frame \in Seq(Objects)
    BY <1>7 DEF StartInput, LifeInv, Built, FrameTypes
  <2>1. ThreadTypes' BY <2>0, Names DEF LifeInv, ThreadTypes, Starts, States, Phases, Starting
  <2>2. StartTypes' BY <2>0 DEF LifeInv, StartTypes
  <2>3. frame' \in Seq(Objects) /\ Len(frame') = 5 /\ frame'[5] = "input" /\ \A k \in 1..4 : frame'[k] = frame[k]
    <3>1. \A f \in Seq(Objects) : \A x \in Objects :
            /\ Append(f, x) \in Seq(Objects) /\ Len(Append(f, x)) = Len(f) + 1 /\ Append(f, x)[Len(f) + 1] = x
            /\ \A k \in 1..Len(f) : Append(f, x)[k] = f[k]
      OBVIOUS
    <3>2. "input" \in Objects /\ 4 + 1 = 5 BY DEF Objects
    <3>3. /\ frame' \in Seq(Objects) /\ Len(frame') = Len(frame) + 1 /\ frame'[Len(frame) + 1] = "input"
          /\ \A k \in 1..Len(frame) : frame'[k] = frame[k]
      BY <2>0, <3>1, <3>2
    <3> QED BY <2>0, <3>2, <3>3
  <2>4. \A k \in 1..5 : frame'[k] = Full[k] BY <2>0, <2>3, FullFacts DEF LifeInv, Shape
  <2>5. Shape' /\ FrameTypes' BY <2>3, <2>4 DEF Shape, FrameTypes
  <2>6. Built' BY <2>0, <2>3 DEF Built, Bare, Looping, Over
  <2>7. \A t \in Threads : t # Stdin => thread'[t] = thread[t] BY <2>0 DEF LifeInv, ThreadTypes, Starts
  <2>8. Owners'
    <3>1. \A i \in 1..MaxPools : thread'[Stratum(i)] = thread[Stratum(i)] BY <2>7, Names
    <3>2. thread'[Gbt] = thread[Gbt] /\ thread'[Server] = thread[Server] BY <2>7, Names
    <3>3. ~Live(Server) BY <2>0 DEF LifeInv, Owners
    <3> QED BY <2>0, <2>3, <3>1, <3>2, <3>3 DEF LifeInv, Owners, Live
  <2> QED BY <2>1, <2>2, <2>5, <2>6, <2>8 DEF LifeInv
<1>8. CASE InitDevice
  <2>1. CASE ~Throws(file)
    <3>1. /\ UNCHANGED <<file, pools, idx, runners, frame, thread, stop, g_stop>>
          /\ pc = "device" /\ pc' = "metrics" /\ pc' \in Phases
      BY <1>8, <2>1 DEF InitDevice, Read, Phases, Starting
    <3> QED BY <3>1, PhaseLife
  <2> QED BY <1>8, <1>t, <2>1 DEF InitDevice, Read
<1>9. CASE StartMetrics
  <2>1. CASE ~Throws(file)
    <3>0. /\ pc = "metrics" /\ pc' = "loop" /\ UNCHANGED <<file, pools, idx, runners, g_stop>>
          /\ frame' = frame \o <<"metrics", "metrics_http">> /\ Len(frame) = 5 /\ frame \in Seq(Objects)
          /\ (Starts(Server) \/ UNCHANGED <<thread, stop>>)
      BY <1>9, <2>1 DEF StartMetrics, Read, LifeInv, Built, FrameTypes
    <3>1. ThreadTypes' BY <3>0, Names DEF LifeInv, ThreadTypes, Starts, States, Phases, Looping
    <3>2. StartTypes' BY <3>0 DEF LifeInv, StartTypes
    <3>3. /\ frame' \in Seq(Objects) /\ Len(frame') = 7 /\ frame'[6] = "metrics" /\ frame'[7] = "metrics_http"
          /\ \A k \in 1..5 : frame'[k] = frame[k]
      <4> DEFINE g == <<"metrics", "metrics_http">>
      <4>2. g \in Seq(Objects) /\ Len(g) = 2 /\ g[1] = "metrics" /\ g[2] = "metrics_http" BY DEF Objects
      <4>3. 5 + 2 = 7 /\ 5 + 1 = 6 /\ 1 \in 1..2 /\ 2 \in 1..2 OBVIOUS
      <4>4. frame' = frame \o g BY <3>0
      <4> HIDE DEF g
      <4>5. /\ frame' \in Seq(Objects) /\ Len(frame') = Len(frame) + Len(g)
            /\ \A k \in 1..Len(frame) : frame'[k] = frame[k]
            /\ \A k \in 1..Len(g) : frame'[Len(frame) + k] = g[k]
        <5> DEFINE h == frame \o g
        <5>1. /\ h \in Seq(Objects) /\ Len(h) = Len(frame) + Len(g)
              /\ \A k \in 1..Len(frame) : h[k] = frame[k]
              /\ \A k \in 1..Len(g) : h[Len(frame) + k] = g[k]
          <6>1. frame \in Seq(Objects) /\ g \in Seq(Objects) BY <3>0, <4>2
          <6>2. \A u \in Seq(Objects) : \A v \in Seq(Objects) :
                  /\ u \o v \in Seq(Objects) /\ Len(u \o v) = Len(u) + Len(v)
                  /\ \A k \in 1..Len(u) : (u \o v)[k] = u[k]
                  /\ \A k \in 1..Len(v) : (u \o v)[Len(u) + k] = v[k]
            BY Concat
          <6> QED BY <6>1, <6>2, Zenon
        <5> HIDE DEF h
        <5>2. frame' = h BY <4>4 DEF h
        <5> QED BY <5>1, <5>2, Zenon
      <4>6. frame'[5 + 1] = g[1] /\ frame'[5 + 2] = g[2] BY <3>0, <4>2, <4>3, <4>5
      <4> QED BY <3>0, <4>2, <4>3, <4>5, <4>6
    <3>4. \A k \in 1..7 : frame'[k] = Full[k] BY <3>0, <3>3, FullFacts DEF LifeInv, Shape
    <3>5. Shape' /\ FrameTypes' BY <3>3, <3>4 DEF Shape, FrameTypes
    <3>6. Built' BY <3>0, <3>3 DEF Built, Bare, Looping, Over
    <3>7. \A t \in Threads : t # Server => thread'[t] = thread[t] BY <3>0 DEF LifeInv, ThreadTypes, Starts
    <3>8. Owners'
      <4>1. \A i \in 1..MaxPools : thread'[Stratum(i)] = thread[Stratum(i)] BY <3>7, Names
      <4>2. thread'[Gbt] = thread[Gbt] BY <3>7, Names
      <4> QED BY <3>0, <3>3, <4>1, <4>2 DEF LifeInv, Owners, Live
    <3> QED BY <3>1, <3>2, <3>5, <3>6, <3>8 DEF LifeInv
  <2> QED BY <1>9, <1>t, <2>1 DEF StartMetrics, Read
<1> QED BY <1>1, <1>2, <1>3, <1>4, <1>5, <1>6, <1>7, <1>8, <1>9

(* The loop, the way out and the end. *)
LEMMA MainLife == LifeInv /\ (LoopTest \/ Snapshot \/ saveToFile \/ ReadConsole \/ StopOne \/ JoinOne
                              \/ DestructorStops \/ Destroy \/ ReturnZero) => LifeInv'
<1> SUFFICES ASSUME LifeInv,
                    LoopTest \/ Snapshot \/ saveToFile \/ ReadConsole \/ StopOne \/ JoinOne
                      \/ DestructorStops \/ Destroy \/ ReturnZero
             PROVE  LifeInv'
  OBVIOUS
<1> USE DEF configVars, ledgerVars, startVars, objectVars, threadVars
<1>1. CASE LoopTest \/ Snapshot \/ saveToFile \/ ReadConsole \/ JoinOne
  <2>1. /\ UNCHANGED <<file, pools, idx, runners, frame, thread, stop, g_stop>>
        /\ pc \in Looping \cup {"joining"} /\ pc' \in Looping \cup {"stopping", "unwind"}
    BY <1>1 DEF LoopTest, Snapshot, saveToFile, ReadConsole, JoinOne, Looping
  <2>2. pc' \in Phases BY <2>1 DEF Phases
  <2> QED BY <2>1, <2>2, PhaseLife
<1>2. CASE StopOne
  <2>1. /\ UNCHANGED <<file, pools, idx, runners, frame, thread, g_stop>> /\ pc = "stopping" /\ pc' = "joining"
        /\ stop' = [t \in Threads |-> t \in Named \/ stop[t]]
    BY <1>2 DEF StopOne
  <2>2. ThreadTypes' BY <2>1 DEF LifeInv, ThreadTypes, Phases
  <2>3. StartTypes' /\ FrameTypes' /\ Shape' BY <2>1 DEF LifeInv, StartTypes, FrameTypes, Shape
  <2>4. Built' BY <2>1 DEF LifeInv, Built, Bare, Looping, Over
  <2>5. Owners' BY <2>1 DEF LifeInv, Owners, Live
  <2> QED BY <2>2, <2>3, <2>4, <2>5 DEF LifeInv
<1>3. CASE DestructorStops
  <2>1. PICK t \in Owned : Stops(t) BY <1>3 DEF DestructorStops
  <2>2. UNCHANGED <<file, pools, idx, runners, frame, pc, thread, g_stop>> BY <1>3 DEF DestructorStops
  <2>3. stop' \in [Threads -> BOOLEAN] BY <2>1 DEF Stops, LifeInv, ThreadTypes
  <2>4. thread' \in [Threads -> States] /\ g_stop' \in BOOLEAN /\ \A u \in Threads : Live(u)' => Live(u)
    BY <2>2 DEF LifeInv, ThreadTypes, Live
  <2> QED BY <2>2, <2>3, <2>4, ThreadsLife
<1>4. CASE Destroy
  <2> DEFINE n == Len(frame)
  <2>0. /\ pc = "unwind" /\ pc' = "unwind" /\ frame # <<>> /\ frame \in Seq(Objects)
        /\ \A t \in Owned : Joined(t)
        /\ UNCHANGED <<file, pools, idx, thread, stop, g_stop>>
    BY <1>4 DEF Destroy, LifeInv, FrameTypes
  <2>1. n \in 1..7 /\ Last(frame) = Full[n]
    <3>1. n \in Nat \ {0} /\ Last(frame) = frame[n] BY <2>0, FrontFacts
    <3>2. n <= 7 /\ \A k \in 1..n : frame[k] = Full[k] BY DEF LifeInv, Shape
    <3> HIDE DEF n
    <3>3. n \in 1..n /\ n \in 1..7 BY <3>1, <3>2
    <3> QED BY <3>1, <3>2, <3>3
  <2>2. n = 7 => Owned = {Server} BY <2>0, <2>1, FullFacts DEF Owned
  <2>3. n = 4 => Owned = {Gbt} BY <2>0, <2>1, FullFacts DEF Owned
  <2>4. n = 2 /\ runners # <<>> => Owned = {Stratum(Head(runners))} BY <2>0, <2>1, FullFacts DEF Owned
  <2>5. Last(frame) = "strat_runners" <=> n = 2
    <3>1. n = 1 \/ n = 2 \/ n = 3 \/ n = 4 \/ n = 5 \/ n = 6 \/ n = 7 BY <2>1
    <3> QED BY <2>1, <3>1, FullFacts
  <2>6. ThreadTypes' BY <2>0 DEF LifeInv, ThreadTypes
  <2>7. CASE n = 2 /\ runners # <<>>
    <3>1. runners' = Tail(runners) /\ frame' = frame BY <1>4, <2>5, <2>7 DEF Destroy
    <3>2. runners \in Seq(1..MaxPools) BY DEF LifeInv, StartTypes
    <3>3. runners' \in Seq(1..MaxPools) BY <2>7, <3>1, <3>2
    <3>4. StartTypes' BY <2>0, <3>3 DEF LifeInv, StartTypes
    <3>5. FrameTypes' /\ Shape' BY <3>1 DEF LifeInv, FrameTypes, Shape
    <3>6. Built' BY <2>0 DEF Built, Bare, Looping, Over
    <3>7. ASSUME NEW i \in 1..MaxPools, Live(Stratum(i))' PROVE i \in Range(runners')
      <4>1. Live(Stratum(i)) BY <2>0, <3>7 DEF Live
      <4>2. i \in Range(runners) BY <4>1 DEF LifeInv, Owners
      <4>3. i # Head(runners) BY <2>0, <2>4, <2>7, <4>1 DEF Joined, Live
      <4> QED BY <2>7, <3>1, <3>2, <4>2, <4>3, RangeTail
    <3>8. Owners' BY <2>0, <2>7, <3>1, <3>7 DEF LifeInv, Owners, Live
    <3> QED BY <2>6, <3>4, <3>5, <3>6, <3>8 DEF LifeInv
  <2>8. CASE ~(n = 2 /\ runners # <<>>)
    <3>1. runners' = runners /\ frame' = Front(frame) BY <1>4, <2>5, <2>8 DEF Destroy
    <3>2. /\ frame' \in Seq(Objects) /\ Len(frame') = n - 1 /\ \A k \in 1..(n - 1) : frame'[k] = frame[k]
      BY <2>0, <3>1, FrontFacts
    <3>3. StartTypes' BY <2>0, <3>1 DEF LifeInv, StartTypes
    <3>4. FrameTypes' BY <3>2 DEF FrameTypes
    <3>5. Shape'
      <4>1. \A k \in 1..n : frame[k] = Full[k] BY DEF LifeInv, Shape
      <4> HIDE DEF n
      <4>2. Len(frame') <= 7 /\ \A k \in 1..Len(frame') : frame'[k] = Full[k] BY <2>1, <3>2, <4>1
      <4> QED BY <4>2 DEF Shape
    <3>6. Built' BY <2>0 DEF Built, Bare, Looping, Over
    <3>7. runners # <<>> => n >= 3
      <4>1. runners # <<>> => n >= 2 /\ n # 2 BY <2>8 DEF LifeInv, Owners
      <4> HIDE DEF n
      <4> QED BY <2>1, <4>1
    <3>8. Live(Gbt) => n >= 5
      <4>1. Live(Gbt) => n >= 4 /\ n # 4 BY <2>0, <2>3 DEF LifeInv, Owners, Joined, Live
      <4> HIDE DEF n
      <4> QED BY <2>1, <4>1
    <3>9. ~Live(Server) BY <2>0, <2>2 DEF LifeInv, Owners, Joined, Live
    <3>10. Owners'
      <4>1. runners' # <<>> => Len(frame') >= 2 BY <2>1, <3>1, <3>2, <3>7
      <4>2. Live(Gbt) => Len(frame') >= 4 BY <2>1, <3>2, <3>8
      <4> QED BY <2>0, <3>1, <3>9, <4>1, <4>2 DEF LifeInv, Owners, Live
    <3> QED BY <2>6, <3>3, <3>4, <3>5, <3>6, <3>10 DEF LifeInv
  <2> QED BY <2>7, <2>8
<1>5. CASE ReturnZero BY <1>5, EndsWays, EndsLife DEF ReturnZero, Over
<1> QED BY <1>1, <1>2, <1>3, <1>4, <1>5

(* Threads, signals, edits and the next process. *)
LEMMA OtherLife ==
  ASSUME LifeInv,
         \/ EditConfig \/ on_sigint \/ Bind \/ StdinCloses \/ HandlerThrows \/ Restart
         \/ \E t \in Threads : Test(t) \/ Returns(t)
  PROVE  LifeInv'
<1> USE DEF configVars, ledgerVars, startVars, objectVars, threadVars
<1>1. CASE EditConfig
  <2>1. UNCHANGED <<pools, idx, runners, frame, pc, thread, stop, g_stop>> /\ file' \in Files
    BY <1>1 DEF EditConfig
  <2> QED BY <2>1 DEF LifeInv, ThreadTypes, StartTypes, FrameTypes, Shape, Built, Owners, Live
<1>2. CASE on_sigint
  <2>1. CASE pc = "begin" BY <1>2, <2>1, EndsWays, EndsLife DEF on_sigint, Over
  <2>2. CASE pc # "begin"
    <3>1. /\ UNCHANGED <<file, pools, idx, runners, frame, pc, thread, stop>> /\ g_stop' = TRUE
      BY <1>2, <2>2 DEF on_sigint
    <3>2. /\ thread' \in [Threads -> States] /\ stop' \in [Threads -> BOOLEAN] /\ g_stop' \in BOOLEAN
          /\ \A u \in Threads : Live(u)' => Live(u)
      BY <3>1 DEF LifeInv, ThreadTypes, Live
    <3> QED BY <3>1, <3>2, ThreadsLife
  <2> QED BY <2>1, <2>2
<1>3. ASSUME NEW t \in Threads, NEW x \in States, thread[t] \notin Idle, Goes(t, x),
             stop' = stop \/ Stops(t), UNCHANGED others
      PROVE  LifeInv'
  <2>1. UNCHANGED <<file, pools, idx, runners, frame, pc, g_stop>> BY <1>3 DEF others
  <2>2. thread' \in [Threads -> States] /\ stop' \in [Threads -> BOOLEAN] /\ g_stop' \in BOOLEAN
    BY <1>3, <2>1 DEF Goes, Stops, LifeInv, ThreadTypes
  <2>3. \A u \in Threads : Live(u)' => Live(u) BY <1>3 DEF Goes, LifeInv, ThreadTypes, Live
  <2> QED BY <2>1, <2>2, <2>3, ThreadsLife
<1>4. CASE Bind
  <2>1. "top" \in States /\ "ended" \in States /\ "bind" \notin Idle BY DEF States, Idle
  <2> QED BY <1>3, <1>4, <2>1, Names DEF Bind
<1>5. CASE StdinCloses
  <2>1. "ended" \in States /\ "blocked" \notin Idle BY DEF States, Idle
  <2> QED BY <1>3, <1>5, <2>1, Names DEF StdinCloses
<1>6. ASSUME NEW t \in Threads, Test(t) PROVE LifeInv'
  <2>1. "ended" \in States /\ "blocked" \in States /\ "top" \notin Idle BY DEF States, Idle
  <2> QED BY <1>3, <1>6, <2>1 DEF Test
<1>7. ASSUME NEW t \in Threads, Returns(t) PROVE LifeInv'
  <2>1. "top" \in States /\ "blocked" \notin Idle BY DEF States, Idle
  <2> QED BY <1>3, <1>7, <2>1 DEF Returns
<1>8. CASE HandlerThrows BY <1>8, EndsWays, EndsLife DEF HandlerThrows, Over
<1>9. CASE Restart
  <2>1. /\ UNCHANGED <<file, pools, idx, runners, frame, thread, stop, g_stop>>
        /\ pc \in Bare /\ pc' \in Bare /\ pc' \in Phases
    BY <1>9 DEF Restart, Bare, Phases, Starting
  <2> QED BY <2>1, PhaseLife
<1> QED BY <1>1, <1>2, <1>4, <1>5, <1>6, <1>7, <1>8, <1>9

(* Every step keeps the objects of the threads that live. *)
LEMMA LifeStep == LifeInv /\ [Next]_vars => LifeInv'
<1> SUFFICES ASSUME LifeInv, [Next]_vars PROVE LifeInv' OBVIOUS
<1>1. CASE Main BY <1>1, StartLife, MainLife DEF Main
<1>2. CASE UNCHANGED vars
  BY <1>2 DEF vars, configVars, startVars, objectVars, threadVars, LifeInv, ThreadTypes, StartTypes,
              FrameTypes, Shape, Built, Owners, Live
<1> QED BY <1>1, <1>2, OtherLife DEF Next

(* LifeInv holds always. *)
LEMMA LifeAlways == Spec => []LifeInv
<1>1. Init => LifeInv
  <2>1. Init => HasNothing BY DEF Init, HasNothing, Bare
  <2> QED BY <2>1, Nothing
<1> QED BY <1>1, LifeStep, PTL DEF Spec

(* No runner or server thread outlives an object it uses: whatever the      *)
(* pools, main stops at most one runner by name and the destructors, in     *)
(* the order of the declarations, stop and join the others before what they *)
(* use is gone.                                                             *)
THEOREM LifecycleNoDangling == Spec => []NoDanglingUse
<1>1. LifeInv => NoDanglingUse
  <2> SUFFICES ASSUME LifeInv, NEW t \in Threads \ {Stdin}, Live(t) PROVE Held(t) BY DEF NoDanglingUse
  <2>0. frame \in Seq(Objects) /\ Len(frame) \in Nat BY DEF LifeInv, FrameTypes
  <2>a. \A k \in 1..7 : k <= Len(frame) => Full[k] \in Range(frame)
    <3>1. \A k \in 1..7 : k <= Len(frame) => k \in DOMAIN frame /\ frame[k] = Full[k]
      BY <2>0 DEF LifeInv, Shape
    <3> QED BY <3>1 DEF Range
  <2>1. CASE t = Gbt
    <3>1. Len(frame) >= 4 BY <2>1 DEF LifeInv, Owners
    <3>2. Full[3] \in Range(frame) /\ Full[4] \in Range(frame) BY <2>0, <2>a, <3>1
    <3>3. t[1] # "stratum" /\ t # Server /\ t # Stdin BY <2>1, Names DEF Gbt
    <3>4. {"gbt_runner", "gbt_adapter"} \subseteq Range(frame) BY <3>2, FullFacts
    <3> QED BY <2>1, <3>3, <3>4 DEF Held
  <2>2. CASE t = Server
    <3>1. Len(frame) = 7 BY <2>2 DEF LifeInv, Owners
    <3>2. Full[6] \in Range(frame) /\ Full[7] \in Range(frame) BY <2>0, <2>a, <3>1
    <3> QED BY <2>2, <3>2, FullFacts DEF Held, Gbt, Server
  <2>3. ASSUME NEW i \in 1..MaxPools, t = Stratum(i) PROVE Held(t)
    <3>1. i \in Range(runners) BY <2>3 DEF LifeInv, Owners
    <3>2. runners # <<>> BY <3>1 DEF Range
    <3>3. Len(frame) >= 2 BY <3>2 DEF LifeInv, Owners
    <3>4. Full[1] \in Range(frame) BY <2>0, <2>a, <3>3
    <3>5. t[1] = "stratum" /\ t[2] = i BY <2>3 DEF Stratum
    <3>6. t # Gbt /\ t # Server /\ t # Stdin BY <2>3, Names
    <3>7. t[2] \in Range(runners) /\ "strat_adapters" \in Range(frame) BY <3>1, <3>4, <3>5, FullFacts
    <3> QED BY <3>5, <3>6, <3>7 DEF Held
  <2> QED BY <2>1, <2>2, <2>3, Names
<1> QED BY <1>1, LifeAlways, PTL

(* Phases. *)
LEMMA PhaseSets ==
  /\ Starting \cap Looping = {} /\ Starting \cap Over = {} /\ Looping \cap Over = {}
  /\ {"stopping", "joining", "unwind"} \cap (Starting \cup Over \cup Looping) = {}
  BY DEF Starting, Looping, Over

-----------------------------------------------------------------------------
(* What runs, and what the file says. *)

(* main has not begun to stop anything. *)
Running == Starting \cup Looping \cup Over

(* No source was stopped or has ended. *)
NotStopped ==
  pc \in Running => \A t \in Threads \ {Server, Stdin} : ~stop[t] /\ thread[t] # "ended"

(* The sources started are those of the pools main has come to. *)
Started ==
  pc \in Running =>
    /\ \A i \in 1..MaxPools : thread[Stratum(i)] # "none" <=> i < idx /\ i \in DOMAIN pools /\ pools[i] = "stratum"
    /\ thread[Gbt] # "none" <=> \E i \in DOMAIN pools : i < idx /\ pools[i] = "gbt"

(* After the sources, it has come to all of them. *)
AllStarted ==
  pc \in {"input", "device", "metrics"} \cup Looping /\ ~legacy => \A i \in DOMAIN pools : i < idx

(* What each phase took from the file is what the file still says. *)
FileSays ==
  edits = 0 /\ ~legacy =>
    LET cfg == loadFromJsonFile(file) IN
    /\ pc \in {"select", "all", "sources", "input", "device", "metrics"} \cup Looping => weights = DOMAIN cfg.pools
    /\ pc \in {"all", "sources", "input", "device", "metrics"} \cup Looping =>
         \E i \in DOMAIN cfg.pools : cfg.pools[i] # "bare"
    /\ pc \in {"sources", "input", "device", "metrics"} \cup Looping => pools = cfg.pools
    /\ pc \in Looping => (Live(Server) => cfg.http)

(* Only a process started with arguments looks at them. *)
WithArguments == pc = "arguments" => legacy

(* What was started, and from which file. *)
RunInv == edits \in Nat /\ WithArguments /\ NotStopped /\ Started /\ AllStarted /\ FileSays

(* The end of the process. *)
LEMMA RunEnds ==
  ASSUME RunInv, NEW how \in Over, Ends(how)
  PROVE  RunInv'
<1>1. /\ pc' \in Over /\ edits' = edits /\ idx' = 1 /\ pools' = <<>>
      /\ thread' = [t \in Threads |-> "none"] /\ stop' = [t \in Threads |-> FALSE]
  BY DEF Ends, configVars
<1>2. NotStopped' BY <1>1 DEF NotStopped
<1>3. DOMAIN pools' = {} BY <1>1
<1>4. Started' BY <1>1, <1>3, Names DEF Started
<1>5. pc' \notin {"select", "all", "sources", "input", "device", "metrics"} \cup Looping
  BY <1>1, PhaseSets DEF Over, Looping
<1>6. AllStarted' /\ FileSays' BY <1>5 DEF AllStarted, FileSays
<1>7. WithArguments' BY <1>1 DEF WithArguments, Over
<1> QED BY <1>1, <1>2, <1>4, <1>6, <1>7 DEF RunInv

(* A step of a thread: a source that runs goes on running. *)
LEMMA RunThreads ==
  ASSUME LifeInv, RunInv, UNCHANGED <<file, edits, legacy, weights, pools, idx, pc>>,
         \A t \in Threads \ {Server, Stdin} :
           pc \in Running => /\ ~stop'[t] /\ thread'[t] # "ended"
                             /\ thread'[t] = "none" <=> thread[t] = "none",
         Live(Server)' => Live(Server)
  PROVE  RunInv'
<1>1. NotStopped' BY DEF NotStopped
<1>2. pc \in Running => /\ \A i \in 1..MaxPools : thread'[Stratum(i)] = "none" <=> thread[Stratum(i)] = "none"
                        /\ thread'[Gbt] = "none" <=> thread[Gbt] = "none"
  BY Names
<1>3. Started' BY <1>2 DEF RunInv, Started
<1>4. AllStarted' BY DEF RunInv, AllStarted
<1>5. FileSays' BY DEF RunInv, FileSays
<1> QED BY <1>1, <1>3, <1>4, <1>5 DEF RunInv, WithArguments

(* main goes on, and takes nothing from the file. *)
LEMMA RunPhase ==
  ASSUME RunInv, UNCHANGED <<file, edits, legacy, weights, pools, idx, thread, stop>>,
         \/ pc' \in {"stopping", "joining", "unwind"}
         \/ pc \in Looping /\ pc' \in Looping
         \/ pc \in {"input", "device", "metrics"} /\ pc' \in {"input", "device", "metrics"}
         \/ pc = "sources" /\ pc' = "input" /\ \A i \in DOMAIN pools : i < idx
         \/ pc = "arguments" /\ pc' = "all" /\ legacy
  PROVE  RunInv'
<1>1. NotStopped' BY DEF RunInv, NotStopped, Running, Starting, Looping, Over
<1>2. Started' BY DEF RunInv, Started, Running, Starting, Looping, Over
<1>3. AllStarted' BY DEF RunInv, AllStarted, Looping
<1>4. FileSays'
  <2>1. CASE pc' \in {"stopping", "joining", "unwind"} BY <2>1 DEF FileSays, Looping
  <2>2. CASE pc \in Looping /\ pc' \in Looping BY <2>2 DEF RunInv, FileSays, Live, Looping
  <2>3. CASE pc \in {"sources", "input", "device", "metrics"} /\ pc' \in {"input", "device", "metrics"}
    BY <2>3 DEF RunInv, FileSays, Looping
  <2>4. CASE legacy BY <2>4 DEF FileSays
  <2> QED BY <2>1, <2>2, <2>3, <2>4
<1>5. WithArguments' BY DEF WithArguments, Looping
<1> QED BY <1>1, <1>2, <1>3, <1>4, <1>5 DEF RunInv

(* Startup: what is taken from the file is what it says. *)
LEMMA RunStart == LifeInv /\ RunInv /\ (LoadWeights \/ LegacyArguments \/ SelectPool \/ LoadAll \/ StartSource
                                        \/ BuildRouter \/ StartInput \/ InitDevice \/ StartMetrics) => RunInv'
<1> SUFFICES ASSUME LifeInv, RunInv,
                    LoadWeights \/ LegacyArguments \/ SelectPool \/ LoadAll \/ StartSource
                      \/ BuildRouter \/ StartInput \/ InitDevice \/ StartMetrics
             PROVE  RunInv'
  OBVIOUS
<1> USE DEF configVars, ledgerVars, startVars, objectVars, threadVars
<1>t. Terminates \/ Exits => RunInv' BY EndsWays, RunEnds DEF Over
<1>1. CASE LoadWeights
  <2>1. CASE ~Throws(file)
    <3>1. /\ UNCHANGED <<file, edits, legacy, pools, idx, thread, stop>> /\ pc = "begin"
          /\ pc' = (IF legacy THEN "arguments" ELSE "select") /\ weights' = DOMAIN loadFromJsonFile(file).pools
      BY <1>1, <2>1 DEF LoadWeights, Read
    <3>2. NotStopped' /\ Started' BY <3>1 DEF RunInv, NotStopped, Started, Running, Starting
    <3>3. AllStarted' /\ WithArguments' BY <3>1 DEF AllStarted, WithArguments, Looping
    <3>4. FileSays' BY <3>1 DEF FileSays, Looping
    <3> QED BY <3>1, <3>2, <3>3, <3>4 DEF RunInv
  <2> QED BY <1>1, <1>t, <2>1 DEF LoadWeights, Read
<1>2. CASE LegacyArguments
  <2>1. CASE pc' = "all" /\ UNCHANGED <<configVars, ledgerVars, startVars, objectVars, threadVars>>
    <3>1. UNCHANGED <<file, edits, legacy, weights, pools, idx, thread, stop>> /\ pc = "arguments" /\ pc' = "all" /\ legacy
      BY <1>2, <2>1 DEF LegacyArguments, RunInv, WithArguments
    <3> QED BY <3>1, RunPhase
  <2> QED BY <1>2, <1>t, <2>1 DEF LegacyArguments
<1>3. CASE SelectPool
  <2> DEFINE all == loadFromJsonFile(file).pools
  <2>1. CASE /\ pc' = "all" /\ UNCHANGED <<configVars, ledgerVars, startVars, objectVars, threadVars>>
             /\ \E sel \in DOMAIN all : ~Refused(all[sel])
    <3>1. /\ UNCHANGED <<file, edits, legacy, weights, pools, idx, thread, stop>> /\ pc = "select" /\ pc' = "all"
          /\ \E i \in DOMAIN all : all[i] # "bare"
      BY <1>3, <2>1 DEF SelectPool, Refused
    <3>2. NotStopped' /\ Started' BY <3>1 DEF RunInv, NotStopped, Started, Running, Starting
    <3>3. AllStarted' /\ WithArguments' BY <3>1 DEF AllStarted, WithArguments, Looping
    <3>4. FileSays' BY <3>1 DEF RunInv, FileSays, Looping
    <3> QED BY <3>1, <3>2, <3>3, <3>4 DEF RunInv
  <2>2. \/ Terminates \/ Exits
        \/ /\ pc' = "all" /\ UNCHANGED <<configVars, ledgerVars, startVars, objectVars, threadVars>>
           /\ \E sel \in DOMAIN all : ~Refused(all[sel])
    BY <1>3 DEF SelectPool, Read
  <2> QED BY <1>t, <2>1, <2>2
<1>4. CASE LoadAll
  <2>1. CASE ~Throws(file)
    <3>1. /\ pools' = loadFromJsonFile(file).pools /\ idx' = 1 /\ pc = "all"
          /\ UNCHANGED <<file, edits, legacy, weights, thread, stop>>
          /\ pc' = IF legacy THEN "input" ELSE "sources"
      BY <1>4, <2>1 DEF LoadAll, Read
    <3>2. NotStopped' BY <3>1 DEF RunInv, NotStopped, Running, Starting
    <3>3. thread[Gbt] = "none" /\ \A i \in 1..MaxPools : thread[Stratum(i)] = "none"
      <4>1. Len(frame) = 0 BY <3>1 DEF LifeInv, Built, Bare
      <4>2. runners = <<>> /\ ~Live(Gbt) BY <4>1 DEF LifeInv, Owners
      <4>3. \A i \in 1..MaxPools : ~Live(Stratum(i)) BY <4>2 DEF LifeInv, Owners, Range
      <4>4. thread[Gbt] # "ended" /\ \A i \in 1..MaxPools : thread[Stratum(i)] # "ended"
        BY <3>1, Names DEF RunInv, NotStopped, Running, Starting
      <4> QED BY <4>2, <4>3, <4>4 DEF Live, Idle
    <3>4. Started'
      <4>1. pools' \in Seq(PoolKinds) /\ DOMAIN pools' = 1..Len(pools') /\ Len(pools') \in Nat
        BY <3>1, LoadType DEF LifeInv, StartTypes
      <4>2. \A i \in 1..MaxPools : ~(i < idx') BY <3>1, LifecycleAssumption
      <4>3. \A i \in DOMAIN pools' : ~(i < idx') BY <3>1, <4>1
      <4> QED BY <3>1, <3>3, <4>2, <4>3 DEF Started
    <3>5. AllStarted' /\ WithArguments' BY <3>1 DEF AllStarted, WithArguments, Looping
    <3>6. FileSays' BY <3>1 DEF RunInv, FileSays, Looping
    <3> QED BY <3>1, <3>2, <3>4, <3>5, <3>6 DEF RunInv
  <2> QED BY <1>4, <1>t, <2>1 DEF LoadAll, Read
<1>5. CASE StartSource
  <2>0. /\ pc = "sources" /\ pc' = pc /\ idx' = idx + 1 /\ UNCHANGED <<file, edits, legacy, weights, pools>>
        /\ idx \in DOMAIN pools /\ idx \in 1..MaxPools /\ DOMAIN pools \subseteq Nat /\ pc \in Running
    BY <1>5, LifecycleAssumption DEF StartSource, LifeInv, StartTypes, Running, Starting
  <2>1. AllStarted' /\ WithArguments' /\ edits' \in Nat BY <2>0 DEF RunInv, AllStarted, WithArguments, Looping
  <2>2. FileSays' BY <2>0 DEF RunInv, FileSays, Looping
  <2>3. \A i \in DOMAIN pools : i < idx' <=> i < idx \/ i = idx BY <2>0
  <2>4. /\ \A i \in 1..MaxPools : thread[Stratum(i)] # "none" <=> i < idx /\ i \in DOMAIN pools /\ pools[i] = "stratum"
        /\ thread[Gbt] # "none" <=> \E i \in DOMAIN pools : i < idx /\ pools[i] = "gbt"
    BY <2>0 DEF RunInv, Started
  <2>5. thread \in [Threads -> States] /\ stop \in [Threads -> BOOLEAN] BY DEF LifeInv, ThreadTypes
  <2>6. \A t \in Threads \ {Server, Stdin} : ~stop[t] /\ thread[t] # "ended" BY <2>0 DEF RunInv, NotStopped
  <2>7. CASE pools[idx] = "gbt"
    <3>1. (thread[Gbt] = "none" /\ Starts(Gbt)) \/ (thread[Gbt] # "none" /\ UNCHANGED <<thread, stop>>)
      BY <1>5, <2>7 DEF StartSource
    <3>2. thread'[Gbt] # "none" /\ \A t \in Threads : t # Gbt => thread'[t] = thread[t]
      BY <2>5, <3>1, Names DEF Starts
    <3>3. \A t \in Threads \ {Server, Stdin} : ~stop'[t] /\ thread'[t] # "ended"
      BY <2>5, <2>6, <3>1, Names DEF Starts
    <3>4. \A i \in 1..MaxPools : thread'[Stratum(i)] = thread[Stratum(i)] BY <3>2, Names
    <3>5. \A i \in 1..MaxPools : thread'[Stratum(i)] # "none" <=> i < idx' /\ i \in DOMAIN pools /\ pools[i] = "stratum"
      BY <2>3, <2>4, <2>7, <3>4
    <3>6. \E i \in DOMAIN pools : i < idx' /\ pools[i] = "gbt" BY <2>0, <2>3, <2>7
    <3>7. Started' BY <2>0, <3>2, <3>5, <3>6 DEF Started
    <3>8. NotStopped' BY <3>3 DEF NotStopped
    <3> QED BY <2>1, <2>2, <3>7, <3>8 DEF RunInv
  <2>8. CASE pools[idx] = "stratum"
    <3>1. Starts(Stratum(idx)) /\ Stratum(idx) \in Threads /\ Stratum(idx) # Server /\ Stratum(idx) # Gbt
      BY <1>5, <2>0, <2>8, Names DEF StartSource
    <3>2. thread'[Stratum(idx)] = "top" /\ \A t \in Threads : t # Stratum(idx) => thread'[t] = thread[t]
      BY <2>5, <3>1 DEF Starts
    <3>3. \A t \in Threads \ {Server, Stdin} : ~stop'[t] /\ thread'[t] # "ended"
      BY <2>5, <2>6, <3>1 DEF Starts
    <3>4. \A i \in 1..MaxPools : i # idx => thread'[Stratum(i)] = thread[Stratum(i)] BY <3>2, Names
    <3>5. \A i \in 1..MaxPools : thread'[Stratum(i)] # "none" <=> i < idx' /\ i \in DOMAIN pools /\ pools[i] = "stratum"
      <4> SUFFICES ASSUME NEW i \in 1..MaxPools
                   PROVE thread'[Stratum(i)] # "none" <=> i < idx' /\ i \in DOMAIN pools /\ pools[i] = "stratum"
        OBVIOUS
      <4>1. CASE i = idx BY <2>0, <2>3, <2>8, <3>2, <4>1
      <4>2. CASE i # idx BY <2>3, <2>4, <3>4, <4>2
      <4> QED BY <4>1, <4>2
    <3>6. thread'[Gbt] = thread[Gbt] BY <3>1, <3>2, Names
    <3>7. (\E i \in DOMAIN pools : i < idx' /\ pools[i] = "gbt") <=> \E i \in DOMAIN pools : i < idx /\ pools[i] = "gbt"
      BY <2>3, <2>8
    <3>8. Started' BY <2>0, <2>4, <3>5, <3>6, <3>7 DEF Started
    <3>9. NotStopped' BY <3>3 DEF NotStopped
    <3> QED BY <2>1, <2>2, <3>8, <3>9 DEF RunInv
  <2>9. CASE pools[idx] = "bare"
    <3>1. UNCHANGED <<thread, stop>> BY <1>5, <2>9 DEF StartSource
    <3>2. \A i \in 1..MaxPools : thread[Stratum(i)] # "none" <=> i < idx' /\ i \in DOMAIN pools /\ pools[i] = "stratum"
      BY <2>3, <2>4, <2>9
    <3>3. (\E i \in DOMAIN pools : i < idx' /\ pools[i] = "gbt") <=> \E i \in DOMAIN pools : i < idx /\ pools[i] = "gbt"
      BY <2>3, <2>9
    <3>4. Started' BY <2>0, <2>4, <3>1, <3>2, <3>3 DEF Started
    <3>5. NotStopped' BY <2>6, <3>1 DEF NotStopped
    <3> QED BY <2>1, <2>2, <3>4, <3>5 DEF RunInv
  <2> QED BY <1>5, <2>7, <2>8, <2>9 DEF StartSource
<1>6. CASE BuildRouter
  <2>1. /\ UNCHANGED <<file, edits, legacy, weights, pools, idx, thread, stop>> /\ pc = "sources" /\ pc' = "input"
        /\ idx > Len(pools)
    BY <1>6 DEF BuildRouter
  <2>2. \A i \in DOMAIN pools : i < idx BY <2>1 DEF LifeInv, StartTypes
  <2> QED BY <2>1, <2>2, RunPhase
<1>7. CASE StartInput
  <2>1. /\ UNCHANGED <<file, edits, legacy, weights, pools, idx>> /\ pc = "input" /\ pc' = "device" /\ Starts(Stdin)
    BY <1>7 DEF StartInput
  <2>2. \A t \in Threads : t # Stdin => thread'[t] = thread[t] /\ stop'[t] = stop[t]
    BY <2>1 DEF Starts, LifeInv, ThreadTypes
  <2>3. NotStopped' BY <2>1, <2>2 DEF RunInv, NotStopped, Running, Starting
  <2>4. thread'[Gbt] = thread[Gbt] /\ \A i \in 1..MaxPools : thread'[Stratum(i)] = thread[Stratum(i)] BY <2>2, Names
  <2>5. Started' BY <2>1, <2>4 DEF RunInv, Started, Running, Starting
  <2>6. AllStarted' /\ WithArguments' BY <2>1 DEF RunInv, AllStarted, WithArguments
  <2>7. FileSays' BY <2>1 DEF RunInv, FileSays, Looping
  <2> QED BY <2>1, <2>3, <2>5, <2>6, <2>7 DEF RunInv
<1>8. CASE InitDevice
  <2>1. CASE ~Throws(file)
    <3>1. UNCHANGED <<file, edits, legacy, weights, pools, idx, thread, stop>> /\ pc = "device" /\ pc' = "metrics"
      BY <1>8, <2>1 DEF InitDevice, Read
    <3> QED BY <3>1, RunPhase
  <2> QED BY <1>8, <1>t, <2>1 DEF InitDevice, Read
<1>9. CASE StartMetrics
  <2>1. CASE ~Throws(file)
    <3>1. /\ UNCHANGED <<file, edits, legacy, weights, pools, idx>> /\ pc = "metrics" /\ pc' = "loop"
          /\ IF loadFromJsonFile(file).http THEN Starts(Server) ELSE UNCHANGED <<thread, stop>>
      BY <1>9, <2>1 DEF StartMetrics, Read
    <3>2. \A t \in Threads : t # Server => thread'[t] = thread[t] /\ stop'[t] = stop[t]
      BY <3>1 DEF Starts, LifeInv, ThreadTypes
    <3>3. NotStopped' BY <3>1, <3>2 DEF RunInv, NotStopped, Running, Starting, Looping
    <3>4. thread'[Gbt] = thread[Gbt] /\ \A i \in 1..MaxPools : thread'[Stratum(i)] = thread[Stratum(i)] BY <3>2, Names
    <3>5. Started' BY <3>1, <3>4 DEF RunInv, Started, Running, Starting, Looping
    <3>6. AllStarted' /\ WithArguments' BY <3>1 DEF RunInv, AllStarted, WithArguments
    <3>7. ~Live(Server)
      <4>1. Len(frame) = 5 BY <3>1 DEF LifeInv, Built
      <4> QED BY <4>1 DEF LifeInv, Owners
    <3>8. Live(Server)' => loadFromJsonFile(file).http BY <3>1, <3>7 DEF Live
    <3>9. FileSays' BY <3>1, <3>8 DEF RunInv, FileSays, Looping
    <3> QED BY <3>1, <3>3, <3>5, <3>6, <3>9 DEF RunInv
  <2> QED BY <1>9, <1>t, <2>1 DEF StartMetrics, Read
<1> QED BY <1>1, <1>2, <1>3, <1>4, <1>5, <1>6, <1>7, <1>8, <1>9

(* Every step keeps it. *)
LEMMA RunStep == LifeInv /\ RunInv /\ [Next]_vars => RunInv'
<1> SUFFICES ASSUME LifeInv, RunInv, [Next]_vars PROVE RunInv' OBVIOUS
<1> USE DEF configVars, ledgerVars, startVars, objectVars, threadVars
<1>0. thread \in [Threads -> States] /\ stop \in [Threads -> BOOLEAN] BY DEF LifeInv, ThreadTypes
<1>1. CASE LoadWeights \/ LegacyArguments \/ SelectPool \/ LoadAll \/ StartSource
           \/ BuildRouter \/ StartInput \/ InitDevice \/ StartMetrics
  BY <1>1, RunStart
<1>2. CASE LoopTest \/ Snapshot \/ saveToFile \/ ReadConsole \/ JoinOne
  <2>1. /\ UNCHANGED <<file, edits, legacy, weights, pools, idx, thread, stop>>
        /\ (pc \in Looping /\ pc' \in Looping) \/ pc' \in {"stopping", "unwind"}
    BY <1>2 DEF LoopTest, Snapshot, saveToFile, ReadConsole, JoinOne, Looping
  <2> QED BY <2>1, RunPhase
<1>3. CASE StopOne \/ DestructorStops \/ Destroy
  <2>1. UNCHANGED <<file, edits, legacy, weights, pools, idx>> /\ pc' \in {"joining", "unwind"}
    BY <1>3 DEF StopOne, DestructorStops, Destroy
  <2>2. pc' \notin Running BY <2>1 DEF Running, Starting, Looping, Over
  <2>3. NotStopped' /\ Started' BY <2>2 DEF NotStopped, Started
  <2>4. AllStarted' /\ FileSays' /\ WithArguments' BY <2>1 DEF AllStarted, FileSays, WithArguments, Looping
  <2> QED BY <2>1, <2>3, <2>4 DEF RunInv
<1>4. CASE ReturnZero \/ HandlerThrows BY <1>4, EndsWays, RunEnds DEF ReturnZero, HandlerThrows, Over
<1>5. CASE EditConfig
  <2>1. UNCHANGED <<legacy, weights, pools, idx, pc, thread, stop>> /\ edits' = edits + 1 BY <1>5 DEF EditConfig
  <2>2. edits' \in Nat /\ edits' # 0 BY <2>1 DEF RunInv
  <2>3. NotStopped' /\ Started' /\ AllStarted' /\ WithArguments'
    BY <2>1 DEF RunInv, NotStopped, Started, AllStarted, WithArguments
  <2>4. FileSays' BY <2>2 DEF FileSays
  <2> QED BY <2>2, <2>3, <2>4 DEF RunInv
<1>6. ASSUME UNCHANGED <<file, edits, legacy, weights, pools, idx, pc, thread, stop>> PROVE RunInv'
  BY <1>6 DEF RunInv, NotStopped, Started, AllStarted, FileSays, WithArguments, Live
<1>7. CASE on_sigint
  <2>1. Terminates \/ UNCHANGED <<file, edits, legacy, weights, pools, idx, pc, thread, stop>>
    BY <1>7 DEF on_sigint
  <2> QED BY <1>6, <2>1, EndsWays, RunEnds DEF Over
<1>8. CASE Bind \/ StdinCloses
  <2>1. UNCHANGED <<file, edits, legacy, weights, pools, idx, pc>> BY <1>8 DEF Bind, StdinCloses, others
  <2>2. \A t \in Threads \ {Server, Stdin} : thread'[t] = thread[t] /\ stop'[t] = stop[t]
    BY <1>0, <1>8 DEF Bind, StdinCloses, Goes, Stops
  <2>3. Live(Server)' => Live(Server) BY <1>0, <1>8, Names DEF Bind, StdinCloses, Goes, Live, Idle
  <2>4. \A t \in Threads \ {Server, Stdin} : pc \in Running => ~stop[t] /\ thread[t] # "ended"
    BY DEF RunInv, NotStopped
  <2> QED BY <2>1, <2>2, <2>3, <2>4, RunThreads
<1>9. ASSUME NEW t \in Threads, Test(t) \/ Returns(t) PROVE RunInv'
  <2>1. UNCHANGED <<file, edits, legacy, weights, pools, idx, pc, stop>> BY <1>9 DEF Test, Returns, others
  <2>2. \A u \in Threads \ {Server, Stdin} : pc \in Running => ~stop[u] /\ thread[u] # "ended"
    BY DEF RunInv, NotStopped
  <2>3. thread[t] \in {"top", "blocked"} /\ \A u \in Threads : u # t => thread'[u] = thread[u]
    BY <1>0, <1>9 DEF Test, Returns, Goes
  <2>4. t \notin {Server, Stdin} /\ pc \in Running => thread'[t] \in {"top", "blocked"}
    BY <1>0, <1>9, <2>2 DEF Test, Returns, Goes, StopSeen
  <2>5. \A u \in Threads \ {Server, Stdin} :
          pc \in Running => /\ ~stop'[u] /\ thread'[u] # "ended"
                            /\ thread'[u] = "none" <=> thread[u] = "none"
    BY <2>1, <2>2, <2>3, <2>4
  <2>6. Live(Server)' => Live(Server) BY <2>3, Names DEF Live, Idle
  <2> QED BY <2>1, <2>5, <2>6, RunThreads
<1>10. CASE Restart
  <2>1. UNCHANGED <<file, edits, weights, pools, idx, thread, stop>> /\ pc \in Over /\ pc' = "begin"
    BY <1>10 DEF Restart
  <2>2. NotStopped' /\ Started' BY <2>1 DEF RunInv, NotStopped, Started, Running
  <2>3. AllStarted' /\ FileSays' /\ WithArguments' BY <2>1 DEF AllStarted, FileSays, WithArguments, Looping
  <2> QED BY <2>1, <2>2, <2>3 DEF RunInv
<1>11. CASE UNCHANGED vars BY <1>6, <1>11 DEF vars
<1>12. CASE Main BY <1>1, <1>2, <1>3, <1>4, <1>12 DEF Main
<1> QED BY <1>4, <1>5, <1>7, <1>8, <1>9, <1>10, <1>11, <1>12 DEF Next

(* RunInv holds always. *)
LEMMA RunAlways == Spec => []RunInv
<1>1. Init => RunInv
  <2> SUFFICES ASSUME Init PROVE RunInv OBVIOUS
  <2>1. NotStopped BY DEF Init, NotStopped
  <2>2. DOMAIN pools = {} BY DEF Init
  <2>3. Started BY <2>2, Names DEF Init, Started
  <2>4. AllStarted /\ FileSays /\ WithArguments BY DEF Init, AllStarted, FileSays, WithArguments, Looping
  <2> QED BY <2>1, <2>3, <2>4 DEF Init, RunInv
<1> QED BY <1>1, LifeAlways, RunStep, PTL DEF Spec

(* The loop runs with the sources, the weights and the server of one file,  *)
(* and with at least one source, whatever the pools of the file, if nobody  *)
(* edited it between the five reads.                                        *)
THEOREM LifecycleRunsFile == Spec => []RunsWhatTheFileSays
<1>1. LifeInv /\ RunInv => RunsWhatTheFileSays
  <2> SUFFICES ASSUME LifeInv, RunInv, pc \in Looping, ~legacy, edits = 0
               PROVE  /\ Sources = Wanted(pools) /\ Sources # {}
                      /\ pools = loadFromJsonFile(file).pools /\ weights = DOMAIN pools
                      /\ Live(Server) => loadFromJsonFile(file).http
    BY DEF RunsWhatTheFileSays
  <2>1. /\ pools = loadFromJsonFile(file).pools /\ weights = DOMAIN pools
        /\ Live(Server) => loadFromJsonFile(file).http
        /\ \E i \in DOMAIN pools : pools[i] # "bare"
    BY DEF RunInv, FileSays
  <2>2. /\ pools \in Seq(PoolKinds) /\ DOMAIN pools = 1..Len(pools) /\ Len(pools) \in Nat /\ Len(pools) <= MaxPools
        /\ \A i \in DOMAIN pools : pools[i] \in PoolKinds
    BY DEF LifeInv, StartTypes
  <2>3. DOMAIN pools \subseteq 1..MaxPools BY <2>2, LifecycleAssumption
  <2>4. \A i \in DOMAIN pools : i < idx BY DEF RunInv, AllStarted
  <2>5. pc \in Running BY DEF Running
  <2>6. /\ \A i \in 1..MaxPools : Live(Stratum(i)) <=> i \in DOMAIN pools /\ pools[i] = "stratum"
        /\ Live(Gbt) <=> \E i \in DOMAIN pools : pools[i] = "gbt"
    <3>1. \A t \in Threads \ {Server, Stdin} : Live(t) <=> thread[t] # "none"
      BY <2>5 DEF RunInv, NotStopped, Live, Idle
    <3>2. \A i \in 1..MaxPools : Live(Stratum(i)) <=> thread[Stratum(i)] # "none" BY <3>1, Names
    <3>3. Live(Gbt) <=> thread[Gbt] # "none" BY <3>1, Names
    <3> QED BY <2>4, <2>5, <3>2, <3>3 DEF RunInv, Started
  <2>7. ASSUME NEW t \in Sources PROVE t \in Wanted(pools)
    <3>1. t \in Threads /\ Live(t) /\ t # Server /\ t # Stdin BY DEF Sources
    <3>2. CASE t = Gbt
      <4>1. "gbt" \in Range(pools) BY <2>6, <3>1, <3>2 DEF Range
      <4> QED BY <3>2, <4>1 DEF Wanted
    <3>3. ASSUME NEW i \in 1..MaxPools, t = Stratum(i) PROVE t \in Wanted(pools)
      BY <2>6, <3>1, <3>3 DEF Wanted
    <3> QED BY <3>1, <3>2, <3>3, Names
  <2>8. ASSUME NEW t \in Wanted(pools) PROVE t \in Sources
    <3>1. ASSUME NEW i \in DOMAIN pools, pools[i] = "stratum", t = Stratum(i) PROVE t \in Sources
      BY <2>3, <2>6, <3>1, Names DEF Sources
    <3>2. ASSUME "gbt" \in Range(pools), t = Gbt PROVE t \in Sources
      <4>1. \E i \in DOMAIN pools : pools[i] = "gbt" BY <3>2 DEF Range
      <4> QED BY <2>6, <3>2, <4>1, Names DEF Sources
    <3> QED BY <3>1, <3>2 DEF Wanted
  <2>9. Sources # {}
    <3>1. PICK i \in DOMAIN pools : pools[i] # "bare" BY <2>1
    <3>2. pools[i] = "stratum" \/ pools[i] = "gbt" BY <2>2, <3>1 DEF PoolKinds
    <3>3. CASE pools[i] = "stratum"
      <4>1. Stratum(i) \in Sources BY <2>3, <2>6, <3>3, Names DEF Sources
      <4> QED BY <4>1
    <3>4. CASE pools[i] = "gbt"
      <4>1. Gbt \in Sources BY <2>6, <3>4, Names DEF Sources
      <4> QED BY <4>1
    <3> QED BY <3>2, <3>3, <3>4
  <2> QED BY <2>1, <2>7, <2>8, <2>9
<1> QED BY <1>1, LifeAlways, RunAlways, PTL
=============================================================================
