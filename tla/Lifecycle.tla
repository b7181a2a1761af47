----------------------------- MODULE Lifecycle -----------------------------
(***************************************************************************)
(* The life of one stratum_registry_runner process, and of the next one:   *)
(* main reads config/pools.json at five places, builds its objects, starts *)
(* one thread per stratum pool, one for GBT, one for the metrics server    *)
(* and a detached one for stdin, loops until SIGINT, stops one runner and  *)
(* leaves the others to the destructors (src/src/tools/                    *)
(* stratum_registry_runner.cpp, src/src/config/config.cc,                  *)
(* src/src/obs/metrics.cc, start and stop of the two runners).  The ledger *)
(* that the loop writes is here too (src/src/store/ledger.h), because what *)
(* interrupts its writing is another thread that ends the process.         *)
(*                                                                         *)
(* What a thread does between two tests of its flag is one blocking call   *)
(* and then the use of the objects it was given; StratumSession and        *)
(* GbtSource have the detail.  The accepted callback, which would reach    *)
(* submit_router and outbox, is left out: the runner calls it only when    *)
(* last_submit_sent_ was set, and nothing sets it.                         *)
(***************************************************************************)
EXTENDS Naturals, Sequences, FiniteSets, SequencesExt

CONSTANTS Files,        \* contents config/pools.json can have
          MaxPools,     \* bound: pools in one file
          MaxEdits,     \* bound: edits of the file while processes start
          MaxRestarts,  \* bound: processes after the first
          MaxTyped,     \* bound: lines typed on stdin and not yet handled
          Jobs,         \* work ids the registry can hold
          MaxLedger,    \* ledger.max_bytes, counted in lines
          Stuck         \* threads whose blocking call may never return

VARIABLES
  (* the file system *)
  file, edits,
  ledgerFile,  \* [there, whole: ids of complete lines, cut: ids of cut lines]
  archived,    \* ids in ledger backups
  (* main *)
  pc,
  legacy,      \* started with command line arguments
  weights,     \* pools that scheduler.source_weight knows
  pools,       \* cfg_all.pools
  idx,         \* the pool whose source is started next
  frame,       \* the locals that threads use, in the order of their construction
  runners,     \* the pools whose StratumRunner strat_runners still owns
  work_map_,   \* the ledger in memory
  lives,
  (* threads *)
  thread, stop, g_stop,
  typed        \* lines in input_queue

configVars == <<file, edits>>
ledgerVars == <<ledgerFile, archived, work_map_>>
startVars == <<legacy, weights, pools, idx, lives>>
objectVars == <<frame, runners>>
threadVars == <<thread, stop, g_stop, typed>>
vars == <<configVars, ledgerVars, startVars, objectVars, threadVars, pc>>

PoolKinds == {"stratum", "bare", "gbt"}   \* bare: a stratum pool without endpoints

Forms == {"valid", "mistyped", "unparsable", "missing"}

ASSUME LifecycleAssumption ==
  /\ \A f \in Files : /\ f.form \in Forms /\ f.http \in BOOLEAN
                      /\ f.pools \in Seq(PoolKinds) /\ Len(f.pools) <= MaxPools
  /\ MaxPools \in Nat /\ MaxEdits \in Nat /\ MaxRestarts \in Nat /\ MaxTyped \in Nat
  /\ MaxLedger \in Nat \ {0}

Stratum(i) == <<"stratum", i>>

Gbt == <<"gbt", 0>>

Server == <<"metrics", 0>>

Stdin == <<"stdin", 0>>

Threads == {Stratum(i) : i \in 1 .. MaxPools} \union {Gbt, Server, Stdin}

Idle == {"none", "ended"}

Over == {"exited", "terminated"}

Starting == {"begin", "arguments", "select", "all", "sources", "input", "device", "metrics"}

Looping == {"loop", "snapshot", "saving", "console"}

------------------------------------------------------------------------------
(* config/config.cc *)

Defaults == [pools |-> <<>>, http |-> FALSE]

\* loadFromJsonFile: a file that is not there or does not parse is the same as
\* an empty one.  A value of the wrong type throws; main catches nothing.
Throws(f) == f.form = "mistyped"

loadFromJsonFile(f) ==
  IF f.form \in {"missing", "unparsable"} THEN Defaults
  ELSE [pools |-> f.pools, http |-> f.http]

\* Somebody edits the file.  The loop never reads it, so only edits during
\* startup matter.
EditConfig ==
  /\ pc \in Starting /\ edits < MaxEdits
  /\ \E f \in Files \ {file} : file' = f
  /\ edits' = edits + 1
  /\ UNCHANGED <<ledgerVars, startVars, objectVars, threadVars, pc>>

------------------------------------------------------------------------------
(* the end of the process, however it comes: what it held in memory is gone *)

Ends(how) ==
  /\ pc' = how
  /\ weights' = {} /\ pools' = <<>> /\ idx' = 1
  /\ frame' = <<>> /\ runners' = <<>>
  /\ thread' = [t \in Threads |-> "none"] /\ stop' = [t \in Threads |-> FALSE]
  /\ g_stop' = FALSE /\ typed' = 0
  /\ work_map_' = {}
  /\ UNCHANGED <<configVars, legacy, lives, archived>>

Terminates == Ends("terminated") /\ UNCHANGED ledgerFile

Exits == Ends("exited") /\ UNCHANGED ledgerFile

\* std::ofstream::trunc, then a line per work item in the map's order: some of
\* the lines, or all of them, and possibly one more that is cut.
Written ==
  {f \in [there : {TRUE}, whole : SUBSET work_map_, cut : SUBSET work_map_] :
     f.whole \cap f.cut = {} /\ Cardinality(f.cut) <= 1}

EndsWhileSaving == Ends("terminated") /\ ledgerFile' \in Written

Abort == IF pc = "saving" THEN EndsWhileSaving ELSE Terminates

------------------------------------------------------------------------------
(* main: startup *)

Read(next) ==
  IF Throws(file) THEN Terminates
  ELSE next

\* lines 55-66: the weights, by pool index, then the signal handler.
LoadWeights ==
  /\ pc = "begin"
  /\ Read(/\ weights' = DOMAIN loadFromJsonFile(file).pools
          /\ pc' = IF legacy THEN "arguments" ELSE "select"
          /\ UNCHANGED <<configVars, ledgerVars, legacy, pools, idx, lives, objectVars, threadVars>>)

\* lines 74-98: a host:port without a colon ends the process, a port that is
\* not a number throws.
LegacyArguments ==
  /\ pc = "arguments"
  /\ \/ Exits
     \/ Terminates
     \/ pc' = "all" /\ UNCHANGED <<configVars, ledgerVars, startVars, objectVars, threadVars>>

\* Fault: a pool without endpoints is not refused.
NotRefused(kind) == FALSE

Refused(kind) == kind = "bare"

\* lines 101-147: BMAD_POOL or the first pool is selected, only to refuse to
\* start without pools or endpoints.
SelectPool ==
  /\ pc = "select"
  /\ Read(LET all == loadFromJsonFile(file).pools IN
          IF all = <<>> THEN Exits
          ELSE \E sel \in DOMAIN all :
                 IF Refused(all[sel]) THEN Exits
                 ELSE pc' = "all" /\ UNCHANGED <<configVars, ledgerVars, startVars, objectVars, threadVars>>)

\* Fault: the adapters are declared after the runners that use them.
AdaptersLast == <<"strat_runners", "strat_adapters", "gbt_adapter", "gbt_runner">>

\* In the order of the declarations, the reverse of the order of destruction;
\* the locals that only main uses are left out.
Locals == <<"strat_adapters", "strat_runners", "gbt_adapter", "gbt_runner">>

\* lines 149-166: the configuration everything else is built from.
LoadAll ==
  /\ pc = "all"
  /\ Read(/\ pools' = loadFromJsonFile(file).pools
          /\ frame' = Locals
          /\ idx' = 1
          /\ pc' = IF legacy THEN "input" ELSE "sources"
          /\ UNCHANGED <<configVars, ledgerVars, legacy, weights, lives, runners, threadVars>>)

\* start(): the server binds its port before its loop.
Starts(t) ==
  /\ thread' = [thread EXCEPT ![t] = IF t = Server THEN "bind" ELSE "top"]
  /\ stop' = [stop EXCEPT ![t] = FALSE]

\* lines 208-258, one pool.  Pools that share the GBT runner share its thread.
StartSource ==
  /\ pc = "sources" /\ idx <= Len(pools)
  /\ idx' = idx + 1
  /\ \/ /\ pools[idx] = "gbt"
        /\ IF thread[Gbt] = "none" THEN Starts(Gbt) ELSE UNCHANGED <<thread, stop>>
        /\ UNCHANGED runners
     \/ /\ pools[idx] = "stratum"
        /\ Starts(Stratum(idx))
        /\ runners' = Append(runners, idx)
     \/ /\ pools[idx] = "bare"
        /\ UNCHANGED <<thread, stop, runners>>
  /\ UNCHANGED <<configVars, ledgerVars, legacy, weights, pools, lives, frame, g_stop, typed, pc>>

\* lines 261-281: submit_router is assigned and what the outbox held replayed
\* (SubmitPipeline).
BuildRouter ==
  /\ pc = "sources" /\ idx > Len(pools)
  /\ pc' = "input"
  /\ UNCHANGED <<configVars, ledgerVars, startVars, objectVars, threadVars>>

\* lines 310-325: the queue, its mutex, and a thread nobody joins.
StartInput ==
  /\ pc = "input"
  /\ frame' = Append(frame, "input")
  /\ Starts(Stdin)
  /\ pc' = "device"
  /\ UNCHANGED <<configVars, ledgerVars, startVars, runners, g_stop, typed>>

\* lines 327-331.
InitDevice ==
  /\ pc = "device"
  /\ Read(pc' = "metrics" /\ UNCHANGED <<configVars, ledgerVars, startVars, objectVars, threadVars>>)

\* lines 334-350.
StartMetrics ==
  /\ pc = "metrics"
  /\ Read(/\ frame' = frame \o <<"metrics", "metrics_http">>
          /\ IF loadFromJsonFile(file).http THEN Starts(Server) ELSE UNCHANGED <<thread, stop>>
          /\ pc' = "loop"
          /\ UNCHANGED <<configVars, ledgerVars, startVars, runners, g_stop, typed>>)

on_sigint ==
  /\ pc \notin Over /\ ~g_stop
  /\ IF pc = "begin" THEN Terminates
     ELSE g_stop' = TRUE /\ UNCHANGED <<configVars, ledgerVars, startVars, objectVars, thread, stop, typed, pc>>

------------------------------------------------------------------------------
(* main: the loop, without what the other modules have of it *)

\* line 386: the flag is tested once per round.
LoopTest ==
  /\ pc = "loop"
  /\ pc' = IF g_stop THEN "stopping" ELSE "snapshot"
  /\ UNCHANGED <<configVars, ledgerVars, startVars, objectVars, threadVars>>

Lines(f) == Cardinality(f.whole) + Cardinality(f.cut)

Empty == [there |-> TRUE, whole |-> {}, cut |-> {}]

NoFile == [there |-> FALSE, whole |-> {}, cut |-> {}]

\* rotate_ledger_if_needed: rename, else copy and truncate.  The copy can fail
\* too, and the file is emptied all the same.  A missing file cannot be renamed.
Rotated(file1, arch1) ==
  \/ ledgerFile.there /\ file1 = NoFile /\ arch1 = archived \union ledgerFile.whole
  \/ ledgerFile.there /\ file1 = Empty /\ arch1 = archived \union ledgerFile.whole
  \/ file1 = Empty /\ arch1 = archived

\* lines 651-681: the active items go into the ledger, the file is rotated by
\* size or by time.  Without an active job (there is none without a source), or
\* within 5 s of the last snapshot, nothing happens.
Snapshot ==
  /\ pc = "snapshot"
  /\ \/ /\ pc' = "console" /\ UNCHANGED ledgerVars
     \/ /\ runners # <<>> \/ thread[Gbt] # "none"
        /\ \E active \in SUBSET Jobs \ {{}} : work_map_' = work_map_ \union active
        /\ \/ Rotated(ledgerFile', archived')
           \/ Lines(ledgerFile) < MaxLedger /\ UNCHANGED <<ledgerFile, archived>>
        /\ pc' = "saving"
  /\ UNCHANGED <<configVars, startVars, objectVars, threadVars>>

\* ledger.saveToFile: false if the file cannot be opened.  Otherwise true, which
\* main does not look at, however much of it a full disk took: a stream that has
\* failed drops every later line.
saveToFile ==
  /\ pc = "saving"
  /\ ledgerFile' \in Written \cup {ledgerFile}
  /\ pc' = "console"
  /\ UNCHANGED <<configVars, startVars, objectVars, threadVars, archived, work_map_>>

\* lines 683-733: at most one typed line per round; then the metrics dump.
ReadConsole ==
  /\ pc = "console"
  /\ typed' = IF typed > 0 THEN typed - 1 ELSE typed
  /\ pc' = "loop"
  /\ UNCHANGED <<configVars, ledgerVars, startVars, objectVars, thread, stop, g_stop>>

------------------------------------------------------------------------------
(* main: the way out *)

Stops(t) == stop' = [stop EXCEPT ![t] = TRUE]

Joined(t) == thread[t] \in Idle

\* use_gbt, or the runner of strat_runners.front(): at most one is stopped here.
Named == IF \E i \in DOMAIN pools : ~legacy /\ pools[i] = "gbt" THEN {Gbt}
         ELSE IF runners # <<>> THEN {Stratum(Head(runners))} ELSE {}

\* lines 797-799: stop() and join.
StopOne ==
  /\ pc = "stopping"
  /\ stop' = [t \in Threads |-> t \in Named \/ stop[t]]
  /\ pc' = "joining"
  /\ UNCHANGED <<configVars, ledgerVars, startVars, objectVars, thread, g_stop, typed>>

JoinOne ==
  /\ pc = "joining" /\ \A t \in Named : Joined(t)
  /\ pc' = "unwind"
  /\ UNCHANGED <<configVars, ledgerVars, startVars, objectVars, threadVars>>

\* The thread whose owner the destructors have reached.
Owned == IF frame = <<>> THEN {}
         ELSE CASE Last(frame) = "metrics_http" -> {Server}
                [] Last(frame) = "gbt_runner" -> {Gbt}
                [] Last(frame) = "strat_runners" /\ runners # <<>> -> {Stratum(Head(runners))}
                [] OTHER -> {}

\* ~StratumRunner, ~GbtRunner, ~MetricsHttpServer: stop(), then join.
DestructorStops ==
  /\ pc = "unwind"
  /\ \E t \in Owned : ~stop[t] /\ Stops(t)
  /\ UNCHANGED <<configVars, ledgerVars, startVars, objectVars, thread, g_stop, typed, pc>>

\* The last object constructed is destroyed; the elements of strat_runners go
\* first to last.
Destroy ==
  /\ pc = "unwind" /\ frame # <<>>
  /\ \A t \in Owned : stop[t] /\ Joined(t)
  /\ IF Last(frame) = "strat_runners" /\ runners # <<>>
     THEN runners' = Tail(runners) /\ UNCHANGED frame
     ELSE frame' = Front(frame) /\ UNCHANGED runners
  /\ UNCHANGED <<configVars, ledgerVars, startVars, threadVars, pc>>

ReturnZero ==
  /\ pc = "unwind" /\ frame = <<>>
  /\ Exits

------------------------------------------------------------------------------
(* the threads *)

Live(t) == thread[t] \notin Idle

Goes(t, s) == thread' = [thread EXCEPT ![t] = s]

others == <<configVars, ledgerVars, startVars, objectVars, g_stop, pc>>

\* Fault: the server's loop does not look at running_.
ServerIgnoresStop(t) == IF t = Stdin THEN g_stop ELSE t # Server /\ stop[t]

StopSeen(t) == IF t = Stdin THEN g_stop ELSE stop[t]

\* while (!stop_flag_), while (running_), while (!g_stop): then a call that
\* blocks: connect, recv or a sleep; the RPC; select, accept and recv; getline.
Test(t) ==
  /\ thread[t] = "top"
  /\ Goes(t, IF StopSeen(t) THEN "ended" ELSE "blocked")
  /\ UNCHANGED <<others, stop, typed>>

\* The call returns, with nothing (a timeout, a failed connect) or with
\* something for the objects the thread shares: an adapter is fed, the metrics
\* are read for a reply, a line is queued.
Returns(t) ==
  /\ thread[t] = "blocked"
  /\ Goes(t, "top")
  /\ IF t = Stdin THEN typed < MaxTyped /\ typed' = typed + 1 ELSE UNCHANGED typed
  /\ UNCHANGED <<others, stop>>

\* MetricsHttpServer::run: no socket or a port in use ends the thread.
Bind ==
  /\ thread[Server] = "bind"
  /\ \/ Goes(Server, "top") /\ UNCHANGED stop
     \/ Goes(Server, "ended") /\ Stops(Server)
  /\ UNCHANGED <<others, typed>>

StdinCloses ==
  /\ thread[Stdin] = "blocked"
  /\ Goes(Stdin, "ended")
  /\ UNCHANGED <<others, stop, typed>>

\* A line whose "method" is not a string throws in the runner thread.
HandlerThrows ==
  /\ \E i \in 1 .. MaxPools : thread[Stratum(i)] = "blocked"
  /\ Abort

------------------------------------------------------------------------------
Init ==
  /\ file \in Files /\ legacy \in BOOLEAN
  /\ weights = {} /\ pools = <<>> /\ idx = 1
  /\ frame = <<>> /\ runners = <<>> /\ work_map_ = {}
  /\ thread = [t \in Threads |-> "none"] /\ stop = [t \in Threads |-> FALSE]
  /\ g_stop = FALSE /\ typed = 0 /\ edits = 0 /\ pc = "begin"
  /\ ledgerFile = NoFile /\ archived = {} /\ lives = 0

\* The next process starts with an empty ledger: nothing loads the file.
Restart ==
  /\ pc \in Over /\ lives < MaxRestarts
  /\ lives' = lives + 1
  /\ legacy' \in BOOLEAN /\ pc' = "begin"
  /\ UNCHANGED <<configVars, ledgerVars, weights, pools, idx, objectVars, threadVars>>

Main == LoadWeights \/ LegacyArguments \/ SelectPool \/ LoadAll \/ StartSource \/ BuildRouter \/ StartInput
        \/ InitDevice \/ StartMetrics \/ LoopTest \/ Snapshot \/ saveToFile \/ ReadConsole
        \/ StopOne \/ JoinOne \/ DestructorStops \/ Destroy \/ ReturnZero

Next == \/ Main \/ EditConfig \/ on_sigint \/ Bind \/ StdinCloses \/ HandlerThrows \/ Restart
        \/ \E t \in Threads : Test(t) \/ Returns(t)

\* main and the threads are scheduled; a blocking call returns unless its
\* thread is in Stuck.
Fairness ==
  /\ WF_vars(Main) /\ WF_vars(Bind)
  /\ \A t \in Threads : WF_vars(Test(t))
  /\ \A t \in Threads \ Stuck : WF_vars(Returns(t))

Spec == Init /\ [][Next]_vars /\ Fairness

------------------------------------------------------------------------------
\* The objects a thread was given are still there.
Held(t) ==
  CASE t[1] = "stratum" -> t[2] \in Range(runners) /\ "strat_adapters" \in Range(frame)
    [] t = Gbt -> {"gbt_runner", "gbt_adapter"} \subseteq Range(frame)
    [] t = Server -> {"metrics_http", "metrics"} \subseteq Range(frame)
    [] t = Stdin -> "input" \in Range(frame)

\* No runner or server thread outlives an object it uses, although main stops
\* at most one of them by name and leaves the rest to the order of destruction
\* of its locals.
NoDanglingUse == \A t \in Threads \ {Stdin} : Live(t) => Held(t)

\* The same of the detached stdin thread, which pushes into input_queue.  It
\* does not hold: main does not wait for it.
StdinHeld == Live(Stdin) => Held(Stdin)

Wanted(all) == {Stratum(i) : i \in {j \in DOMAIN all : all[j] = "stratum"}}
               \union (IF "gbt" \in Range(all) THEN {Gbt} ELSE {})

Sources == {t \in Threads : Live(t) /\ t \notin {Server, Stdin}}

\* The loop runs with the sources, weights and server of one configuration, and
\* with at least one source, if nobody edited the file between the five reads.
RunsWhatTheFileSays ==
  (pc \in Looping /\ ~legacy /\ edits = 0) =>
    LET cfg == loadFromJsonFile(file) IN
    /\ Sources = Wanted(cfg.pools) /\ Sources # {}
    /\ weights = DOMAIN cfg.pools
    /\ Live(Server) => cfg.http

\* The same without that condition: it does not hold.
OneConfiguration ==
  (pc \in Looping /\ ~legacy) => weights = DOMAIN pools /\ Sources # {}

\* What the ledger or a backup once held, one of them keeps.  It does not hold:
\* a save that a full disk cuts short and the next process, which never loads
\* the file, both write over it.
LedgerPersistent ==
  [][archived \union ledgerFile.whole \subseteq (archived \union ledgerFile.whole)']_vars

\* SIGINT ends the process, unless something else did: every join of stop() and
\* of the destructors returns.
ExitCompletes == g_stop ~> pc \in Over

\* A file with values of the wrong types is an empty configuration, so reading
\* it ends no process.  It does not hold: get<T>() throws and nothing catches
\* it.  (While a pool is being selected no other thread exists.)
InvalidIsEmpty == [][pc = "select" => pc' # "terminated"]_vars
============================================================================
