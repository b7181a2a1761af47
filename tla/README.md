# Verification of the multi-pool BTC miner

TLA+ models of the miner's submission path, its job sources and their sockets, its
hit rings, its scheduler and launch tuning, the way from a notify to a verified
header, and the life of its process from reading the configuration to the last
destructor, with TLC runs on small instances and TLAPS proofs of the safety
properties of all of them. Paths below are relative to the repository root; the
modules are in this directory. `PROJECT.json` maps every definition that models code to
its lines and lists runs, findings, hazards and theorems.

## 1. The system

One process. `main()` in `src/src/tools/stratum_registry_runner.cpp` loads the
configuration, starts one thread per pool (and at most one solo thread), and then
loops: poll the adapters into the registry, upload the active jobs, launch one
kernel, drain hits, verify and route them, sleep 200 ms.

| Component | State | Operations | Talks to |
|---|---|---|---|
| Outbox (`store/outbox.h`) | queue, dedupe set, append-only file, backups | enqueue, tryDequeue, drop, append, load, rewrite, clear, rotate | router, replay, accepted callback |
| SubmitRouter (`submit/submit_router.cc`) | pointers only | verifyAndSubmit, routeRaw, onAccepted | outbox, callback of `main()` |
| Main loop (`tools/stratum_registry_runner.cpp`) | registry slots, workid_to_source, nonce_base, rotation time, penalties | startup, replay, drain adapters, launch, drain hits, route, evaluate penalties | everything |
| StratumRunner / Client / Adapter (`adapters/stratum_*`, `net/stratum_client.cc`) | socket, session data, last job id, counters, job queue | connect, backoff, handshake, receive, close, submitShare, stop | pool over TCP; main thread through adapter and `mu_` |
| GbtRunner / Adapter / Submitter / RpcClient | last tip, job queue, template cache | poll, ingest, update, submit, stop | node over HTTP; main thread through adapter |
| HitRingBuffer (`cuda/hit_ring.h`) | vector, head, tail, size | push, tryPop | tests and host code |
| Device ring and kernels (`cuda/engine.cu`) | ring, write index, drain offset, shared buffers | launch, hit, flush, spill, drain | main loop |
| Scheduler (`scheduler/scheduler.h`) | weights, penalties | select | main loop, runners' counters |
| Registry (`registry/`) | slot per source, generation | set, get | main loop |
| Launch plan, auto-tune (`cuda/launch_plan.h`, `auto_tune.*`) | threads, nonces per thread, saved profile | plan, tune, save | main loop |
| Ledger (`store/ledger.h`) | job map, snapshot file, backups | put, saveToFile, loadFromFile, rotation | main loop |
| Normalizer, targets, merkle, midstate, CPU verify (`normalize/`, `submit/cpu_verify.cc`) | none; SHA256Ctx while hashing | pure functions | notify handler, main loop |
| Mining kernels (`cuda/engine.cu`, `sha256d.cuh`) | DeviceJob table | assemble, hash, compare | main loop uploads and drains |
| Sockets, StratumClient (`net/`) | descriptor, TLS session | connect, send, recvLine, close | runner thread and main thread |
| Metrics server (`obs/metrics.cc`) | thread, running flag | start, run, stop | HTTP clients |
| Configuration (`config/config.cc`) | `config/pools.json` | loadFromJsonFile, at five places | `main()` |
| PoolRouter, Cache, logging, tools | see `PROJECT.json` | | |

What is hard here, and what makes each part correct:

* **Crashes.** The outbox is the only persistent state a hit depends on. A process
  may die between any two writes. A verified hit must be on disk or accounted
  for, and a restart must bring back what the file holds.
* **Two threads per source.** The runner thread changes the job id, extranonce and
  socket while the main thread mines an older job and sends. Jobs must cross in
  order and be built for their own session; stop must join; a disconnect must
  heal.
* **Identity.** `work_id` names a job in the maps, the outbox key, the ring and the
  callback. Shares must reach the pool their header was built for, once.
* **The device.** Blocks reserve ring places and fill them later; indices wrap. The
  host must drain whole, real hits, each once.
* **Byte order.** A header passes through five representations and four hash
  drivers; the host must verify the pool's bytes and judge them as numbers.
* **Start and end.** The configuration is read five times; threads share objects
  that destructors take down in reverse order; a blocked thread must not keep the
  process from ending.
* **Silent staleness.** Counters, caches and "last seen" values decide about later
  work: penalties must decay, a template cache must belong to the current job, a
  tip that was polled must be mined.

The full list, each at its line, is `hazards` in `PROJECT.json`.

## 2. Modules

| Module | Models |
|---|---|
| `Outbox` | `store::Outbox` and its files under any client |
| `SubmitPipeline` | extends `Outbox`: startup, replay, main loop, router, callback, crashes |
| `StratumSession` | one stratum source: runner thread, adapter, main thread, pool |
| `GbtSource` | the solo source: runner thread, adapter queue, template cache, node |
| `LossyFifo`, `HitRing` | abstract bounded FIFO and `HitRingBuffer`, which implements it |
| `DeviceRing` | the device-side ring, blocks, host drain |
| `Backpressure` | health counters, penalty evaluation, `select` |
| `LaunchTuning` | launch plan, time and occupancy feedback, saved profile, nonce coverage |
| `Sha256` | padding and block handling of the three SHA-256 drivers |
| `HeaderPath` | extends `Sha256`: coinbase, merkle root, normalizer, DeviceJob, kernels, host check |
| `Lifecycle` | one process and the next: configuration, threads, ledger, SIGINT, destructors |
| `Transport` | one client at the grain of bytes: address walk, lines, partial sends |
| `MCHeaderPath`, `MCLifecycle`, `MCOutbox`, `MCSubmitPipeline`, `MCBackpressure`, `MCDeviceRing`, `MCLaunchTuning` | values of constants and symmetry for TLC |
| `SubmitPipeline_proofs` (also of `Outbox`), `StratumSession_proofs`, `GbtSource_proofs`, `HitRings_proofs` (of `HitRing` and `DeviceRing`), `MainLoop_proofs` (of `LaunchTuning` and `Backpressure`), `HeaderPath_proofs` (also of `Sha256`), `Lifecycle_proofs`, `Transport_proofs` | theorems about the module they are named after, or as said |

Operators beside an action that have a similar name and differ in one detail
(`LoadKeepsLast` beside `LoadRecord`) are deliberate faults: substituted for the
action, each makes the property it is listed with under `mutants` fail.

### Outbox

`q`, `seen` are `q_`, `seen_`; `file`, `present`, `baks` are the file, its
existence and the `.bak` files by epoch second. A method holds the mutex for its
whole body and is one action; `loadFromFile` and `rewriteFile` are
`LoadBegin/LoadRecord*/LoadEnd` and `RewriteBegin/RewriteRecord*/RewriteEnd` with
`op`, `idx` as loop state, because a death in the middle leaves the file as it
is. A record is three cells (the three `ofs.write` calls). Loading reads frames
of three cells; a frame that is not one record's three parts decodes to `Junk`.
`Key` keeps `work_id` modulo `Word` (2^32 in the code), so key collisions are
real. `Faults` says which I/O faults can happen: `"tear"` (fewer than three
writes land), `"rename"`, `"copy"` (those calls fail).

### SubmitPipeline

`pc` is the main thread's place, `ret` where the router callback returns to.
`slot` is the registry, `wmap` is `workid_to_source`, `ring` the undrained device
hits, `hits` the drained ones. A header is the source whose job it was built
from. One iteration is `DrainAdapter*`, `Launch` (upload, kernel, drain),
one of `StaleHit/BlockHit/VerifyFails/verifyAndSubmit` per hit, and for a routed
hit `RouteEnqueue`, `SendOk` or `SendNot`, `RotateIfNeeded` or
`RotateNotNeeded`, `Persist`. `Crash` may come anywhere. `sent`, `found`,
`casualties` and the like are history. The accepted callback (drop and rewrite)
is not an action: `MCSessionClaims.cfg` (`AcceptedReported`) shows that the program never calls it;
`Outbox` has both methods under every interleaving.

Pools are external; a send works or not. The CPU check's outcome is the constant
`CpuRejects`. Several polls of one adapter in an iteration are several
`DrainAdapter` steps; that they can stop early adds behaviours and removes none.

### StratumSession

`pc` is the place in `runLoop`, `mpc` the main thread's. A session number stands
for its extranonce1. `up` and `down` are the two directions of the connection.
`sending` is the interval in which the main thread holds `mu_` inside
`sendSubmit`; `MutexFree` keeps the handlers that take `mu_` out of it, and
`CloseSocket`, which does not take it, is not kept out. `good` says whether the
parameters of a notify have the layout that `runLoop` reads: indices 8, 9 and 10
must be hex strings, which the nine-parameter notify of Stratum V1 does not
provide, so a pool of that kind is the `good = FALSE` case throughout.
`TimeoutInsideLine` is enabled by `LossyTimeouts`; the history variable `lost`
records that the subscribe answer of the session was swallowed that way.
`Answers` lists the forms of a subscribe answer: whole, without the size of
extranonce2 (the handler throws when it has taken extranonce1 and before it tells
the adapter) or without extranonce1 (it throws at once, and the session goes on
with the data of the one before; `lost` records that too). An answer to a share is true, false or neither; the last is counted
nowhere. `NextLine` is the test of the stop flag, which stands in front of every
line and nowhere else. `Tls` says which socket the pool is on: on a plain one a
receive ends after five seconds and the flag is seen; on TLS `recv` ignores its
timeout, so `LeaveRecv` waits for the pool. A line that is begun and never
finished, with a byte arriving every five seconds, is left out: `recvLine` would
not return.

### GbtSource

A template is a tip, a revision and a shape that says where the handler throws.
When the node leaves the coinbase out, `updateTemplate` may synthesise one
(`allow_synth_coinbase`) from `default_witness_commitment` if that is 64 digits
long. `ingestTemplate` and `updateTemplate` are two actions since the main thread can
poll between them. `FetchHangs` (constant `Stalls`) is the read loop of
`httpPostJson` against a peer that neither answers nor closes. `spoilt` is
history: after which jobs a malformed template was remembered as seen. The
cache is that of the runner's own `submitter_`; the `gbt_submitter` through which
`main()` sends block hits is another object, which never gets a template
(`BlockNotDropped` in `MCPipelineClaims`).

### HitRing, LossyFifo

One action per call. `Contents` reads the live part of the vector, oldest first;
`HitRing` implements `LossyFifo` with `contents <- Contents`.

### DeviceRing

Blocks find hits nondeterministically (at most `MaxHits` per launch), collect
them in `shits`, and at the end reserve `s_count` places with one atomic and
store field by field (`todo`). A full `shits` spills straight into the ring. The
stub kernel writes every hit straight into the ring. `queue` is history: what
the undrained places were reserved for. `Garbage` is what a read outside an
array or of an unwritten cell returns. Threads of one block are not told apart:
their order only decides the order of hits.

### Backpressure

The runner's atomics change between any two reads of the evaluation
(`ReadAccepted`, then `Evaluate`). `EffectiveWeight`, `RoomFor` and `Replicas`
are `select`'s loop as sums. The latency term is left out because
`avg_submit_ms_` never leaves 0. The launch does not use the result of `select`
(`docs/ARCHITECTURE.md:63` says it is still to be wired), so the properties are
about the selection itself.

### LaunchTuning

`threads` and `npt` are `desired_threads_per_job` and `nonces_per_thread`. One
iteration of the loop is `Iterate`: launch, tune both knobs, advance `nonce_base`,
perhaps save the profile. A kernel time is only its relation to the budget, and
times and occupancies are arbitrary. Nonces are counted from `nonce_base`;
`frontier` is the first nonce of the watched job (any slot) that no launch has
tested, `skipped` counts nonces that a launch started beyond. With
`nonces_per_thread` 1 the launch is `kernel_mine_stub`, in which one thread per
job works, so the window is one nonce whatever the plan. `start_nonce` contains
the job's index, so when an earlier slot gets its first job a nonce is passed
over; `HolesOnlyFromMoves` says that nothing else, no change of the window in
particular, makes a hole. A plan of zero threads cannot occur (both knobs are
kept positive), so `launchMineStub` is not reached. A saved profile is there with
both values or not at all: a file that was edited to hold one of them is left out.

### Sha256, HeaderPath

All sizes of the hash are real; only the compression function is a free symbol: a
state is the list of blocks it absorbed, so two digests are equal exactly when
the same blocks were compressed. The coinbase is fed byte by byte (`sha256_update`,
`ctx` is `SHA256Ctx`, with uninitialised bytes as `Junk`), and after every byte
`sha256_final`, the midstate path and the device's fixed blocks are compared with
the padding of the standard. The code writes no byte for bits 40 to 47 of the
length; that concerns messages beyond 2^40 bits, which the miner never hashes.

`HeaderPath` follows one job at a time, `stage` being what was computed last. A
u32 is its four bytes, most significant first, so shifts and swaps are exact; the
digits are below `Base` (4 for 256) and a hash has `HashWords` words (2 for 8).
SHA-256d of a header is a random oracle: equal messages get equal digests. The
merkle hash of two nodes is their pair. A midstate stands for the 64 bytes it was
computed from, and is taken never to be all zeros, the value at which the kernels
would hash the header they assembled themselves. With a compact exponent of 0 the
code writes a zero byte behind its array; that is taken to change nothing.
`CompactTarget`, the number that a verdict is measured against, saturates for
exponents beyond the length of the hash, as the code does; Bitcoin Core shifts a
mantissa that is small enough there, so the two agree up to that length only.
`kernel_mine_batch` hashes what the main part of `kernel_mine_batch_unroll` does,
so the two share an action. The version mask is not applied by any kernel.

### Lifecycle

`pc` is `main()`'s place, from the first read of the file to `return 0`; `frame`
is the stack of locals that threads use, in the order of their declarations, and
`runners` the elements of `strat_runners`. A thread is at the test of its flag or
in one blocking call; `StratumSession` and `GbtSource` have what happens in it.
Reading a file of wrong types throws and ends the process (`Throws`); a missing
and an unparsable one are empty. `HandlerThrows` is the runner thread that meets a
`method` that is no string. A process that ends during `saveToFile` leaves some of
the lines, the last perhaps cut (`Written`); a full disk leaves the same, and the
call returns true all the same, since no write is looked at. Started with arguments (`legacy`), the program
starts no source. The router, the outbox and the accepted callback are not in
`frame`: the callback that would reach them is never called.

### Transport

`reach` is what each resolved address does. A byte is its line and place, so
cut and joined lines are visible in `got`; `wire` is what the pool receives.
`left` is what the `sendJson` of each thread has still to send. The TLS socket
differs in what it takes for connected and in having no receive timeout.
A build without OpenSSL has no TLS socket, and a connect to a TLS pool then fails
at once. Concurrent use of one SSL object by two threads is undefined and is taken as if
the calls were atomic. Windows' `socket_win.cc` is not read separately.

## 3. Runs

`tlc -config X.cfg M`. All pass runs explore their whole state space.

| Run | Module, configuration | Shows |
|---|---|---|
| `outbox` | `MCOutbox` | Any call sequence, deaths, failed renames and copies: dedupe, rewrite framing, load. |
| `pipeline` | `MCSubmitPipeline`, `MCPipeline` | Two crashes, replay, rotation by size, by interval and on start: no verified hit is lost (`NoSilentLoss`), a start replays each pending record once (`ReplayOnce`) and the oldest first, although it appends them to the same file (`ReplayOldestFirst`), shares reach their pool (`RoutedToOrigin`). |
| `session` | `StratumSession`, `MCStratumSession` | A pool on a plain socket, two sessions, answers and notifies that are well-formed or not, a share, and timeouts that may swallow any line: hand-over, session consistency, counters, stop and reconnect. |
| `hit_ring` | `HitRing`, `MCHitRing` | Consistency and refinement of the FIFO. |
| `device_ring` | `MCDeviceRing` | Two blocks, three launches, both kernels, spills, across the index wrap. |
| `backpressure` | `MCBackpressure` | No source silenced, recovery without disconnects. |
| `gbt` | `GbtSource`, `MCGbtSource` | The template cache belongs to the job, polled tips get jobs, lasting tips are mined, with failed, hanging and malformed answers. |
| `tuning` | `MCLaunchTuning` | Nonce coverage, budget feedback and that no launch over budget is followed by a larger one, under arbitrary kernel times, occupancies, jobs and restarts. |
| `header` | `MCHeaderPath` | The three hash drivers agree with the standard's padding for every length to 140 (`DigestIsReference`, `FastPathsAgree`); the merkle loop is the tree (`MerkleIsTree`); what the host verifies is the wire's header and its verdict the comparison of numbers (`HostHeaderIsWire`, `VerdictIsNumeric`); the unrolled kernel hashes the pool's fields once and in place (`DeviceHashesPoolFields`). |
| `lifecycle` | `MCLifecycle` | Threads do not outlive what they use (`NoDanglingUse`), an unedited file is what runs (`RunsWhatTheFileSays`), SIGINT ends the process (`ExitCompletes`). |
| `transport` | `Transport`, `MCTransport` | The plain socket tries every address (`PlainReaches`), lines arrive exactly (`LinesExact`), the two threads' requests do not mix on the first connection (`FirstConnectionFramed`). |
| `header_device` | `MCHeaderPath`, `MCHeaderDevice` | Ends in a violation of `HostRebuildsDeviceHeader`. |

`header_device` is about the sentence of `docs/ARCHITECTURE.md:66` that the CPU
verifies that the reconstructed header matches the GPU's result. The kernels
resume from the midstate of a first part in one byte order and append a tail in
another (each kernel its own), and a GBT job's midstate is that of 64 zero bytes;
the host hashes the wire's header. The digests are unrelated, so a hit of the
device passes the host's check only by chance. The host keeps to one convention
throughout: it hashes the bytes of the wire, most significant first, and compares
digest and target in that reading (`HostHeaderIsWire`, `VerdictIsNumeric`, after
`submit/cpu_verify.h:13`). The device does not follow it. That the convention is
the serialization of a header in Bitcoin is not shown by these properties.

`OutboxTypeOK` and `RingOK` are checked by their runs. The other type invariants are
not in a run; they are proved, like these.

Further configurations are kept beside the runs. Each shows one more thing the
code does that its documents do not say (the first two hold). Where a second
property is named, it is checked by putting it in place of the first; all of
them are violated.

| Configuration (module) | Property | What it shows |
|---|---|---|
| `MCOutboxTorn` (`MCOutbox`) | `QueueDeduped`, `LoadComplete` | Both hold with torn writes and shifted frames; the proofs cover all faults too. |
| `MCPipelineCut` (`MCSubmitPipeline`) | `NoSilentLoss` | Holds with cut appends: a failed append loses its own record and no other. |
| `MCPipelineTorn` (`MCSubmitPipeline`) | `LoadRecoversFile` | Fails: a torn append shifts all later records of the file. |
| `MCPipelineMulti` (`MCSubmitPipeline`) | `NoMultiSubmit` | Fails: the callback runs for duplicates too, so a hit found again is sent again (`docs/PRD.md:84`: "no multi‑submit of identical work"). |
| `MCPipelineShared` (`MCSubmitPipeline`) | `RoutedToOrigin` | Fails: with one job id at two pools a share goes to the other pool (`registry/types.h:17`: "Unique per job across all sources"). |
| `MCPipelineClaims` (`MCSubmitPipeline`) | `BlockNotDropped` | Fails: a block hit goes to a submitter without template and nowhere else (`docs/STRATEGY.md:20`). |
| | `ReplayHasDestination` | Fails: replay happens before any destination is known. |
| `MCPipelinePending` (`MCSubmitPipeline`) | `PendingReplayable` | Fails: rotation takes pending hits out of the file that is loaded (`docs/PRD.md:97`). |
| `MCSessionClaims` (`StratumSession`) | `ShareUnderItsJob` | Fails: a share goes out under a newer job's id. |
| | `AcceptedReported` | Fails: `last_submit_sent_` is never assigned, so the outbox is never pruned. |
| | `SocketAliveDuringSend` | Fails: the socket is freed during a send. |
| | `VarDiffApplied` | Fails: the share target does not depend on the difficulty (`docs/PRD.md:34`). |
| `MCSessionTls` (`StratumSession`) | `StopJoinsTls` | Fails: `stop()` waits for the runner, and the runner for a TLS pool that stays silent (`net/socket_openssl.cc:149`: the timeout is not used). |
| `MCSessionTimeout` (`StratumSession`) | `TimeoutKeepsSession` | Fails: a timeout inside the subscribe answer loses it. |
| `MCDeviceRingWrap` (`DeviceRing`) | `DrainedInOrder` | Fails for a capacity that does not divide 2^32, after 2^32 hits; the default 1024 is safe. |
| `MCDeviceRingGarbage` (`MCDeviceRing`) | `OnlyFoundHits` | Fails: after a spill the flush copies past the shared buffer. |
| `MCBackpressureDecay` (`MCBackpressure`) | `PenaltyRecovers` | Fails: one disconnect keeps the penalty at 5 for good. |
| `MCGbtMalformed` (`GbtSource`) | `PolledTipHasJob` | Fails: a malformed template makes good ones for its tip invisible. |
| `MCGbtHang` (`GbtSource`) | `PollsAgain` | Fails: a silent node stops the source for ever. |
| `MCTuningClaims` (`MCLaunchTuning`) | `FastLaunchGrows` | Fails: a launch below a millisecond counts as 0 and never grows the batch (`cuda/auto_tune.h:40`: "If under budget by >20%, increase micro-batch by 2x"). |
| | `SameNonceAcrossJobs` | Fails: the kernels add the job's index to the base (`docs/DoD.md:6`: "all tested per iteration with same nonce"). |
| | `EstimateExact` | Fails: the hashrate is computed with the next launch's `nonces_per_thread`. |
| `MCHeaderDevice` (`MCHeaderPath`) | `SameDigestSameVerdict` | Fails: the device's target has its bytes the other way round than the host's. |
| | `CompactAsInCore` | Fails: with an exponent of 1 or 2 the mantissa is shifted twice (exponents beyond the hash are not compared). |
| | `RootFoldsBranch` | Fails: the merkle branch of a notify is taken for further leaves, which differs from two elements on. |
| `MCLifecycleSilent` (`MCLifecycle`) | `ExitCompletes` | Fails: an HTTP client that stays silent holds the server thread and with it the process; a silent TLS pool does so too (`Stuck <- SilentTlsPool`). |
| `MCLifecycle` | `StdinHeld` | Fails: the detached stdin thread uses the queue after `main()` returned. |
| | `OneConfiguration` | Fails: an edit between two reads mixes two configurations. |
| | `LedgerPersistent` | Fails: no program loads the ledger, the next process writes over it, and a full disk cuts it while `saveToFile` returns true (`docs/PRD.md:73`: "Persistent O(1) job map (ledger)"). |
| | `InvalidIsEmpty` | Fails: a file of wrong types ends the process, while an unparsable one is empty. |
| `MCTransportTls` (`Transport`) | `TlsReaches` | Fails: a refused address ends the walk of the TLS socket. |
| | `AlwaysFramed` | Fails: after a reconnect shares and greeting mix. |

### Bounds

* Outbox: files of 6 cells (two records, or every split of torn ones), queues of 3
  (2 with tearing), three hits of which two share a key with different headers.
  Two records suffice for a shifted frame to cover a whole later one.
* Pipeline: two sources, one with two jobs of colliding keys; five winning pairs
  of which one is a block and one fails verification; two launches, one hit
  drained per iteration (so leftovers occur), two crashes (a crash during the
  recovery of a crash), a file limit of four records: the least at which a start
  finds two pending records and appends both again before rotation by size takes
  the file, so that their order is seen, and rotation by size still happens.
  The clock starts just before the rotation interval has passed since 0 and
  ticks past it, so callbacks with and without an interval rotation occur, and
  each start may or may not rotate first. `Word` is 2 in place of 2^32,
  `ReplayMax` 2 in place of 128. `MCPipelineCut` has one crash, as cut appends
  multiply its states; `MCPipelinePending` has a sixth pair, to outgrow the file.
* Session: two sessions and two notifies are enough for a reconnect with stale
  data and for a share under another job; one share; counters saturate at 1. The
  run has the subscribe answers that are whole or lack extranonce1. With the third
  form too its properties hold as well, in twice the time; the proofs cover all.
  Notifies are numbered, so one job id suffices where ids are not compared.
* Device ring: capacity 4, indices modulo 8 in place of 2^32, drains of 3, three
  launches of two interchangeable blocks with a shared buffer of one entry, so
  the write index wraps, drains are partial and blocks spill. In
  `MCDeviceRingWrap` the capacity is 3, which does not divide 8.
* Backpressure: weight 3 over a cap of 2; failures to 8 and disconnects to 4 pass
  every threshold of the evaluation (0, 3, 7 and 0, 3).
* GBT: two tips, two changes, so a tip can come back.
* Ring: capacity 3, three hits: full pushes at each offset.
* Tuning: blocks of 1 to 2 threads (64 to 256 in the code), threads to 4 (1024) and
  batches to 5 (1000000), with configurations below, between and above the caps;
  5 is no power of two, so doubling is cut off and halving rounds. Two slots, one
  restart. `MaxTpb` (1024) is never reached by the plan.

* Header: messages to 140 bytes (every remainder modulo 64, and two blocks past the
  first), trees to 9 leaves (odd levels at every height), compact exponents 0 to 4,
  8 and 9 of a hash of 8 bytes, a sign bit and a zero mantissa, digests next to every
  target in both byte orders, a time window that clamps and one that does not.
* Lifecycle: seven files (each kind of pool alone or mixed, two pools on one GBT
  runner, unparsable, mistyped), one edit, one restart, one job, one typed line, a
  ledger limit of one line.
* Transport: two addresses, two calls of connect, two lines of three bytes and a
  newline, requests of two bytes, one share, two timeouts; so a timeout can fall
  into either line and a share into the greeting of the second connection. Three
  bytes are the least of which a timeout can take the first and the end of the
  stream the last, with one in between that is returned.

### Fairness

* `StratumSession`: weak fairness of the runner thread, whose sleeps are bounded. Its
  receive ends on a plain socket, by the timeout of 5 s; on TLS it has none, so there
  the thread is fair only in what the pool lets it do, and `StopJoins` is about pools
  on plain sockets (`MCSessionTls` shows the other case). Weak fairness of a send in
  progress is an assumption about the network: `send` has no timeout. Strong
  fairness of a connection attempt succeeding is another, needed only by
  `Reconnects`.
* `GbtSource`: weak fairness of handling, sleeping and leaving the loop and of the
  main thread's poll; strong fairness of a full answer to a fetch, an assumption
  about the node. None for `HangEnds`: nothing makes a silent peer close.
* `Backpressure`: weak fairness of the evaluation (the main loop never ends) and
  of jobs arriving; strong fairness of connecting.
* `LaunchTuning`: weak fairness of the iteration; nothing of kernel times.
* `Lifecycle`: weak fairness of `main()` and of every thread's step, and of a
  blocking call's return unless its thread is in `Stuck`. The plain socket waits 5 s
  for a connection and for a byte, and sleeps are bounded; a TLS pool, the node and
  an HTTP client must send or close, which is an assumption about them. Stdin is
  always in `Stuck`.

## 4. Proofs

`tlapm M.tla` for each module `M` whose name ends in `_proofs`. The theorems hold
for every value of the constants that satisfies the named assumptions of the
module; where one has a further hypothesis it is named below. Each invariant
named here was also checked with TLC on the instance of the run (`ShaInv` with the
values that its quantifier can only have).

**Outbox** (`SubmitPipeline_proofs`: `OutboxInvariant`, and from it `OutboxTypes`,
`OutboxDedupes`, `OutboxRewriteFramed`, `OutboxLoadComplete`), for every set of hits,
word size, set of epochs and combination of faults, under `OutboxAssumption`. The
inductive invariant is `OutboxInv`: the types, `QueueDeduped`, `RewriteFramed`,
`LoadComplete` and `LoopStarted` (a running loop has a position of at least 1).
`LoopStarted` is needed because the two loop facts speak of `idx - 1`. The
interesting steps are `drop`, which frees a key: it must be that of no other
queued record, which the dedupe itself provides; `RewriteRecord`, where
concatenation must keep the earlier frames; and `LoadRecord`, where a frame whose key
is not in `seen` is the first of its key (and one whose key is there is not), so that
the queue has exactly these, in the order of the file.

**Pipeline** (`SubmitPipeline_proofs`), under `PipelineAssumption`.
Four properties follow from an invariant each, over the types:
`PipelineReplayOnce` from `ReplayInv` (what was replayed in this process keeps its key in
`seen` and is no longer queued, so putting it back changes nothing and no other pending
record has its key); `PipelineReplayOldestFirst` from `OldestInv`, which needs `ReplayInv` (until
a rotation the file only grows at its end, the first records of their keys in it are the
replayed ones followed by the queue, in order, and `lastRot` is 0 only before a rotation,
since the clock starts above 0);
`PipelineRoutedToOrigin` from
`RouteInv` (every record in the file, the backups, the queue and the loop, and every
entry of `workid_to_source`, is of a job of the source it names); `PipelineNoSilentLoss`
from `LossInv` (the property, and that a file that does not exist holds nothing). Two
have a hypothesis that the code does not establish, and a configuration shows what
happens without it or why it is there:
`DisjointWorkIds`, that no two pools announce the same work id (`MCPipelineShared`), and
`CopyWorks`, that `rename` and the copy that stands in for it do not both fail
(`rotateFile` truncates after a copy whose result it does not look at).

**Session** (`StratumSession_proofs`: `SessionTypes`, `SessionJobsBuilt`,
`SessionJobsInOrder`, `SessionShareNotOlder`, `SessionAnswersWithinShares`), for any
number of sessions, notifies, shares and timeouts. `BaseInv` has the types, `WireInv`
says what lines can be in flight and of which session they are, `JobInv` relates the adapter's
and the runner's session data and the numbers of the notifies on their way from the
pool to the main thread, `CountInv` counts shares sent, in flight, answered and lost.
The counters need that sum because a disconnect removes answers from the middle of it.

**Solo source** (`GbtSource_proofs`: `GbtInvariant`, `GbtTypes`, `GbtCacheMatchesJob`,
`GbtPolledTipHasJob`, `GbtJobsInOrder`), under `GbtAssumption`. `GbtInv` ties
`last_prevhash` to the newest job at every point of the runner's loop, which is what
makes the test for a new tip right.

**HitRing** (`HitRings_proofs`: `RingSafe`, `RingRefinesFifo`), for every positive
capacity, under `RingAssumption`. The invariant is `RingTypeOK /\ RingOK`: the tail is the size past
the head, and live cells were written. The refinement shows that each call maps
to the abstract call; its core is arithmetic modulo the capacity, stated as
lemmas: a push changes no live cell unless the ring is full, and then exactly
the one that the head leaves behind.

**DeviceRing** (`HitRings_proofs`: `DeviceRingTypes`, `DeviceRingBacklog`,
`DeviceRingSettled`, `DeviceRingDrained`), for any number of blocks and launches, capacity and index width.
The capacity is below the modulus, as a `uint32` is below 2^32. `RingInv`: while the
ring is not overrun the places between the indices lie in different slots, every store
that a block has still to perform is one of its place, and a field without its value
has such a store. The last two theorems suppose that the capacity divides the modulus
(`CapDividesModulus`), which the default of 1024 does; `MCDeviceRingWrap` has the
counterexample for one that does not. The lemmas are about quotients and remainders.

**Tuning** (`MainLoop_proofs`: `TuningInvariant`, `TuningTypes`, `TuningHoles`,
`TuningOverBudget`), for every plan, cap and configuration, under `TuningAssumption`. `CoverInv`: what the next
launch would pass over and what was passed over before are together at most the moves
of the job's index. All that it needs of the plan is that a launch tests a nonce of each
job (`WindowPositive`), for which the halving of the block must end: `HalvedEnds`, by
induction on the turns of the loop, says that the loop leaves a block of at most the
threads asked for or below the least block, where the clamp takes over.
`TuningOverBudget` is the action property `OverBudgetNeverGrows`: halving the nonces of a thread makes up for
doubling the threads, because a plan at most doubles with them (`PlanDoubles`) and is
monotone (`PlanGrows`). Its hypothesis `HalvesToMinThreads`, that the first block size is the
least one times a power of two, holds of 256 and 64 in `launch_plan.h`; without it the
property fails (from 7, a plan for 4 threads is 6 and one for 8 is 14).

**Scheduler** (`MainLoop_proofs`: `SchedulerTypes`, `SchedulerSelectsAll`), for every finite
set of sources, weights, cap and counters, under `BackpressureAssumption`. `SchedInv` adds to
the types that the answers remembered by the last evaluation are at most those counted,
without which a difference of the two could be negative. `SchedulerSelectsAll` is the action
property of the run: a penalty never takes the weight below 1 (`WeightPositive`), and what
`select` placed before a slot is at most the cap for each earlier one (`WeightSum`, by
induction over the number of sources), so that there is room left for it.

**Header path** (`HeaderPath_proofs`), under `ShaAssumption` and `HeaderAssumption`: for
every number of leaves and hash words, every base of the digits and all values of the
fields. The properties say what loops compute, so the module first derives induction on
the naturals (`LeastElement`) and the existence of functions defined by recursion from the
well-foundedness of `<`. Three invariants hold on disjoint parts of the state.

* `ShaInv`: `ctx` has compressed the whole blocks of what was fed and keeps the rest in front
  of `data`, behind which anything may stand. `HeaderDigestReference` and `HeaderFastPaths` follow
  by comparing, block by block, what each driver compresses with the padding of the standard.
  Both suppose that messages are shorter than 2^40 bits (`8 * MaxLen < TwoTo40`): the code
  writes no byte for bits 40 to 47 of the length, and the proof does not go through without.
* `TreeInv`: `level` is the level of the tree at some height. `HeaderMerkleTree` follows; a turn of
  the loop goes from one height to the next (`LevelUp`), an odd last node included.
* `JobInv`: from the ingestion of a job on, the item, the device's copy, the hit, the host's header
  and the verdict are the functions of the raw fields that the code computes. What is left
  is about these functions: a hash survives the way into words and back (`RoundTrip`, for
  `HeaderHostWire`); comparing digits from the most significant one is comparing numbers, and
  the expanded target is the number that the compact bits stand for (`LexIsNumeric`, `TargetIs`,
  for `HeaderVerdicts`); the layout of the hashed message and the clamp of the time (`Layout`,
  `ClampInWindow`, for `HeaderPoolFields`).

**Lifecycle** (`LifecycleNoDangling`, `LifecycleRunsFile`), for every
set of files, number of pools, edits and restarts, under `LifecycleAssumption`. `LifeInv`:
the locals of `main()` that threads use are the front part of one list, how many there
are is given by where `main()` is, and a live thread has at least its owner's place of
them. `RunInv`, over `LifeInv`,
says what each of the five reads took from the file and which sources have been started.

**Transport** (`TransportReaches`, `TransportFramed`, `TransportLines`), for every number of
addresses, lines, shares and timeouts and every length of a line and of a request.
`WalkInv`: the plain walk has passed no address that accepts. `RequestInv`: until the
greeting is out there is no job, hence no share; what was sent and what is owed of it
add up; and the next byte of whoever is sending continues the stream. `LineInv`: `line`
is the part of the current line up to the last byte taken, it lacks its first bytes only
after a timeout, and what was returned is of earlier lines, except for what the end of
the stream cut. The proof of `LinesExact` corrected the property: it allowed a line cut
at one end only, which fails from three bytes on (first byte taken by a timeout, last by
the close), while the instance had lines of two.

Only model-checked: the liveness properties (`StopJoins`, `Reconnects`,
`RecoversUnlessDisconnected`, `TipEventuallyMined`, `ShrinksToBudget`, `GrowsToBudget`,
`ExitCompletes`), since the prover does not handle fairness.

## 5. Not modelled

* The 64 rounds of the SHA-256 compression, on the host and on the device: constants
  and bit operations whose correctness is a matter of test vectors.
* JSON, HTTP and hex text, logging, the metrics file and its rotation, gauges, what a typed
  command submits. The witness commitment placeholder and `rolling_caps.h` are used
  by tests only, and so are PoolRouter and the cache classes, which no program constructs.
* Demo, bench and diagnostic kernels, occupancy queries, GPU memory failures, and the
  tools `cuda_bench` and `stratum_probe`.
* A tuning profile of which only some values are in the file. `Ledger::loadFromFile`,
  which no program calls.
* Concurrent `SSL_read` and `SSL_write` on one object, certificate checks, Windows sockets.
* Overrun of the device ring (more undrained hits than its capacity) is reached by the
  runs, and the device properties exclude it explicitly: the code neither detects nor
  promises anything there.

## 6. Plan

Modelled: outbox, submission pipeline, stratum session, rings, backpressure, solo
source, launch tuning, header path, lifecycle and transport. Proved: every
invariant, action property and refinement that a passing run checks. Left are the
liveness properties, since the prover does not handle fairness; the runs check them.
