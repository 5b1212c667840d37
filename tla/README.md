# UniShield AI: a verification project

TLA+ models, TLC runs and TLAPS proofs of UniShield AI, a network detection
engine (`src/backend/app`, Python/asyncio) with a web console
(`src/frontend/src`, React). Sensors and routers report flow records; the backend
captures them, keeps flow state, scores every flow with rules and models, raises and aggregates alerts,
stores them with packet evidence and pushes them to WebSocket clients and phones;
the console shows them. Paths below are relative to `src/backend/app` unless they
start with `src/`.

- [1. The system](#1-the-system)
- [2. The modules](#2-the-modules)
- [3. What the runs show](#3-what-the-runs-show)
- [4. What is proved](#4-what-is-proved)
- [5. Disagreements between the code and what it says](#5-disagreements-between-the-code-and-what-it-says)
- [6. What is not modelled](#6-what-is-not-modelled)
- [7. Plan](#7-plan)

## 1. The system

One record travels like this:

    packets -> sensor (windows) -> POST /traffic/flows --------+
    routers -> UDP listener (queue, template cache) -----------+
    capture file -> replay_pcap, POST /traffic/replay ---------+
      -> DetectionPipeline.submit (bounded queue)
      -> one of 6 consumers: rolling capture (thread)
           -> flow + connection tables -> features (thread)
           -> rules -> [models (thread)] -> decision
      -> AlertManager.create_alert (dedup, merge or raise)
           -> persist queue -> PersistWorker -> SQLite
           -> /ws/alerts broadcast, phone notifications (tasks)
           -> evidence copy (thread) -> pcap_path of context and row
      -> console: WebSocket frames and 5 s polls -> alert list, toasts, sources

Everything in the backend runs on one event loop, so code between two awaits is
atomic; what interleaves are the tasks (consumers, persist worker, publisher,
sweep, request handlers, broadcasts, notifiers) at their awaits, and the worker
threads of `asyncio.to_thread`.

| component | state | operations | hard behaviour | correct when |
|---|---|---|---|---|
| Flow export (`ingestion/netflow.py`, `flow_export_listener.py`, `api/traffic.py`) | datagram queue, templates by id, the pipeline's room | receive, decode set by set, load templates, submit, post | datagrams lost, reordered and cut by full queues; templates shared by id among exporters; an exception in the middle of a datagram; a cap on the records of a v5 datagram | a flow is garbled only by contradicting or misread templates; every decodable flow (of v5 up to the cap) is decoded; a failed datagram leaves nothing behind; the loop goes on |
| Sensors and replay (`ingestion/scapy*.py`, `src/backend/sensor`, `src/backend/scripts`) | packets of the window, records of the batch, the post in flight | sniff, aggregate, flush, post, time out, replay | a post times out and is handled later; exceptions in the middle of a sniff; a sensor waits while packets pass | no packet is counted twice; a replay keeps its order; a sensor that runs sniffs again |
| Flow capture (`capture/flow_pcap.py`, `alerts/evidence.py`) | writer, its buffer, the capture, the archive | record in a thread, rotate, start, stop, copy evidence | `stop` closes without the lock; closes whose failure is swallowed; rotations that fail half way; buffered packets a copy cannot see; crash | a recorded packet is kept or its loss is accounted for, once; the capture is bounded; evidence lacks its packet only for a cause |
| Alert aggregation (`alerts/manager.py`, `deduplicator.py`, `generator.py`) | `_last_seen`, `_active`, `_recent`, per-alert summary | `create_alert`: suppress/merge/pulse or raise; two prunings | two tables pruned by different clocks; truncated summaries | no detection vanishes; alerts of one target are a window apart; pulses are rate-limited |
| Flow and connection tables (`state/flow_state.py`, `connection_tracker.py`, `expiry.py`) | flows, connections, two address indexes | update, evict, cap, expire | tables at their limit; three removal paths that must keep indexes exact | indexes name exactly the tracked connections; the tables agree; live flows are kept, idle ones expire |
| Features (`features/extractor.py`) | none of its own: windows over the tables | extract, just after the flow was seen | the tables forget by three rules with other clocks than the windows' | every feature describes the traffic of its own window, short of what a flood evicted |
| Pipeline (`engine/pipeline.py`) | queue, consumers, known flows | submit, take, process, handle threat, stop | consumers overtake one another at awaits; failures; cancellation | an accepted record is in exactly one place and gets finished; replies of the sensor raise nothing |
| Persistence and evidence (`db/persist.py`, `db/alert_repository.py`, `alerts/evidence.py`) | persist queue, rows, evidence files, `pcap_path` in memory and on disk | enqueue, insert, attach path, stop | two tasks write one row; every failure is swallowed; restart | each alert is written once or accounted for; a path means a file and is kept |
| Live feed (`realtime/*`, `state/live.py`, `api/live.py`, `api/websocket.py`, `notifications/*`) | connection list, pause switch, sends in progress | connect, broadcast, send with timeout, pause, publish, push | a broadcast awaits each client; the switch is read before awaits; sockets die silently | clients learn the switch; a lasting pause silences every outlet; dead sockets go |
| Rules and decision (`rules/*`, `ml/inference.py`, `decision/*`) | none (pure, but six stages with constants in many files) | evaluate, blend, classify, refine, demote, fuse, floor | thresholds of different files that only fit by their values; relabelling in sequence | techniques surface, local noise does not, threats are explained, skipping the models changes nothing |
| Console alert list (`src/frontend/src/store/engine.ts`, `hooks/useEngineSync.tsx`) | list, seen ids, baseline, toasts | poll, push, pause | two lossy, overlapping channels; stale answers | one toast per alert; the list converges to the backend's |
| Console threat sources (`store/engine.ts`) | sources, counted alerts | bump, tick | repeated and late signals | counts are honest; a live window only grows; a restarted one restarts |

The remaining components, with the reason each is left out, are in section 6 and
in `PROJECT.json`.

Interactions. The listener, the endpoints and the replay share the pipeline's queue,
whose `submit` never blocks: a batch that does not fit is cut. Sensors share nothing
with the backend but requests and answers. The capture is written by the pipeline's
threads, closed by the shutdown and copied by the pipeline's handler. The pipeline calls the tables, the decision and the alert manager
directly. The alert manager hands alerts to the persist queue and to the
broadcasters through callbacks. The pipeline's handler and the persist worker share
the alert context and the row. The publisher, the alert broadcasts and the request
handlers share the connection list and the pause switch. The console shares nothing
with the backend but frames and answers.

## 2. The modules

| module | models | state and actions |
|---|---|---|
| `PipelineQueue` | `submit_batch` and the queue, as the sources of records see them | how many records wait, which were accepted; `SubmitBatch`, `Consume`, and with them `QueueNext`, which `DetectionPipeline` implements |
| `FlowMemory` | the flow table as the pipeline sees it | which flows it holds; `See` (a flow is looked up or inserted, which may drop others) and `Expire` |
| `FlowExport` | exporters, the network, the UDP listener with its decoders, the datagram endpoint | datagrams on their way, the listener's queue and position in a datagram, templates by id; `Send`, `Receive`, `Take`, `LoadTemplate`, `DecodeSet`, `Leave`, `Fail`, `Ingest`, `Post`, `Stop` |
| `SensorUplink` | both sensors, the replay and their requests | packets to come, sniffed and in windows, batches, requests in flight; `Pass`, `Aggregate`, `Flush`, `SendLive`, `SendChunk`, `ReplayAtOnce`, `Handle`, `LoseRequest`, `GiveUp` |
| `FlowFeatures` | what `FeatureExtractor` reads, on top of `FlowTables` | `RecordAndExtract`; the features are operators over the tables |
| `FlowCapture` | `FlowPcapRecorder` and the evidence copies | each record call from the first look at `_running` to the write, the steps of a rotation (`RotateClose`, `RotateMove`, `RotateOpen`), `Start`, `StopFlag`/`StopClose`/`StopForget`, `Exit`, `Crash`, `Locate`, `Copy` |
| `AlertPromise` | what alert aggregation promises its consumers | alerts raised and detections counted; `Raise`, `Count`, `Advance` |
| `AlertAggregation` | `AlertManager.create_alert` with everything it calls | `lastSeen` (`_last_seen`), `active`, `recent`, `ctxs` (the shared `AlertContext` objects); `CreateAlert` is `Merge`, `Swallow` (suppressed with nothing to merge into) or `Emit`, `Tick` is time |
| `FlowTables` | both tables, the indexes and the sweep | an entry is its idle time; `Record` (a flow seen by both tables, with eviction and capping), `Sweep`, `Tick` |
| `DetectionPipeline` | queue and consumers, split at every await of `process` and `_handle_threat` | where each record is, what `submit` has accepted (`accepted`, history), and the flow table of `FlowMemory`; `Submit`, `Take`, `Enter`, `Match`, `Infer`, `Preserve`, `Fail`, `Stop`, `Forget` (expiry) |
| `AlertPersistence` | a fresh alert's way to disk | live list, queue, worker, rows, files; `Raise`, `Preserve`/`NoEvidence`, `Select`, `Update`, `Take`, `Insert`, `InsertDetection`, `WriteFails`, `StopWorker`, `Restart` |
| `LiveFeed` | the connection list and everything that sends | a broadcast is a task with the clients it still has to serve; `Connect`, `Resume`/`Finish` (a send ends), `PublishAll`, `PublishAlert`, `SetLiveState`, `Notify`, `NextRecipient`, `EndpointEnds`, `EndpointFails` |
| `ThreatDecision` | the scores and verdict of one flow | `progress` through `rules`, `ml`, `decided`: `EvaluateRules`, `SkipML` or `RunML`, `ReachVerdict`; every rule, threshold and weight of the code, in ten-thousandths |
| `AlertTimes` | the alerts and the clock that the console's two modules share | `now` |
| `AlertFeed` | the console's list and toasts | polls as records of what became of their request, frames in transit; `TimerRefresh`, `ManualRefresh`, `AnswerAlerts`, `FailAlerts`, `Apply`, `Receive`, `LiveState`, `ToggleLiveFeed` |
| `SourcePanel` | the console's threat sources | window, count and activity of each source; `RaiseAlert`, `PushAlert`, `Poll`, `Tick`, `Elapse` |

`MC*` modules give the constants their model-checking values; `*_proofs` modules
hold the theorems. `AlertAggregation` implements `AlertPromise` under a refinement
mapping that keeps an alert's key, time and flow count. `DetectionPipeline` implements
`PipelineQueue` (`ImplementsQueue`): `waiting` is the length of its queue, `entered` are
the records that found room, wherever they are by now. `FlowExport` and
`SensorUplink` are built on that queue and use it by steps of `QueueNext` only, so what
they show of the records they submit rests on nothing the pipeline does not do.
`DetectionPipeline` in turn is built on the flow table of `FlowMemory`, which `FlowTables`
implements (`ImplementsMemory`): what is proved of the pipeline holds with the real
evictions and sweeps under it. The other modules meet at interfaces one of them leaves free: what the pipeline's stages conclude is any
verdict, and what the console's backend detects is any sequence of alerts and refreshes.
`FlowFeatures` extends `FlowTables`: its run checks the tables and the features together.

`Console_proofs` extends `AlertFeed`, `LiveFeed` and `SourcePanel`, and
`DetectionPipeline_proofs` extends `ThreatDecision` too; this is why those modules name
their specifications apart (`LiveSpec`, `PanelSpec`, `VerdictSpec`). Their theorems are
about one specification each.

Operators whose comment begins with "Mutant" are variants of the operator or action
below them with a plausible defect (a dropped guard, a swapped order). No
specification uses them: substituting one for the original shows that the property
named in `PROJECT.json` really depends on that code.

Abstractions that matter:

- **Time.** Backend modules measure windows with `time.time()`; the models assume
  that it does not step backwards (a clock set back keeps targets suppressed for
  longer, and is outside every property). `FlowTables` counts idle time up to a cap
  one above the largest timeout, which loses nothing the code can tell apart.
- **History.** Variables and fields named as history (raising times, folded
  sources, toast counts, ended attacks) do not influence any action.
- **Data.** Scores are integers in hundredths; a statistical score above zero and below
  one hundredth is one hundredth, so that a rule matches exactly where the code's does.
  Labels, severities and sources of a decision are kept, texts and feature values no
  threshold looks at are not.
- **Models.** The supervised model answers with either of the labels of the shipped
  `models/class_names.json`, at any probability. Its fallback answers with a technique only
  where a rule for it matches too, and then the classifier does not look at the models; otherwise it
  answers `benign` at one half, which is among the answers. A deployment without
  `class_names.json`, whose model could label a flow with any threat type on its own
  (`ml/model_loader.py:68`), is outside the model.
- **Records and packets.** In `FlowExport` a flow has the fields a template can put
  in a wrong place; in `SensorUplink` a record carries the packets it counts, so that
  lost and repeated packets can be told apart; in `FlowCapture` a file is the
  sequence of its packets and a size is a number of packets, and a write, a close or a
  copy that fails does so between two packets.
- **Templates.** A template of `FlowExport` comes with the layout of its data and with what
  the parser reads in it. The two differ where `_load_template_set` takes more for fields
  than the exporter meant: options templates and the enterprise fields of IPFIX
  (`ingestion/netflow.py:212-230`). An sFlow record that is too short, or cut inside its
  sample, ends that sample and not the datagram (`skipped`).
- **Failures.** A failing database call, copy, thread, send or request is an action
  of its own at the await where it surfaces.

## 3. What the runs show

Every run takes at most a few minutes. Runs that bound time or the number
of inputs end their behaviours, and their cfg says so by `CHECK_DEADLOCK FALSE`.

| run | instance | shows |
|---|---|---|
| `Alerts` | 2 keys, 3 sources, 2 tracked sources, window 3, pulse 2, recent list 1, dedup limit 1, 7 instants, 3 detections | `SuppressedHasOpenAlert`, `UnlistedOnlyByFlood`, `SummaryFaithful`, `PulseRate`, and the refinement `ImplementsPromise` |
| `Tables` | 5 flows among 4 hosts, cap 3 (hence connections at most 4, cut to 2), timeouts 2 and 3, feature windows 1 and 2 | `IndexExact`, `TablesAgree`, `ForgottenOnlyUnderFlood`, `FeaturesFollowTraffic`, `OnlyIdleFlowsForgotten`; under fairness `IdleEntriesExpire` |
| `Pipeline` | 2 consumers, 4 records (a SYN probe, its RST reply, both directions of an exchange), queue 2, failures, expiry, stop | `RecordInOnePlace`, `RstReplyNeverAlerts`; the refinement `ImplementsQueue`; under fairness `AcceptedIsFinished` |
| `Persistence` | 3 alerts, queue 2, live list 2, failures, stop, restart | `WrittenOnce`, `NothingForgotten`, `PathKept`; under fairness `QueuedIsWritten` |
| `LiveFeed` | 2 sockets (one on `/ws/alerts`), publisher, one alert broadcast, one request and one push to two phones at a time | `ClientsKnowTheSwitch`; under fairness `PauseSilences`, `DeadSocketsForgotten` |
| `Decision` | every pair of 24 symptoms at and around thresholds, 5 kinds of address pairs, 30 model answers (2 labels, 5 probabilities, 3 anomaly scores) | `BorderTechniquesSurface`, `SegmentTrafficSpared`, `ThreatIsExplained`, `FastPathAgrees` |
| `AlertFeed` | 2 alerts, list of 1, 2 overlapping polls, 1 frame in transit, pauses | `ToastedExactlyOnce`; under fairness `ListConverges` |
| `SourcePanel` | 2 alerts of one source with its flows, late and repeated signals, 4 instants | `AlertCountHonest`, `LiveWindowGrows` |
| `Export` | 2 routers that use one template id with different layouts, a switch that samples and exports v5 past the cap, one misread template, a skipped sFlow record, 5 datagrams, batch cap 2, listener queue 2, pipeline queue 2, loss, reordering, a relay that posts, stop | `MisreadHasCause`, `DecodableIsDecoded`, `OnlyWholeDatagrams`; under fairness `QueueIsServed` |
| `Sensors` | a standalone sensor, a live one, a replay of 3 flows, 10 packets of which one is filtered and one for each sensor cannot be parsed, batches of 2, pipeline queue 2, lost and late posts | `CountedOnce`, `ReplayInOrder`; under fairness `SensorsSniffAgain` |
| `Capture` | 3 record calls, capture of 2 packets, 3 starts, failing writes, closes, copies, removals and opens, crashes | `PacketKept`, `ActiveBounded`, `EvidenceGapHasCause` |
| `SensorsPosted` | the instance of `Sensors` | the counterexample of section 5: `FullBatchIsPosted` |

Type invariants are not among the runs' properties: every component has one
(`TypeOK`; `LiveTypeOK`, `PanelTypeOK` and `VerdictTypeOK` in `LiveFeed`, `SourcePanel`
and `ThreatDecision`), and each is proved.
So are `AlertSpacing` of `AlertAggregation` (which the promise entails), `ConnectionsBounded`,
`FreshConnectionsSurvive` and `ImplementsMemory` of `FlowTables`, `SkipHasCause` and
`QuietAfterStop` of `DetectionPipeline`, `RiskIsEarned` of `ThreatDecision` and
`PathMeansFile` of `AlertPersistence`, which TLC confirms when they are added to the
run's cfg.

**Why the bounds are enough.** Each instance is the smallest in which its hazards
happen, and the mutants confirm it: for every property there is a defect of the
mapped code that makes TLC report it under the same bounds. `Alerts` needs two keys
for the prunings to remove another key's entry, one source more than is tracked,
time for two windows, and a dedup table that is pruned at every second key.
`Tables` needs more flows than one and a half times the cap, shared hosts so that
an index entry outlives one of its connections, ages beyond both timeouts, and two
windows shorter than both so that a feature must forget what the tracker keeps.
`Pipeline` needs two consumers to overtake one another and a queue smaller than the
number of records. `Persistence` overflows both its bounded structures with three
alerts. In `LiveFeed` two clients let a broadcast be between two sends while another
starts. `Decision` pairs symptoms because the classifier compares scores of two
matches at a time, the winner and a challenger; three are compared only through
their maximum. `AlertFeed`'s list of one makes room for a second alert.
`SourcePanel` scales the 20 s and 10 min of the code to less than one and to two
instants, so that a source is live, ended, removed and back within four. `Export`
has one id contested and one exporter whose data comes before its template, a template
that is misread, a set that breaks off in the middle, a v5 datagram one record longer than
the cap, and a sample that raises after a good one; both queues are smaller than what is
sent. `Sensors` has more flows than a batch holds in every source, and a filtered and two unreadable packets among good ones. `Capture`
has more packets than the capture holds, so that rotations happen within a run and
are left over to the next; with four packets and two starts (12.96 million states)
TLC finds nothing new.

**Fairness.**

- `FlowTables`: the sweep is a task that sleeps five seconds and survives
  exceptions, so `WF(Sweep)`. Nothing is assumed of traffic.
- `DetectionPipeline`: weak fairness of each consumer's steps: the event loop
  resumes a consumer whose thread has returned and hands a queued record to a
  waiting one. Submitting, failing and stopping are not fair.
- `AlertPersistence`: weak fairness of the drain task only. A write may fail
  forever; `QueuedIsWritten` accounts for it.
- `LiveFeed`: a send ends after `SEND_TIMEOUT`, a push after its client's timeout,
  and the publisher returns from its sleep. Clients, requests and alerts owe
  nothing.
- `AlertFeed`: the poll timer fires while the feed is live, a request is answered or
  fails after `FETCH_TIMEOUT_MS`, the browser handles settled polls and arrived
  frames. That the backend answers now and then is a hypothesis of the property,
  not an assumption of the specification.
- `FlowExport`: the listener's task takes a queued datagram and goes through it set
  by set. Exporters, the network and the pipeline's consumers owe nothing.
- `SensorUplink`: a post ends after its timeout (`GiveUp`), a sniff after its window,
  and the sensors' own steps follow. Packets, the network and the backend owe
  nothing.
- The remaining modules have safety properties only.

## 4. What is proved

All theorems are checked by TLAPS for every value of the constants that satisfies
the module's `ASSUME` (positive bounds, finite sets where sizes are compared,
sentinels outside the sets they extend).

**`AlertAggregation_proofs`.** `TypeCorrect`, `NoSilentSuppression`,
`SpacedAlerts`, `RateLimited`, `SummariesFaithful`, `Refinement`, `NewestAlertsListed`
and `UnlistedUnderFlood`. No suppression
without an open alert is not inductive: `_last_seen` and `_active` are pruned by
different conditions. The invariant `IInv` adds that an alert's `emittedAt` is between
its raising and now (`StampsOrdered`), that the newest emission of a key still inside
the window is remembered in both tables (`EmissionsRemembered`), and that no stamp
is in the future (`SeenInPast`). `PulseRate` has a second inductive invariant on
top: a budget in which each publication after the first costs one interval.
`SummaryFaithful` needs to know of every context, not only of the active ones, that its
source list has no repeats, is complete until it is first cut, and holds the alert's own
source (`Summarised`); `KeepLastCuts` and `NoRepeatsCounts` relate the cut list to the
set of sources folded in. `Refinement` shows that the initial states map to initial
states, that a merge is `Count`, an emission is `Raise` and that a swallowed detection
cannot happen. The last two theorems say what the list of recent detections is: the
newest alerts (`RecentIsNewest`), not the freshest (section 5). How far the two differ is
`UnlistedOnlyByFlood`: an alert left out has `RecentMax` newer ones in front of it, all
raised within its window and, because alerts of one key are a window apart, all of
different other keys, so that counting them (`UnlistedIsOutnumbered`) gives the bound.

**`FlowTables_proofs`.** About the tables: `TablesInvariant` (with `IndexesExact`,
`TablesAgreement`), `FreshFlowsKept`, `FreshConnectionsKept` and `TrackerCap`. `TypeOK`,
`IndexExact` and `TablesAgree` are inductive together: the caps remove only tracked
connections, so removing the same set from both indexes keeps them exact, and both
tables stamp a flow in the same step. `TrackerCap` compares cardinalities of the
connection set before and after a capped insertion; `FreshConnectionsKept` counts what
a capped insertion leaves (`Displacement`: whatever goes, as many stay as the lower cap
allows, all at least as fresh). About the features on top of them:
`TablesUnderFeatures` (the steps of `FlowFeatures` are steps of `FlowTables`),
`ForgottenUnderFlood` and `FeaturesAreRecentTraffic`. Both follow from the fact that a
tracked connection's age is the time since it was last reported (`QuietIsAge`) and that
one that was reported within a window and is gone made room for a full table of
connections no older (`FloodByAsRecent`). `TablesAreMemory` is the refinement of
`FlowMemory` by the flow table: a record is `See` of its flow, which drops others only
when the flow is new, a sweep is `Expire`, and a tick of the clock is a stutter because
it changes no table's domain (`TickKeepsPresent`).

**`DetectionPipeline_proofs`.** About the pipeline, for any number of consumers:
`PipelineTyped`, `RecordsInOnePlace`, `RstRepliesNeverAlert`, `SkipsHaveCause`,
`QuietOnceStopped` and `TableIsMemory` (the pipeline touches the flow table by steps of
`FlowMemory` only). `RecordInOnePlace` says both halves: `NoneLost`, that the records
`submit` accepted are those queued, held or finished, and `NoneDoubled`, that each is there
once. `accepted` is a history variable that only `Submit` changes, so a record dropped
anywhere makes the first half false. The invariant adds that a TCP RST without SYN is never among the
matched records, that a known flow has had a record, and that once stopped every
consumer is cancelled. The work is in lemmas about queues without repeats and about
moving a record between places. `QueueImplemented` is the refinement: an accepted
submission is `SubmitBatch` of one record, a rejected one is `SubmitBatch` of a record
that does not fit, `Take` is `Consume`, and every other step (awaits, failures,
cancellation, expiry) leaves the queue's length and the set of accepted records alone;
it rests on `RecordInOnePlace`, without which a record could be accepted twice.

About the decision: `VerdictTyped`, `BorderTechniquesAlert`, `SegmentSpared`,
`ThreatsExplained`, `FastPathSound` and `RisksAreEarned`, for every flow whose features are natural numbers,
every address pair and every probability and anomaly score under either label of the models. The inductive invariant
(`VerdictInv`) only says that the matches are the rules' on the flow, the models' answer
is one, and the verdict is `Judge` of them; the theorems are about `Judge`, through one
lemma for each stage: `RulesMatch` (the shape of what the rules return), `FirstMaxExists`
(the first of the best scores exists), `FuseTyped` (the fused risk is a risk), `VettedIs`,
`FloorLifts` (a specific match lifts the risk to the alert threshold) and
`ModelsDoNotMatter` (the label of a flow on the fast path is fixed by its matches).
`RisksAreEarned` is the converse of the floor: a fused risk lies between the weakest and
the strongest source (`FuseBetween`, a weighted mean that survives its rounding), every
source is a match or the models' answer (`SourceIsMatch`), and the floor lifts nothing
but a technique, and that to the threshold exactly (`FloorIs`).
`ThreatsExplained` has a hypothesis on a constant: the alert threshold is at least
0.5715. The default is 0.60; below 0.5715 the threshold and the severity bands, which are
constants of different files, no longer fit, and a threat of severity "info" exists.

**`AlertPersistence_proofs`.** `PersistenceTyped`, `AlertsWrittenOnce`,
`AlertsAccountedFor`, `PathsMeanFiles` and `PathsKept`. An alert that was not raised
is nowhere (`UnraisedIsNowhere`), a path in memory or in a row was earned by a copy
(`PathsAreEarned`), and what the worker read of the path is still true
(`WriterIsHonest`): with these the four safety properties are inductive together.

**`Console_proofs`.** About the alert list: `FeedTyped` and `ToastsOnce`, for any number
of alerts, overlapping polls and frames. `ToastedExactlyOnce` needs that the baseline is
part of what was seen and is empty until a poll sets it; `FeedTyped` bounds the list
through the lemmas on `Cuts` (the sort and slice).

About the live feed: `LiveFeedTyped` and `SwitchKnown`, for any clients, broadcasts and
pushes. `SwitchKnown` takes control requests one at a time, which is what
`ClientsKnowTheSwitch` claims (section 5 has the race of two). Its invariant `SwitchInv`
says that no other task carries control frames, that the request's broadcast carries the
value the switch has, and that every open client present when it was set already knows it
or is still to be served; `BroadcastEnds` shows that the end of the request's
broadcast leaves no client still to be served, and that the stale clients it prunes are
no longer among those the invariant speaks of. `Removed` is the lemma on pruning a list.

About the threat sources: `PanelTyped`, `CountHonest` and `LiveWindowsGrow`, for finitely
many alerts and sources. A poll is a fold of `Bump` over a list of signals; `EntryBumped`
is one signal (an entry that counts no more than was raised still does not, `Fits`, and a
live one only grows, `Grown`), and `PanelBumpedOn` carries it over any list.

**`FlowExport_proofs`.** `ExportTyped`, `MisreadsHaveCauses`, `DecodableSetsAreDecoded`,
`WholeDatagramsOnly` and `ExportFeedsQueue`, for any exporters, layouts, datagrams, caps and
queues. Of a v5 datagram `DecodableSetsAreDecoded` promises the first `BatchCap` records
(`RowsRead`), which is what the code reads; of every other set, all rows. The invariant says where each datagram is (`OnePlace`), that a template on file
was sent by some exporter (`StoreHasSource`) and which of the open datagram's sets have
been loaded (`LoadedInTurn`), and that the output belongs to the datagram in hand.
The lemmas are about the cells of a set: `Quotient` (how many rows a cut body has),
`LargestExists` (a finite nonempty set of numbers has a largest member) and
`RowsFaithful` (a row read with the layout it was written with is the flow).
`ExportTyped` and `ExportFeedsQueue` show that neither queue is overfilled and that the
pipeline's is used by `QueueNext`: the records of a datagram are finitely many and told
apart by set and row (`DecodedNumbered`), so that their order numbers them
(`RankEnumerates`) and as many are taken as fit (`BatchFits`, an injection into the room
that is left).

**`SensorUplink_proofs`.** `UplinkTyped`, `PacketsCountedOnce`, `ReplaysKeepTheirOrder`
and `UplinkFeedsQueue`. `RecordsApart` says that no two records anywhere share a packet,
`LooseApart` that packets not yet in a record are in one place; `GroupedParts` (grouping
by 5-tuple partitions) carries them over the aggregation. For the order, `RestIsLater`
says that what a replay still holds begins after everything it has sent
(`FirstAreEarlier`, by counting predecessors) and `OneChunk` that at most one of its
posts is open, after which it has ended or waits. Records that share no packet differ in
their first one (`FirstPackets`), which gives `UplinkFeedsQueue` as above.

**`FlowCapture_proofs`.** `CaptureTyped`, `PacketsKept`, `CaptureBounded` and
`EvidenceGapsHaveCauses`. The causes a loss may have are recorded where they happen, in
`gone`: a call that is given up, a crash, a close or a collected writer whose buffer the
disk refuses in part (`Flush`), and an archive file that a second rotation within its second
overwrites, with the first part of a copy that fails included (`Archive`). One call at a
time is past the lock (`OneInside`), the buffer belongs to an open writer (`FileOfBuffer`), `_bytes_written` counts what the
capture has grown since its last rotation (`Counted`, linear in the rotations that
could not remove it), between close and reopening there is no writer, even if `stop`
intervenes (`Rotating`), and only a finished call has left its packet anywhere
(`DoneFirst`).

**Induction.** The library's induction theorems take an operator as a parameter, which
the installed provers cannot instantiate. What has to be proved of a list of any length
(pruning clients, the fold of a poll, the greatest of a set) is a statement about a set
of numbers instead: the set of lengths that fail has no least member (`UpTo`, from the
library's `WFMin`), and a fold has a run (`Iteration`). The models write such folds as
functions on `0 .. n`.

**Model-checked only.** The liveness properties: `IdleEntriesExpire`,
`AcceptedIsFinished`, `QueuedIsWritten`, `PauseSilences`, `DeadSocketsForgotten`,
`ListConverges`, `QueueIsServed` and `SensorsSniffAgain`, because fairness and ENABLED
are beyond TLAPS; and the counterexample `FullBatchIsPosted`. Every invariant and every
action property of the passing runs is proved.

## 5. Disagreements between the code and what it says

Shown by a run with a counterexample:

1. `SensorsPosted`: `LiveCapture._send` (`src/backend/sensor/live_capture/capture.py:49`)
   builds its payload with `model_dump()`, whose `ts` stays a `datetime`; the JSON
   encoder raises, the exception is printed and the batch is dropped. No batch of the
   live sensor is ever posted, although the module "forwards flow metadata to the
   FastAPI backend". `replay_pcap` uses `model_dump(mode="json")`.

Stated as a formula of a module; adding it to the invariants of the run's cfg makes
TLC print the counterexample:

2. `ListTracksActivity` (`AlertAggregation`, run `Alerts`): "Sort by freshness, not
   insertion order: [...] the list must track activity" (`alerts/manager.py:118-120`),
   but the sort only orders what the deque still holds, and that drops alerts by
   insertion order (`alerts/manager.py:33`): an old flood that is still merged into can be
   the freshest alert and no longer be listed. It takes 1000 newer alerts within its
   window (`UnlistedUnderFlood`).
3. `OpenClientsKnowTheSwitch` (`LiveFeed`, run `LiveFeed`): "every long-lived client
   learns the new state" (`api/live.py:25-26`), but a client that takes longer than
   `SEND_TIMEOUT` once is removed from the list with its socket left open
   (`realtime/manager.py:28-44`): it does not reconnect and never learns of a later switch.
4. `SkippedIsResponse` (`DetectionPipeline`, run `Pipeline`): the response check
   (`engine/pipeline.py:143-163`) skips more than "the responding half of an existing
   connection". Once both directions of an exchange have been seen, every further
   record of either direction without a SYN is skipped.
5. `EvidenceAttached` (`AlertPersistence`, run `Persistence`): `update_alert_pcap_path`
   (`db/persist.py:93-105`) assumes a persisted row. The row is written by another
   task, and the path is lost when the update comes first.
6. `TechniquesSurface` (`ThreatDecision`, run `Decision`): inside the segment a bulk
   match that outscores a fired technique rule takes the label and is then demoted
   (`decision/classifier.py:209`): the technique raises no alert.
7. `RevivedWindowRestarts` (`SourcePanel`, run `SourcePanel`): the source that "must
   restart its live window" (`src/frontend/src/store/engine.ts:178-180`) gets the old
   one back from the older alert that the same poll, or the next, applies after the
   new one.
8. `DecodedAsExported` (`FlowExport`, run `Export`): "the parser caches the templates
   an exporter sends inside a datagram and decodes subsequent data sets from them"
   (`ingestion/netflow.py:10-11`), but by template id alone: two exporters with one id
   are decoded with each other's layout.
9. `OwnBytesNotOutbound` (`FlowFeatures`, run `Tables`): `_outbound_inbound_ratio`
   "never counts the current flow's own bytes as outbound"
   (`features/extractor.py:137-141`), but the tracker has counted them just before.
10. `EvidenceHasItsPacket` (`FlowCapture`, run `Capture`): the evidence copied when a
   threat fires need not hold the packet of its flow; it may still be buffered, already
   archived, or lost with a write or a close that failed.

Met while modelling, without a formula of their own:

- Two control requests handled at the same time broadcast concurrently; a slow
  client can get the older state last and keep it. `ClientsKnowTheSwitch` holds for
  one request at a time only (put two in `Requests` to see the race).
- `get_alert` falls back to the newest 100 live alerts "so a still-visible alert
  never 404s" (`api/alerts.py:45-49`), while the list shows up to 1000.
- A statistical rule scores from half its threshold (`rules/statistical.py:45`);
  `src/docs/detection.md:43-57` reads as if from the threshold, line 65 gives the
  formula as it is.
- `src/docs/detection.md:34` calls a risk below 0.4 always benign; a specific match
  is floored above it. The document counts seven behavioral rules, there are nine.
- An alert that tracks 64 sources counts 65 or 66 and stays there
  (`alerts/manager.py:168-169`).
- The console's panel opens pruned sources again as active, from any alert still on
  the list, with every poll and until the next tick, against the comments at
  `store/engine.ts:18-19`. An existing alert that is refreshed before the first
  poll's answer, or that the first answer did not include, is toasted as new against
  the comment at `store/engine.ts:43-44`. `wsConnected` is never reset when a socket
  closes, and a console opened while the feed is paused starts as live.
- `distinct_dst_ports_for_dst` and `distinct_src_ips_for_dst` would deadlock on the
  tracker's own lock (`state/connection_tracker.py:91`); nothing calls them. The
  tracker's address indexes keep empty keys of hosts long gone.
- `PersistWorker` counts a write as written when `persist_alert` has swallowed its
  failure.
- An extended router record in an sFlow sample raises in `FlowRecord` (no protocol)
  and discards the whole datagram, valid samples included (`ingestion/netflow.py:335`).
- NetFlow v5's `last` is an uptime; the decoder uses it as an age
  (`ingestion/netflow.py:124-126`). The field numbers at `netflow.py:26-36` are not
  those of NetFlow v9 and IPFIX (8 and 12 for the addresses, 7 and 11 for the ports,
  4 for the protocol); v9 and IPFIX records carry no TCP flags. `FlowExport` takes
  the numbers as the code has them, as a layout both ends agree on.
- `_is_internal` calls 172.17.0.0 to 172.31.255.255 external
  (`features/extractor.py:130`), and `dst_port_conn_freq` counts 30 s and divides by 60.
- `ScapyParser` aggregates a whole file into one record per 5-tuple, the live source a
  window; `ingestion/scapy_live.py:5-6` calls their flow semantics identical.
- A close whose flush fails is swallowed (`capture/flow_pcap.py:123-126`): the packets that
  were in the buffer are lost, and neither the drop counter nor the log says so. A copy into
  the archive that fails half way leaves its part there, and truncates an archive file of
  the same second (`capture/flow_pcap.py:106-108`). `PacketKept` names both as causes.
- Of a NetFlow v5 datagram at most `DEFAULT_PCAP_BATCH_CAP` records are read and the rest
  left out without a count (`ingestion/netflow.py:104`); v9, IPFIX and sFlow have no such
  cap.
- Options templates and the enterprise fields of IPFIX are read as ordinary fields
  (`ingestion/netflow.py:212-230`), so that their data is garbled; `MisreadHasCause` names
  such a template as the cause.
- Nothing catches an exception of the standalone sensor's packet callback
  (`src/backend/scripts/run_sensor_standalone.py:188`): one packet that cannot be parsed ends the
  sensor, with the window it holds. The live source passes over the rest of its sniff
  instead (`ingestion/scapy_live.py:82`). `SensorsSniffAgain` excepts a sensor that ended so.
- `max_bytes` of the recorder does not count the record headers of the file; `stop`
  closes the writer without the lock, although `engine/pipeline.py:109` says that the
  recorder "already serializes with its own lock". `FlowCapture` shows what that costs: a packet, counted as dropped.

## 6. What is not modelled

| part | why |
|---|---|
| Byte layouts of the export formats (beyond rows that do not fit and templates that are misread), protocol and flag fields, the Zeek log reader, the synthetic source | formats without state. `ingestion/stream.py` cannot be imported (`FlowParserBase` is undefined) |
| Features of one record alone, protocol hints, `extract_from_record` | arithmetic; nothing calls the last one |
| The packet inspector of `api/captures.py` | reads finished files |
| The order of `main.py`'s lifespan as a module of its own | each module lets its component start and stop at any moment, which includes it |
| Signature rules, match counters | block and allow lists are empty by default; counters decide nothing |
| Models (`ml/*` beyond blending), training, evaluation | either shipped label with any scores is allowed (section 2); a supervised model that labels flows with techniques of its own, as one without `class_names.json` would, is not |
| Resolving alerts, metrics snapshots, read-only APIs | single assignments or reads |
| Runtime metrics, rolling windows, configuration, logging, helpers | no control depends on them, or values already in the models |
| The traffic generator, `pcap_writer` | test input; nothing uses the writer |
| Console pages | rendering |

## 7. Plan

Done, in this order: `AlertAggregation` with `AlertPromise`, `FlowTables`,
`DetectionPipeline`, `AlertPersistence`, `LiveFeed`, `ThreatDecision`, `AlertFeed`,
`SourcePanel`; then `PipelineQueue` with `FlowExport` and `SensorUplink`,
`FlowFeatures`, `FlowCapture`, and the proofs about persistence, export, uplink and
capture.

Then the proofs about the alert summaries, the features, the live feed, the decision and
the threat sources, the refinement of `PipelineQueue` from both of its sides and that of
`FlowMemory`, the list of recent detections and where a risk comes from.

What is left, by value: the evidence copy of `FlowCapture` composed with the `Preserve`
step of `AlertPersistence`, so that a path means a file with a packet in it or a cause; the
frames `AlertFeed` receives as those `LiveFeed` sends; the shutdown order of `main.py` over
the stops of the components.
