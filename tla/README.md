# TopoLight in TLA+

TopoLight is a network monitor in one Go binary: it polls devices, listens for
traps, syslog and flows, keeps a status per device and port, opens and resolves
alerts, notifies people, and runs alone or as a cluster with one leader. This
directory holds TLA+ models of it, the TLC configurations that check them, and
TLAPS proofs. `PROJECT.json` ties every definition to the source lines it models and
lists runs, mutants, findings, hazards and theorems.

Check a run with `tlc -workers 2 -config <file>.cfg <module>`, a proof with
`tlapm <module>.tla`.

## 1. The system

| Part (source) | State | Operations | Talks to | What is hard |
|---|---|---|---|---|
| Election, leases, roles (`cluster/node.go`, `transport.go`, `identity.go`, `cmd/topolight`) | term, vote, state, lease, `node.json`, the program the process runs | campaign, vote, heartbeat, lease check, step-down, re-exec, `-promote` | every full node by RPC | late and lost RPCs, writes outside the lock, crash between a vote and its file |
| Membership and sharding (`cluster/identity.go`, `transport.go`, `node.go`) | members, tokens, pins, device → node | mint, join, remove, pin, reshard, beat | heartbeats carry members, pins and devices | every device polled while members come and go |
| Forwarder (`cluster/sync.go`) | queue, count | add, Flush, requeue | poller and listeners add, leader ingests | posts that fail after they were handled, adding during a post, limits |
| Mirror (`cluster/sync.go`) | files, sizes, last manifest | manifest, fetch, tail append, reload | leader's file handlers, standby's store | pass that fails half-way, diverged journals after a failover |
| State engine (`state/engine.go`, `rules.go`) | streaks, statuses, rule state, flap window, alerts, parents | device, interface and event handlers, housekeeping, computeParents | poller → engine → store, notify channel | order of two devices' polls, folding, re-opening, restart, a stale parent map |
| Notification dispatcher (`notify/notify.go`) | pending copies, `Notified` in the store | Run, flush | engine's channel, mail, Telegram, web hook | stale copies, a slow sending, full channel |
| SIEM export (`siemexport`) | queue, batch | Tee, send | between engine and notifier | a sink that hangs |
| Store (`store/store.go`) | all configuration and alerts, `state.json`, journals, one lock | CRUD, Save, ArchiveResolved, AddEvent | everybody | dirty flag against a running save, crash between files, a callback under the lock |
| Poller (`poller/poller.go`, `routing.go`) | schedule, last counters, last tables | due, poll, inventory, rates, routing walk | SNMP, ICMP; engine, tsdb | overlapping polls, wraps and restarts, differences of two walks |
| SNMP client (`snmp/client.go`) | request id, engine boots | walk, retry, discovery | the device | lost, late and repeated replies, agent restarts |
| Time series (`tsdb/tsdb.go`) | head, hour files, roll-ups | Append, rollover, Checkpoint, Compact | poller, console | crash during a write, half-compacted days |
| Topology (`topology/`) | observations, links, roles | Collect, Rebuild, manual links | poller, engine, console | edits and deletions while a Rebuild runs |
| Flow (`flow/agg.go`), endpoints (`endpoint/`) | minutes, summaries, day files; MAC table and sightings | add, roll, reload; place, move, prune | listeners, poller | late datagrams; tables read minutes apart |
| Syslog (`syslog/`) | rate per source, day files | receive, append, compress, prune, search | listeners, engine, forwarder | midnight, a compressor beside the writer, crashes |
| Backup (`backup/`), probes (`probe/`) | versions, index, schedule; failure counts | run, trigger, Put; record | SSH; engine | a crash between files, a result after its time |
| Accounts (`webui/server.go`, `auth/`), inventory (`discovery/`, `license/`) | users, sessions, tokens; sites, devices, limits | sign-in, user and device routes, sweep, licence | store | check and act in two calls |
| Traps, gNMI, wireless, integrations, reports, AI client | – | decoding, text | engine, store | not modelled, see 6 |

What makes each part correct: at most one leader per term and a restart that comes
back in the right role; every device polled by somebody; nothing that matters lost
or reordered on the way to the leader; a mirror that equals the leader's files; no
outage without an alert and no alert after recovery; every critical alert announced;
what was saved survives; what is shown is what was measured.

## 2. Modules

| Module | Models | Checked in |
|---|---|---|
| `Election` (proofs: `ElectionProofs`) | election, leases, role changes | `election`, `election_crash`, `election_return` |
| `StateEngine` (`StateEngineProofs`) | `state/engine.go` | `engine`, `measure`, `services`, `outage_visible` |
| `Parents` (`MeasureProofs`) | `computeParents`, `upstreamLocked`, `impactOf` | `measure` |
| `Forwarder` (`ForwarderProofs`) | `Forwarder`, `handleIngest` | `delivery`, `forwarder_body` |
| `Notify` (`DeliveryProofs`) | alert operations, channel, dispatcher | `delivery`, `notify_withheld` |
| `Siem` (`DeliveryProofs`) | `siemexport` | `delivery` |
| `Poller` (`DeliveryProofs`) | the schedule of `poller.go` | `delivery` |
| `StoreLock` | the store's lock and its callers | `delivery`, `store_lock` |
| `Store`, abstract `Durable` (`StoreProofs`) | `Save`, `Close`, `ArchiveResolved`, start | `data` |
| `EventJournal` (`StoreProofs`) | `AddEvent`, `FlushEvents`, pruning | `data` |
| `Tsdb` (`DataProofs`) | head, hour files, roll-ups | `data` |
| `Mirror` (`DataProofs`) | `SyncOnce`, `fetch`, manifests | `data` |
| `Membership` (`DataProofs`) | tokens, members, pins, `reshard` | `data` |
| `Syslog` (`DataProofs`) | receiver and log store | `data` |
| `SnmpClient` (`MeasureProofs`) | one walk | `measure` |
| `Counters` (`MeasureProofs`) | octet counters to rates | `measure` |
| `Routing` (`ServicesProofs`) | `poller/routing.go` | `services` |
| `Endpoints` (`MeasureProofs`) | MAC and ARP tables | `measure` |
| `Flow` (`MeasureProofs`) | aggregator | `measure` |
| `Topology` (`MeasureProofs`) | links, roles | `measure` |
| `Accounts` (`ServicesProofs`) | users, sessions, API tokens | `services` |
| `Inventory` (`ServicesProofs`) | discovery, sites, licence limits | `services` |
| `Backup`, `Probe` (`ServicesProofs`) | backups; synthetic probes | `services` |

`MCElection`, `MCStateEngine`, `MCForwarder` and `MCNotify` give one module's
constants their small values, `MCEngine` two instances of the engine. `MCDelivery`,
`MCData`, `MCMeasure` and `MCServices` put several components into one run: the
variable `part` is chosen at the start and only that component moves, the others
stay in one of their initial states. The run explores the sum of the components'
state spaces, not their product; where components act on each other, the module
itself has the other's steps (the engine's alert in `Probe` and `Routing`, the
notifier's channel in `Siem`, `Elect` and lost beats in `Membership`, the leader's
writes in `Mirror`).

**Election.** Each node keeps its term and vote in memory (`term`, `votedFor`), in
the in-process identity (`ident`) and in `node.json` (`disk`). A handler runs under
`n.mu` and is one step. `campaign()` releases the lock before it writes, so it is
`CampaignBegin`, `CampaignWriteTerm`, `CampaignSave`, `FinishCampaign`, and a
handler may run between any two. Requests stay in a set: one never taken out is
lost, one taken out late is delayed. Replies are recorded when the handler runs and
counted in part by the caller, which covers lost and late ones. `mode` is the
program the process runs, `stepping` a pending re-exec; `Crash` and `Reexec` start
again from `disk`.

**StateEngine.** `Engine.Run` handles one input at a time, so `OnDevice`,
`OnInterface`, the event handlers and `Housekeeping` are one step each, with
everything they call: hysteresis, transition, folding under the upstream's alert,
re-opening within 30 minutes, flapping, the site alert. Operators' `Ack` and
`Resolve` run beside it. Values are abstracted to their place against a rule's two
thresholds, times to "recent" and "old". `notes` is what a step puts on the
channel that `Notify` starts from.

**Parents.** The breadth-first search runs over a copy of the links while the links
change; the map is kept for a minute. Roots and children come in any order, as maps are
ranged over (`Orders`), neighbours by name (`ByName`). `ParentsLeadToRoot` asks for levels:
0 at the roots, one more at a device than at its parent, and differing by one at most
across a link, so that no way to a root is shorter than the map's.

**Forwarder.** Samples, events and traps, which the code never drops, are one
sequence of numbered items; metrics, log lines and flows, of which it drops the
older half, are counts. `Flush` takes the queue, `Post`/`NoLeader` follow without the
lock, `Ingest` is the leader handling any posted batch at any time, also after the
sender gave up and again, `PostSucceeds`/`PostFails` end the post. `BodyLimit` is
what fits in the 64 MB `handleIngest` reads.

**Notify.** `Open`, `Reopen`, `Repeat`, `Resolve` are the branches of `openAlert` and
`resolveAlert`; what is queued is a copy of the alert. `FlushPending` is `flush` up to
the sending: due test, filters, stable sort; the sorted batch is described, not
computed (`StableOrder`: the worst first, equals in their old order); the settings are
any member of `Config` each time, since the administrator may change them and quiet hours come and go.
`Deliver` is the end of the sending and the marking; whether the services took the
message makes no difference to the code, so it makes none here.

**Siem.** Tee, the export queue and the sender are separate goroutines; a sink may
fail, or keep the sender waiting for ever.

**Poller.** `next` and `invDue` count down to what is due. `Run` scans the devices,
a poll is its beginning, its reading and its end, with the semaphore and the
`inflight` flag taken and released where the code does. Assignments change at any time.

**StoreLock.** Go's `RWMutex` (external): readers share, a waiting writer keeps new
readers out. `LockNext` has the callers that do not nest; `MoveNext` adds the console's
PUT that names a site.

**Store.** `Save` is four steps (copy under the read lock, temporary file, rename,
clearing the flag), run by `flushLoop` and by `Close`; a crash may fall between any two.
The snapshot is the number of its last change and the life of the alerts. `Promise`
instantiates `Durable`, the abstract specification: a value in memory and a durable
one that never goes back. `Overlap` lets `Close` begin while `flushLoop` saves. `Torn`
and `Gone`, what a file is when it has no content, are no content (`FileAssumption`).

**EventJournal, Tsdb, Syslog, Flow, Backup** are the other files. In all of them a
record is a number, its text and encoding are left out, and what a lock does not cover
is a step of its own: the buffered writer that changes day; `Checkpoint` writing
beside appends, `Compact` removing hour files one by one; a compressor that globs, copies,
renames and removes beside the writer (`Packs` is where it has got to); a datagram or a
backup stamped before the lock (`shared` remembers two backups stamped alike).

**Mirror.** A file is the sequence of its writes, its size their number. A pass takes
a manifest and then fetches in path order; it may fail after any file, the leader
writes meanwhile and may change between any two steps. `sources` remembers from which
leader, in which leadership, a standby's journal came.

**Membership.** Tokens, join, removal, pins and beats on every node's own list.
`Elect` stands for the election. The hash is a constant: `Hash[n][d]` is n's place in the
order the hash gives d's nodes, any order will do.

**SnmpClient, Counters, Routing, Endpoints, Topology** model the way from the wire to
what is shown. Datagrams are lost, delayed and repeated; counters are taken modulo
`Narrow` and `Wide`; a column or a table that was not answered reads as zero or empty,
as in the code; `Rebuild` is the sequence of its reads and writes. An answer of the agent
is any sequence in `Bulk`, the set of those that hold the next rows in order (there is
one). The octets of one reading to the next stay below `Wide`: for a 64-bit counter the
code takes a wrap for a reset, by its comment. In `Routing` the events of the peers of one
walk come in any order, since the code ranges over a map, and no key is both a peer's
and a neighbour's.

**Accounts, Inventory, Probe.** A handler is one step per call of the store; what it
read before is kept in `req` and `task`.

## 3. Runs

Passing:

* `election` – three nodes, two campaigns, one heartbeat round, one crash or
  `-promote`: `ElectionSafety`, `StaleLeaderCannotRenew`, `RolePersisted`. Two campaigns
  make two candidates of one term or a newer one beside an old leader; the proofs
  remove the bounds. Crashes happen only when `node.json` holds the vote
  (`CrashAnytime = FALSE`).
* `engine` – two instances of `StateEngine` in one run. A device alone with flapping,
  operators, restarts and maintenance, up to two alerts per key: `UpHasNoDownAlert`. A
  switch and one behind it with folding, restarts and maintenance, up to two alerts per
  key: the liveness `PairAnsweringEndsOutage`. (That folding keeps `UpHasNoDownAlert` is
  proved for every topology.)
* `delivery` – what must happen in the end.
  Forwarder (`Max` 5, two kept and four cheap items): `HeldInOrder`, `AllDelivered`.
  Notify (two alerts, a channel of two, two openings, two severities):
  `HistoryInOrder`, `ResolutionFollowsOpen`, `CriticalIsSent`.
  Siem (two sinks, all capacities 1, four alerts, so that every buffer fills):
  `ExportedOnceInOrder`, `NeverHeldUp`.
  Poller (two devices, one worker, a sample channel of one): `OneVisitAtATime`,
  `EveryDeviceVisited`. StoreLock (three goroutines: a reader, a writer and one that
  waits behind both): `CallsReturn`.
* `data` – what is kept.
  Store (two alerts, six changes, one restart): `ArchivedIsJournaled` and the refinement
  `IsDurable`. EventJournal (three days in any order, one past the retention):
  `EventsJournaledOnce`. Tsdb (three hours, days of two, two samples an hour, a sender
  an hour ahead): `KeptIsStored`. Mirror (two full nodes, four writes, three passes, one
  failover): `JournalIsCopied`. Membership (two full nodes, a collector, two tokens, two
  sites, a pin, two losses or removals): `EveryDevicePolled`, `OnlyTheFairShareMoves`.
  Syslog (two listeners, one compressor, three days, three lines, one crash):
  `StoredIsFound`.
* `measure` – from the wire to what is shown.
  SnmpClient (three rows, one per answer, a retry, an agent restart, a row that comes or
  goes): `WalkMissesNoRow`. Counters (wraps at 3 and 16, so that the narrow one wraps
  within four octets): `RateIsTraffic`. Endpoints (two switches, two ports, an uplink, a
  router, a table of one): `PlacedOnLeastBusyPort`. Flow (two flows, seven minutes, slots
  of two, days of four, rings of three): `WindowCountsOnce`. Topology (three devices,
  contradictory neighbour tables, a drawn link, three edits): `OnePeerPerPort`,
  `LinksJoinDevices`. Parents (four devices, two sites, every graph, changed once):
  `ParentsLeadToRoot`. StateEngine with a port, flapping at the second change:
  `DownIsAlerted`.
* `services` – what users and schedules do side by side.
  StateEngine with all samples, rules of two cycles and operators, without a
  restart, which loses `metricOn`: `RuleAlertHasCondition`. Routing (a peer, two
  neighbours, an aggregate, four walks, a channel of two): `RoutingAlertsAgree`.
  Accounts (two browsers, two names, a limit of one user): `SessionsHaveUsers`.
  Inventory (two workers, two addresses, limits of one and two): `SoundUnlessRaced`.
  Backup (two sessions at once, two configurations, two versions kept):
  `LatestReadable`, `TriggerIsKept`. Probe (two runs at once, a channel of one, one
  restart): `AlertFollowsProbe`.

Several of these properties have named exceptions (`crossed`, `excused`, `strayed`,
`raced`, `cut`, `astray`, `turned`, `shared`, `spoilt`, `ghosts`): history variables set
exactly at the step from which the code gives no guarantee any more. They are the
precise conditions under which the property holds; section 5 says what happens
otherwise.

`MeasureTypeOK` and `DataTypeOK` check the types of the components of those runs. The
type invariants of the components of `delivery` and `services` hold in the same
instances; their configurations leave them out.

Violations, each a difference between code and documentation (`findings` quotes
both sides):

* `election_crash` – `campaign()` writes the identity outside the lock and can
  overwrite a vote given meanwhile; after a crash the node votes twice in a term.
* `election_return` – an old leader that is a follower when the new leader's
  heartbeat arrives is never demoted and keeps running the engine.
* `outage_visible` – an alert once folded keeps its root cause, so a device that is
  later down by itself is missing from the list of root causes.
* `forwarder_body` – a queue larger than the ingest limit is refused and retried for
  ever.
* `notify_withheld` – opening and resolution in one batch: the resolution is withheld.
* `store_lock` – moving a device to another site calls the store from inside
  `UpdateDevice` and waits for itself with the lock held.

Every property of a passing run has a mutant, an operator placed before the
definition it replaces, with which TLC finds the property violated.

**Deadlock** is not checked: all models stop when their bounds are used up. That the
store's callers do not block each other is `CallsReturn`.

**Fairness.** The liveness properties of `delivery` each name their own fairness as a
premise, so that one part's assumptions are no other's.
`StateEngine`: the device the property speaks of keeps being polled (the poller's
schedule) and Go's `select` takes a channel that stays ready; nothing is assumed of the
other devices, of operators or of maintenance.
`Forwarder`: `Run` flushes every second and a post ends with the client's timeout (weak
fairness); that a leader is known, handles a batch it can read and answers in time is
assumed to happen again and again (strong fairness), the normal condition of the
cluster, and the queue is only there for the times when it does not hold.
`Notify`: `Run` selects for ever, the ticker runs, and a sending ends. The last is
guaranteed by the HTTP client's 15 s for Telegram and web hooks; `smtp.Dial` has no
deadline, so with e-mail it is an assumption about the mail server.
`Siem`: the Tee goroutine and the notifier run; nothing at all is assumed of the sinks
or of the goroutine that sends to them.
`Poller`: the loop and the clock run, and a poll ends, which every request's timeout
and bounded retries guarantee.
`StoreLock`: a call that holds the lock goes on, and the mutex starves nobody: a
reader or writer to whom the lock is free again and again gets it, as `sync.RWMutex`
documents. `Election` has no liveness property: without a bound on delays the code
promises none.

## 4. Proofs

All for every value of the constants, under the assumptions the modules state of them
(`...Assumption`), which TLC evaluates. For each theorem: the inductive invariant, and
why the property alone is not one.

* `ElectionProofs` – `TypeCorrect`; `RoleIsPersisted` from `RoleInv` (memory and disk
  agree on `WasLeader`); `OneLeaderPerTerm` and `StaleLeaderLosesLease` from
  `ElectionInv`, assuming `~CrashAnytime`. `ElectionSafety` alone is not inductive: one
  must know that the votes a candidate holds are held by the voters and by nobody
  else's campaign (`VotesExclusive`), and that the quorum of every election won stays
  withheld from later candidates of that term (`QuorumWithheld`); two majorities of a
  finite set meet, which is proved from the cardinality theorems.
* `StateEngineProofs` – `EngineInv = TypeOK /\ Settled /\ DownIsAlerted`. `Settled` adds
  "maintenance" to the statuses that have no down alert: from there a device may go
  up directly. Each handler is reduced to its `Effect` (keys opened, keys closed), and
  the invariant needs only which keys those are. `TypeCorrect`, `NoStaleDownAlert`,
  `NoSilentOutage`; `RuleAlertsCanClear` assumes `~Restarts`.
* `ForwarderProofs` – `ForwarderInv = TypeOK /\ Phase /\ CountExact /\ CheapInv /\
  OrderInv`. `CheapInv` adds that while a batch is out the new queue holds at most `Max`
  cheap items, because it restarted from empty: the batch put back in front
  (`Max + 3`) plus that, halved and rounded up three times, is `Max + 3` again. The
  step needs `Max >= 5`, the module's assumption (the code uses 200000). `OrderInv`
  says that held items are the last of the input without a gap and that every batch
  in transit is a piece of the input all of whose predecessors are ingested, which is
  why a late batch does no harm. `CountIsExact`, `CheapStaysBounded`, `NothingLost`,
  `IngestsInOrder`, `TypeCorrect`.
* `StoreProofs` – `NoAlertLost`, also with `Overlap`: `ArchiveInv` says that whatever
  snapshot exists (memory, `state.json`, the temporary file, the copy in the hands of each
  Save) has archived only what is in the journal, since a crash may bring any of them
  back. `StoreIsDurable`, the refinement of `Durable`, assumes `~Overlap`: `DurableInv`
  ties where the one Save is to what the temporary file holds and to the age of its
  copy; each step then is a step of `Durable` or a stutter. `EventsAreJournaled`:
  `EventInv` adds that events are numbered (`Numbered`), that the buffer holds events of
  the open day only, each once and in no file (`BufferOfDay`, `FilesOfDays`), that what is
  not yet in its file is still in the buffer and later than the last flush (`Somewhere`),
  and that the open file of a day within the retention still has its name
  (`StillLinked`; a flush into a pruned file would be lost). `StoreTypeCorrect`.
* `DeliveryProofs` – `OneVisitAlways`: `VisitInv` adds that whoever polls or waits for a
  slot is marked in `inflight`; that mark, not the schedule, is what keeps `PollNow`,
  `Forget` and reassignment harmless. `ExportKeepsOrder`: `SiemInv` orders the whole
  way of an alert, engine's channel, Tee's hand, queue, batch, sinks: who is further on was
  raised earlier. `ResolutionAfterOpen` and `HistoryTold` share `NotifyInv`: the mark
  `Notified` is never ahead of the message (`MarkInv`), in no copy either, because a stale
  copy is what the filters look at; and copies further on their way are older, alert by
  alert, and not ahead of the store (`PlaceInv`). `PollerTypeCorrect`.
* `ServicesProofs` – `SessionsEndWithUsers` needs the sign-ins in flight, which become
  sessions (`SignInsHaveUsers`). `AlertIsTheProbes`: until something goes astray at most one
  event is recorded and unsent, and it turns what the channel will make of the alert
  (`WillBeOpen`) into what the runner remembers (`EventInv`). `TriggersAreKept` is
  inductive with the types. `NewestBackupReadable`: `VersionsSound` follows a Put through
  its steps (file, cap, index; `CapInv`), with stamps and ids distinct until two are shared.
  `InventoryIsSound`: `InventoryInv` describes each task in flight by what it may still
  rely on while it is alone, and `ApplyCap` by a descending choice of devices, whose
  existence and count are proved from well-founded induction on numbers and the
  cardinality theorems. `AlertsAreTheTables`: `RoutingInv` speaks of what the alerts will be
  when the channel has been emptied (`WillOpen`), so that it holds between events too.
* `DataProofs` – `SharesCoverDevices` and `MembersTypeCorrect` from `MemberInv`: the
  leader is alive, a member and counts itself (`Standing`), so `reshard` never sees an
  empty set; and the shares are what it computed of the pins and nodes of that beat
  (`Assigned`), not of today's. `ReshardIsStable` is an action property from the same
  invariant: the best node of a set is the best of every subset it is in.
  `SamplesAreKept`: `TsdbInv` relates head, hour file, the checkpoint being written and
  roll-up, among them that a file of the present hour has nothing the head has not
  (`Unwritten`), that a clean head is in a file or on its way there (`Clean`), and that a
  file about to be removed is rolled up and not written again (`RolledUp`).
  `LinesAreFound`: until `crossed`, the day being written is the last one with a file
  (`WriterIsLast`), the compressor takes earlier ones only (`PackersWork`) and a compressed
  day is over (`PackedIsOver`). `JournalsAreCopied`: a tail is only put to a journal
  fetched before, and until the journal's turn a pass knows its length (`PassesKnow`).
  The attempt to prove the earlier wording of `JournalIsCopied`, one source without
  regard to when, showed it false for a leader that lost the lead, copied another's
  journal and led again; the property now counts the leadership.
* `MeasureProofs` – `RatesAreTraffic`: `ReadingStands` says that unless something spoilt
  it the last reading is of the counter it will be compared with; the arithmetic is one
  lemma (`ModMovesOn`: less than a round moved on wraps at most once). `LinksAreJoined`
  and `OnePeerAlways` from `TopoInv`: since a Rebuild writes what it read, its reads are
  invariant too (`ReadsJoined`), and the links it keeps and adds are taken greedily.
  `LeastBusyAlways`: `EpInv` says it of all sightings and entries. `WalkIsComplete`:
  `WalkInv` adds that a datagram with the last request id, while somebody waits for it,
  is about the row the walk has come to (`OnTheWire`), which is why late and repeated
  answers do no harm, and that the rows that stayed are in the answer or ahead
  (`Walked`). `ParentsAreRight`: `ParentInv` has the search's order (`SearchOrder`: whoever
  was visited is a root or came after his parent, and his neighbours are visited or he is
  still in the queue) and a function of levels whose queue spans two levels at most
  (`QueueLevels`), so that the first way found is a shortest one; levels rule out loops
  (`NoLoop`), hence what `impactOf` finds is new each time (`Found`) and its count is below
  the number of devices.
  `FlowInvariant` and `WindowsCountOnce`: that a window counts a flow once says nothing of
  what the next fold will merge, so `FlowInv` follows a record from its minute to the
  archive. The ring is in order, ends before the open minute, and has in their minute all records
  added less than its length ago (`RingInOrder`, `AddedStays`), so a short window misses none. A
  record still to be added is nowhere yet (`RecordsOnce`), and no two summaries share one
  (`StoredOnce`). A summary is of a slot that is over for the open minute, and shares records
  only with minutes of its slot (`SlotsOver`), so no later fold makes it again and a window
  that takes both takes disjoint ones. A day with a `.gz` is not the one written, and only a
  compression at work has it in both forms (`DaysOver`, `TwoForms`), so a restart reads it once.
  `Reload` is any list in the order of the files, `Pick` a set of places; both replaced
  filters of sequences, which the provers cannot reason about.

`PartsBehave` and `DataPartsBehave`: a behaviour of `MCMeasure` or `MCData` is, component by
component, one of each component's specification; with the theorems above every
invariant of those runs holds of them for all constants. `MeasureTypes` and `DataTypes` are the
types of all thirteen components. Few types are inductive: a table's size needs what
its limit leaves of it (`CutTyped`), a port in an entry that the sightings are of switches
(`SeenBySwitches`), a copy's time that the pass's manifest came from a full node
(`FromLeader`), the drawing's ends that what a Rebuild read is of known devices
(`DrawingTypes`, `EndsIn`), the counters of a journal that a start reads only what was written
(`EventBounds`, `LoadedTyped`).

The types of the first three modules, `ElectionInv`, `CountExact`, `CheapBounded` and
`IngestedInOrder` are proved and are no longer run. The exceptions named in section 3
stand in the theorems as they do in the properties.

Only model-checked:
* the liveness properties, outside this prover's reach (`PairAnsweringEndsOutage`,
  `AllDelivered`, `CriticalIsSent`, `NeverHeldUp`, `EveryDeviceVisited`, `CallsReturn`);
* the violations, each shown by one behaviour.


## 5. Differences met while modelling, without a run

Definitions named here are in the modules and fail in the cases described.

State engine and notification:
* `openAlert`'s re-open branch notifies a device that is merely unreachable
  (engine.go:854; USER-GUIDE.md:43 "never notified separately").
* `evaluateSite` counts unreachable devices but is not called when one becomes
  unreachable (engine.go:399; USER-GUIDE.md:48).
* Threshold and SNMP rules open and notify alerts of a device in a maintenance window
  (engine.go:262; USER-GUIDE.md:53).
* A port that goes down, unknown, up keeps its `interface_down` alert (engine.go:637;
  USER-GUIDE.md:46).
* The flapping alert is resolved on the first recovery although the limit is still
  exceeded (engine.go:421; USER-GUIDE.md:47).
* After a restart `metricOn` is empty and a value below Exit does not clear an open rule
  alert (engine.go:82; rules.go:18).
* An alert resolved and re-opened while its first opening is being sent is marked
  notified for an opening that may be filtered later (notify.go:159).
* A higher severity taken over by an existing alert is never notified (engine.go:820).
* Siem: a full queue drops alerts and a stop loses those queued.

Cluster:
* A member that is given no devices takes the empty list for "all" and polls every
  device (`OnlyItsDevices`; node.go:83).
* A removal is a mark on the leader that made it and is lost with a failover; a join at
  a follower is not told to the leader; a lost answer to a join spends the token.
* The leader's Ingest drops samples at full channels and answers ok
  (cmd/topolight/cluster.go:173).
* A mirror pass that fails after `state.json` was fetched forgets that it changed, and
  the store is reloaded only at the next change.

Store and files:
* `Close` during `flushLoop`'s Save: both use `state.json.tmp`, and the dirty flag of a
  change made in between is cleared (`ClosedIsSaved` with `Overlap = TRUE`).
* Tsdb: a Checkpoint that ends after the rollover overwrites the full hour with the part
  it copied; a sample ahead of the clock closes the hour early; hour files that cannot be
  read are removed after Compact.
* Syslog: when a line stamped before midnight is stored after one stamped later, or the
  day changes while a compressor runs, the compressor takes the day in use for an old
  one, removes the open file, and a later compression overwrites its `.gz`. A crash loses
  the writer's buffer.
* Flow: a late datagram makes its slot fold twice; a stop between rename and removal
  makes a day be read twice; summaries in the buffer are lost in a crash.
* Backup: an older fetch stored after a newer one becomes the latest; two backups of one
  second share a file; `Forget` during a session leaves it to write again.

Measuring:
* Counters: a column that was not answered reads as zero and gives a bogus rate on
  the next poll; a restart is not seen when the new uptime is larger.
* `PollNow` during a poll is lost.
* Routing: a walk of one table that fails makes its peers "disappeared", and their
  return as established sends no event, so the alert stays open. The OSPF alert stands
  for all neighbours: a lost one that leaves the table lets another's return resolve
  it, and so does a syslog line about another neighbour. A member that leaves an
  aggregate changes the count without an event; a prefix column that fails gives a false
  `bgp_prefixes_dropped`.
* Topology: a role edited during a Rebuild is lost (`LockedRoleIsKept`); a manual link
  deleted during one comes back; a device deleted during a walk leaves its neighbours
  table behind; the comment "Merge one-directional pairs" has no code.
* Endpoints: after a restart the sightings are empty and moves are missed or reported
  wrongly; `Flush` encodes entries after the unlock.

Console and schedules:
* A refused licence key leaves the licence in force, as its comment says
  (cmd/topolight/main.go:513), but the handler applies the limits of the state it was
  refused with (server.go:748), which can unmonitor devices
  (`RejectedKeyOnlyReports`).
* Limits, addresses and sites are checked before they are stored: requests side by side
  pass the limit or register a device twice.
* Probe: after a restart or a deletion the alert stays open although the probe answers
  (`ResolvesWhenItAnswers`; rules.go:48); a full channel drops the event.

## 6. Not modelled, and the plan

Left out of the modelled parts: the engine's authentication-failure window, link
status and browser feed; a changing `Upstream` in `StateEngine` (`Parents` has the map
by itself); changing membership in `Election`; statistics and texts everywhere; chunk
encoding and queries of the time series; top lists and byte counts of flows; parsing
and classification of log lines; SSH dialogues; BER, keys and ciphers of SNMP; layout
coordinates.

Parts left out: the trap receiver, gNMI (its synthetic interface indexes restart at
100000 with every inventory and may collide; there is no other state), wireless and
integrations, which turn messages of other systems into the samples and events
`StateEngine` takes; reports, AI client and rendering, which are text from stored data;
the remaining console routes, each one call of the store; ICMP, profiles, OUI tables,
certificates. None of them has state the properties are about.

Next: `Forwarder` composed with the leader's channels; `StateEngine` with the map of
`Parents` as a changing `Upstream`; `StateEngine` shown to implement the alert operations of
`Notify`; the types of `StoreLock`.
