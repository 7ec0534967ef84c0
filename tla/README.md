# Cluster Interconnect Fabric: specification and proofs

The Cluster Interconnect Fabric (CIF) is a controller that decides which members
of a cluster may talk to each other over which paths. A caller submits a request;
the controller grants it, with an id, a lease and a number of capacity units, or
turns it down with one of ten reasons. The whole difficulty is to keep that
answer true: across retries and lost replies, across changes of the cluster, across
a log that refuses an append, and across crashes and restarts.

This directory holds TLA+ modules for the decisions and the state of the
controller, for its log down to the medium, for the threads of its server and for the
connections to its clients, configurations that check them with
TLC, and theorems about them checked by TLAPS. Paths below are relative to the repository; line numbers are
those of the commit the modules were written from.

- [The system](#the-system): components, state, operations, interactions, hazards
- [The modules](#the-modules): what models what
- [The runs](#the-runs): what is checked, with which bounds
- [The proofs](#the-proofs): what holds for every instance, and by which argument
- [Findings](#findings): where code and documentation part ways
- [What is left out](#what-is-left-out)
- [Plan](#plan)

## The system

```
  cif (CLI) ── AuthorityClient ──┐  TCP, one FrameChannel per connection
                                 │
   worker threads (one per connection) ── in-process callers
                                 │ BoundedQueue<WorkItem>
                          reducer thread ── housekeeping when idle
                                 │ calls, one at a time
                           AuthorityCore ── ClusterSpec, ContractSet, grants, attempts
                                 │ JournalSink
                              Journal ── one append-only file, compacted by snapshot
```

### Components

**AuthorityCore** (`src/authority.cpp`) keeps the cluster spec, the contracts, the
grant table, the attempt table, the logical tick, counters and serials, and a
controller incarnation. Its operations are `initialize`, `recover`, `submit`
(with `evaluate` and `commit_grant`), `renew`, `release`, `resolve`,
`acknowledge`, `cancel`, the administrative mutators, `fence_all`,
`revalidate`, `advance_tick`, `expire_leases`, `make_snapshot` and `self_check`.
It is a reducer: no threads, no clock, no I/O but appends to its sink. What makes
it correct: an attempt yields at most one grant; no capacity is promised twice;
a state change is recorded before it takes effect; what has ended stays ended; a
grant carried over a restart or a change of the cluster is still sound under the
cluster as it is; and what callers were told stays true.

**ClusterSpec and ContractSet** (`src/model.cpp`, `src/contract.cpp`) keep
members, paths, exclusions, obligations and contracts, and the generation, epoch and
policy counters that form the coordinate of a request. Every mutator validates,
then stores the row, then moves the generation on. Correct when a rejected command changes
nothing, and when replaying the accepted commands gives the same spec.

**Journal** (`src/journal.cpp`) keeps one file of framed, chained records and the
`RecoveredState` it replays to. Operations: `open` (with torn-tail repair),
`append` (refusing at a record or a byte bound), `compact`, `replay_journal`. Correct
when what was synced is replayed, exactly once and in order.

**AuthorityServer** (`src/server.cpp`, `include/cif/bounded_queue.hpp`) owns the
threads: an acceptor, a worker per connection, one reducer. Workers and in-process
callers put work items into one bounded queue; the reducer takes them out, calls the
engine, answers through the connection or a mailbox, and does a round of housekeeping
(tick, expire, compact) when the queue stays empty for a period. `open_state` picks
`initialize` or `recover`. Housekeeping is off unless a period is set (`server.hpp:53`), and under a steady load it has no
turn. Correct when every request is answered or refused, and `stop` returns.

**AuthorityClient and FrameChannel** (`src/client.cpp`, `src/runtime.cpp`) send a
hello, then requests with a sequence number, and wait for the reply with a deadline.
Correct when a reply is taken for the answer to the request it answers.

**The rest** is conversion and platform: the wire codec, request and grant encoding,
digests, identities, rendering, processes, files, sockets, `cifd`, the `cif` command line.

### What is hard here

`PROJECT.json` lists the hazards with their lines. In short:

- *Crashes between appends.* A grant takes three appends (prepare, commit, attempt
  record), a release two, a recovery up to two per live grant. Each prefix is a
  log some restart finds.
- *Appends that are refused.* The journal refuses at its bound, in the middle of any
  handler; every handler has an error path for each of its appends, and each
  leaves engine and log in some relation.
- *Restarts.* The engine settles what it recovers by whether the caller is known
  to have been told. It must come to the same answer at the second restart.
- *Stale coordinates and cluster changes.* Generation, epoch, incarnation and policy
  fence requests; member and path changes revalidate live grants but not quarantined ones.
- *Contention.* Live grants, quarantined grants and renewals share pools and
  exclusive paths.
- *The file under the log.* Short writes, torn records, a sync that fails after the
  bytes are out, a compaction that stops half way, a rename that power takes back.
- *Streams.* A frame in pieces, half a frame before a timeout, half a frame left from a
  connection before.
- *Threads.* Queue at its limit, shutdown with a full queue, a caller whose item is
  behind the stop item, a reply that comes after its caller gave up.

## The modules

| module | models | lines |
| --- | --- | --- |
| `GrantLifecycle` | states, commit states, outcomes and their predicates (`grant.hpp`, `status.hpp`, `grant.cpp`) | constants and operators |
| `ClusterModel` | `ClusterSpec`, `ContractSet`: rows, admission, the effect of each command | operators |
| `Eligibility` | requests, contract and lifecycle effects, exclusions, path selection, pools and `evaluate` | operators |
| `AuthorityCore` | the engine over its log, started and ticked by the daemon | state machine |
| `GrantLedger` | what the authority promises: an abstract ledger of grants | state machine |
| `JournalFile` | the journal as a file: scan, open, append, compact, close, crash, loss of power | state machine |
| `RecordLog` | what a write-ahead log promises its engine | state machine |
| `FrameChannel` | one direction of a connection in bytes: partial sends, reassembly, timeouts, ends, reconnects | state machine |
| `ServerThreads` | the threads of `AuthorityServer`, its queue and mailboxes, start and stop, and the clients | state machine |
| `MCAuthorityCore`, `MCServerThreads`, `MCJournalFile`, `MCFrameChannel` | the instances the runs use | definitions |
| `AuthorityLemmas` | types and effects of the engine's operators | proofs |
| `AuthorityCoreProofs` | the rows of engine and log: `Inv` and its theorems | proofs |
| `AuthorityBookProofs` | grants, attempt records, log and answers: `Books` and its theorems; the ledger implemented | proofs |
| `AuthorityPoolProofs` | sums of units, who holds which (`Pools`), and what live grants stand on (`UpToDate`), with their theorems | proofs |
| `JournalFileProofs` | the invariant of the file and its theorems; the record log implemented | proofs |
| `FrameChannelProofs` | the order of the bytes of a connection and its theorems | proofs |
| `ServerThreadsProofs` | the way of a frame through the threads and its theorems | proofs |
| `DataLemmas` | numbers, sequences and induction over sets | proofs |

`Eligibility` extends `ClusterModel` and `GrantLifecycle`; `AuthorityCore` extends
`Eligibility` and instantiates `GrantLedger` for the refinement. `JournalFile` instantiates
`RecordLog` and stands below `AuthorityCore`: what `disk` and a completed append are
there, `Recovered(file)` and `Appends` are here. `FrameChannel` stands below `ServerThreads`, whose
`link` carries the frames it puts together.

### How AuthorityCore corresponds to the code

`mem` is the object `AuthorityCore`; `disk` is the `RecoveredState` that
`replay_journal` would make of the file, each record folded in as it is appended;
`up` and `sink` say whether the daemon runs and where `journal_entry` goes; `used`
counts the appends in the log; `starts` numbers the incarnations; `answered` and
`acks` are history variables of what callers were told and have sent.

The reducer is single-threaded, so no two handlers interleave. What can come *inside* a
handler is a refused append or a crash. A handler is therefore a sequence of
**points**: point *i* is the engine, the replayed log and the reply after *i - 1*
appends. `Completes` takes the last point the log has room for; that is exactly the
code's error path when an append is refused, because `Point.mem` is written as the code
leaves the tables then. `CrashesIn` leaves the log at any point on the way and loses
the engine. So the order of appends and of table updates in each handler is in its points, and a
mutant that swaps two of them is a different sequence.

| action | code |
| --- | --- |
| `Initialize`, `Recover`, `Stop` | `open_state` (`server.cpp`), `initialize`, `recover`, `apply_recovery_policy`, `reconcile_attempts` |
| `Replay`, `Refuse`, `Issue` | `submit`: `find_attempt` and `replay_attempt`; a refusal; `evaluate` to a grant and `commit_grant` |
| `Renew` | `renew` |
| `Release`, `Resolve`, `Acknowledge`, `Cancel` | the handlers of these names |
| `Administer` | the mutators behind `AdminCommand`, with `revalidate_live_grants` |
| `FenceAll`, `Revalidate`, `AdvanceTick` | `fence_all`, `revalidate`, `advance_tick` and `expire_leases` |
| `Compact` | `Journal::compact` of `make_snapshot`, on request |
| `HousekeepingRound`, `CompactingRound`, `CrashingRound` | `AuthorityServer::housekeeping` |

Abstractions worth knowing:

- Tables are total functions; a missing row is `None`, a missing grant has the state
  `"Absent"`, an unknown attempt has `known = FALSE`.
- Requests of bad shape and requests the coordinate fences out change nothing and
  have no action; a replay and a refusal have one, because their answers matter.
- The digest of a request is the request together with its coordinate; `None` is the zero
  digest of a reconstructed attempt record.
- Grant ids are numbers in order of allocation. The code orders them as text, which is
  the same up to nine grants.
- `capacity_reserved` is not kept: the code sets it exactly with `holds_capacity(state)`.
- The size of the log is a count of appends, and `Full` stands for either bound of the journal; the bytes are
  those of `JournalFile`.
- Without `attach_sink` the engine appends to a sink in memory, which never refuses and
  which no restart sees: `sink = "memory"`, `Options.attaches = FALSE`.

### How JournalFile corresponds to the code

`log` is the object `Journal` with the fields of the code (`buffer` is that of its stream, which C
keeps); `file` is what the operating system has under the path, `safe` how much of it a loss of
power leaves, `former` the images a loss of power may bring back. `history` is what the engine has
made, one number per transition; `sure` and `doubt` say how much of it is promised.

| action | code |
| --- | --- |
| `StartsFresh`, `StartsAgain` | `Journal::scan`, `replay_journal` and `Journal::open`, as `open_state` calls them |
| `Appends` | `Journal::append` and `write_record`, with their sync |
| `Compacts` | `maybe_compact` over `Journal::compact`: close, snapshot beside the log, replacement, reopening, counters |
| `Stops` | `Journal::close` |
| `Crashes`, `LosesPower` | the end of the process, and of the machine, between any two calls |

Assumptions and abstractions worth knowing:

- A file is a sequence of pieces, and a record has a size of its own, any from one up to `MaxRecordBytes`
  (`kMaxJournalRecordBytes` and the framing): transitions and snapshots come in all sizes, the header and a record of
  counters in one. `byte_count` adds these sizes up as `byte_count_` does, and is compared with `MaxBytes` *before* a record is
  written (`journal.cpp:749`). A torn piece has size nought: no count ever includes it.
- Checksums are perfect: a torn piece is told from a complete one. The chain is kept as the sequence it hashes.
- A write or a sync that fails lets any part through and drops the rest of the stream's buffer, as glibc does. A
  crash within a call is that call failing and a crash after it, so it needs no action of its own.
- A sync that succeeds covers everything written before it, also after one that failed, and makes the name of
  its own file durable. A rename or a truncation alone does not last.
- From a failed append to the next open or compaction the code goes on appending behind what the failure left, and keeps no
  promise about it; `doubt` says where a log is on that way, and the properties make their claims for the rest.
- A log is scanned, opened and appended to, which is the order `journal.hpp` asks for. That the
  daemon itself does not attach its journal after a recovery is the matter of `daemon_restart`.
- What a recovery appends is any other transition; its content belongs to `AuthorityCore`.
- `should_compact` is false for a closed log, so a compaction that failed is never tried
  again: the engine refuses everything until it is restarted.

### How FrameChannel corresponds to the code

One sender and one receiver, since the two directions of a connection share nothing. `sending` is what
`send_all` has left, `wire` what the sockets hold, `buffer` and `size` are `buffer_` up to
`used_` and its size. A byte is the number of its frame and its place in it, and a checksum tells
bytes in place from any others.

| action | code |
| --- | --- |
| `Sends`, `SocketTakes`, `SendTimesOut`, `SenderCloses` | `FrameChannel::send`, `socket_send_all`, `TcpStream::close` |
| `ReceiveBegins`, `Receives`, `Delivers`, `Rejects`, `ReceiveTimesOut`, `ReceivesEnd` | the loop of `FrameChannel::receive`, with `frame_size` and `decode_frame` |
| `Reconnects` | `AuthorityClient::connect` on a client that has been connected |

A timeout of the socket that is not one of the call goes round the loop and changes nothing. What the peer
closes is closed between two frames, and a frame that is cut short by the end of a connection is cut by `Reconnects`,
or by `SendTimesOut` before a close.

### How ServerThreads corresponds to the code

One variable per actor holds the place it is at: `owner` for the thread that calls `start` and
`stop`, `acceptor` for `accept_loop`, `conn[c]` for a `Connection` and its worker in `serve`,
`reducer` for `reducer_loop`, `local[l]` for a thread inside `round_trip_local`, `client[c]`
for the `AuthorityClient` at the other end of connection `c`. What they share is `flags`
(`running_`, `stop_`, the listener), `queue` (`ingress_`), the mailbox fields of `conn`, and
`link[c]`, the socket: the frames under way each way and which ends are open. `starts` is a
bound and `served` the history of the frames that reached the engine.

| actions | code |
| --- | --- |
| `StartResets`, `StartFails`, `StartLaunches` | `AuthorityServer::start` before, at and after `open_state` and `bind` |
| `StopBegins`, `StopClosesListener`, `StopJoinsAcceptor`, `StopReleases`, `StopJoinsWorkers`, `StopTells`, `StopJoinsReducer` | `stop` and `join_connections`, one step per lock taken, flag set or thread joined |
| `AcceptorChecks`, `Accepts`, `AcceptorPolls` | `accept_loop`, with `reap_finished` |
| `WorkerChecks` to `WorkerSends` | `serve`: receive, push or refuse, wait for the mailbox, send |
| `ReducerPops`, `ReducerStops`, `ReducerServes`, `ReducerServesLocal` | `reducer_loop`, `process`, `deliver` |
| `LocalCalls`, `LocalPushes`, `LocalWaits` | `round_trip_local` |
| `ClientConnects`, `ClientCalls`, `ClientReads`, `ClientTimesOut`, `ClientCloses` | `AuthorityClient` over `FrameChannel` |

Abstractions worth knowing:

- A step is what a thread does under one lock, on one atomic, or in one socket call. A wait on a
  condition variable is a step enabled when its predicate holds; each of the four waits in
  the code passes its predicate, and who makes it true holds the lock and notifies after.
- What the engine does with a request is left to `AuthorityCore`, how frames become bytes to `FrameChannel`; the two modules meet at
  `ReducerServes`, one whole handler. A batch only decides which of the two pops asks for
  the next item, and a round of housekeeping touches nothing here.
- A channel carries whole frames, in order. The handful of frames of an instance fits the socket
  buffers, so a send does not time out; on a closed peer it may or may not fail.
- A hello is a call like any other, and encoding a reply does not fail.
- The wire does not say which frame a refusal refuses. `reply.number` does, for the
  properties only; no action reads it.
- One thread calls `start` and `stop`, as `cifd` and the tests do.

## The runs

The runs on the engine use `MCAuthorityCore`: two members joined by one path, a pool of two units
at the source, one contract. Two grants and one or two attempts are enough for
every relation the properties speak of: one grant against its own retry, renewal or successor,
and two attempts against each other. Actions are cut off by `MaxTick`, `MaxGeneration`
and `MaxStarts`, so a daemon that is down may stay down: deadlock is not checked.

The runs on the server use `MCServerThreads`: a queue of one item, a limit of one
connection, a client that makes two calls, one that only takes up a connection, an in-process caller and
one start. With a queue of one, worker and in-process caller compete for the last place; with a
limit of one, a second connection is refused or takes the place of a reaped one; two calls
are a late reply and its successor. All actors come to rest when the bounds are used
up: deadlock is not checked. The safety properties are proved for any number of starts; `LocalsAreAnswered`
is claimed for one start only (see [Findings](#findings)).

The run on the journal has a bound of five units of bytes, records of one or two, and a bound of three records: a session of small
records reaches the bound on records first, one of large records or a log that is carried over sessions the one on bytes, with
a unit to spare or none, so both refuse and the file does pass `MaxBytes`. Five transitions are a full log and its successor after a
compaction; crashes and losses of power are not bounded.

The run on the connection has headers of two bytes and payloads of none to two, so the largest frame
does not fit the first buffer, two small ones share one, and the sockets hold less than one large frame, which
is therefore always sent in parts. Three frames and two connections are a frame, its successor and one after a
reconnect, with a cut anywhere. The sender may stop sending: deadlock is not checked.

| run | instance | properties | what it shows |
| --- | --- | --- | --- |
| `contention` | two attempts, a log that starts with a shared or with an exclusive path, one restart; the bounds leave room for both grants and each ending | `TypeOK`, `OneGrantPerAttempt`, `CapacityIsHonoured`, `IdentityIsKept` | no attempt is granted twice, no unit is promised twice, no serial is drawn twice |
| `restarts` | one attempt with two renewals and a cancel, three starts (two recoveries can see one acknowledgement), a log of six appends that fills up within every handler and is compacted | `WriteAhead`, `EndedInLogMeansEnded`, `AnswersMatchAuthority`, `CancelledHoldsNothing`, `ToldGrantsAreDurable`, `ReissueNeedsAcknowledgement`, `GrantsPassSelfCheck`, `LeasesAreInReach`, `TerminalIsFinal`, `StartsAreFenced`, `LeasesEndOnTime`, `ImplementsLedger` | what survives a crash or a refusal at every append of every handler; the error paths and compaction keep engine and log in step; no tick leaves a lease behind that has run out, unless the log is full; the engine implements the ledger |
| `administration` | eight member and path commands under a live or quarantined grant | `LiveGrantsAreCurrent`, `QuarantineWaits` | no live grant outlives what it stands on; no expiry, `revalidate`, command, compaction or restart lifts or ends a quarantined one, only `fence_all` and a release, cancel or acknowledgement that reaches it do (a renewal records it as committed, but the engine keeps it quarantined) |
| `declarations` | an empty log or a configured one; members, paths, exclusions, obligations, contracts and policies come and go | `SpecReplays` | replay and engine rule the same cluster, whatever was rejected, as long as the log replays (`poisoned` shows the one that does not) |
| `journal` | the file instance above | `TypeOK`, `PromisesSurvive`, `OnlyHistoryReplays`, `AppendsLandInReach`, `BytesAreBounded`, `ImplementsRecordLog` | what was reported durable is read by the next start; nothing the engine did not do is; a repaired or compacted log goes on where a scan gets to; the count in memory is the size of the log, which passes the bound by less than a record |
| `transport` | the connection instance above | `TypeOK`, `DeliveredAsSent`, `NothingIsSkipped`, `BoundIsSlack`, `ClosedMeansComplete`, `SentIsReceived` | no cut of the stream makes a frame of two or loses one; the bound of the buffer is never in the way; an end between frames is told from one within |
| `server` | the server instance above | `TypeOK`, `AnswersInOrder`, `RefusalsAreTrue`, `AcceptedIsServed`, `StoppedMeansJoined`, `WorkersAreAnswered`, `LocalsAreAnswered`, `WorkersAreReleased`, `ToldReducerEnds` | each frame is served and answered once and in order, or refused and not served; who waits is answered or released; `stop` joins every thread it can tell |
| `daemon_restart`, `ack_lost`, `poisoned`, `shutdown_hang`, `late_reply` | see [Findings](#findings) | one each | the code does not keep a promise the repository makes |

In the passing runs the engine recovers with its journal attached, as the process test
opens a state (`tests/test_process.cpp:203-209`: `attach_sink` before `recover`) and as
`include/cif/authority.hpp:155` says of the sink: "the engine never runs without one". The
daemon does not (`daemon_restart`). The instances of the passing runs keep away from what breaks
a property at once, and each time the reason is a line of the code (see [Findings](#findings)): cancels that name a grant
and an attempt (`CancelForms`), renewals that name another pool or none, a log at its bound under
`LiveGrantsAreCurrent`, requests for no units of a pool, a table of grants that is full, contracts that change under
`LiveGrantsAreCurrent`. Those hazards are therefore not covered by the passing runs. `SpecReplays` excepts a log that does not replay,
and `BytesAreBounded` and `AppendsLandInReach` the time from a failed append to the next open or compaction.

**Leases and fairness.** `AuthorityCore` assumes no fairness. Nothing in the code makes the tick move: the period of housekeeping
is 0 by default, which does no rounds (`server.hpp:53`, `server.cpp:537-542`), and with a period set a round is done only when the
queue stays empty that long (`server.cpp:527-536`), which under a steady load it never does. That every lease ends in the end
is therefore no property of this code. What the code does promise is a safety property, `LeasesEndOnTime`: no step that
moves the tick leaves a grant live whose lease is over at that tick, unless the log is full, or was until the same round compacted it.

`FairSpec` of `ServerThreads` assumes weak fairness of each thread of the server and of each
in-process caller: a thread that can take a step is scheduled, and a wait whose predicate
stays true ends. The thread in `stop` is fair once it has begun. Nobody has to call `start` or `stop`, no
client has to connect, call, read or hang up, and no receive has to time out: what `stop` waits for
must come from the server itself.

`FairSpec` of `FrameChannel` assumes that the receiver calls `receive` again and again, as `serve` does
(`server.cpp:386-399`), and that of the calls of `recv` made while bytes are under way one gets some of
them in the end: weak fairness of the receiver, strong fairness of `ReceivesSome`. Timeouts are not
excluded, and nobody has to send, to close or to connect.

Each property of a passing run has a mutant in `PROJECT.json`: a definition as
a plausible bug would have it, under which TLC finds the property violated.

## The proofs

The theorems hold for every value of the constants: any number of members, paths, contracts,
attempts, grants, requests and commands, any bound of the log, both ways to recover and both recovery
policies; any sizes of frames and buffers; any number of connections, callers, calls and starts.

| theorem | says |
| --- | --- |
| *The engine, `AuthorityCoreProofs`* | |
| `Pairing` | `Spec => []Inv`, the inductive invariant of the rows |
| `TypeCorrect`, `WritesAhead`, `EndsTogether`, `EndedForGood` | `TypeOK`, `WriteAhead`, `EndedInLogMeansEnded`, `TerminalIsFinal` |
| *The engine, `AuthorityBookProofs`* | |
| `Invariance` | `Spec => [](Inv /\ Books)`, the inductive invariant of the books |
| `GrantsOnce`, `KeepsWhatItGave` | `OneGrantPerAttempt`, `IdentityIsKept` |
| `ReissuesTheTold`, `ReplaysToTheRuled`, `WaitsForItsCaller` | `ReissueNeedsAcknowledgement`, `SpecReplays`, `QuarantineWaits` |
| `AnswersAgree`, `CancelsInFull` | `AnswersMatchAuthority` and `CancelledHoldsNothing`, where no cancel names a grant and an attempt together |
| `TellsWhatLasts`, `FencesEveryStart` | `ToldGrantsAreDurable` and `StartsAreFenced`, where the journal is attached before a recovery |
| `LeasesStayInReach` | `LeasesAreInReach`, where no renewal asks for more than the longest lease |
| `KeepsALedger` | `Spec => ImplementsLedger`, where the tables can hold every id |
| *The engine, `AuthorityPoolProofs`* | |
| `Holds` | `Spec => []Pools`, the inductive invariant of the pools |
| `CapacityHolds` | `CapacityIsHonoured`, where `Measured` |
| `GrantsCheckOut` | `GrantsPassSelfCheck`, where `Measured` and whoever names a pool asks for units of it |
| `StaysCurrent` | `LiveGrantsAreCurrent`, where `Undisturbed` |
| *The log, `JournalFileProofs`* | |
| `Invariance` | `Spec => []Inv` |
| `TypesOfJournal`, `PromisesHold`, `ReplaysHistory`, `AppendsAreRead`, `BytesStayBounded` | `TypeOK`, `PromisesSurvive`, `OnlyHistoryReplays`, `AppendsLandInReach`, `BytesAreBounded` |
| `Implementation` | `Spec => ImplementsRecordLog` |
| *A connection, `FrameChannelProofs`* | |
| `Invariance` | `Spec => []Inv` |
| `TypesOfChannel`, `DeliversAsSent`, `SkipsNothing`, `BoundNeverStops`, `ClosesComplete` | `TypeOK`, `DeliveredAsSent`, `NothingIsSkipped`, `BoundIsSlack`, `ClosedMeansComplete` |
| *The server, `ServerThreadsProofs`* | |
| `Invariance` | `Spec => []Inv` |
| `TypesOfThreads`, `StopLeavesNoThread`, `ServesWhatItAccepted`, `RepliesInOrder`, `RefusesTruthfully` | `TypeOK`, `StoppedMeansJoined`, `AcceptedIsServed`, `AnswersInOrder`, `RefusalsAreTrue` |

### Assumptions and hypotheses

The constants have assumptions that every run checks. Of the engine: `IdsAssumption`
(ids are what they index, `None` is none of them), `RowsAssumption` (`None` is no row of a table either), `EligibilityAssumption` (finitely
many positive grant ids; options are well typed) and `CoreAssumption` (grant ids are
`1..n`; requests and commands are well formed; a first start finds a log without
grants or attempts, which is empty if no controller has bound it, since the first record
of a controller is the one that binds it). Of the others: bounds are naturals, and a connection has a
header and room for a frame.

A theorem about the engine that needs more says so in its `ASSUME`, and each such hypothesis marks a place
where the property fails without it:

- `"both" \notin CancelForms`. A cancel that names a grant of one attempt and the id of another ends the
  one and marks the other (Findings).
- `Options.attaches`. Without `attach_sink` a restarted engine writes to memory: `daemon_restart` is the counterexample.
- Renewals within the longest lease. `submit` refuses a longer one (`authority.cpp:2128`), `renew` gives it
  (`authority.cpp:1894`).
- `TableSuffices`: `GrantIds` has no more ids than the table of grants has rows. A grant that does not fit is in the log
  already (`authority.cpp:1832`); its attempt has no record, may be granted again, and then the log has two grants of one attempt.
  `OneGrantPerAttempt` and `IdentityIsKept` therefore speak of logs whose grants can be read (`Intact`): those that replay, and those that only a
  refused command has spoiled.
- `Measured`, of the theorems on pools, is five hypotheses:
  - `Options.capacity`: `enforce_capacity` is on, or `evaluate` counts no units at all.
  - `EveryRequestBinds`: a request names its path or the engine selects one. Without a path there is no capacity to hold it against
    (`path != nullptr`, `authority.cpp:1608`), and the grants of no path add up.
  - `FixedPools`: no command declares or withdraws members or paths. `upsert_member` and `upsert_path` take a lower total or capacity without looking at
    the grants. `revalidate_grant` then compares each grant alone with its path (`authority.cpp:840`), so two stay on a path that has room for
    one, looks at no pool of a member, and leaves quarantined grants alone. Commands on lifecycles, path states, exclusions, obligations, contracts and policies may come at any time.
  - `RenewsInPlace`: a renewal asks for the source, the resource and the path its attempt was granted (Findings).
  - `PoolsAreOwned`: in the cluster a log starts from, a resource is declared by one member. `reserved_units` adds up the holders of a resource over all members, and each
    member's total is compared with that sum, so with two owners a grant would fill the other's pool.
- `PoolsAreAskedForUnits`, of `GrantsCheckOut`: a request that names a resource asks for some of it. With a contract that has no minimum
  a request without units gives a grant that `self_check` refuses (Findings).

- `Undisturbed`, of `StaysCurrent`, is again five:
  - `JournalBound = 0`: the log takes every append. A sweep that runs into a full log stops where it is, and a recovery goes on
    without what it could not record (`authority.cpp:435`); both leave live grants as they were before, until the next revalidation.
  - `Options.capacity`: without it `evaluate` grants more than the path has, which `revalidate_grant` compares all the same (`authority.cpp:840`).
  - `EveryRequestBinds`: a grant of no path is given out, and revoked by the first revalidation.
  - `RenewsOnPath`: a renewal is bound to the path its attempt was granted, or it is checked against one path and booked on another (Findings).
  - No command declares or withdraws a contract: those commands revalidate nothing (`authority.cpp:803` is reached from commands on members and
    paths). Members, paths, exclusions, obligations and policies may change at any time, generations and digests too.

The instances `contention` and `restarts` satisfy `Measured` and `PoolsAreAskedForUnits`, and `administration` satisfies `Undisturbed`: what the theorems assume, the runs that check the same properties have.

### The engine: rows

**Why the properties are not inductive.** `WriteAhead` says of a grant that holds
capacity that the log holds it too. A recovery starts from the log alone, so a step
needs to know what the log may contain of grants the engine does *not* hold: that a
row whose state is `Prepared` carries a `Prepared` commit, and that a row that
holds capacity does not, or a recovery would release a commit or quarantine a prepare.
It also needs that an id still to be minted is new to both, or a new grant could
overwrite one that has ended. `Inv` adds just that: `Logged` for each row of the log,
`Covered` for each grant and its row, the freshness of serials, and that the log binds a
controller once it has grants.

**The argument.** For each handler one lemma says that every one of its points is safe:
from an engine and a log that agree, after any number of its appends they agree
again, and what the log had ended is still ended (`GrantPointsSafe`, `RenewPointsSafe`,
`ReleasePointsSafe`, `AcknowledgePointsSafe`, `CancelPointsSafe`,
`CommandPointsSafe`, `SweepSafe`, `ExpirySafe`, `RecoverPointSafe`, `InitializeSafe`). `CompletesSafe`
and `CrashesSafe` then show once that completing, running into a full log and
crashing preserve the invariant. The loops are safe because they change grants that
hold capacity, and such a grant is minted and not ended in the log (`HeldRow`); what is written is the row the engine gets (`Own`).
`NextSafe` has one step per operation, and the last steps are temporal.

`AuthorityLemmas` holds the facts on operators: that decisions, renewals, commands and
replayed records keep their tables well typed, and that a renewal `evaluate` lets pass is of
a grant that exists and has not ended.

### The engine: books

`Inv` looks at one grant at a time. What callers rely on relates a grant to the record of its attempt, both to the log, and the log
to what was told. `Books` says what these owe each other:

- `Booked`: grants that exist have attempts of their own (`Single`); the record of an attempt is empty, or names a grant of
  that attempt, or was cancelled before it had one (`Faithful`); a grant that has not ended is named by its
  attempt's record, which is neither released nor cancelled (`Speaks`). In the engine every grant has a record (`Complete`); in the log
  one may be missing, if a crash or a refusal came after the commit.
- `Linked`: a grant of the engine is in the log with the same identity; a commit of the log is in the engine; what is quarantined in
  the log is quarantined in the engine.
- `Heard` and `Recent`: an acknowledgement on record was sent by the caller; a live grant of an earlier epoch was acknowledged, and so
  was one whose attempt record has no digest, for only a start rebuilds such records.
- `Durable` and `Backed`: an attempt reported as granted is committed in the log, and while the daemon runs in the engine too.
- `InStep`: the records of attempts in engine and log are *equal*, and a grant that is in one is in the other, unless the log is full.

The last is the heart of it. While a handler runs, engine and log do part ways, and where an append is refused they stay
apart: an attempt record that the log never took, a prepare that the engine gave up. An invariant that describes every such pair is hopeless; but a
refusal means that the log is full, and with a full log a handler gets no further than its first point, at which it has changed nothing
(`Still`). So a handler that gets anywhere starts in step (`ReachedEnd`, `Walks`): each of its points has good books, whatever
comes after, and its last point is in step again. `CompletesBooks` and `CrashesBooks` turn that into the
invariant once for all handlers; each handler has a lemma on its points (`SweepWalks`, `GrantPointsWalk`, `ReleasePointsWalk`,
`CancelPointsWalk`, `AcknowledgePointsWalk`, `RecoverPointBooks` and so on) and one on its step (`...Books`). A compaction writes
the engine over the log and so puts them in step again.

A recovery is the other hard part. Its points are numbered by appends, over loops in the order of ids, and the engine goes ahead of the log on each of
them: the lemmas from `RecoverResumed` to `RecoverEnds` say what rows and records engine and log have after any number of appends, that both sides have good books then,
and that after the last one (`RecordsEnough`) they are in step.

What a step makes of the log is proved along with the invariant (`StepKeeps`): no commit changes its identity,
and the rows move as the ledger does (`Ledgered`). `LedgerSteps` maps such a
move to a step of `GrantLedger`. This proof changed `GrantLedger`: a restart may end some offers, forget others and quarantine what was
held, all in one step, when compaction follows a recovery whose records a full log refused; its `Settle` was two actions before, of which none did that.

That a grant waits in quarantine for its caller is said of the points once more: `Apart` says that engine and log have the rows of before
outside the grants a handler is after, `Touches` that every point does, and each handler's lemma (`...Spares`) names these: the live ones for expiry, revalidation, commands and
recovery, the one reached for a release, cancel or acknowledgement. `NextLifts` puts them together, with one case per operation.

The first sections of `AuthorityBookProofs` hold the facts about one change: a row that goes on as the same grant or ends keeps every book,
a new one needs a new attempt, and an attempt's record may change with its grant.

### The engine: pools

`CapacityIsHonoured` says of the engine that what holders of a pool hold is no more than the pool. A recovery takes grants *and* pools from the log, so the log
must honour its pools too; and that a renewal may raise a grant needs to know what the grant was asked for. `Pools` says that of both:

- `Founded`: a request of the grant's attempt asked for its source, resource and path (`AskedFor`); the source is a member, and what it holds is no more than it
  asked for. Where `Measured`, its path and its resource are declared.
- `Contained`: who holds a path or a resource fits it, an exclusive path has holders of one attempt, and a resource one owner. It holds where `Measured`, of the log where it replays.

**Sums.** `UnitsOf` is a fold over a set of grants that saturates at `UnitCeiling`. What a fold gives for every set is induction over data; `AuthorityPoolProofs` therefore
shows, by induction over the size of the set (`NatInductive`), that the table the fold fills in exists (`TallyExists`) and that tables of different sets agree (`Tallies`). Then
`TotalSplit`: the total of a set is what any member has and the total of the rest; `TotalGrows`: fewer grants with no more units each have no more; and
`UnitsJoin`: a grant that takes no more than what `FreeUnits` leaves fits along with the others, saturated or not.

**Decisions.** `Decided` and `UnitsGranted` read the sequence of checks of `evaluate` backwards: of a request that is granted, none fails. So path and pool have room for the
units (`DecidedFits`), and an exclusive path has no other holder.

**Steps.** Every operation but a grant and a renewal leaves each grant as it was, ends it, or makes it give up what it holds (`Dwindles`, `Continues`): fewer holders fit the same
pools (`ContainedOn`), at each point, in the engine and in the log (`Mirrored`). `RunPools` turns points into steps, as `CompletesBooks` does. A compaction writes the engine
over the log (`CompactsPools`). In a recovery the rows of engine and log after any number of appends are those of the log or what became of them (`DwindlesHold`).

### The engine: live grants

`LiveGrantsAreCurrent` is inductive as soon as it is said of any engine (`UpToDate`: each live grant is `Upheld`, of the current epoch and sound), for handlers change
an engine that is not yet `mem`. Three facts carry it:

- Soundness looks at little: the members, the paths, the epoch and the contracts (`SameCluster`), and of a grant at what it joins, its path and its units
  (`SameTerms`). What leaves both alone leaves it upheld (`UpheldStays`); a handler whose last engine is `Calm` (it rules the same cluster, by grants as they were or upheld) keeps the invariant (`CalmRun`).
- `revalidate_grant` revokes, or gives out what is upheld (`RevalidatedUpheld`). A sweep that is not cut short has changed every row it was to change (`AllEarly`, `SweepEnds`); so a
  command that changes members or paths, and a recovery, after which the old grants mean nothing, end with live grants that are upheld (`AdministerUpToDate`, `RecoverUpToDate`).
- What `evaluate` lets pass, `revalidate_grant` would uphold (`NewUpheld`): two pieces of code that check the same things in different words, on units (`RoomOnPath`), lifecycles and path states.
  A renewal changes units and epoch only, on the path whose room was checked, because a request of its attempt asked for that path (`Founded`).

### The log, a connection, the server

**JournalFile.** The promises concern images of the file that do not exist yet: the part that is safe, and the ones a loss of power brings
back. `Inv` says of each of them what it replays to: a beginning of `history`, and behind it at most one transition whose
append was reported to have failed (`Fits`). Of an open log it says that it `Continues`, so that a scan of file and buffer gets to the end, finds the
log's own counts and chain and replays to `history`, or `Lags`, so that whatever is appended is out of reach of any scan. That a failed append
leads from one to the other and only an open or a compaction back is most of the proof; that a snapshot in the middle of a
log would replace what comes before it is why `OneSnapshot` is there. The bytes are one more thing a scan counts: `byte_count` is the sum of
the sizes of what is written (`BytesOf`), and `Bounded` says of each image that what a scan reads of it stays below the bound and a record. An append
finds the sum below the bound and adds a record; a cut only makes it less (`BytesMount`). The refinement maps each step to a step of `RecordLog` (`MovesAreSteps`).

**FrameChannel.** The bytes received, under way and to be sent form one `Stream`. `Inv` says that it is in order, frame after frame without a gap, that it
holds no byte that was not sent, that what was delivered comes before it, and that of a frame that was sent the first byte is there until the
frame is delivered. A timeout in the middle of a send, and a client that connects anew, make gaps only *behind* the last frame of a connection; what follows is
rejected, not delivered (`Queued`).

**ServerThreads.** `ThreadsOK` says which threads live while `stop` is where, `StopOK` that no frame lies behind the stop item, and `ConnOK` follows a
frame from the socket through worker, queue, engine and mailbox to its reply: it is in one of these places at a time, and a worker has answered every frame it
took but the one in its hands. Stating it showed that a connection accepted while `stop` closes the listener has to be joined
from the backlog too, which the model had left out.

**Data.** The provers cannot instantiate the library's induction theorems, which take a predicate. `DataLemmas` therefore states induction over *sets*:
a set that contains 0 and with each number the next contains every natural (`NatInductive`), a set of naturals has a least element
(`LeastNat`). So what a file replays to, a recursive function over its pieces, is proved to exist and computed by induction (`ReplayedIs`), for files of any length.

### Only model-checked

- `LeasesEndOnTime`, by `restarts`.
- Liveness: `SentIsReceived`, `WorkersAreAnswered`, `LocalsAreAnswered`, `WorkersAreReleased`, `ToldReducerEnds`. The
  prover has no rule for fairness.
- The properties that the runs of [Findings](#findings) violate.

## Findings

| run | property | the code | what the repository says |
| --- | --- | --- | --- |
| `daemon_restart` | `ToldGrantsAreDurable` | `open_state` calls `recover` without `attach_sink` (`server.cpp:171`), so a restarted daemon writes to memory | `README.md:203-204`: a record is synced before the state takes effect; a crash loses only what was never authorised |
| `poisoned` | `RestartReplays` | a rejected command is journaled before it is validated (`authority.cpp:517`); replay returns its error and the daemon does not start | the same |
| `ack_lost` | `AcknowledgedIsSettled` | the record of an acknowledgement of a quarantined grant, and of a reissue, does not carry the flag (`authority.cpp:937`), so a later restart quarantines again | `README.md:214`: an acknowledged commit is reissued if still sound |
| `shutdown_hang` | `StopReturns` | `stop` ignores whether the queue took its stop item (`server.cpp:242`) and closes the queue only after joining the reducer; if in-process callers have filled it, the reducer is never told | `server.cpp:236-237`: the queue is open so that the stop item is accepted; `bounded_queue.hpp:13`: shutdown cannot hang |
| `late_reply` | `OwnReply` | a call takes the next frame on the channel for its reply, whatever its number (`client.cpp:99`), so after a timeout each call gets the reply of the one before | `client.hpp:6-8`: a client never observes a reply that belongs to another request |

Also seen while modelling, in the model unless said otherwise, but stated by no run:

*The engine.*
- A renewal that names another pool or path, or none, is checked against what it names and booked on what the
  grant has (`authority.cpp:1890`), which over-commits the pool of the grant; `self_check` then reports it
  (`authority.cpp:2744-2748`). With a path of three units that asks for no reservation and a renewal for three units that names
  no pool, TLC finds `CapacityIsHonoured` violated by the first renewal.
- A cancel with a grant of one attempt and the id of another revokes the one and marks the other
  (`authority.cpp:2435`), which keeps its grant: with `CancelForms = {"both"}` and two attempts TLC finds `CancelledHoldsNothing` violated.
- Recovery drops the error of a reissue that the full log refused (`authority.cpp:435`) and leaves the grant live under the epoch
  before: with `JournalBound = 6` and three starts TLC finds `LiveGrantsAreCurrent` violated.
- The table of grants is found to be full after the commit record is durable (`authority.cpp:1832`), and replay fails in the same way:
  with `TableLimit = 1` and two attempts TLC finds `RestartReplays` violated. The attempt, of which no record was made, may be granted again.
- With a contract that has no minimum, a request that names a pool and no units is granted, and `self_check` refuses the grant
  (`authority.cpp:2696`): TLC finds `GrantsPassSelfCheck` violated.
- A reissue after a change of members turns `Acknowledged` into `Committed` (`authority.cpp:936`).
- `RecoveryPolicy::FenceAll` quarantines instead of fencing (`authority.cpp:394` against `authority.hpp:82`).
- Ticks that wrote no record are forgotten by a restart (`server.cpp:170`); `LeasesAreInReach` says how far that goes.
- A submit whose attempt record is refused answers Refused with the grant live (`authority.cpp:1851`).
- A renewal with lease 0 never expires, and one with a lease above `max_lease_ticks` is given it (`authority.cpp:1894`), which a
  submit is refused (`authority.cpp:2128`).
- `self_check` is documented as the structural invariants of the engine (`authority.hpp:235-239`), and fails on
  states the engine may reach and that break nothing: a grant that has ended and whose source was removed, exclusions or paths that name a member declared later, and,
  outside the model, serials behind the count of grants after a compaction. `GrantsPassSelfCheck` is stated for
  clusters whose members stay and whose contracts ask for a unit.

*The log.*
- An append that fails part way leaves a torn record in the file, and the log goes on behind it: what the next appends
  report durable is cut off by the next scan (`journal.cpp:728-738`).
- A record that was written and failed to sync is in the file and in no count (`journal.cpp:735`), so a file on which appends keep
  failing passes the bound by more than a record.
- A compaction that fails leaves the log closed for good (`journal.cpp:764`), and a daemon stopped with a full log cannot
  append the epoch of its next start (`journal.cpp:749`).
- The count of records starts over with each open (`journal.cpp:679`), so only the bound on bytes bounds the file, and that one, which is
  looked at before a record is written, by up to a record more (`journal.cpp:749`); `kMaxScanBytes` allows for it.
- A first start that dies within its header leaves a log no start can read (`journal.cpp:442`).
- A record of another format version ends the scan quietly, and the open after it cuts the rest of the log off
  (`journal.cpp:516`; not in the model, which has one format).

*Threads and connections.*
- An in-process call whose item lies behind the stop item waits for good (`server.cpp:481`, `LocalsAreAnswered` excepts it). So does one that
  is queued after the reducer has ended and before `stop` has closed the queue, if the server is started again: `start` empties the
  queue (`server.cpp:182`). With two starts `LocalsAreAnswered` fails that way, which is why `server` has one.
- A client that connects again keeps the bytes of the connection before (`client.cpp:16`): a whole reply among them is taken
  for the first answer, and half of one fails every call that follows.
- A peer that sends a byte now and then postpones the deadline of a receive (`runtime.cpp:170`; the model has no clock).

## What is left out

- In `AuthorityCore`, the file: `disk` is what replay makes of a log that is intact. That the file gives that is `JournalFile`.
- In `AuthorityCore`, failures of the sink other than a full log, and table limits other than those of
  grants and attempts.
- Threads other than the server's: the signal handler of `cifd`, concurrent callers of `start`
  and `stop`. `stop` closes the listener while the acceptor may be in `select` or `accept` on it
  (`server.cpp:228`): the model lets the acceptor see it open or closed, and no reused descriptor.
- Records of other format versions, a scan that finds more than `kMaxScanBytes`, a medium that damages what it has synced.
- Replies that do not fit a frame; queries and statistics; bytes that are damaged on the way other than by a cut.
- Spurious and lost wakeups: a wait is its predicate.
- `explain`, `inspect`, the reports and the counters they print; reason lists; names, digests
  and encodings beyond equality.
- `GrantState::Superseded`, which no code assigns.
- `Options.fenceAll` is modelled, and covered by the theorems, but no run sets it.
- The bodies of messages, CLI, `cifd`, rendering, hashing, processes and clocks: conversions and I/O without
  state the properties depend on.

## Plan

Done: `GrantLifecycle`, `ClusterModel`, `Eligibility`, `AuthorityCore`, `GrantLedger`,
`ServerThreads`, `JournalFile` with `RecordLog`, `FrameChannel`, the runs, and theorems on all safety properties of
the passing runs but `LeasesEndOnTime`. Next, in this order:

1. `LeasesEndOnTime`, from the facts on expiry in `AuthorityPoolProofs` (`SweepEnds`).
2. `LiveGrantsAreCurrent` for a log that may be full, as far as it holds: that a grant left behind by a sweep is one of before the sweep, and that
   the next complete sweep reaches it.
3. That `ServerThreads` without its threads is a queue of requests served in order: an abstract specification with a refinement
   mapping, to stand above `AnswersInOrder` and `AcceptedIsServed`.
4. `BoundedQueue` with its mutex, condition variable and waiters, as the queue of
   `ServerThreads` refined: `push` notifies one, `close` all, a wait may end for nothing.
5. `Eligibility` against a reference: `SelectPath` and exclusion windows against
   declarative definitions over bounded inputs.
