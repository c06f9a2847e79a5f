# A TLA+ verification of raiden-services

raiden-services are the programs that help the nodes of the Raiden payment
network: the *monitoring service* (MS) acts for nodes that are offline when a
channel is closed, its *request collector* receives their requests, and the
*pathfinding service* (PFS) knows the channels of a network and sells routes
through it. Paths below are relative to `src/src/` of the repository.

Contents: inventory, modules, runs, fairness, proofs, disagreements between
code and its comments, what is left out, plan.

## 1. Inventory

### The parts, their state and operations

| part | state | operations |
|---|---|---|
| event synchronisation (`raiden_libs/blockchain.py`, `database.py`, `states.py`), used by MS and PFS | `latest_committed_block` in memory and in the database, `current_event_filter_interval` | query an adaptive interval of confirmed blocks, handle the events, commit the head; on a read timeout shrink the interval |
| MS loop and handlers (`monitoring_service/service.py`, `handlers.py`) | tables `token_network`, `channel`, `scheduled_events`, `waiting_transactions`, `blockchain`; in memory the block number and `try_scheduled_events_after` | eight event handlers; two scheduled actions, `monitor` and `claimReward`; the check of pending transactions; the purge of requests |
| request collector (`request_collector/server.py`), a process of its own on the MS database | table `monitor_request` | `on_monitor_request`: check signatures, close age and nonce, then replace the stored request |
| PFS channels (`pathfinding_service/service.py`, `model/channel.py`, `model/token_network.py`) | `token_networks`: the graph `G` and `channel_id_to_addresses`; tables `channel`, `capacity_update`, `waiting_message` | four event handlers; capacity and fee updates; messages put aside until their channel is opened; loading everything at a restart |
| PFS payments (`pathfinding_service/api.py`, `claim_fees.py`) | table `iou` | `process_payment` for each API request; `claim_fees`, a command of its own that claims IOUs from the OneToN contract |
| path finding (`model/token_network.py`) | `visited` and the paths found, during a request | early checks, pruning, edge weights, shortest paths one after the other, fees of a path |
| feedback (`model/feedback.py`, `api.py`) | table `feedback` | a row per route of an answer, usable once, for ten minutes |
| Matrix (`raiden_libs/matrix.py`, `user_address.py`) | the clients of all servers, registered listeners, presence of users, reachability of addresses | log in and again when a sync ends, receive messages, track presence |
| service registry (`raiden_libs/service_registry.py`), a command run by hand | none but the chain's: registration, URL, deposits, allowance | `register`, `extend`, `withdraw` |
| REST endpoints, command lines, metrics | - | reading |

### How they interact

* The chain is polled. Events are delivered in batches that hold all events of
  the registry, then all of the token networks, then all of the monitoring
  service contract (MSC): chain order holds only within one contract.
* MS and collector share one SQLite file, PFS and `claim_fees` another. All of
  them open it with `isolation_level=None`. **Every statement is a transaction
  of its own; the `with conn:` blocks in the code group nothing.** A crash, or
  another process, may come between any two statements of a handler.
* Within the PFS greenlets switch at I/O: the Matrix listener runs between two
  events (`gevent.idle()`) and while the loop waits; API requests run while one
  of them asks the Ethereum node for a deposit.
* The presences of all homeservers reach one `MultiClientUserAddressManager`,
  each through the client of its server or, while that is away, through the main
  client. Presence listeners of different clients overlap at their requests to
  the homeservers. Path finding reads what they have written.
* The registry command sends transactions and waits for each; a run that is
  killed leaves its last one behind, which is mined during a later run.
* The head block is committed after the events of a batch. A crash in between
  makes the service handle the batch again, on top of rows that are already
  newer.

### What is hard, and what makes each part correct

`PROJECT.json` lists the hazards at their lines. In short:

* **synchronisation**: no block skipped or handled unconfirmed across crashes
  and interval changes, and every confirmed block committed in the end;
* **MS**: the client's balance proof on the chain in time; the update status
  (nonce and sender) equal to the chain's although batches reorder and crashes
  replay events; no second transaction; no reward forgotten;
* **collector**: nonces never go back although comparison and replacement are
  separate statements; no channel's request is deleted as one without a channel,
  although the purge marks and deletes in two statements;
* **payments**: one active session per client, what is marked as claimed was
  settled, what was served is paid for, a session is left only when it is claimed;
* **path finding**: what is sold can carry the payment with all fees, and what
  could carry it is sold; **feedback** is possible on every path of an answer;
* **presence**: every user is heard by exactly one client that lives, old events
  do not replace newer ones, an address is reachable iff a user of it is;
* **registry**: the operator pays at most the price agreed to, once, from a fresh
  allowance; "thank you" and "too early" are true when they are said;
* **PFS channels**: graph and database agree with each other and, after catching
  up, with the chain; capacities are confirmed by both participants; a message
  that came early is not lost; fee schedules do not go back.

## 2. The modules

| module | models | composed of |
|---|---|---|
| `BlockFollower` | what following the chain promises (abstract) | |
| `EventSync` | the loop of both services around their batches | refines `BlockFollower` |
| `RaidenChain` | the contracts, from how the services use them (external) | |
| `MonitoringService` | MS loop, handlers, scheduler, database; the collector as one step | extends `RaidenChain` |
| `RequestCollector` | collector and purge, statement by statement | |
| `IouPayments` | `process_payment`, `claim_fees`, OneToN | |
| `PfsChannels` | PFS events, messages, tables and memory | |
| `PathRequests` | one request for paths, its search and its feedback | |
| `UserPresence` | the Matrix clients and the presence listeners | |
| `ServiceRegistry` | the registry command and its contracts | |
| `MC*` | the instances for TLC | extend the above |
| `*_proofs` | theorems and proofs | extend the above |

Operators named `Mutant...` are seeded faults: each is a wrong version of the
definition that follows it, breaks the property named for it in `PROJECT.json`
and is used by no specification.

**Crashes and statements.** In `MonitoringService` and `PfsChannels` a handler
computes the list of statements it is going to execute, `writes`; each later
step executes one, and `CrashAndRestart` (`Crash`) drops the rest together with
all memory. A handler's reads happen in its first step. This is exact: handlers
of one process do not overlap, and the tables a handler reads are written by
nobody else, except `monitor_request`, whose reads are in the same step as the
decision that depends on them. `RequestCollector` has the two processes of that
table statement by statement.

**Batches.** `MonitoringService` and `PfsChannels` let a batch end at any
confirmed block. `EventSync` justifies it: the interval takes many values and
only decides where a batch ends.

**When the chain moves.** In `MonitoringService` the chain takes steps where the
loop is about to look at the clock or the contracts (`LooksAtChain`), in
`PfsChannels` where it is about to poll. The steps in between neither read nor
write what these steps change, so that every behaviour is equivalent to one in
which the chain's steps are put off to the next such point; the properties speak
of the database and of the chain's past only.

**Time.** In `MonitoringService` a block is the unit of time; `ClockAhead` lets
the service's clock be ahead of the chain's. `Punctual` says that the loop is
not slower than the chain: between two blocks an iteration ends and what was
sent is mined. Only `MonitoredInTime` and the claim need it: a service that
sleeps through a settlement period cannot help.

**Abstractions of data.** Addresses, networks and identifiers are model values;
signatures are the signer's name; a fee schedule is its timestamp; amounts are
small numbers. In `PfsChannels` update nonces and reveal timeouts are left out:
this version of the code stores them and compares neither. The waiting messages
have no order among themselves other than that of their insertion.
`RequestCollector` keeps SQLite's storage classes, because a comparison of a
text with an integer is what the purge does.

**`PathRequests`.** A request is checked (`CheckRequest`), the best path that is
left is found again and again (`NextPath`), each time with the channels of the
earlier ones more expensive, then a row per path is inserted, then the client has
its answer. Nothing else runs during the search, so that the graph, the
reachabilities and the request are chosen in `Init`. `networkx` is external: it
yields all simple paths in the order of their weights, paths of the same weight
in any order. Fees are flat: a mediator's fee may differ from channel to channel,
and the amounts are computed backwards from the target as in `_calculate_fees`.
`PathsCarryPayment` and `NothingMissed` follow the payment forwards instead,
hop by hop, with every mediator keeping its fee.

**`UserPresence`.** A listener has three parts, divided by two requests to a
homeserver: `Hear`, `NameKnown` (or `NameUnknown`, `NameInvalid`) and
`CapabilitiesKnown`; the listeners of one client do not overlap, those of two do.
Update ids are counted by each client from 0, as the tests' client does; a client
that logs in again is a new client. History variables: `newest`, the last
presence a listener was called with, `via`, the logins through which a user's
events came, and `lone`, whether the last listener of an address was alone.

**`ServiceRegistry`.** `pc` names the point of `register_account`,
`send_registration_transaction` or `withdraw` a run has reached; at each of them
it may end (`Aborted`), and the chain, the price and the queue of the operator's
transactions, mined in order, go on between any two of them. A transaction
carries, as history, the price its run had shown and whether the queue was empty
when its run began (`clean`).

**`NoRow`, `NoRequest`, `NoChannel`** stand for a missing row. Where the code
reads a nonce of a missing request, it uses 0, and so does the model.

## 3. The runs

| run | module, configuration | shows |
|---|---|---|
| `event_sync` | `EventSync` | no block skipped, replayed after its commit or handled unconfirmed; memory and database agree (the `assert` of the PFS); refinement of `BlockFollower`; every confirmed block is committed in the end |
| `monitoring_in_time` | `MCMonitoringService`, `MonitoringInTime` | `MonitoredInTime`, `RewardNotForgotten` and, as liveness, `RewardClaimed`: a reward that the chain owes is claimed in the end; with a crash at any statement, another service and late requests |
| `monitoring_status` | same, `MonitoringStatus` | `StatusExact`, `NonceNotAhead`, `OneTransaction`, `NeverMonitoredTwice` with a slow loop, a crash, a fault that `handle_event` swallows, and deposits that are low at times |
| `request_collector` | `MCRequestCollector` | `NonceNeverDecreases`, `PurgeSparesChannels` |
| `iou_payments` | `MCIouPayments` | `OneActiveSession`, `ClaimedWasSettled`, `PaidForServed`, `ExpiredSessionStays` |
| `pfs_channels` | `MCPfsChannels` | `DatabaseInGraph`, `GraphExact`, `CapacityConfirmed`, `DeferredDelivered`, `FeesNeverGoBack` |
| `path_requests` | `MCPathRequests` | `PathsCarryPayment`, `NothingMissed`, `DiverseIfPossible`, `AnswerHasRows`, `FirstFeedbackStands` |
| `user_presence` | `MCUserPresence` | `EveryUserHeardOnce`, `LoneListenerRepairs`, `NewestOfOneClient` |
| `service_registry` | `ServiceRegistry` | `PaysAtMostQuoted`, `ApprovesFromZero`, `NotRegisteredTwice`, `ThanksMeansRegistered`, `TooEarlyForAll`, `WithdrawSucceeds` |
| `monitoring_too_early`, `requests_purged`, `iou_reused` | | violations, section 6 |

Each module's `TypeOK` is proved (section 5). `OnlyConfirmedHandled` is proved, too, and part of
what `BlockFollower` promises.

### Bounds, and why they are enough

* `event_sync`: 8 blocks with intervals of 2 to 5 give several batches, cut off
  by the interval and by the confirmed block, and two crashes hit a batch and
  its replay. The theorems below cover every other value.
* `monitoring_*`: a settlement period of 2 or 3 blocks with the first
  permission to monitor after 1 or 2 leaves room for an iteration before, at and
  after the permission, and for a claim before and after the settlement. One
  channel is enough where a property is about one channel: the only coupling of
  channels in the code is the scheduler's `break`, which
  `monitoring_too_early` shows with two. Nonces up to 2 let the client, another
  service and ourselves update in all orders. `CloseBy`, `SettleBy`, `MaxTime`
  bound the chain, `MaxCrashes`, `MaxFaults` the failures.
* `request_collector`, `requests_purged`: two nonces, one message that is not well
  signed, a clock that passes `CloseMargin` and `KeepFor`.
* `iou_payments`: one client, two sessions, two requests at a time, two claims:
  enough for a request that overlaps another one, one that overlaps
  `claim_fees`, a second session after a claimed one, and a claim that fails
  because its session expired meanwhile. Clients share nothing.
* `pfs_channels`: two successive channels between the same two nodes, the only
  case in which rows and edges of two channels meet, one crash at any statement,
  a third node that does not take part, one message put aside at a time. Alice
  alone speaks of the first channel, in a message that names her as her partner, so
  that a mixture of the two channels' capacities would be unconfirmed.
* `path_requests`: source, target and two mediators with a channel between them
  give five routes, of two and of three hops, disjoint and overlapping. Each of
  the six forward capacities is below the value, equal to it, or enough for fees;
  fees differ between the channels of a mediator. Nodes are missing in each of
  the ways the code looks at them. One and three paths are asked for, of which
  three may be more than there are.
* `user_presence`: two users of one node on two servers, and one whose display
  name is not his signature; three changes of presence and two logins of the
  second client let every pair of listeners overlap, before, during and after a
  client's absence.
* `service_registry`: prices 1 and 2 on the main net and on a test net, two
  deposits, two transactions of killed runs; the theorems cover all other values.

Deadlock is checked where the program runs forever: in the models of the services
time stops at its bound, but polling goes on. It is not in `path_requests`,
`user_presence` and `service_registry`: a request is answered, a service that was
stopped stays so, a command ends.

### What the less obvious properties mean

* `StatusExact`, `RewardNotForgotten`, `GraphExact`, `CapacityConfirmed`,
  `DeferredDelivered` are about `CaughtUp`: everything that was ever queried is
  handled and committed. During a replay the rows are allowed to be old.
* `OneTransaction` allows one transaction for each time the channel's opening is
  handled (history variable `openings`), and one more for each crash between
  sending a transaction and saving its hash (`lost`) and for each fault. An
  opening is handled again only after a crash: without crashes and faults it is
  one transaction per channel. The proof attempt found that the replayed opening
  counts: `ChannelOpened` resets the hashes, and a batch after a crash may end
  before the blocks that were handled before it. In `monitoring_status` the
  channel may therefore be closed in either of two blocks (`CloseBy`).
* `PaidForServed` holds while no request overlapped another one or `claim_fees`
  (history variable `overlap`); `iou_reused` shows that the condition is needed.
* `RewardNotForgotten` is about deposits that always cover the rewards offered
  (`RewardsCovered`) and contracts whose first permission to monitor is not the
  end of the settlement period (`MonitorDelay # SettleTimeout`). Removing a
  scheduled event does not name its type (`database.py:213`): a check that is put
  off for a low deposit, or that is due with the claim anyway, takes the claim
  with it (section 6).
* `MonitoredInTime` is about a loop that keeps up with the chain (`Punctual`) and a
  settlement period with room for it (`EnoughTime`): the last attempt that comes
  too early may come `CheckWait` blocks after the close, puts the scheduler off by
  `RetryDelay`, and a block must be left after that. The closing must not look
  old to the service's clock when it is handled (`handlers.py:130`, which schedules
  nothing for a period that is over). `NotBlocked` leaves out a claim of ours that
  is due at or before the check: it stands in front of it until somebody settles
  that channel, which is what `monitoring_too_early` shows. The constants of
  `MonitoringInTime.cfg` meet `EnoughTime` with nothing to spare.
* `DiverseIfPossible` is about payments without fees, which the weight of an edge
  adds to the penalty, and about disjoint paths whose weight, two for each hop at
  most, does not exceed the penalty: a longer one is rightly more expensive than
  a short path that pays the penalty.
* `RewardClaimed` is about rewards that are still ours: when the client updates the
  channel itself after our monitoring, the service does not claim.
* `PurgeSparesChannels` is what keeps the purge away from requests it is not meant
  for: a request of a known channel that waits when the second statement is executed
  was stored after the first, so that it is as young as the time between the two.
  It does not depend on the comparison in the second statement, which deletes nothing
  at all (section 6).
* `TooEarlyForAll` leaves out a registry that is deprecated between the command's
  look at it and its look at the clock (`CheckDeprecated`, `CheckWithdrawable`): then
  "too early" is not true any more when it is said.
* `NeverMonitoredTwice` is the assertion at `handlers.py:503`, without a crash.
* `ExpiredSessionStays`: a client's unclaimed session, expired or not, is the one
  that every accepted IOU of the client continues, until `claim_fees` marks it.
* `LoneListenerRepairs` and `NewestOfOneClient` hold under conditions that the
  code needs: a listener that had the address for itself, and one login of one
  client. Without them TLC finds what section 6 describes.
* `ApprovesFromZero`, `NotRegisteredTwice` and `WithdrawSucceeds` are about runs
  that began with no transaction of an earlier run pending; the command cannot
  know of those. `PaysAtMostQuoted` holds for all.
* `CapacityConfirmed` compares with every capacity update ever handled
  (`received`): a capacity is at most something that each of the participants
  said of this very channel. That it is the *last* thing they said is not true
  after a replay: reopening resets the row to 0 and keeps `capacity_update`.

## 4. Fairness

* `EventSync!FairSpec`: weak fairness of the loop's own steps and of the restart.
  The loop is `while True` and a supervisor restarts the process. Weak fairness
  of `QueryAnswered` says that the node does not time out forever; the interval
  changes meanwhile, which is the point of the property. Crashes are bounded, the
  chain may stop.
* `MonitoringService!FairSpec`: weak fairness of `Loop`, strong fairness of
  `Tick` and `Mine`. The latter two are enabled at some points of the loop only,
  a modelling device (section 2): in reality neither waits for the loop, so that
  weak fairness would be too little. Nothing is assumed of the clients, of the
  other services, of who settles a channel, or of faults.

Safety runs use the specification without fairness.

## 5. Proofs

All proofs are checked by TLAPS, for all values of the constants that satisfy
the named assumptions (`IntervalAssumption`, `ChainAssumption`,
`ServiceConstants`, the ones of `RaidenChain`, `CollectorConstants`,
`IouConstants`, `PfsConstants`, `PathConstants`, `GraphConstants`,
`RegistryConstants`, `PresenceConstants`), which say little more than that numbers
are numbers, that the smallest interval is not 0, that a channel has two
participants and that the clients' sessions are finitely many.

* **`EventSync_proofs`**: `TypeCorrect`, `Coverage` (`NoBlockSkipped`),
  `Confirmation`, `MemoryAgrees`, `NoReplay` and `Refinement` (implements
  `BlockFollower`). `NoBlockSkipped` is not inductive: `BatchInv` adds that a
  batch starts right after the database's block, that each of its pairs is
  handled or still to do, and that memory is ahead of the database between the
  two updates of the head only.
* **`MonitoringService_proofs`**: `TypeCorrect`, `NoPhantomUpdate`
  (`NonceNotAhead`), `StatusIsChains` (`StatusExact`), `GasNotWasted`
  (`OneTransaction`), `MonitoredOnce` (`NeverMonitoredTwice`), `RewardKept`
  (`RewardNotForgotten`) and `MonitoredBeforeSettlement` (`MonitoredInTime`), all
  safety properties of the module, for any number of channels, services, crashes
  and faults. The row that is saved was computed
  some steps before, from an event that was fetched before that; `NonceInv`
  therefore bounds the nonces of the log, of the batch and of the statements
  under way by the chain's, which only grow. The others rest on `MInv`:
  `OrderInv` (the order of a channel's events in the log: nonces grow, and a
  monitoring comes with its update), `LoopInv` (where the loop is, which events
  it has fetched and which statements may be left), `PassInv` (without faults
  every network is queried and a batch is handled in its order), `StatusInv` (each
  row, and each row about to be saved, holds the newest of the updates handled;
  during a replay, of those committed), `HashInv` (a row without a hash leaves
  room for one more transaction), `OpeningsInv` (an opening that is still ahead was
  handled once for each crash at most) and `CheckInv` (without a crash a channel
  has one check at most, and none once it is monitored). Steps are first sorted
  by what they touch (`Kinds`), handlers by the statements they leave
  (`HandlerWrites`, `ActionWrites`).

  `RewardKept` adds `RInv`. `KeptInv` is its core: while the row says that we are
  owed the reward, the claim is scheduled or the monitoring that schedules it is
  still to be handled, for the first time or in a replay; a claim is about to be
  removed only when its hash was saved or the reward is not owed. The rest shows
  that no other removal meets it: `CloseInv` and `ClosingInv` (a row's closing
  block is the chain's), `RequestInv` (the service monitors for clients' requests
  only, whose rewards the deposits cover) and `EventsInv` (so that a check and a
  claim of a channel keep their times, which differ).

  `MonitoredBeforeSettlement` adds `TInv`, the account of how late the service may
  be. `LagInv`: with an iteration per block it is at most the confirmations behind
  the chain. `OpenedInv` and `FoundedInv`: what it has handled has its rows, no
  check is due before the MSC permits it, and what is triggered is due. `FlightInv`
  and `SentInv`: a transaction that was sent is mined in a block in which the MSC
  accepts it. `OverInv`: settled means that the period is over. `AwaitInv` is the
  core: while a client waits for its balance proof, the check is kept exactly as
  its closing scheduled it (`CheckKept`), through crashes and replays; it is
  triggered together with everything that is due as late (`Together`), and the
  scheduler is not asleep when it must run (`OnTime`). The last is where
  `CheckDelay` comes from: an attempt that puts the scheduler off comes no later
  than `CheckWait` blocks after the close (`TooEarlySoon`).
* **`IouPayments_proofs`**: `TypeCorrect`, `SingleSession` (`OneActiveSession`),
  `NoFalseClaim` (`ClaimedWasSettled`), `DeadSessionsStay`
  (`ExpiredSessionStays`) and `ServedIsPaid` (`PaidForServed`), for any number of
  clients, sessions and requests under way. `SuccessSettles` is the strengthening: a transaction
  that succeeded settled its IOU's session. `DeadSessionsStay` needs
  `PositivePayments`, too: what a waiting request saves is a row. `ServedIsPaid`
  rests on `SerialInv`: without overlaps the one request under way still
  continues the session that the table knows (`Continues`), and the copies of
  `claim_fees` have the amounts of the rows they replace, so that a save adds the
  fee to the client's sum and a recorded claim leaves it as it is.
* **`PfsChannels_proofs`**: all properties of the module, for any channels,
  nodes and messages and crashes between any two statements: `TypeCorrect`,
  `RestartChangesNothing` (`DatabaseInGraph`), `ExactGraph` (`GraphExact`),
  `ConfirmedCapacity` (`CapacityConfirmed`), `DeferredHandled`
  (`DeferredDelivered`) and `FeesOnlyNewer` (`FeesNeverGoBack`). The properties
  hold when nothing is under way; the invariant says what holds in between.
  `LogInv` is what the contracts guarantee of the order of events; `LoopInv` and
  `WritesInv` say which block the service is at and what the statements under way
  are about; `TableInv` and `OpeningInv` that rows and graph differ only where a
  row is about to be saved; `ReplayInv` which channels are known while a part of
  the history is handled for the second time, an old and a new one of the same
  nodes included; `WaitingInv` that a message waiting for a known channel has that
  channel's opening ahead of it; `ClaimsInv` that a capacity was said by both sides,
  or is a closed channel's; `FeesInv` that what is about to be saved is not older
  than what is saved.
* **`PathRequests_proofs`**: all properties of the module, for every
  graph, fees, payment and number of paths: `TypeCorrect`, `AnswersCarry`
  (`PathsCarryPayment`), `NoneMissed` (`NothingMissed`), `Diversity`
  (`DiverseIfPossible`), `RowsBeforeAnswer` (`AnswerHasRows`) and
  `FeedbackStands` (`FirstFeedbackStands`). The core is
  `AmountsNeeded`: the recursion of `_calculate_fees`, from the last hop to the
  first, computes for each hop the value and the sum of the fees behind it
  (`Needed`); `ValidCarries` and `ArrivesNeeded` follow, backwards and forwards.
  `FoundInv`, `CompleteInv` and `RowsInv` are the inductive invariant: paths that
  carry, nothing left over when the search has ended, rows of the first paths.
  `Diversity` adds `VisitedInv` (what `visited` counts after one path) and
  `DiverseInv`. Without fees a path weighs at most two for each channel that is
  not used yet (`LightPath`) and more than the penalty if it uses one again
  (`HeavyPath`), so that the cheapest path left is disjoint (`SecondPath`).
* **`RequestCollector_proofs`**: `TypeCorrect`, `NoncesGrow`
  (`NonceNeverDecreases`) and `ChannelsSpared` (`PurgeSparesChannels`). The
  strengthening `ComparisonHolds` says that what the collector compared is still
  true when it stores. Both theorems hold whichever old requests the purge deletes.
* **`ServiceRegistry_proofs`**: all properties of the module, for any prices,
  balances and numbers of runs, deposits and transactions left behind:
  `TypeCorrect`, `QuoteHolds`, `AllowanceFromZero`, `RegistersOnce`,
  `ThanksAreDue`, `TooEarlyIsForAll`, `WithdrawalSucceeds`. The properties speak
  of the moment a transaction is mined, the code looks much earlier; the
  inductive invariant `IInv` carries each fact from the look to that moment.
  `QueueInv` is its core: a run waits for the last transaction of the queue, and
  one that began with an empty queue has no other in it, so that only its own
  transactions can change what it has read. `DepositInv` says that deposits become
  withdrawable in the order they were made, and what a withdrawal has read of its
  deposit. Steps are first sorted by what they
  touch (`StepKinds`: the world, mining, the end of a run, a run thinking or
  sending), with one lemma for each kind. That the first deposit left exists
  (`CHOOSE`) rests on the well-foundedness of the naturals (`LeastNatural`).
* **`UserPresence_proofs`**: `TypeCorrect` and `EveryoneHeard`
  (`EveryUserHeardOnce`), for any homeservers, users, logins and failures.
  `ListenerInv` is the strengthening: the main client's listener stays registered
  until the service stops, and until then a registered client of another server
  is in its sync, because its listener is taken away before its greenlet logs in
  again. `LoneListenerLeavesTruth` (`LoneListenerRepairs`) adds `UsersInv` and
  `LoneInv`: a listener alone with its address computes the reachability from the
  presences as they are, since only listeners of the address change them.
  `NewestStands` (`NewestOfOneClient`) adds `OrderInv`: within one login of one
  client update ids grow with the events, and at most one listener is on its way
  with the newest.

Recursion and induction. The sums of the community modules and `Amounts` are
recursive functions, defined by `CHOOSE`. That they satisfy their equations, and
everything else about them, is proved from a smallest set that would contradict
it (`SmallestSet`, from the well-foundedness of the finite subsets): `SumsAgree`,
`SumExists`, `SumPicked`, `SumNatural`, `SumRemove` (the order of a sum does not
matter), `SumUnion`. For `Amounts` the closed form is the witness.

Only model-checked: liveness (`EveryBlockCommitted`, `RewardClaimed`), which needs
fairness and ENABLED and is out of TLAPS's reach here. Every other property that a
passing run checks is proved.

## 6. Where the code disagrees with what is said of it

Three are runs that TLC ends with a counterexample:

* `monitoring_too_early`: the scheduler stops at the first event that is too
  early, because "then we know that all other events would do that, too"
  (`monitoring_service/service.py:204`). A claim of a channel that nobody
  settles stands in front of monitor events that are allowed.
* `iou_reused`: "The same payment can't be reused"
  (`tests/pathfinding/test_payment.py:111`): two overlapping requests are served
  for one IOU.
* `requests_purged`: "Delete all old MRs for which still no channel exists."
  (`monitoring_service/service.py:254`, also `schema.sql:57` and
  `tests/monitoring/monitoring_service/test_database.py:147`). `saved_at` is a text,
  the parameter an integer, and for SQLite no text is less than an integer: a
  request without a channel stays, however old. (The test stores a number in
  `saved_at` itself.)

Observed, without a run of their own:

* "try monitoring again later" (`handlers.py:493`): an event that is rescheduled
  for the second in which it was due is removed at once by its caller
  (`MonitorRescheduled`, `Done`).
* "Should be impossible" (`handlers.py:505`) is reached after a crash between
  saving the hash and removing the event: `NeverMonitoredTwice` without its
  condition `crashes = 0`. The assertion is caught and does its job; no second
  transaction is sent for it (`OneTransaction`). One is sent when the crash comes in
  a batch with the channel's opening: the opening is handled again and resets the
  hash (`handlers.py:85`), and the closing schedules a new check.
* "if there is at least one Matrix user that is reachable, then the Raiden node is
  considered reachable" (`user_address.py:243`): of two listeners that overlap, the
  one that computed the reachability first may write it last, and the node stays
  unreachable until the next listener (`LoneListenerRepairs` without `lone`).
* "We've already received a more recent presence" (`user_address.py:380`): ids of
  different clients are compared. After a client logged in again, or took over
  from the main client, newer presences are ignored until its count has caught up
  (`NewestOfOneClient` without its condition on `via`).
* A login that is under way when the service stops is not cancelled
  (`matrix.py:399`).
* `remove_scheduled_event` does not name the event type (`database.py:213`). With
  sufficient deposits no claim is lost by it (`RewardNotForgotten`,
  `RewardClaimed`). With `Balances <- ChangingDeposit`, one request, nonces up to 1
  and no other service in `MonitoringInTime.cfg` TLC finds one that is: a crash comes
  before our monitor event is removed, the
  event is tried again and put off because the deposit is low by then, to a second
  that happens to be the one at which the channel becomes settleable and at which
  the claim is scheduled; removing the monitor event later removes the claim, and
  nobody claims the reward.
* A request that overlaps `claim_fees` writes back the session as unclaimed; it
  is claimed again in vain.
* The expiry of an IOU is compared with the clock when its session begins only
  (`api.py:280`): a client whose session expired before it was claimed cannot
  begin another one, and pays with IOUs that are worthless
  (`ExpiredSessionStays`).
* On the main net the registry command goes on when the balance fell below the
  price between its two looks; the deposit then fails (`LatestPrice`).
* After a crash the PFS replays `ChannelOpened` and resets capacities and fees
  until the next messages (`pathfinding_service/service.py:263`).
* In such a replay, with an old and a new channel of the same nodes, a message
  for one of them may meet no edge: a `KeyError` that ends the listener and with
  it the service (`ListenerFails`, `ErrorRestart`); the restart repairs the state.
* A capacity update may name its sender as the other participant, too: both are
  participants (`pathfinding_service/service.py:395-402`), it is saved, and there is
  no edge from a node to itself (`token_network.py:302`). The `KeyError` ends the
  listener, or, if the message was put aside, the main loop while it handles the
  channel's opening, before the message is deleted (`PopFails`): the service ends at
  that event after every restart and never commits its block. The safety properties
  hold all the same; `DeferredDelivered` and the others about `CaughtUp` say nothing
  of a service that does not catch up.
* The mint decision of the registry command uses the balance it read at the beginning
  (`service_registry.py:313`): with a balance that fell since then the deposit fails,
  and the run ends as failed.

## 7. What is not modelled

* The contracts beyond what the services rely on; gas prices and account
  balances (the check of the latter only logs).
* The Matrix client, JSON, HTTP, metrics, logging, command lines.
* Messages that are malformed or badly signed, capacities that do not fit 256 bits
  and networks or chains that are not followed, beyond their being refused. What a
  well-formed message may name is modelled.
* `suggest_partner` with its cache of a minute, and the `info` command: they read.
* The rate limiter of `raiden_libs/matrix.py`, whose effect is a lost message; lost
  messages are part of the models. The methods of `UserAddressManager` that no
  service calls.
* In `PathRequests` the penalties of a request are natural numbers; the code takes
  any number from the client, fractions and negative ones included (`api.py:108`).
* In `UserPresence` a login is one step: `make_client` asks homeservers before the
  client exists (`matrix.py:350`), and no listener is affected until it does. A sync
  that ends while a listener of its own client waits for a homeserver is left out
  (`SyncEnds`).
* In `ServiceRegistry` `register` reads the registration and the URL in one step
  (`CheckRegistered`): only the operator's own transactions change either.
* Fees that depend on the amount or the balances, a request from a node to itself,
  and display names and capabilities of users.
* Reorganisations deeper than the confirmations: the code does not handle them.

## 8. Plan

Done: `EventSync` with its refinement and proofs; `RaidenChain` and
`MonitoringService`; `RequestCollector`; `IouPayments`; `PfsChannels`;
`UserPresence` and `ServiceRegistry` with their proofs; `PathRequests`. They were
written in this order, from what all services share, over the service that
guards deposits, to the service that sells routes and what it relies on.

Proved: every safety property, action property and refinement that a passing run
checks, for all values of the constants. `RewardNotForgotten`, `MonitoredInTime`
and `DiverseIfPossible` came last; what they assume (section 3) is what the proofs
showed to be needed.

Left: the two liveness properties, which only TLC can check; the parts of section 7.
