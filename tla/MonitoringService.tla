-------------------------- MODULE MonitoringService --------------------------
(***************************************************************************)
(* The monitoring service (MS): its main loop follows the chain, keeps the *)
(* channels and what is known of their on-chain updates in SQLite, calls   *)
(* `monitor` for a client whose channel was closed, and claims the reward  *)
(* after settlement.  The request collector, a process of its own, stores  *)
(* the clients' monitor requests in the same database.                     *)
(*                                                                         *)
(* The database is opened with isolation_level=None: every statement is    *)
(* committed by itself, the `with conn` blocks do not group anything.  A   *)
(* handler therefore computes the statements it is going to execute        *)
(* (writes) and they are executed one per step; a crash loses the rest.    *)
(***************************************************************************)
EXTENDS RaidenChain

CONSTANTS Requests,       \* the monitor requests clients may send
          MinReward,      \* min_reward
          Confirmations,  \* required_confirmations
          CloseMargin,    \* CHANNEL_CLOSE_MARGIN
          RetryDelay,     \* MAX_SCHEDULED_EVENTS_RETRY_FREQUENCY
          ClockAhead,     \* how far the service's clock is ahead of the chain's
          Punctual,       \* the loop runs at least once per block
          MaxCrashes,     \* bound: crashes of the service
          MaxFaults       \* bound: failing requests to the Ethereum node

\* A monitor request of participant who: the balance proof's nonce, who signed
\* the balance proof, and the reward.
MonitorRequests ==
    [ch : Channels, who : Participants, nonce : Nat \ {0},
     signer : Participants \cup {"stranger"}, reward : Nat]

ASSUME ServiceConstants ==
    /\ Requests \subseteq MonitorRequests
    /\ MinReward \in Nat
    /\ Confirmations \in Nat \ {0}
    /\ CloseMargin \in Nat
    /\ RetryDelay \in Nat
    /\ ClockAhead \in Nat
    /\ Punctual \in BOOLEAN
    /\ MaxCrashes \in Nat
    /\ MaxFaults \in Nat

VARIABLES
    \* the database
    token_network, channel, monitor_request, scheduled_events, waiting_transactions, committed,
    \* the memory of the service
    pc, latest, head, batch, triggered, writes, try_after,
    \* history: the highest block ever queried, how often the opening of each
    \* channel was handled, whether an iteration ended in this block, the
    \* crashes, those that lost a transaction hash, the faults
    fetched, openings, polled, crashes, lost, faults

dbvars == <<token_network, channel, scheduled_events, waiting_transactions, committed>>
hvars == <<fetched, openings, polled, crashes, lost, faults>>
vars == <<cvars, token_network, channel, monitor_request, scheduled_events, waiting_transactions,
          committed, pc, latest, head, batch, triggered, writes, try_after,
          hvars>>

\* get_posix_utc_time_now
Clock == now + ClockAhead

NoRow == [state |-> "missing"]
NoRequest == [nonce |-> 0]

\* A row of table monitor_request.
StoredRequests ==
    [nonce : Nat, signer : Participants \cup {"stranger"}, reward : Nat, saved_at : Nat]

\* A row of table channel.  No transaction hash and no closing block is 0; no
\* update_status is nonce 0 with no sender.
ChannelRows ==
    [state : {"OPENED", "CLOSED", "SETTLED"}, closing_block : Nat,
     closing_participant : Participants \cup {None}, monitor_tx : Nat, claim_tx : Nat,
     nonce : Nat, sender : Participants \cup Services \cup {None}]

ScheduledEvents ==
    [at : Nat, type : {"monitor", "claim"}, ch : Channels, who : Participants]

\* The statements handlers execute.
UpsertTokenNetwork(n) == [op |-> "token_network", net |-> n]
UpsertChannel(c, r) == [op |-> "channel", ch |-> c, row |-> r]
UpsertScheduledEvent(s) == [op |-> "schedule", ev |-> s]
RemoveScheduledEvent(s) == [op |-> "unschedule", ev |-> s]
AddWaitingTransaction(t) == [op |-> "waiting", tx |-> t]
UpdateLatestCommittedBlock(b) == [op |-> "head", block |-> b]

Writes ==
    [op : {"token_network"}, net : Networks]
    \cup [op : {"channel"}, ch : Channels, row : ChannelRows]
    \cup [op : {"schedule", "unschedule"}, ev : ScheduledEvents]
    \cup [op : {"waiting"}, tx : Nat]
    \cup [op : {"head"}, block : Nat]

DatabaseTypeOK ==
    /\ token_network \in SUBSET Networks
    /\ channel \in [Channels -> ChannelRows \cup {NoRow}]
    /\ monitor_request \in
        [Channels \X Participants -> StoredRequests \cup {NoRequest}]
    /\ scheduled_events \in SUBSET ScheduledEvents
    /\ waiting_transactions \in SUBSET Nat
    /\ committed \in Nat

LoopTypeOK ==
    /\ pc \in {"blocks", "handle", "trigger", "scheduled", "pending"}
    /\ latest \in Nat
    /\ head \in Nat
    /\ batch \in SUBSET Events
    /\ triggered \in SUBSET ScheduledEvents
    /\ writes \in Seq(Writes)
    /\ try_after \in Nat

HistoryTypeOK ==
    /\ fetched \in Nat
    /\ openings \in [Channels -> Nat]
    /\ polled \in BOOLEAN
    /\ crashes \in 0 .. MaxCrashes
    /\ lost \in 0 .. crashes
    /\ faults \in 0 .. MaxFaults

TypeOK == ChainTypeOK /\ DatabaseTypeOK /\ LoopTypeOK /\ HistoryTypeOK

Init ==
    /\ ChainInit
    /\ token_network = {}
    /\ channel = [c \in Channels |-> NoRow]
    /\ monitor_request = [k \in Channels \X Participants |-> NoRequest]
    /\ scheduled_events = {}
    /\ waiting_transactions = {}
    /\ committed = 0
    /\ pc = "blocks" /\ latest = 0 /\ head = 0 /\ batch = {} /\ triggered = {}
    /\ writes = <<>> /\ try_after = Clock
    /\ fetched = 0 /\ openings = [c \in Channels |-> 0] /\ polled = FALSE
    /\ crashes = 0 /\ lost = 0 /\ faults = 0

------------------------------------------------------------------------------
(* The environment: the chain, and the clock.                              *)

Unmined == {i \in DOMAIN txs : txs[i].block = 0}

\* Where the loop looks at the contracts or the clock.  The rest of it neither
\* reads the latest block nor the contracts, so that what happens on the chain
\* in the meantime may as well happen here.
LooksAtChain == pc \in {"blocks", "trigger", "scheduled"} /\ writes = <<>>

ChainStep ==
    /\ LooksAtChain
    /\ ChainTransaction
    /\ UNCHANGED <<dbvars, monitor_request, pc, latest, head, batch, triggered, writes, try_after,
                   hvars>>

Mine ==
    /\ LooksAtChain
    /\ MineTx
    /\ UNCHANGED <<dbvars, monitor_request, pc, latest, head, batch, triggered, writes, try_after,
                   hvars>>

\* The service polls every few seconds.  With Punctual it is never slower than
\* the chain: between two blocks an iteration ends and what it sent is mined.
Tick ==
    /\ LooksAtChain
    /\ Punctual => polled /\ Unmined = {}
    /\ NewBlock
    /\ polled' = FALSE
    /\ UNCHANGED <<dbvars, monitor_request, pc, latest, head, batch, triggered, writes, try_after,
                   fetched, openings, crashes, lost, faults>>

------------------------------------------------------------------------------
(* The request collector.                                                  *)

\* How many blocks ago was the channel closed, as far as the MS knows?
LongClosed(c) ==
    /\ channel[c] # NoRow
    /\ channel[c].closing_block # 0
    /\ committed - channel[c].closing_block >= CloseMargin

\* on_monitor_request of a request that is signed by mr.who.
OnMonitorRequest(mr) ==
    /\ ~LongClosed(mr.ch)
    /\ monitor_request[<<mr.ch, mr.who>>].nonce < mr.nonce
    /\ monitor_request' = [monitor_request EXCEPT ![<<mr.ch, mr.who>>] =
        [nonce |-> mr.nonce, signer |-> mr.signer, reward |-> mr.reward, saved_at |-> Clock]]
    /\ UNCHANGED <<cvars, dbvars, pc, latest, head, batch, triggered, writes, try_after, hvars>>

------------------------------------------------------------------------------
(* The statements of a handler, each one a transaction of its own.         *)

Statement(op) ==
    /\ writes # <<>>
    /\ Head(writes).op = op
    /\ writes' = Tail(writes)
    /\ UNCHANGED <<cvars, monitor_request, pc, latest, head, batch, triggered, try_after, hvars>>

SaveTokenNetwork ==
    /\ Statement("token_network")
    /\ token_network' = token_network \cup {Head(writes).net}
    /\ UNCHANGED <<channel, scheduled_events, waiting_transactions, committed>>

SaveChannel ==
    /\ Statement("channel")
    /\ channel' = [channel EXCEPT ![Head(writes).ch] = Head(writes).row]
    /\ UNCHANGED <<token_network, scheduled_events, waiting_transactions, committed>>

SaveScheduledEvent ==
    /\ Statement("schedule")
    /\ scheduled_events' = scheduled_events \cup {Head(writes).ev}
    /\ UNCHANGED <<token_network, channel, waiting_transactions, committed>>

\* The DELETE names the timestamp, the channel and the participant, but not the
\* type of the event.
DeleteScheduledEvent ==
    /\ Statement("unschedule")
    /\ LET ev == Head(writes).ev IN
       scheduled_events' =
           {s \in scheduled_events : ~(s.at = ev.at /\ s.ch = ev.ch /\ s.who = ev.who)}
    /\ UNCHANGED <<token_network, channel, waiting_transactions, committed>>

SaveWaitingTransaction ==
    /\ Statement("waiting")
    /\ waiting_transactions' = waiting_transactions \cup {Head(writes).tx}
    /\ UNCHANGED <<token_network, channel, scheduled_events, committed>>

SaveCommittedBlock ==
    /\ Statement("head")
    /\ committed' = Head(writes).block
    /\ UNCHANGED <<token_network, channel, scheduled_events, waiting_transactions>>

ExecuteStatement ==
    \/ SaveTokenNetwork \/ SaveChannel \/ SaveScheduledEvent
    \/ DeleteScheduledEvent \/ SaveWaitingTransaction \/ SaveCommittedBlock

------------------------------------------------------------------------------
(* _process_new_blocks.                                                    *)

ProcessVars == <<cvars, dbvars, monitor_request, polled, crashes, lost>>

\* The loop is at step p and has no statement left to execute.
At(p) == pc = p /\ writes = <<>>

NoNewBlocks ==
    /\ At("blocks")
    /\ latest + 1 > now - Confirmations
    /\ pc' = "trigger"
    /\ UNCHANGED <<ProcessVars, openings, latest, head, batch, triggered, writes, try_after,
                   fetched, faults>>

\* The events of the blocks latest + 1 .. b, where b depends on the adaptive
\* interval (see EventSync).  The token networks queried are the known ones
\* and the ones created in the same range.
GetBlockchainEvents ==
    /\ At("blocks")
    /\ \E b \in (latest + 1) .. (now - Confirmations) :
        LET range == {e \in log : latest + 1 <= e.block /\ e.block <= b}
            queried == token_network \cup {e.on : e \in {f \in range : f.type = "created"}}
        IN  /\ batch' = {e \in range : e.type \in TokenNetworkEvents
                                          => NetOf[e.on] \in queried}
            /\ head' = b
            /\ fetched' = IF b > fetched THEN b ELSE fetched
    /\ pc' = "handle"
    /\ UNCHANGED <<ProcessVars, openings, latest, triggered, writes, try_after, faults>>

\* ReadTimeout: this iteration does without new events.
GetBlockchainEventsTimeout ==
    /\ At("blocks")
    /\ latest + 1 <= now - Confirmations
    /\ faults < MaxFaults
    /\ faults' = faults + 1
    /\ pc' = "trigger"
    /\ UNCHANGED <<ProcessVars, openings, latest, head, batch, triggered, writes, try_after,
                   fetched>>

\* The list is ordered by contract (registry, token networks, MSC), then by
\* position in the chain.
Contract(e) ==
    CASE e.type = "created" -> 1
      [] e.type \in TokenNetworkEvents -> 2
      [] OTHER -> 3

Precedes(e, f) == Contract(e) < Contract(f) \/ (Contract(e) = Contract(f) /\ e.pos < f.pos)

\* e is the next event of the list; its handler executes the statements ws.
Handle(e, ws) ==
    /\ At("handle")
    /\ \A f \in batch : ~Precedes(f, e)
    /\ batch' = batch \ {e}
    /\ writes' = ws
    /\ openings' = IF e.type = "opened" THEN [openings EXCEPT ![e.on] = @ + 1] ELSE openings
    /\ UNCHANGED <<ProcessVars, pc, latest, head, triggered, try_after, fetched>>

TokenNetworkCreated(e) ==
    /\ e.type = "created"
    /\ Handle(e, <<UpsertTokenNetwork(e.on)>>)
    /\ UNCHANGED faults

FreshRow ==
    [state |-> "OPENED", closing_block |-> 0, closing_participant |-> None, monitor_tx |-> 0,
     claim_tx |-> 0, nonce |-> 0, sender |-> None]

ChannelOpened(e) ==
    /\ e.type = "opened"
    /\ Handle(e, <<UpsertChannel(e.on, FreshRow)>>)
    /\ UNCHANGED faults

\* The events whose channel is not in the database are logged and dropped.
ChannelUnknown(e) ==
    /\ e.type \in {"closed", "updated", "settled", "monitored"}
    /\ channel[e.on] = NoRow
    /\ Handle(e, <<>>)
    /\ UNCHANGED faults

ClosedRow(e) ==
    [channel[e.on] EXCEPT !.state = "CLOSED", !.closing_block = e.block,
                          !.closing_participant = e.who]

\* Seeded fault: the check is scheduled for the participant who closed.
MutantMonitorEvent(e) ==
    [at |-> FirstAllowedToMonitor(e.on), type |-> "monitor", ch |-> e.on, who |-> e.who]

MonitorEvent(e) ==
    [at |-> FirstAllowedToMonitor(e.on), type |-> "monitor", ch |-> e.on, who |-> Other(e.who)]

\* Unless the settlement period is over already, the check for a monitor
\* request is scheduled for the first time the MSC lets us monitor.
ClosedStatements(e) ==
    (IF e.block + SettleTimeout < Clock THEN <<>>
     ELSE <<UpsertScheduledEvent(MonitorEvent(e))>>)
    \o <<UpsertChannel(e.on, ClosedRow(e))>>

ChannelClosed(e) ==
    /\ e.type = "closed"
    /\ channel[e.on] # NoRow
    /\ Handle(e, ClosedStatements(e))
    /\ UNCHANGED faults

\* Seeded fault: the nonce to be used next is stored.
MutantUpdatedRow(row, nonce, sender) == [row EXCEPT !.nonce = nonce + 1, !.sender = sender]

\* The row with a new update_status.
UpdatedRow(row, nonce, sender) == [row EXCEPT !.nonce = nonce, !.sender = sender]

NonClosingBalanceProofUpdated(e) ==
    /\ e.type = "updated"
    /\ channel[e.on] # NoRow
    /\ Handle(e, IF e.who \notin Participants \/ e.nonce <= channel[e.on].nonce THEN <<>>
                 ELSE <<UpsertChannel(e.on, UpdatedRow(channel[e.on], e.nonce, Other(e.who)))>>)
    /\ UNCHANGED faults

ChannelSettled(e) ==
    /\ e.type = "settled"
    /\ channel[e.on] # NoRow
    /\ Handle(e, <<UpsertChannel(e.on, [channel[e.on] EXCEPT !.state = "SETTLED"])>>)
    /\ UNCHANGED faults

\* Seeded fault: the comparison of the token network's handler.
MutantMonitorIgnored(e) == e.nonce <= channel[e.on].nonce

\* The same nonce as the known one is not ignored: it is the token network's
\* event of the same call, which named the participant as the sender.
MonitorIgnored(e) == e.nonce < channel[e.on].nonce

ClaimEvent(c, closing_block) ==
    [at |-> closing_block + SettleTimeout, type |-> "claim", ch |-> c,
     who |-> Other(chain[c].closer)]

\* After our own update the claim is scheduled.
MonitoredStatements(e) ==
    LET row == UpdatedRow(channel[e.on], e.nonce, e.who)
        claim == IF e.who = Us /\ row.closing_block # 0
                 THEN <<UpsertScheduledEvent(ClaimEvent(e.on, row.closing_block))>>
                 ELSE <<>>
    IN  IF MonitorIgnored(e) THEN <<>> ELSE <<UpsertChannel(e.on, row)>> \o claim

MonitorNewBalanceProof(e) ==
    /\ e.type = "monitored"
    /\ channel[e.on] # NoRow
    /\ Handle(e, MonitoredStatements(e))
    /\ UNCHANGED faults

MonitorRewardClaimed(e) ==
    /\ e.type = "claimed"
    /\ Handle(e, <<>>)
    /\ UNCHANGED faults

\* A handler raises, because a request to the node fails or the database is
\* locked: handle_event logs the exception and the event is not retried.  By
\* then the handler has executed nothing, or the first of two statements.
HandlerFails(e) ==
    /\ faults < MaxFaults
    /\ \/ Handle(e, <<>>)
       \/ /\ e.type = "closed" /\ channel[e.on] # NoRow
          /\ Len(ClosedStatements(e)) = 2
          /\ Handle(e, <<Head(ClosedStatements(e))>>)
       \/ /\ e.type = "monitored" /\ channel[e.on] # NoRow
          /\ Len(MonitoredStatements(e)) = 2
          /\ Handle(e, <<Head(MonitoredStatements(e))>>)
    /\ faults' = faults + 1

HandleEvent ==
    \E e \in batch :
        \/ TokenNetworkCreated(e) \/ ChannelOpened(e) \/ ChannelUnknown(e) \/ ChannelClosed(e)
        \/ NonClosingBalanceProofUpdated(e) \/ ChannelSettled(e) \/ MonitorNewBalanceProof(e)
        \/ MonitorRewardClaimed(e)

EventLost == \E e \in batch : HandlerFails(e)

\* The last event of the list commits the head block, in memory first.
UpdatedHeadBlock ==
    /\ At("handle")
    /\ batch = {}
    /\ latest' = head
    /\ writes' = <<UpdateLatestCommittedBlock(head)>>
    /\ pc' = "trigger"
    /\ UNCHANGED <<ProcessVars, openings, head, batch, triggered, try_after, fetched, faults>>

\* The database is locked: the head block is committed in memory only.
UpdatedHeadBlockFails ==
    /\ At("handle")
    /\ batch = {}
    /\ faults < MaxFaults
    /\ faults' = faults + 1
    /\ latest' = head
    /\ pc' = "trigger"
    /\ UNCHANGED <<ProcessVars, openings, head, batch, triggered, writes, try_after, fetched>>

------------------------------------------------------------------------------
(* _trigger_scheduled_events.                                              *)

SchedulerVars == <<monitor_request, dbvars, now, chain, log, udc, latest, head, batch, fetched,
                   openings, polled, crashes, lost>>

TriggerNotYet ==
    /\ At("trigger")
    /\ Clock < try_after
    /\ pc' = "pending"
    /\ UNCHANGED <<SchedulerVars, txs, triggered, writes, try_after, faults>>

TriggerScheduledEvents ==
    /\ At("trigger")
    /\ Clock >= try_after
    /\ triggered' = {s \in scheduled_events : s.at <= Clock}
    /\ pc' = "scheduled"
    /\ UNCHANGED <<SchedulerVars, txs, writes, try_after, faults>>

\* s is a triggered event with the lowest timestamp.
Due(s) == At("scheduled") /\ s \in triggered /\ \A t \in triggered : s.at <= t.at

\* Seeded fault: the event is not removed from the database.
MutantDone(s, ws) ==
    /\ Due(s)
    /\ triggered' = triggered \ {s}
    /\ writes' = ws
    /\ UNCHANGED <<SchedulerVars, pc, try_after>>

\* The handler returned, or raised and was logged: after the statements ws of
\* the handler the event is removed.
Done(s, ws) ==
    /\ Due(s)
    /\ triggered' = triggered \ {s}
    /\ writes' = ws \o <<RemoveScheduledEvent(s)>>
    /\ UNCHANGED <<SchedulerVars, pc, try_after>>

\* The handler raised TransactionTooEarlyException: the remaining events are
\* left for later.
TooEarly(s) ==
    /\ Due(s)
    /\ triggered' = {}
    /\ try_after' = Clock + RetryDelay
    /\ pc' = "pending"
    /\ UNCHANGED <<SchedulerVars, txs, writes, faults>>

Request(s) == monitor_request[<<s.ch, s.who>>]

IsMrValid(s) ==
    /\ Request(s).signer \in Participants
    /\ s.who \in Participants
    /\ Request(s).signer # s.who

\* The checks of action_monitoring_triggered_event_handler up to the deposit.
WorthMonitoring(s) ==
    /\ s.type = "monitor"
    /\ Request(s) # NoRequest
    /\ channel[s.ch] # NoRow
    /\ IsMrValid(s)
    /\ Request(s).nonce > channel[s.ch].nonce
    /\ Request(s).reward >= MinReward

\* The pessimistic UDC balance covers the reward by the factor of 1.1.
DepositSuffices(s) ==
    \A b \in {udc[s.who].confirmed, udc[s.who].latest} : b * 10 >= Request(s).reward * 11

\* The handler's `monitor` call would be refused as too early.
MonitorTooEarly(s) ==
    /\ WorthMonitoring(s) /\ DepositSuffices(s) /\ channel[s.ch].monitor_tx = 0
    /\ now < FirstAllowedToMonitor(s.ch)

\* Nothing to do, or the channel was monitored already (an AssertionError), or
\* the gas estimation says that the call would fail.
MonitorDropped(s) ==
    /\ s.type = "monitor"
    /\ \/ ~WorthMonitoring(s)
       \/ /\ WorthMonitoring(s) /\ DepositSuffices(s)
          /\ \/ channel[s.ch].monitor_tx # 0
             \/ ~MonitorTooEarly(s) /\ ~CanMonitor(s.ch, Request(s).nonce)
    /\ Done(s, <<>>)
    /\ UNCHANGED <<txs, faults>>

\* The deposit is too low: the same event is scheduled again, for now.
MonitorRescheduled(s) ==
    /\ WorthMonitoring(s)
    /\ ~DepositSuffices(s)
    /\ Done(s, <<UpsertScheduledEvent([s EXCEPT !.at = Clock])>>)
    /\ UNCHANGED <<txs, faults>>

\* Seeded fault: the hash is not saved in the channel's row.
MutantSend(s, tx, row) ==
    /\ txs' = Append(txs, tx)
    /\ Done(s, <<AddWaitingTransaction(Len(txs) + 1)>>)

\* Sending a transaction, and what is saved once its hash is known.
Send(s, tx, row) ==
    /\ txs' = Append(txs, tx)
    /\ Done(s, <<AddWaitingTransaction(Len(txs) + 1), UpsertChannel(s.ch, row)>>)

MonitorTx(s) == [type |-> "monitor", ch |-> s.ch, nonce |-> Request(s).nonce, block |-> 0]
ClaimTx(s) == [type |-> "claim", ch |-> s.ch, nonce |-> 0, block |-> 0]

MayMonitor(s) ==
    /\ WorthMonitoring(s) /\ DepositSuffices(s) /\ channel[s.ch].monitor_tx = 0
    /\ CanMonitor(s.ch, Request(s).nonce)

MonitorSent(s) ==
    /\ MayMonitor(s)
    /\ Send(s, MonitorTx(s), [channel[s.ch] EXCEPT !.monitor_tx = Len(txs) + 1])
    /\ UNCHANGED faults

\* The checks of action_claim_reward_triggered_event_handler.
WorthClaiming(s) ==
    /\ s.type = "claim"
    /\ Request(s) # NoRequest
    /\ channel[s.ch] # NoRow
    /\ channel[s.ch].claim_tx = 0
    /\ channel[s.ch].sender = Us
    /\ Request(s).reward > 0

\* Seeded fault: a claim before the settlement is an error like any other.
MutantClaimTooEarly(s) == FALSE

\* claimReward is refused with "channel not settled yet".
ClaimTooEarly(s) == WorthClaiming(s) /\ chain[s.ch].state # "settled"

ClaimDropped(s) ==
    /\ s.type = "claim"
    /\ ~WorthClaiming(s) \/ (~ClaimTooEarly(s) /\ ~CanClaim(s.ch))
    /\ Done(s, <<>>)
    /\ UNCHANGED <<txs, faults>>

MayClaim(s) == WorthClaiming(s) /\ CanClaim(s.ch)

ClaimSent(s) ==
    /\ MayClaim(s)
    /\ Send(s, ClaimTx(s), [channel[s.ch] EXCEPT !.claim_tx = Len(txs) + 1])
    /\ UNCHANGED faults

\* A request to the node fails before a transaction is sent, or the database is
\* locked when its hash is to be saved: the exception is logged, by the handler
\* or by handle_event, and the event is removed.
ActionFails(s) ==
    /\ faults < MaxFaults
    /\ \/ Done(s, <<>>) /\ UNCHANGED txs
       \/ /\ \/ MayMonitor(s) /\ txs' = Append(txs, MonitorTx(s))
             \/ MayClaim(s) /\ txs' = Append(txs, ClaimTx(s))
          /\ \E ws \in {<<>>, <<AddWaitingTransaction(Len(txs) + 1)>>} : Done(s, ws)
    /\ faults' = faults + 1

HandleTooEarly(s) == (MonitorTooEarly(s) \/ ClaimTooEarly(s)) /\ TooEarly(s)

HandleScheduledEvent ==
    \E s \in triggered :
        \/ MonitorDropped(s) \/ MonitorRescheduled(s) \/ MonitorSent(s)
        \/ ClaimDropped(s) \/ ClaimSent(s) \/ HandleTooEarly(s)

ActionLost == \E s \in triggered : ActionFails(s)

TriggeredEventsDone ==
    /\ At("scheduled")
    /\ triggered = {}
    /\ pc' = "pending"
    /\ UNCHANGED <<SchedulerVars, txs, triggered, writes, try_after, faults>>

------------------------------------------------------------------------------
(* The rest of the loop.                                                   *)

\* _check_pending_transactions; the purge that follows is in RequestCollector.
CheckPendingTransactions ==
    /\ At("pending")
    /\ waiting_transactions' =
        {t \in waiting_transactions : txs[t].block = 0 \/ now < txs[t].block + Confirmations}
    /\ polled' = TRUE
    /\ pc' = "blocks"
    /\ UNCHANGED <<cvars, token_network, channel, monitor_request, scheduled_events, committed,
                   latest, head, batch, triggered, writes, try_after, fetched, openings, crashes,
                   lost, faults>>

\* A transaction was sent and its hash is not in the channel's row yet.
HashUnsaved == pc = "scheduled" /\ \E i \in DOMAIN writes : writes[i].op = "channel"

\* The process dies and is started again: __init__ loads the state from the
\* database.  What is down for a while is a loop that does not take a step.
CrashAndRestart ==
    /\ crashes < MaxCrashes
    /\ crashes' = crashes + 1
    /\ lost' = IF HashUnsaved THEN lost + 1 ELSE lost
    /\ pc' = "blocks"
    /\ batch' = {} /\ triggered' = {} /\ writes' = <<>> /\ head' = 0
    /\ latest' = committed
    /\ try_after' = Clock
    /\ UNCHANGED <<cvars, dbvars, monitor_request, fetched, openings, polled, faults>>

Loop ==
    \/ ExecuteStatement
    \/ NoNewBlocks \/ GetBlockchainEvents \/ HandleEvent \/ UpdatedHeadBlock
    \/ TriggerNotYet \/ TriggerScheduledEvents \/ HandleScheduledEvent \/ TriggeredEventsDone
    \/ CheckPendingTransactions

Next ==
    \/ ChainStep
    \/ Mine
    \/ Tick
    \/ \E mr \in Requests : OnMonitorRequest(mr)
    \/ Loop
    \/ GetBlockchainEventsTimeout \/ EventLost \/ UpdatedHeadBlockFails \/ ActionLost
    \/ CrashAndRestart

Spec == Init /\ [][Next]_vars

\* The loop keeps running, time passes and what is sent gets mined.  (The clock
\* and the miners do not wait for the loop to stand still: strong fairness.)
Fairness == WF_vars(Loop) /\ SF_vars(Tick) /\ SF_vars(Mine)

FairSpec == Spec /\ Fairness
------------------------------------------------------------------------------
(* Properties.                                                             *)

\* Everything that was ever queried is handled and committed.
CaughtUp == batch = {} /\ writes = <<>> /\ committed = fetched

Updates(c, b) == {e \in log : e.on = c /\ e.block <= b /\ e.type \in {"updated", "monitored"}}

LastUpdates(c, b) == {e \in Updates(c, b) : \A f \in Updates(c, b) : f.nonce <= e.nonce}

\* Who last updated channel c up to block b, according to the chain.
LastSender(c, b) ==
    IF \E e \in LastUpdates(c, b) : e.type = "monitored"
    THEN (CHOOSE e \in LastUpdates(c, b) : e.type = "monitored").who
    ELSE Other(chain[c].closer)

\* Whatever batches the events came in, with the token networks' events of a
\* batch handled before all of the MSC's, and whatever a crash made the service
\* replay on top of newer rows: once it has caught up, without an event lost
\* to a fault, the update status of a channel is the chain's last update.  The
\* claim depends on the sender.
StatusExact ==
    CaughtUp /\ faults = 0 => \A c \in Channels : channel[c] # NoRow =>
        IF Updates(c, committed) = {}
        THEN channel[c].nonce = 0 /\ channel[c].sender = None
        ELSE /\ \A e \in LastUpdates(c, committed) : channel[c].nonce = e.nonce
             /\ channel[c].sender = LastSender(c, committed)

\* The service never believes in an update that did not happen: the nonce in
\* the database never exceeds the one on the chain.  (A request is dropped when
\* its nonce is not above the database's.)
NonceNotAhead ==
    \A c \in Channels : channel[c] # NoRow => channel[c].nonce <= chain[c].nonce

\* Why: an event never carries a nonce above its channel's, the batch is part
\* of the log, and so the rows that are about to be saved are no worse.
NonceInv ==
    /\ \A e \in log : e.type # "created" => e.nonce <= chain[e.on].nonce
    /\ batch \subseteq log
    /\ \A i \in DOMAIN writes :
        writes[i].op = "channel" => writes[i].row.nonce <= chain[writes[i].ch].nonce
    /\ NonceNotAhead

MonitorTxs(c) == {i \in DOMAIN txs : txs[i].type = "monitor" /\ txs[i].ch = c}
ClaimTxs(c) == {i \in DOMAIN txs : txs[i].type = "claim" /\ txs[i].ch = c}

\* Gas is not wasted: for one channel the service sends one `monitor` and one
\* `claimReward` for each time it handles the channel's opening, which resets
\* the hashes, plus one for every crash between sending a transaction and
\* saving its hash and for every fault.  The opening is handled again only
\* after a crash.
OneTransaction ==
    \A c \in Channels : /\ Cardinality(MonitorTxs(c)) <= openings[c] + lost + faults
                        /\ Cardinality(ClaimTxs(c)) <= openings[c] + lost + faults
                        /\ openings[c] <= 1 + crashes

\* The clients' deposits always cover the rewards they offer, so that no check
\* is scheduled again for a time of its own.
RewardsCovered ==
    \A mr \in Requests : mr.reward > 0 /\ \A b \in Balances[mr.who] : b * 10 >= mr.reward * 11

\* A reward is not forgotten: while the chain owes us the reward of a channel
\* we know to have updated last and did not claim yet, the claim is scheduled.
\* (A DELETE does not name the type of the event: a check and a claim of the
\* same channel must not be due at the same time.)
RewardNotForgotten ==
    RewardsCovered /\ MonitorDelay # SettleTimeout /\ CaughtUp /\ faults = 0 =>
        \A c \in Channels :
            /\ channel[c] # NoRow
            /\ channel[c].sender = Us /\ channel[c].claim_tx = 0
            /\ chain[c].rewardTo = Us
            => \E s \in scheduled_events : s.type = "claim" /\ s.ch = c

\* How long after a close the last attempt may come that does not reach the
\* check: it comes before the MSC allows to monitor or before the closing is
\* confirmed, and puts the scheduler off by RetryDelay.
CheckWait == IF MonitorDelay > Confirmations + 1 THEN MonitorDelay - 1 ELSE Confirmations
CheckDelay == CheckWait + (IF RetryDelay = 0 THEN 1 ELSE RetryDelay)

\* The settlement period has room for that and for one block more, and a
\* closing is not taken for an old one when it is handled.
EnoughTime == CheckDelay < SettleTimeout /\ Confirmations + ClockAhead < SettleTimeout

\* No claim is due at or before the check of channel c: until its channel is
\* settled, a claim in front keeps all other events from being handled.
NotBlocked(c) ==
    \A e \in log : e.type = "monitored" /\ e.who = Us => FirstAllowedToMonitor(c) < SettleableAfter(e.on)

\* What the service is for: with a loop that keeps up with the chain, a client
\* whose valid request was stored before the check was due, with a sufficient
\* deposit and no claim in front of the check, has that balance proof (or a
\* newer one) on the chain when the settlement period ends, whatever crashes
\* happen on the way.
MonitoredInTime ==
    Punctual /\ EnoughTime /\ faults = 0 => \A c \in Channels :
        LET p == Other(chain[c].closer)
            mr == monitor_request[<<c, p>>]
        IN  /\ chain[c].state \in {"closed", "settled"}
            /\ now > SettleableAfter(c)
            /\ mr # NoRequest
            /\ mr.signer = chain[c].closer
            /\ mr.reward >= MinReward
            /\ \A b \in Balances[p] : b * 10 >= mr.reward * 11
            /\ mr.saved_at < FirstAllowedToMonitor(c)
            /\ NotBlocked(c)
            => chain[c].nonce >= mr.nonce

\* When the chain owes us the reward of a settled channel, whose last update is
\* ours, the claim is sent in the end, although each attempt before the
\* settlement stops the scheduler for RetryDelay, and each crash may come
\* between any two statements.  (If the client has updated the channel by
\* itself after us, the service does not claim what the contract owes it.)
RewardClaimed ==
    \A c \in Channels :
        chain[c].state = "settled" /\ chain[c].rewardTo = Us /\ LastSender(c, now) = Us
        ~> ClaimTxs(c) # {}

\* "This MS already monitored this channel. Should be impossible.": it is, as
\* long as the process does not die after saving the transaction's hash and
\* before removing the event, which is then handled a second time.
NeverMonitoredTwice ==
    crashes = 0 =>
        \A s \in triggered : Due(s) /\ WorthMonitoring(s) /\ DepositSuffices(s)
                             => channel[s.ch].monitor_tx = 0

\* "When the scheduled event with the lowest timestamp fails with a
\* TransactionTooEarlyException, then we know that all other events would do
\* that, too."
IsTooEarly(s) == MonitorTooEarly(s) \/ ClaimTooEarly(s)

LowestTooEarlyMeansAll ==
    \A s \in triggered : Due(s) /\ IsTooEarly(s)
        => \A t \in triggered : s.at < t.at => IsTooEarly(t)
==============================================================================
