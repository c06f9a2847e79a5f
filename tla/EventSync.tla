------------------------------ MODULE EventSync ------------------------------
(***************************************************************************)
(* How both services follow the blockchain (raiden_libs/blockchain.py):    *)
(* they ask the Ethereum node for the logs of an adaptive interval of      *)
(* confirmed blocks, handle the events in the order registry, token        *)
(* networks, monitoring contract, and only then commit the new head block, *)
(* first in memory, then in the SQLite database.  A crash loses the        *)
(* interval, the rest of the batch and the memory's block number.          *)
(***************************************************************************)
EXTENDS Integers

CONSTANTS MinInterval,      \* MIN_FILTER_INTERVAL
          DefaultInterval,  \* DEFAULT_FILTER_INTERVAL
          MaxInterval,      \* MAX_FILTER_INTERVAL
          Confirmations,    \* required_confirmations
          SyncStart,        \* sync_start_block
          MaxHead,          \* bound: the chain stops growing here
          MaxCrashes        \* bound: number of crashes

ASSUME IntervalAssumption ==
    /\ MinInterval \in Nat \ {0}
    /\ DefaultInterval \in Nat
    /\ MaxInterval \in Nat
    /\ MinInterval <= DefaultInterval
    /\ DefaultInterval <= MaxInterval

ASSUME ChainAssumption ==
    /\ Confirmations \in Nat
    /\ SyncStart \in Nat
    /\ MaxHead \in Nat
    /\ MaxCrashes \in Nat

VARIABLES head,       \* eth.block_number
          committed,  \* blockchain.latest_committed_block in the database
          latest,     \* BlockchainState.latest_committed_block
          interval,   \* BlockchainState.current_event_filter_interval
          to,         \* head_block_number of the batch being handled
          todo,       \* <<source, block>> pairs of the batch, not handled yet
          handled,    \* history: every <<source, block>> handled so far
          pc,         \* where the service's main loop is
          crashes     \* history: number of crashes

vars == <<head, committed, latest, interval, to, todo, handled, pc, crashes>>

------------------------------------------------------------------------------
(* The contracts, in the order get_blockchain_events queries them: the     *)
(* token network registry, the token networks, the monitoring service.     *)
Sources == 1 .. 3

Items == Sources \X Nat

MinOf(a, b) == IF a <= b THEN a ELSE b
MaxOf(a, b) == IF a <= b THEN b ELSE a

Confirmed == head - Confirmations

\* Seeded fault: the limits of the previous batch taken to be exclusive.
MutantFromBlockLate == latest + 2

\* Seeded fault: the last committed block is queried again.
MutantFromBlockEarly == latest

FromBlock == latest + 1

ToBlock == MinOf(Confirmed, FromBlock + interval - 1)

\* The order of the list get_blockchain_events returns.
Before(i, j) == i[1] < j[1] \/ (i[1] = j[1] /\ i[2] < j[2])

Init ==
    /\ head \in 0 .. MaxHead
    /\ committed = SyncStart
    /\ latest = SyncStart
    /\ interval = DefaultInterval
    /\ to = SyncStart
    /\ todo = {}
    /\ handled = {}
    /\ pc = "poll"
    /\ crashes = 0

------------------------------------------------------------------------------
(* The chain.                                                              *)
Mine ==
    /\ head < MaxHead
    /\ head' = head + 1
    /\ UNCHANGED <<committed, latest, interval, to, todo, handled, pc, crashes>>

------------------------------------------------------------------------------
(* The service.                                                            *)

\* Seeded fault: the interval may shrink to nothing.
MutantAfterTimeout(i) == i \div 5

\* What a query's duration does to the interval.
Faster(i) == MinOf(MaxInterval, i * 2)
Slower(i) == MaxOf(MinInterval, i \div 2)
AfterTimeout(i) == MaxOf(MinInterval, i \div 5)

\* Nothing is confirmed that was not processed yet: no request is sent, and
\* what takes no time is a fast query.
NothingNew ==
    /\ pc = "poll"
    /\ FromBlock > ToBlock
    /\ interval' = Faster(interval)
    /\ UNCHANGED <<head, committed, latest, to, todo, handled, pc, crashes>>

\* The node answered with the logs of FromBlock .. ToBlock, in an interval
\* that makes the next query larger, smaller or neither.
QueryAnswered ==
    /\ pc = "poll"
    /\ FromBlock <= ToBlock
    /\ todo' = Sources \X (FromBlock .. ToBlock)
    /\ to' = ToBlock
    /\ interval' \in {Faster(interval), interval, Slower(interval)}
    /\ pc' = "handle"
    /\ UNCHANGED <<head, committed, latest, handled, crashes>>

\* ReadTimeout: the batch is given up, the next one is smaller.
QueryTimedOut ==
    /\ pc = "poll"
    /\ FromBlock <= ToBlock
    /\ interval' = AfterTimeout(interval)
    /\ UNCHANGED <<head, committed, latest, to, todo, handled, pc, crashes>>

\* handle_event for the events of one contract in one block.
HandleEvents ==
    /\ pc = "handle"
    /\ \E i \in todo :
        /\ \A j \in todo : j = i \/ Before(i, j)
        /\ todo' = todo \ {i}
        /\ handled' = handled \cup {i}
    /\ UNCHANGED <<head, committed, latest, interval, to, pc, crashes>>

\* Seeded fault: the head is updated as soon as the batch was fetched.
MutantUpdateHeadInMemory ==
    /\ pc = "handle"
    /\ latest' = to
    /\ pc' = "save"
    /\ UNCHANGED <<head, committed, interval, to, todo, handled, crashes>>

\* The UpdatedHeadBlockEvent is the last one of the list: memory first ...
UpdateHeadInMemory ==
    /\ pc = "handle"
    /\ todo = {}
    /\ latest' = to
    /\ pc' = "save"
    /\ UNCHANGED <<head, committed, interval, to, todo, handled, crashes>>

\* ... then the database.
UpdateHeadInDatabase ==
    /\ pc = "save"
    /\ committed' = latest
    /\ pc' = "poll"
    /\ UNCHANGED <<head, latest, interval, to, todo, handled, crashes>>

\* The process dies: only the database survives.
Crash ==
    /\ pc # "down"
    /\ crashes < MaxCrashes
    /\ crashes' = crashes + 1
    /\ pc' = "down"
    /\ todo' = {}
    /\ UNCHANGED <<head, committed, latest, interval, to, handled>>

\* Seeded fault: the block number in memory outlives the process.
MutantRestart ==
    /\ pc = "down"
    /\ interval' = DefaultInterval
    /\ to' = committed
    /\ pc' = "poll"
    /\ UNCHANGED <<head, committed, latest, todo, handled, crashes>>

\* get_blockchain_state builds the BlockchainState from the database row; the
\* interval is the dataclass's default.
Restart ==
    /\ pc = "down"
    /\ latest' = committed
    /\ interval' = DefaultInterval
    /\ to' = committed
    /\ pc' = "poll"
    /\ UNCHANGED <<head, committed, todo, handled, crashes>>

Next ==
    \/ Mine
    \/ NothingNew
    \/ QueryAnswered
    \/ QueryTimedOut
    \/ HandleEvents
    \/ UpdateHeadInMemory
    \/ UpdateHeadInDatabase
    \/ Crash
    \/ Restart

Spec == Init /\ [][Next]_vars

\* The loop of the service keeps running, it is restarted after a crash, and
\* the node does not time out forever.  The chain may stop, and nothing is
\* assumed of crashes.
Fairness ==
    /\ WF_vars(QueryAnswered)
    /\ WF_vars(HandleEvents)
    /\ WF_vars(UpdateHeadInMemory)
    /\ WF_vars(UpdateHeadInDatabase)
    /\ WF_vars(Restart)

FairSpec == Spec /\ Fairness

------------------------------------------------------------------------------
(* Properties.                                                             *)

TypeOK ==
    /\ head \in Nat
    /\ committed \in Nat
    /\ latest \in Nat
    /\ interval \in MinInterval .. MaxInterval
    /\ to \in Nat
    /\ todo \in SUBSET Items
    /\ handled \in SUBSET Items
    /\ pc \in {"poll", "handle", "save", "down"}
    /\ crashes \in 0 .. MaxCrashes

\* No block is skipped: every contract's events of every committed block were
\* handled, across interval changes, timeouts and crashes in mid-batch.
NoBlockSkipped ==
    \A b \in (SyncStart + 1) .. committed, s \in Sources : <<s, b>> \in handled

\* While no batch is under way nothing of the last one is left over, and the
\* block number in memory and the one in the database agree: the assertion at
\* the head of the pathfinding service's _process_new_blocks.
MemoryMatchesDatabase ==
    pc = "poll" => latest = committed /\ todo = {}

\* Events are handled only from blocks that are confirmed.
OnlyConfirmedHandled ==
    \A i \in handled : i[2] <= Confirmed

\* A block that is committed is never handled again: what a crash replays is
\* the part of the chain after the database's block, nothing older.
CommittedNeverReplayed ==
    [][\A i \in todo \ todo' : pc' # "down" => i[2] > committed]_vars

\* Why the above hold: what the loop knows of the batch at each point.  A
\* batch starts right after the block in the database and every pair of it is
\* either handled or still to do; the memory's block is ahead of the
\* database's only between the two updates of the head.
BatchInv ==
    /\ SyncStart <= committed
    /\ pc \in {"poll", "handle"} => latest = committed
    /\ pc # "handle" => todo = {}
    /\ pc = "handle" =>
        /\ committed < to /\ to <= Confirmed
        /\ todo \subseteq Sources \X ((committed + 1) .. to)
        /\ \A s \in Sources, b \in (committed + 1) .. to : <<s, b>> \in todo \cup handled
    /\ pc = "save" =>
        /\ committed < latest /\ latest <= Confirmed
        /\ \A s \in Sources, b \in (committed + 1) .. latest : <<s, b>> \in handled

\* The detailed loop implements the abstract follower, which knows of the chain
\* only the newest confirmed block and of the service only the database.
Follower == INSTANCE BlockFollower WITH
                Sources   <- Sources,
                SyncStart <- SyncStart,
                confirmed <- Confirmed,
                committed <- committed,
                handled   <- handled

ImplementsFollower == Follower!FSpec

\* Every block that gets confirmed is committed in the end, although each
\* crash throws the batch away and each timeout gives it up.
EveryBlockCommitted ==
    \A b \in 1 .. MaxHead : (b <= Confirmed) ~> (b <= committed)

==============================================================================
