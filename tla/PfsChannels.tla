----------------------------- MODULE PfsChannels -----------------------------
(***************************************************************************)
(* How the pathfinding service (PFS) keeps one token network: the graph in *)
(* memory and the tables it is loaded from after a restart.  The main loop *)
(* handles the events of confirmed blocks in batches, and lets the Matrix  *)
(* listener handle capacity and fee updates after each event.  Messages    *)
(* for a channel that is not known are put aside until it is opened.       *)
(* Every statement is committed by itself.  A handler changes the memory   *)
(* and then executes its statements (writes); nothing else runs until it   *)
(* is done, but the process may die in between.                            *)
(***************************************************************************)
EXTENDS Integers, Sequences

CONSTANTS Nodes,        \* addresses of Raiden nodes
          Channels,     \* channel identifiers
          PairOf,       \* the two participants of each channel
          Messages,     \* the messages nodes may send, well signed ones
          FutureLimit,  \* how far a fee update's timestamp may be ahead
          MaxTime,      \* bound: the clock stops here
          MaxWaiting,   \* bound: messages put aside for a channel at a time
          MaxCrashes    \* bound: crashes

\* PFSCapacityUpdate: what `from` says it can send and the partner, the
\* other_participant that it names, can send.
CapacityUpdates ==
    [type : {"capacity"}, ch : Channels, from : Nodes, partner : Nodes, updating : Nat,
     other : Nat]
\* PFSFeeUpdate: a fee schedule is told apart by its timestamp.
FeeUpdates == [type : {"fee"}, ch : Channels, from : Nodes, timestamp : Nat]

ASSUME PfsConstants ==
    /\ PairOf \in [Channels -> SUBSET Nodes]
    /\ \A c \in Channels : \E p, q \in Nodes : p # q /\ PairOf[c] = {p, q}
    /\ Messages \subseteq CapacityUpdates \cup FeeUpdates
    /\ FutureLimit \in Nat
    /\ MaxTime \in Nat
    /\ MaxWaiting \in Nat
    /\ MaxCrashes \in Nat

VARIABLES
    now, log,  \* the clock, and the network's confirmed events, one per block
    \* the database, with the waiting messages of each channel in the order of rows
    token_network, channel, capacity_update, waiting_message, committed,
    \* the memory of the service
    follows,   \* the token network is known
    ids,       \* channel_id_to_addresses
    graph,     \* G: the channel object at the two edges of a pair of nodes
    latest, pc, head, batch, todo, writes,
    alive,     \* of the main loop and the Matrix listener, those without an error
    \* history: the capacity updates seen, the highest block queried, the crashes
    received, fetched, crashes

dbvars == <<token_network, channel, capacity_update, waiting_message, committed>>
loopvars == <<latest, pc, head, batch>>
hvars == <<fetched, crashes>>
vars == <<now, log, dbvars, follows, ids, graph, loopvars, todo, writes, alive, received,
          hvars>>

Pairs == {PairOf[c] : c \in Channels}
Greenlets == {"loop", "listener"}
NoChannel == [ch |-> "none"]
NoUpdate == [updating |-> 0, other |-> 0]

\* A channel object, and its row: for each participant the capacity of its view
\* and the timestamp of its fee schedule.
ChannelRecords == [ch : Channels, capacity : [Nodes -> Nat], fee : [Nodes -> Nat]]

Events == [type : {"created"}] \cup [type : {"opened", "closed", "settled"}, ch : Channels]

\* The statements handlers execute.
UpsertTokenNetwork == [op |-> "token_network"]
UpsertChannel(r) == [op |-> "channel", row |-> r]
UpsertCapacityUpdate(m) == [op |-> "capacity_update", msg |-> m]
InsertWaitingMessage(m) == [op |-> "wait", msg |-> m]
DeleteWaitingMessages(c) == [op |-> "delete", ch |-> c]
UpdateLatestCommittedBlock(b) == [op |-> "head", block |-> b]

Writes ==
    {UpsertTokenNetwork}
    \cup [op : {"channel"}, row : ChannelRecords]
    \cup [op : {"capacity_update"}, msg : CapacityUpdates]
    \cup [op : {"wait"}, msg : CapacityUpdates \cup FeeUpdates]
    \cup [op : {"delete"}, ch : Channels]
    \cup [op : {"head"}, block : Nat]

DatabaseTypeOK ==
    /\ token_network \in BOOLEAN
    /\ channel \in [Channels -> ChannelRecords \cup {NoChannel}]
    /\ capacity_update \in [Channels \X Nodes -> [updating : Nat, other : Nat]]
    /\ waiting_message \in [Channels -> Seq(CapacityUpdates \cup FeeUpdates)]
    /\ committed \in Nat

MemoryTypeOK ==
    /\ follows \in BOOLEAN
    /\ ids \in SUBSET Channels
    /\ graph \in [Pairs -> ChannelRecords \cup {NoChannel}]
    /\ latest \in Nat
    /\ pc \in {"poll", "handle", "select", "pop"}
    /\ head \in Nat
    /\ batch \in Seq(Events)
    /\ pc \in {"select", "pop"} => batch # <<>> /\ Head(batch).type = "opened"
    /\ todo \in Seq(CapacityUpdates \cup FeeUpdates)
    /\ writes \in Seq(Writes)
    /\ alive \in SUBSET Greenlets

TypeOK ==
    /\ now \in Nat
    /\ log \in Seq(Events)
    /\ DatabaseTypeOK
    /\ MemoryTypeOK
    /\ received \in SUBSET CapacityUpdates
    /\ fetched \in Nat
    /\ crashes \in 0 .. MaxCrashes

Init ==
    /\ now = 0 /\ log = <<>>
    /\ token_network = FALSE
    /\ channel = [c \in Channels |-> NoChannel]
    /\ capacity_update = [k \in Channels \X Nodes |-> NoUpdate]
    /\ waiting_message = [c \in Channels |-> <<>>]
    /\ committed = 0
    /\ follows = FALSE /\ ids = {} /\ graph = [p \in Pairs |-> NoChannel]
    /\ latest = 0 /\ pc = "poll" /\ head = 0 /\ batch = <<>> /\ todo = <<>> /\ writes = <<>>
    /\ alive = Greenlets /\ received = {} /\ fetched = 0 /\ crashes = 0

------------------------------------------------------------------------------
(* The chain and the clock (not in the repository).                        *)

Happened(type, c) == [type |-> type, ch |-> c] \in {log[i] : i \in DOMAIN log}

\* At most one channel between two nodes is not settled.  (Only the loop's next
\* query looks at the log: what happens during a batch may as well happen
\* before that query.)
ChainEvent(e) ==
    /\ pc = "poll" /\ writes = <<>>
    /\ CASE e.type = "created" -> log = <<>>
         [] e.type = "opened" ->
              /\ log # <<>> /\ ~Happened("opened", e.ch)
              /\ \A c \in Channels : PairOf[c] = PairOf[e.ch] /\ Happened("opened", c)
                                     => Happened("settled", c)
         [] e.type = "closed" -> Happened("opened", e.ch) /\ ~Happened("closed", e.ch)
         [] e.type = "settled" -> Happened("closed", e.ch) /\ ~Happened("settled", e.ch)
    /\ log' = Append(log, e)
    /\ UNCHANGED <<now, dbvars, follows, ids, graph, loopvars, todo, writes, alive, received, hvars>>

Tick ==
    /\ pc \in {"poll", "handle"} /\ writes = <<>>
    /\ now < MaxTime
    /\ now' = now + 1
    /\ UNCHANGED <<log, dbvars, follows, ids, graph, loopvars, todo, writes, alive, received, hvars>>

------------------------------------------------------------------------------
(* The statements of a handler.                                            *)

Statement(op) ==
    /\ writes # <<>>
    /\ Head(writes).op = op
    /\ writes' = Tail(writes)
    /\ UNCHANGED <<now, log, follows, ids, graph, loopvars, todo, alive, received, hvars>>

SaveTokenNetwork ==
    /\ Statement("token_network")
    /\ token_network' = TRUE
    /\ UNCHANGED <<channel, capacity_update, waiting_message, committed>>

\* INSERT OR REPLACE: because of the UNIQUE constraint a row of another channel
\* between the same participants goes as well.
SaveChannel ==
    /\ Statement("channel")
    /\ LET r == Head(writes).row IN
       channel' = [c \in Channels |-> IF c = r.ch THEN r
                                      ELSE IF PairOf[c] = PairOf[r.ch] THEN NoChannel
                                      ELSE channel[c]]
    /\ UNCHANGED <<token_network, capacity_update, waiting_message, committed>>

SaveCapacityUpdate ==
    /\ Statement("capacity_update")
    /\ LET m == Head(writes).msg IN
       capacity_update' = [capacity_update EXCEPT ![<<m.ch, m.from>>] =
                               [updating |-> m.updating, other |-> m.other]]
    /\ UNCHANGED <<token_network, channel, waiting_message, committed>>

SaveWaitingMessage ==
    /\ Statement("wait")
    /\ LET m == Head(writes).msg IN
       waiting_message' = [waiting_message EXCEPT ![m.ch] = Append(@, m)]
    /\ UNCHANGED <<token_network, channel, capacity_update, committed>>

DeletePoppedMessages ==
    /\ Statement("delete")
    /\ waiting_message' = [waiting_message EXCEPT ![Head(writes).ch] = <<>>]
    /\ UNCHANGED <<token_network, channel, capacity_update, committed>>

SaveCommittedBlock ==
    /\ Statement("head")
    /\ committed' = Head(writes).block
    /\ UNCHANGED <<token_network, channel, capacity_update, waiting_message>>

------------------------------------------------------------------------------
(* handle_message.                                                         *)

Participants(m) == PairOf[m.ch]
MinOf(a, b) == IF a <= b THEN a ELSE b

\* Seeded fault: each participant is believed about its own capacity.
MutantNewCapacity(m, partner) == [to |-> m.updating, back |-> m.other]

\* The participants' latest messages have to agree on a capacity.
NewCapacity(m, partner) ==
    [to |-> MinOf(m.updating, partner.other), back |-> MinOf(m.other, partner.updating)]

WithCapacity(r, m) ==
    LET new == NewCapacity(m, capacity_update[<<m.ch, m.partner>>])
    IN  [r EXCEPT !.capacity[m.from] = new.to, !.capacity[m.partner] = new.back]

\* The nodes that a message names; a fee update names its sender only.
Named(m) == IF m.type = "capacity" THEN {m.from, m.partner} ELSE {m.from}

\* The message is handled, if its channel is known and has these participants.
\* Nothing compares the two, or looks at the channel identifier of the object
\* at the edge.
ForChannel(m) ==
    /\ follows
    /\ m.ch \in ids
    /\ Named(m) \subseteq Participants(m)

\* The edges of the participants, or of the nodes a capacity update names, are
\* in the graph.
HasViews(m) ==
    /\ graph[Participants(m)] # NoChannel
    /\ m.type = "capacity" => m.partner # m.from

\* Seeded fault: the channel is not saved.
MutantChange(r, ws) ==
    /\ graph' = [graph EXCEPT ![PairOf[r.ch]] = r]
    /\ writes' = ws

\* The channel object is changed, and saved after the statements ws.
Change(r, ws) ==
    /\ graph' = [graph EXCEPT ![PairOf[r.ch]] = r]
    /\ writes' = ws \o <<UpsertChannel(r)>>

OnCapacityUpdate(m) ==
    /\ m.type = "capacity"
    /\ ForChannel(m)
    /\ HasViews(m)
    /\ Change(WithCapacity(graph[Participants(m)], m), <<UpsertCapacityUpdate(m)>>)
    /\ received' = received \cup {m}

\* Seeded fault: the timestamps are not compared.
MutantFeeAccepted(m) == m.timestamp <= now + FutureLimit

FeeAccepted(m) ==
    /\ m.timestamp <= now + FutureLimit
    /\ graph[Participants(m)].fee[m.from] < m.timestamp

OnFeeUpdate(m) ==
    /\ m.type = "fee"
    /\ ForChannel(m)
    /\ HasViews(m)
    /\ FeeAccepted(m)
    /\ Change([graph[Participants(m)] EXCEPT !.fee[m.from] = m.timestamp], <<>>)
    /\ UNCHANGED received

\* InvalidGlobalMessage: the message is logged and dropped.
Refused(m) ==
    /\ \/ ~follows
       \/ m.ch \in ids /\ ~ Named(m) \subseteq Participants(m)
       \/ m.type = "fee" /\ ForChannel(m) /\ HasViews(m) /\ ~FeeAccepted(m)
    /\ UNCHANGED <<graph, writes, received>>

\* Without an edge there is a KeyError, which nobody catches.  A capacity update
\* is saved before.
KeyError(m) ==
    /\ ForChannel(m) /\ ~HasViews(m)
    /\ m.type = "fee" => m.timestamp <= now + FutureLimit
    /\ writes' = IF m.type = "fee" THEN <<>> ELSE <<UpsertCapacityUpdate(m)>>
    /\ received' = IF m.type = "fee" THEN received ELSE received \cup {m}
    /\ UNCHANGED graph

Deferred(m) ==
    /\ follows
    /\ m.ch \notin ids
    /\ Len(waiting_message[m.ch]) < MaxWaiting
    /\ writes' = <<InsertWaitingMessage(m)>>
    /\ UNCHANGED <<graph, received>>

\* The listener runs while the main loop waits, or is between two events.
ReceiveMessage(m) ==
    /\ "listener" \in alive
    /\ pc \in {"poll", "handle"}
    /\ writes = <<>>
    /\ OnCapacityUpdate(m) \/ OnFeeUpdate(m) \/ Refused(m) \/ Deferred(m)
    /\ UNCHANGED <<now, log, dbvars, follows, ids, loopvars, todo, alive, hvars>>

------------------------------------------------------------------------------
(* handle_event.                                                           *)

EventVars == <<now, log, capacity_update, waiting_message, token_network, committed, alive,
               received, hvars>>

\* Some of the confirmed blocks that are not processed yet, see EventSync.
GetBlockchainEvents ==
    /\ pc = "poll" /\ writes = <<>>
    /\ \E b \in (latest + 1) .. Len(log) :
        /\ batch' = SubSeq(log, latest + 1, b)
        /\ head' = b
        /\ fetched' = IF b > fetched THEN b ELSE fetched
    /\ pc' = "handle"
    /\ UNCHANGED <<now, log, dbvars, follows, ids, graph, latest, todo, writes, alive,
                   received, crashes>>

NothingNew ==
    /\ pc = "poll" /\ writes = <<>>
    /\ latest = Len(log)
    /\ UNCHANGED vars

NextEvent(type) ==
    /\ pc = "handle" /\ writes = <<>>
    /\ batch # <<>>
    /\ Head(batch).type = type

TokenNetworkCreated ==
    /\ NextEvent("created")
    /\ follows' = TRUE
    /\ writes' = IF follows THEN <<>> ELSE <<UpsertTokenNetwork>>
    /\ batch' = Tail(batch)
    /\ UNCHANGED <<EventVars, channel, ids, graph, latest, pc, head, todo>>

FreshChannel(c) ==
    [ch |-> c, capacity |-> [p \in Nodes |-> 0], fee |-> [p \in Nodes |-> 0]]

\* Seeded fault: the event of a channel that is known already is skipped.
MutantSkipKnown ==
    /\ NextEvent("opened")
    /\ LET c == Head(batch).ch IN
        IF c \in ids
        THEN UNCHANGED <<ids, graph, writes, pc>> /\ batch' = Tail(batch)
        ELSE /\ ids' = ids \cup {c}
             /\ graph' = [graph EXCEPT ![PairOf[c]] = FreshChannel(c)]
             /\ writes' = <<UpsertChannel(FreshChannel(c))>>
             /\ pc' = "select" /\ UNCHANGED batch
    /\ UNCHANGED <<EventVars, channel, follows, latest, head, todo>>

\* Seeded fault: the event is taken off the list before it is handled.
MutantTakenEarly ==
    /\ NextEvent("opened")
    /\ LET c == Head(batch).ch IN
        /\ ids' = ids \cup {c}
        /\ graph' = [graph EXCEPT ![PairOf[c]] = FreshChannel(c)]
        /\ writes' = <<UpsertChannel(FreshChannel(c))>>
    /\ pc' = "select" /\ batch' = Tail(batch)
    /\ UNCHANGED <<EventVars, channel, follows, latest, head, todo>>

\* The channel is added to the graph and saved ...
ChannelOpened ==
    /\ NextEvent("opened")
    /\ LET c == Head(batch).ch IN
        /\ ids' = ids \cup {c}
        /\ graph' = [graph EXCEPT ![PairOf[c]] = FreshChannel(c)]
        /\ writes' = <<UpsertChannel(FreshChannel(c))>>
    /\ pc' = "select"
    /\ UNCHANGED <<EventVars, channel, follows, latest, head, batch, todo>>

\* ... then the messages that wait for it are fetched,
SelectWaitingMessages ==
    /\ pc = "select" /\ writes = <<>>
    /\ todo' = waiting_message[Head(batch).ch]
    /\ pc' = "pop"
    /\ UNCHANGED <<EventVars, channel, follows, ids, graph, latest, head, batch, writes>>

\* handled,
PopWaitingMessage ==
    /\ pc = "pop" /\ writes = <<>> /\ "loop" \in alive
    /\ todo # <<>>
    /\ LET m == Head(todo) IN OnCapacityUpdate(m) \/ OnFeeUpdate(m) \/ Refused(m)
    /\ todo' = Tail(todo)
    /\ UNCHANGED <<now, log, dbvars, follows, ids, loopvars, alive, hvars>>

\* (an error ends the loop, and the service, before they are deleted)
PopFails ==
    /\ pc = "pop" /\ writes = <<>> /\ "loop" \in alive
    /\ todo # <<>>
    /\ KeyError(Head(todo))
    /\ todo' = Tail(todo)
    /\ alive' = alive \ {"loop"}
    /\ UNCHANGED <<now, log, dbvars, follows, ids, loopvars, hvars>>

\* and deleted.
PopDone ==
    /\ pc = "pop" /\ writes = <<>> /\ "loop" \in alive
    /\ todo = <<>>
    /\ writes' = <<DeleteWaitingMessages(Head(batch).ch)>>
    /\ batch' = Tail(batch)
    /\ pc' = "handle"
    /\ UNCHANGED <<EventVars, channel, follows, ids, graph, latest, head, todo>>

\* Seeded fault: a channel stays in the graph until it is settled.
MutantChannelRemoved ==
    /\ NextEvent("closed") \/ NextEvent("settled")
    /\ LET c == Head(batch).ch IN
        IF channel[c] # NoChannel /\ Head(batch).type = "settled"
        THEN /\ channel' = [channel EXCEPT ![c] = NoChannel]
             /\ ids' = ids \ {c}
             /\ graph' = [graph EXCEPT ![PairOf[c]] = NoChannel]
        ELSE UNCHANGED <<channel, ids, graph>>
    /\ batch' = Tail(batch)
    /\ UNCHANGED <<EventVars, follows, latest, pc, head, todo, writes>>

\* The graph is only touched if there was a row to delete.
ChannelRemoved ==
    /\ NextEvent("closed") \/ NextEvent("settled")
    /\ LET c == Head(batch).ch IN
        IF channel[c] # NoChannel
        THEN /\ channel' = [channel EXCEPT ![c] = NoChannel]
             /\ ids' = ids \ {c}
             /\ graph' = [graph EXCEPT ![PairOf[c]] = NoChannel]
        ELSE UNCHANGED <<channel, ids, graph>>
    /\ batch' = Tail(batch)
    /\ UNCHANGED <<EventVars, follows, latest, pc, head, todo, writes>>

UpdatedHeadBlock ==
    /\ pc = "handle" /\ writes = <<>>
    /\ batch = <<>>
    /\ latest' = head
    /\ writes' = <<UpdateLatestCommittedBlock(head)>>
    /\ pc' = "poll"
    /\ UNCHANGED <<EventVars, channel, follows, ids, graph, head, batch, todo>>

------------------------------------------------------------------------------
(* Crashes.                                                                *)

Rows == {c \in Channels : channel[c] # NoChannel}

Loaded(p) ==
    IF \E c \in Rows : PairOf[c] = p
    THEN channel[CHOOSE c \in Rows : PairOf[c] = p]
    ELSE NoChannel

\* _load_token_networks
Restart ==
    /\ follows' = token_network
    /\ ids' = Rows
    /\ graph' = [p \in Pairs |-> Loaded(p)]
    /\ latest' = committed
    /\ pc' = "poll" /\ head' = 0 /\ batch' = <<>> /\ todo' = <<>> /\ writes' = <<>>
    /\ alive' = Greenlets

Crash ==
    /\ crashes < MaxCrashes
    /\ crashes' = crashes + 1
    /\ Restart
    /\ UNCHANGED <<now, log, dbvars, received, fetched>>

\* An error while a message is handled stops the listener.
ListenerFails(m) ==
    /\ "listener" \in alive
    /\ pc \in {"poll", "handle"} /\ writes = <<>>
    /\ KeyError(m)
    /\ alive' = alive \ {"listener"}
    /\ UNCHANGED <<now, log, dbvars, follows, ids, loopvars, todo, hvars>>

\* An error of the loop ends the service, and so does one of the listener, which
\* the loop looks for after its sleep.  The service is started again.
ErrorRestart ==
    /\ writes = <<>>
    /\ "loop" \notin alive \/ ("listener" \notin alive /\ pc = "poll")
    /\ Restart
    /\ UNCHANGED <<now, log, dbvars, received, hvars>>

ExecuteStatement ==
    \/ SaveTokenNetwork \/ SaveChannel \/ SaveCapacityUpdate \/ SaveWaitingMessage
    \/ DeletePoppedMessages \/ SaveCommittedBlock

HandleEvent ==
    \/ TokenNetworkCreated \/ ChannelOpened \/ SelectWaitingMessages \/ PopWaitingMessage
    \/ PopFails \/ PopDone \/ ChannelRemoved \/ UpdatedHeadBlock

Next ==
    \/ \E e \in Events : ChainEvent(e)
    \/ Tick
    \/ ExecuteStatement
    \/ \E m \in Messages : ReceiveMessage(m)
    \/ GetBlockchainEvents \/ NothingNew
    \/ HandleEvent
    \/ Crash
    \/ \E m \in Messages : ListenerFails(m)
    \/ ErrorRestart

Spec == Init /\ [][Next]_vars
------------------------------------------------------------------------------
(* Properties.                                                             *)

\* No handler is in the middle of something.
AtRest == writes = <<>> /\ pc \in {"poll", "handle"}

\* Everything that was ever queried is handled and committed.
CaughtUp == pc = "poll" /\ writes = <<>> /\ committed = fetched

\* A restart changes nothing: whatever was replayed, and however messages and
\* events interleave, the object at the edge of a saved channel is what was
\* saved.  Removing a saved channel therefore never fails.
DatabaseInGraph ==
    AtRest => \A c \in Rows : c \in ids /\ graph[PairOf[c]] = channel[c]

OpenChannels(b) ==
    {c \in Channels : /\ \E i \in 1 .. b : log[i] = [type |-> "opened", ch |-> c]
                      /\ \A i \in 1 .. b : log[i] # [type |-> "closed", ch |-> c]}

\* Routes are searched in the right graph: once the service has caught up, the
\* graph and the database hold the channels that are open, each at its edge,
\* although a replay opens and removes old channels between the same nodes.
GraphExact ==
    CaughtUp => /\ ids = OpenChannels(committed)
                /\ Rows = ids
                /\ \A p \in Pairs : graph[p] # NoChannel => graph[p].ch \in ids

Claims(c, p) ==
    {m.updating : m \in {n \in received : n.ch = c /\ n.from = p}}
ClaimsOfPartner(c, p) ==
    {m.other : m \in {n \in received : n.ch = c /\ n.from \in PairOf[c] \ {p}}}

\* Nobody pretends to a capacity: what the service takes a node to be able to
\* send was said by both participants of this very channel, although messages
\* are put aside and replays mix up the channels of two nodes.
CapacityConfirmed ==
    CaughtUp => \A c \in Rows : \A p \in PairOf[c] :
        channel[c].capacity[p] > 0 =>
            /\ \E a \in Claims(c, p) : channel[c].capacity[p] <= a
            /\ \E a \in ClaimsOfPartner(c, p) : channel[c].capacity[p] <= a

\* A message that was put aside is handled when its channel is opened, also
\* when the service dies while it does so.  (With a message that cannot be
\* handled the service does not catch up: it ends after every start.)
DeferredDelivered ==
    CaughtUp => \A c \in ids : waiting_message[c] = <<>>

\* A late fee update never replaces a newer one: a saved fee schedule gets
\* older only when the channel is opened again or removed.
FeesNeverGoBack ==
    [][\A c \in Rows : \A p \in PairOf[c] :
        channel'[c] # NoChannel /\ channel'[c] # FreshChannel(c)
        => channel'[c].fee[p] >= channel[c].fee[p]]_vars
==============================================================================
