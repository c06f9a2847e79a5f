------------------------- MODULE PfsChannels_proofs -------------------------
(***************************************************************************)
(* Proofs about PfsChannels: for any channels, nodes and messages, any     *)
(* order of events and messages, and crashes between any two statements.   *)
(***************************************************************************)
EXTENDS PfsChannels, SequenceTheorems, TLAPS

Opened(c) == [type |-> "opened", ch |-> c]
Closed(c) == [type |-> "closed", ch |-> c]
Settled(c) == [type |-> "settled", ch |-> c]

\* The blocks that the service, since its last start, has handled.
Handled == IF pc = "poll" THEN latest ELSE head - Len(batch)

\* A channel between the nodes p is about to be saved.
SavePending(p) ==
    \E i \in DOMAIN writes : writes[i].op = "channel" /\ PairOf[writes[i].row.ch] = p

\* The channel whose opening is being handled.
Opening(c) == pc \in {"select", "pop"} /\ Head(batch).ch = c

\* The contracts: a channel is opened once and closed before it is settled, and
\* settled before the next one between the same nodes is opened.
LogInv ==
    /\ \A c \in Channels : \A i, j \in DOMAIN log :
          log[i] = Opened(c) /\ log[j] = Opened(c) => i = j
    /\ \A c \in Channels : \A j \in DOMAIN log :
          /\ log[j] = Closed(c) => \E i \in 1 .. j - 1 : log[i] = Opened(c)
          /\ log[j] = Settled(c) => \E i \in 1 .. j - 1 : log[i] = Closed(c)
    /\ \A c, d \in Channels : \A j \in DOMAIN log : \A i \in 1 .. j - 1 :
          c # d /\ PairOf[c] = PairOf[d] /\ log[i] = Opened(c) /\ log[j] = Opened(d)
          => \E k \in 1 .. j - 1 : log[k] = Closed(c)

\* The batch is what follows the blocks handled so far, and the database is
\* behind the memory only while the statement that commits the head is left.
LoopInv ==
    /\ pc = "poll" => batch = <<>>
    /\ pc # "poll" => /\ head <= fetched /\ latest <= head - Len(batch)
                      /\ \A i \in DOMAIN batch : batch[i] = log[head - Len(batch) + i]
    /\ latest <= fetched /\ fetched <= Len(log)
    /\ \/ committed = latest
       \/ /\ committed <= latest
          /\ pc = "poll" /\ writes = <<UpdateLatestCommittedBlock(latest)>>

\* What the statements still to be executed are about.
WritesInv ==
    \A i \in DOMAIN writes : LET w == writes[i] IN
        /\ w.op \notin {"channel", "capacity_update"} => Len(writes) = 1
        /\ w.op = "channel" => i = Len(writes) /\ graph[PairOf[w.row.ch]] = w.row
        /\ w.op = "capacity_update" => w.msg \in received
        /\ w.op = "wait" => w.msg.ch \notin ids
        /\ w.op = "delete" => pc = "handle" /\ Handled > latest /\ log[Handled] = Opened(w.ch)
        /\ w.op = "head" => pc = "poll" /\ w.block = latest

\* The rows of the table channel, one for two nodes, and the objects of the
\* graph, which differ only where a row is about to be saved.
TableInv ==
    /\ \A c \in Rows : channel[c].ch = c /\ c \in ids
    /\ \A c, d \in Rows : PairOf[c] = PairOf[d] => c = d
    /\ \A c \in Rows : graph[PairOf[c]] = channel[c] \/ SavePending(PairOf[c])
    /\ \A p \in Pairs : graph[p] # NoChannel =>
          /\ PairOf[graph[p].ch] = p /\ graph[p].ch \in ids
          /\ graph[p].ch \in Rows \/ SavePending(p)

\* While a channel's opening is handled it is the one in the graph; otherwise
\* what is about to be saved is saved already.
OpeningInv ==
    /\ pc \in {"select", "pop"} =>
          LET c == Head(batch).ch IN
          c \in ids /\ graph[PairOf[c]] # NoChannel /\ graph[PairOf[c]].ch = c
    /\ pc = "pop" => \A i \in DOMAIN todo : todo[i].ch = Head(batch).ch
    /\ \A p \in Pairs : SavePending(p) =>
          graph[p].ch \in Rows \/ (pc = "select" /\ graph[p].ch = Head(batch).ch)

\* The channels in memory when a part of the history is handled again: those
\* whose opening is still ahead, and those that are open.
ReplayInv ==
    /\ \A c \in ids : \E i \in 1 .. fetched :
          /\ log[i] = Opened(c)
          /\ i > Handled \/ (c \in Rows /\ \A k \in 1 .. Handled : log[k] # Closed(c))
    /\ \A c \in Channels : \A i \in 1 .. Handled :
          log[i] = Opened(c) /\ (\A k \in 1 .. fetched : log[k] # Closed(c)) => c \in ids
    /\ \A d \in ids :
          LET g == graph[PairOf[d]] IN
          g # NoChannel /\ g.ch # d =>
              Opening(g.ch) \/ \E i \in 1 .. Handled : log[i] = Opened(g.ch)

\* The messages that wait for a channel that is known are going to be handled.
WaitingInv ==
    /\ \A c \in Channels : \A i \in DOMAIN waiting_message[c] : waiting_message[c][i].ch = c
    /\ \A c \in ids : waiting_message[c] # <<>> =>
          \E i \in committed + 1 .. Len(log) :
              /\ log[i] = Opened(c)
              /\ i > Handled \/ writes = <<DeleteWaitingMessages(c)>>

\* The capacities of r are what messages in R of both participants of c say.
ConfirmedBy(R, r, c) ==
    \A p \in PairOf[c] : r.capacity[p] > 0 =>
        /\ \E n \in R : n.ch = c /\ n.from = p /\ r.capacity[p] <= n.updating
        /\ \E n \in R : n.ch = c /\ n.from \in PairOf[c] \ {p} /\ r.capacity[p] <= n.other

ClosedIn(b, c) == \E k \in 1 .. b : log[k] = Closed(c)

\* A capacity that is not confirmed is that of a channel which is closed in a
\* block that was queried already.
ClaimsInv ==
    /\ \A c \in Channels, p \in Nodes :
          capacity_update[<<c, p>>] = NoUpdate
          \/ \E m \in received : /\ m.ch = c /\ m.from = p
                                 /\ m.updating = capacity_update[<<c, p>>].updating
                                 /\ m.other = capacity_update[<<c, p>>].other
    /\ \A c \in Rows : ConfirmedBy(received, channel[c], c) \/ ClosedIn(fetched, c)
    /\ \A p \in Pairs : graph[p] # NoChannel =>
          ConfirmedBy(received, graph[p], graph[p].ch) \/ ClosedIn(fetched, graph[p].ch)

\* What is about to be saved is not older than what is saved.
FeesInv ==
    \A i \in DOMAIN writes : LET w == writes[i] IN
        w.op = "channel" /\ w.row.ch \in Rows =>
            w.row = FreshChannel(w.row.ch)
            \/ \A p \in Nodes : w.row.fee[p] >= channel[w.row.ch].fee[p]

IInv ==
    /\ TypeOK /\ LogInv /\ LoopInv /\ WritesInv /\ TableInv /\ OpeningInv
    /\ ReplayInv /\ WaitingInv /\ ClaimsInv /\ FeesInv

------------------------------------------------------------------------------
(* Types.                                                                  *)

Msgs == CapacityUpdates \cup FeeUpdates

\* A sequence of one statement.
LEMMA Singleton ==
    ASSUME NEW S, NEW x \in S
    PROVE  /\ <<x>> \in Seq(S) /\ Len(<<x>>) = 1 /\ DOMAIN <<x>> = {1} /\ <<x>>[1] = x
           /\ <<x>> # <<>> /\ Head(<<x>>) = x /\ Tail(<<x>>) = <<>>
OBVIOUS

\* A sequence of two statements.
LEMMA Two ==
    ASSUME NEW S, NEW x \in S, NEW y \in S
    PROVE  /\ <<x>> \o <<y>> = <<x, y>> /\ <<>> \o <<y>> = <<y>>
           /\ <<x, y>> \in Seq(S) /\ Len(<<x, y>>) = 2 /\ DOMAIN <<x, y>> = {1, 2}
           /\ <<x, y>>[1] = x /\ <<x, y>>[2] = y /\ <<x, y>> # <<>>
<1>1. /\ <<x, y>> \in Seq(S) /\ Len(<<x, y>>) = 2 /\ DOMAIN <<x, y>> = {1, 2}
      /\ <<x, y>>[1] = x /\ <<x, y>>[2] = y /\ <<x, y>> # <<>>
  OBVIOUS
<1>2. <<>> \o <<y>> = <<y>>
  BY ConcatEmptySeq, Singleton
<1>3. /\ <<x>> \o <<y>> \in Seq(S) /\ Len(<<x>> \o <<y>>) = 2
      /\ (<<x>> \o <<y>>)[1] = x /\ (<<x>> \o <<y>>)[2] = y
  BY ConcatProperties, Singleton
<1>4. <<x>> \o <<y>> = <<x, y>>
  <2>. DEFINE s == <<x>> \o <<y>>
              t == <<x, y>>
  <2>1. s \in Seq(S) /\ t \in Seq(S) /\ Len(s) = 2 /\ Len(t) = 2
    BY <1>1, <1>3
  <2>2. \A i \in 1 .. 2 : s[i] = t[i]
    BY <1>1, <1>3
  <2>. HIDE DEF s, t
  <2>3. s = t
    BY <2>1, <2>2, SeqEqual
  <2>. QED
    BY <2>3 DEF s, t
<1>. QED
  BY <1>1, <1>2, <1>4

\* The two participants of a channel.
LEMMA Pair ==
    ASSUME NEW c \in Channels
    PROVE  /\ PairOf[c] \in Pairs /\ PairOf[c] \subseteq Nodes
           /\ \A p \in PairOf[c] : \E q \in PairOf[c] : q # p /\ PairOf[c] = {p, q}
BY PfsConstants DEF Pairs

\* The message names both participants of its channel.
NamesBoth(m) == m.from \in PairOf[m.ch] /\ m.partner \in PairOf[m.ch] /\ m.partner # m.from

\* The partner of such a message is the other participant of its channel.
LEMMA PartnerIsOther ==
    ASSUME NEW m, m.ch \in Channels, NamesBoth(m)
    PROVE  /\ m.partner \in PairOf[m.ch] /\ m.partner # m.from
           /\ m.partner \in Nodes /\ m.from \in Nodes
           /\ PairOf[m.ch] = {m.from, m.partner}
<1>1. \E q \in PairOf[m.ch] : q # m.from /\ PairOf[m.ch] = {m.from, q}
  BY Pair DEF NamesBoth
<1>. QED
  BY <1>1, Pair DEF NamesBoth

\* The fields of a message.
LEMMA MessageType ==
    ASSUME NEW m \in Msgs
    PROVE  /\ m.ch \in Channels /\ m.from \in Nodes /\ m.type \in {"capacity", "fee"}
           /\ m.type = "capacity" => m \in CapacityUpdates /\ m.updating \in Nat /\ m.other \in Nat
           /\ m.type # "fee" => m \in CapacityUpdates
           /\ m.type = "fee" => m \in FeeUpdates /\ m.timestamp \in Nat
BY DEF Msgs, CapacityUpdates, FeeUpdates

\* The fields of an event.
LEMMA EventType ==
    ASSUME NEW e \in Events
    PROVE  e.type # "created" => e.ch \in Channels /\ e.type \in {"opened", "closed", "settled"}
BY DEF Events

\* The statements are well typed.
LEMMA WriteTypes ==
    /\ UpsertTokenNetwork \in Writes
    /\ \A r \in ChannelRecords : UpsertChannel(r) \in Writes
    /\ \A m \in CapacityUpdates : UpsertCapacityUpdate(m) \in Writes
    /\ \A m \in Msgs : InsertWaitingMessage(m) \in Writes
    /\ \A c \in Channels : DeleteWaitingMessages(c) \in Writes
    /\ \A b \in Nat : UpdateLatestCommittedBlock(b) \in Writes
BY DEF Writes, UpsertTokenNetwork, UpsertChannel, UpsertCapacityUpdate, InsertWaitingMessage,
       DeleteWaitingMessages, UpdateLatestCommittedBlock, Msgs

\* The fields of a statement.
LEMMA WriteFields ==
    ASSUME NEW w \in Writes
    PROVE  /\ w.op \in {"token_network", "channel", "capacity_update", "wait", "delete", "head"}
           /\ w.op = "channel" => w.row \in ChannelRecords
           /\ w.op = "capacity_update" => w.msg \in CapacityUpdates
           /\ w.op = "wait" => w.msg \in Msgs
           /\ w.op = "delete" => w.ch \in Channels
           /\ w.op = "head" => w.block \in Nat
BY DEF Writes, UpsertTokenNetwork, Msgs

\* A channel record is no NoChannel.
LEMMA RecordFields ==
    ASSUME NEW r \in ChannelRecords
    PROVE  /\ r # NoChannel /\ r.ch \in Channels
           /\ r.capacity \in [Nodes -> Nat] /\ r.fee \in [Nodes -> Nat]
BY DEF ChannelRecords, NoChannel

\* A channel that was just opened is well-formed.
LEMMA FreshType == \A c \in Channels : FreshChannel(c) \in ChannelRecords /\ FreshChannel(c).ch = c
BY DEF FreshChannel, ChannelRecords

\* The channel object with the capacities two messages agree on.
LEMMA WithCapacityType ==
    ASSUME TypeOK, NEW m \in CapacityUpdates, NamesBoth(m), NEW r \in ChannelRecords
    PROVE  LET q == m.partner
               u == capacity_update[<<m.ch, q>>]
               n == WithCapacity(r, m)
           IN  /\ n \in ChannelRecords /\ n.ch = r.ch /\ n.fee = r.fee
               /\ n.capacity[m.from] = MinOf(m.updating, u.other)
               /\ n.capacity[q] = MinOf(m.other, u.updating)
<1>. DEFINE q == m.partner
            u == capacity_update[<<m.ch, q>>]
            to == MinOf(m.updating, u.other)
            back == MinOf(m.other, u.updating)
<1>1. /\ m.ch \in Channels /\ m.updating \in Nat /\ m.other \in Nat
      /\ q \in Nodes /\ q # m.from /\ m.from \in Nodes
  <2>1. m.ch \in Channels /\ m.updating \in Nat /\ m.other \in Nat
    BY DEF CapacityUpdates
  <2>. QED
    BY <2>1, PartnerIsOther
<1>2. u.updating \in Nat /\ u.other \in Nat
  BY <1>1 DEF TypeOK, DatabaseTypeOK
<1>3. to \in Nat /\ back \in Nat
  BY <1>1, <1>2 DEF MinOf
<1>4. WithCapacity(r, m) = [r EXCEPT !.capacity[m.from] = to, !.capacity[q] = back]
  BY DEF WithCapacity, NewCapacity
<1>. HIDE DEF q, u, to, back
<1>5. WithCapacity(r, m) = [ch |-> r.ch, fee |-> r.fee,
                            capacity |-> [[r.capacity EXCEPT ![m.from] = to] EXCEPT ![q] = back]]
  BY <1>4 DEF ChannelRecords
<1>6. [[r.capacity EXCEPT ![m.from] = to] EXCEPT ![q] = back] \in [Nodes -> Nat]
  BY <1>1, <1>3 DEF ChannelRecords
<1>7. /\ [[r.capacity EXCEPT ![m.from] = to] EXCEPT ![q] = back][m.from] = to
      /\ [[r.capacity EXCEPT ![m.from] = to] EXCEPT ![q] = back][q] = back
  BY <1>1, <1>3 DEF ChannelRecords
<1>. QED
  BY <1>5, <1>6, <1>7 DEF ChannelRecords, q, u, to, back

\* The channel object with a newer fee schedule.
LEMMA WithFee ==
    ASSUME NEW g \in ChannelRecords, NEW q \in Nodes, NEW t \in Nat, g.fee[q] < t
    PROVE  LET r == [g EXCEPT !.fee[q] = t] IN
           /\ r \in ChannelRecords /\ r.ch = g.ch /\ r.capacity = g.capacity
           /\ \A p \in Nodes : r.fee[p] >= g.fee[p]
<1>1. g.fee \in [Nodes -> Nat]
  BY DEF ChannelRecords
<1>2. [g EXCEPT !.fee[q] = t] = [ch |-> g.ch, capacity |-> g.capacity, fee |-> [g.fee EXCEPT ![q] = t]]
  BY DEF ChannelRecords
<1>3. /\ [g.fee EXCEPT ![q] = t] \in [Nodes -> Nat]
      /\ \A p \in Nodes : [g.fee EXCEPT ![q] = t][p] >= g.fee[p]
  BY <1>1
<1>. QED
  BY <1>2, <1>3 DEF ChannelRecords

\* The types hold initially.
LEMMA TypeInit == Init => TypeOK
<1>. SUFFICES ASSUME Init PROVE TypeOK
  OBVIOUS
<1>1. NoUpdate \in [updating : Nat, other : Nat]
  BY DEF NoUpdate
<1>2. DatabaseTypeOK
  <2>1. channel \in [Channels -> ChannelRecords \cup {NoChannel}]
    BY DEF Init
  <2>2. capacity_update \in [Channels \X Nodes -> [updating : Nat, other : Nat]]
    BY <1>1 DEF Init
  <2>3. waiting_message \in [Channels -> Seq(CapacityUpdates \cup FeeUpdates)]
    BY EmptySeq DEF Init
  <2>. QED
    BY <2>1, <2>2, <2>3 DEF Init, DatabaseTypeOK
<1>3. MemoryTypeOK
  <2>1. graph \in [Pairs -> ChannelRecords \cup {NoChannel}]
    BY DEF Init
  <2>2. batch \in Seq(Events) /\ todo \in Seq(CapacityUpdates \cup FeeUpdates) /\ writes \in Seq(Writes)
    BY EmptySeq DEF Init
  <2>. QED
    BY <2>1, <2>2 DEF Init, MemoryTypeOK
<1>. QED
  BY <1>2, <1>3, PfsConstants DEF Init, TypeOK

\* The statement that is executed, and those that are left.
LEMMA StatementType ==
    ASSUME TypeOK, NEW op, Statement(op)
    PROVE  /\ writes # <<>> /\ Head(writes) = writes[1] /\ 1 \in DOMAIN writes
           /\ Head(writes) \in Writes /\ Head(writes).op = op
           /\ writes' \in Seq(Writes) /\ Len(writes') = Len(writes) - 1
           /\ \A i \in DOMAIN writes' : i + 1 \in DOMAIN writes /\ writes'[i] = writes[i + 1]
           /\ MemoryTypeOK'
<1>1. writes \in Seq(Writes) /\ writes # <<>> /\ writes' = Tail(writes)
  BY DEF TypeOK, MemoryTypeOK, Statement
<1>2. /\ Head(writes) \in Writes /\ writes' \in Seq(Writes) /\ Len(writes') = Len(writes) - 1
      /\ \A i \in 1 .. Len(writes') : writes'[i] = writes[i + 1]
  BY <1>1, HeadTailProperties
<1>3. DOMAIN writes = 1 .. Len(writes) /\ DOMAIN writes' = 1 .. Len(writes') /\ Len(writes) \in Nat \ {0}
  BY <1>1, <1>2, LenProperties, EmptySeq
<1>4. Head(writes) = writes[1]
  BY <1>1
<1>5. MemoryTypeOK'
  BY <1>2 DEF TypeOK, MemoryTypeOK, Statement, loopvars
<1>. QED
  BY <1>1, <1>2, <1>3, <1>4, <1>5 DEF Statement

\* Executing a statement keeps the types.
LEMMA StatementTypes ==
    ASSUME TypeOK, ExecuteStatement
    PROVE  TypeOK'
<1>1. ASSUME NEW op, Statement(op), DatabaseTypeOK'
      PROVE  TypeOK'
  <2>1. MemoryTypeOK'
    BY <1>1, StatementType
  <2>. QED
    BY <1>1, <2>1 DEF Statement, TypeOK, hvars
<1>2. CASE SaveTokenNetwork
  BY <1>1, <1>2 DEF SaveTokenNetwork, TypeOK, DatabaseTypeOK
<1>3. CASE SaveChannel
  <2>1. Head(writes).row \in ChannelRecords
    BY <1>3, StatementType, WriteFields DEF SaveChannel
  <2>. QED
    BY <1>1, <1>3, <2>1 DEF SaveChannel, TypeOK, DatabaseTypeOK
<1>4. CASE SaveCapacityUpdate
  <2>. DEFINE m == Head(writes).msg
  <2>1. m \in CapacityUpdates
    BY <1>4, StatementType, WriteFields DEF SaveCapacityUpdate
  <2>2. [updating |-> m.updating, other |-> m.other] \in [updating : Nat, other : Nat]
    BY <2>1 DEF CapacityUpdates
  <2>. HIDE DEF m
  <2>3. capacity_update' \in [Channels \X Nodes -> [updating : Nat, other : Nat]]
    BY <1>4, <2>2 DEF SaveCapacityUpdate, TypeOK, DatabaseTypeOK, m
  <2>. QED
    BY <1>1, <1>4, <2>3 DEF SaveCapacityUpdate, TypeOK, DatabaseTypeOK
<1>5. CASE SaveWaitingMessage
  <2>. DEFINE m == Head(writes).msg
  <2>1. m \in Msgs /\ m.ch \in Channels
    BY <1>5, StatementType, WriteFields, MessageType DEF SaveWaitingMessage
  <2>2. Append(waiting_message[m.ch], m) \in Seq(Msgs)
    BY <2>1, AppendProperties DEF TypeOK, DatabaseTypeOK, Msgs
  <2>3. waiting_message' = [waiting_message EXCEPT ![m.ch] = Append(waiting_message[m.ch], m)]
    BY <1>5 DEF SaveWaitingMessage
  <2>. HIDE DEF m
  <2>4. waiting_message' \in [Channels -> Seq(Msgs)]
    BY <2>1, <2>2, <2>3 DEF TypeOK, DatabaseTypeOK, Msgs
  <2>. QED
    BY <1>1, <1>5, <2>4 DEF SaveWaitingMessage, TypeOK, DatabaseTypeOK, Msgs
<1>6. CASE DeletePoppedMessages
  <2>1. Head(writes).ch \in Channels
    BY <1>6, StatementType, WriteFields DEF DeletePoppedMessages
  <2>2. waiting_message' \in [Channels -> Seq(Msgs)]
    BY <1>6, <2>1 DEF DeletePoppedMessages, TypeOK, DatabaseTypeOK, Msgs
  <2>. QED
    BY <1>1, <1>6, <2>2 DEF DeletePoppedMessages, TypeOK, DatabaseTypeOK, Msgs
<1>7. CASE SaveCommittedBlock
  <2>1. Head(writes).block \in Nat
    BY <1>7, StatementType, WriteFields DEF SaveCommittedBlock
  <2>. QED
    BY <1>1, <1>7, <2>1 DEF SaveCommittedBlock, TypeOK, DatabaseTypeOK
<1>. QED
  BY <1>2, <1>3, <1>4, <1>5, <1>6, <1>7 DEF ExecuteStatement

\* The handling of a message, as far as types are concerned.
LEMMA HandlingType ==
    ASSUME TypeOK, NEW m \in Msgs, writes = <<>>,
           OnCapacityUpdate(m) \/ OnFeeUpdate(m) \/ Refused(m) \/ Deferred(m)
    PROVE  /\ graph' \in [Pairs -> ChannelRecords \cup {NoChannel}]
           /\ writes' \in Seq(Writes)
           /\ received' \in SUBSET CapacityUpdates
<1>. DEFINE g == graph[Participants(m)]
<1>1. m.ch \in Channels /\ Participants(m) \in Pairs
  BY MessageType, Pair DEF Participants
<1>2. g \in ChannelRecords \cup {NoChannel}
  BY <1>1 DEF TypeOK, MemoryTypeOK
<1>3. ASSUME NEW n \in ChannelRecords, NEW ws \in Seq(Writes), Change(n, ws)
      PROVE  graph' \in [Pairs -> ChannelRecords \cup {NoChannel}] /\ writes' \in Seq(Writes)
  <2>1. PairOf[n.ch] \in Pairs
    BY RecordFields, Pair
  <2>2. UpsertChannel(n) \in Writes
    BY WriteTypes
  <2>3. <<UpsertChannel(n)>> \in Seq(Writes)
    BY <2>2, Singleton
  <2>4. ws \o <<UpsertChannel(n)>> \in Seq(Writes)
    BY <2>3, ConcatProperties
  <2>. QED
    BY <1>3, <2>1, <2>4 DEF Change, TypeOK, MemoryTypeOK
<1>4. CASE OnCapacityUpdate(m)
  <2>1. m \in CapacityUpdates /\ NamesBoth(m) /\ g \in ChannelRecords
    BY <1>2, <1>4, MessageType DEF OnCapacityUpdate, ForChannel, Participants, Named, HasViews, NamesBoth
  <2>2. WithCapacity(g, m) \in ChannelRecords
    BY <2>1, WithCapacityType
  <2>3. <<UpsertCapacityUpdate(m)>> \in Seq(Writes)
    BY <2>1, WriteTypes, Singleton
  <2>. QED
    BY <1>3, <1>4, <2>1, <2>2, <2>3 DEF OnCapacityUpdate, TypeOK
<1>5. CASE OnFeeUpdate(m)
  <2>1. m.timestamp \in Nat /\ m.from \in Nodes /\ g \in ChannelRecords
    BY <1>2, <1>5, MessageType DEF OnFeeUpdate, ForChannel, Participants, HasViews
  <2>2. [g EXCEPT !.fee[m.from] = m.timestamp] \in ChannelRecords
    BY <2>1 DEF ChannelRecords
  <2>3. <<>> \in Seq(Writes)
    BY EmptySeq
  <2>. QED
    BY <1>3, <1>5, <2>2, <2>3 DEF OnFeeUpdate, TypeOK
<1>6. CASE Refused(m)
  BY <1>6 DEF Refused, TypeOK, MemoryTypeOK
<1>7. CASE Deferred(m)
  <2>1. <<InsertWaitingMessage(m)>> \in Seq(Writes)
    BY WriteTypes, Singleton
  <2>. QED
    BY <1>7, <2>1 DEF Deferred, TypeOK, MemoryTypeOK
<1>. QED
  BY <1>4, <1>5, <1>6, <1>7

\* What becomes of a message that is handled while no statement is left:
\* nothing, or it is put aside,
Dropped == graph' = graph /\ received' = received /\ writes' = <<>>
PutAside(m) ==
    /\ m.ch \notin ids
    /\ graph' = graph /\ received' = received /\ writes' = <<InsertWaitingMessage(m)>>
\* or it is only saved, by a loop or a listener that fails then.
SavedOnly(m) ==
    /\ m \in CapacityUpdates
    /\ graph' = graph /\ received' = received \cup {m} /\ writes' = <<UpsertCapacityUpdate(m)>>

\* So is what a message leaves behind that cannot be handled.
LEMMA FailingType ==
    ASSUME TypeOK, NEW m \in Msgs, KeyError(m)
    PROVE  /\ graph' = graph /\ writes' \in Seq(Writes) /\ received' \in SUBSET CapacityUpdates
           /\ Dropped \/ SavedOnly(m)
BY MessageType, WriteTypes, Singleton, EmptySeq DEF KeyError, TypeOK, Dropped, SavedOnly

\* The events still to be handled.
LEMMA BatchType ==
    ASSUME TypeOK, batch # <<>>
    PROVE  /\ Head(batch) \in Events /\ Head(batch) = batch[1] /\ 1 \in DOMAIN batch
           /\ Tail(batch) \in Seq(Events) /\ Len(Tail(batch)) = Len(batch) - 1
           /\ \A i \in DOMAIN Tail(batch) : i + 1 \in DOMAIN batch /\ Tail(batch)[i] = batch[i + 1]
           /\ Head(batch).type \in {"opened", "closed", "settled"} =>
                  Head(batch).ch \in Channels /\ PairOf[Head(batch).ch] \in Pairs
<1>1. batch \in Seq(Events)
  BY DEF TypeOK, MemoryTypeOK
<1>2. /\ Head(batch) \in Events /\ Tail(batch) \in Seq(Events) /\ Len(Tail(batch)) = Len(batch) - 1
      /\ \A i \in 1 .. Len(Tail(batch)) : Tail(batch)[i] = batch[i + 1]
  BY <1>1, HeadTailProperties
<1>3. /\ DOMAIN batch = 1 .. Len(batch) /\ DOMAIN Tail(batch) = 1 .. Len(Tail(batch))
      /\ Len(batch) \in Nat \ {0}
  BY <1>1, <1>2, LenProperties, EmptySeq
<1>4. Head(batch) = batch[1]
  BY <1>1
<1>. QED
  BY <1>2, <1>3, <1>4, EventType, Pair

\* What is read at the start is well-formed.
LEMMA RestartType ==
    ASSUME TypeOK, Restart
    PROVE  MemoryTypeOK'
<1>1. \A p \in Pairs : Loaded(p) \in ChannelRecords \cup {NoChannel}
  BY DEF Loaded, Rows, TypeOK, DatabaseTypeOK
<1>2. graph' \in [Pairs -> ChannelRecords \cup {NoChannel}]
  BY <1>1 DEF Restart
<1>3. batch' \in Seq(Events) /\ todo' \in Seq(CapacityUpdates \cup FeeUpdates) /\ writes' \in Seq(Writes)
  BY EmptySeq DEF Restart
<1>4. ids' \in SUBSET Channels
  BY DEF Restart, Rows
<1>. QED
  BY <1>2, <1>3, <1>4 DEF Restart, MemoryTypeOK, TypeOK, DatabaseTypeOK

\* Every step keeps the types.
LEMMA TypeStep ==
    ASSUME TypeOK, [Next]_vars
    PROVE  TypeOK'
<1>. USE DEF dbvars, loopvars, hvars
<1>1. CASE UNCHANGED vars
  BY <1>1 DEF vars, TypeOK, DatabaseTypeOK, MemoryTypeOK
<1>2. ASSUME NEW e \in Events, ChainEvent(e)
      PROVE  TypeOK'
  <2>1. log' \in Seq(Events)
    BY <1>2, AppendProperties DEF ChainEvent, TypeOK
  <2>. QED
    BY <1>2, <2>1 DEF ChainEvent, TypeOK, DatabaseTypeOK, MemoryTypeOK
<1>3. CASE Tick
  BY <1>3 DEF Tick, TypeOK, DatabaseTypeOK, MemoryTypeOK
<1>4. CASE ExecuteStatement
  BY <1>4, StatementTypes
<1>5. ASSUME NEW m \in Messages, ReceiveMessage(m)
      PROVE  TypeOK'
  <2>1. m \in Msgs
    BY PfsConstants DEF Msgs
  <2>2. /\ graph' \in [Pairs -> ChannelRecords \cup {NoChannel}] /\ writes' \in Seq(Writes)
        /\ received' \in SUBSET CapacityUpdates
    BY <1>5, <2>1, HandlingType DEF ReceiveMessage
  <2>. QED
    BY <1>5, <2>2 DEF ReceiveMessage, TypeOK, DatabaseTypeOK, MemoryTypeOK
<1>6. CASE GetBlockchainEvents
  <2>1. PICK b \in (latest + 1) .. Len(log) :
            /\ batch' = SubSeq(log, latest + 1, b)
            /\ head' = b
            /\ fetched' = IF b > fetched THEN b ELSE fetched
    BY <1>6 DEF GetBlockchainEvents
  <2>2. latest + 1 \in Int /\ b \in Nat /\ \A i \in latest + 1 .. b : log[i] \in Events
    BY ElementOfSeq DEF TypeOK, MemoryTypeOK
  <2>3. batch' \in Seq(Events)
    BY <2>1, <2>2, SubSeqProperties
  <2>. QED
    BY <1>6, <2>1, <2>2, <2>3 DEF GetBlockchainEvents, TypeOK, DatabaseTypeOK, MemoryTypeOK
<1>7. CASE HandleEvent
  <2>. USE DEF EventVars
  <2>1. ASSUME DatabaseTypeOK', MemoryTypeOK', UNCHANGED <<now, log, received, hvars>>
        PROVE  TypeOK'
    BY <2>1 DEF TypeOK
  <2>2. CASE TokenNetworkCreated
    <3>1. writes' \in Seq(Writes)
      BY <2>2, WriteTypes, Singleton, EmptySeq DEF TokenNetworkCreated
    <3>. QED
      BY <2>1, <2>2, <3>1, BatchType
         DEF TokenNetworkCreated, NextEvent, TypeOK, DatabaseTypeOK, MemoryTypeOK
  <2>3. CASE ChannelOpened
    <3>. DEFINE c == Head(batch).ch
    <3>1. c \in Channels /\ PairOf[c] \in Pairs
      BY <2>3, BatchType DEF ChannelOpened, NextEvent
    <3>2. FreshChannel(c) \in ChannelRecords /\ <<UpsertChannel(FreshChannel(c))>> \in Seq(Writes)
      BY <3>1, FreshType, WriteTypes, Singleton
    <3>3. graph' \in [Pairs -> ChannelRecords \cup {NoChannel}] /\ ids' \in SUBSET Channels
      BY <2>3, <3>1, <3>2 DEF ChannelOpened, TypeOK, MemoryTypeOK
    <3>. QED
      BY <2>1, <2>3, <3>2, <3>3
         DEF ChannelOpened, NextEvent, TypeOK, DatabaseTypeOK, MemoryTypeOK
  <2>4. CASE SelectWaitingMessages
    <3>1. Head(batch).ch \in Channels
      BY <2>4, BatchType DEF SelectWaitingMessages, TypeOK, MemoryTypeOK
    <3>2. todo' \in Seq(CapacityUpdates \cup FeeUpdates)
      BY <2>4, <3>1 DEF SelectWaitingMessages, TypeOK, DatabaseTypeOK
    <3>. QED
      BY <2>1, <2>4, <3>2 DEF SelectWaitingMessages, TypeOK, DatabaseTypeOK, MemoryTypeOK
  <2>5. CASE PopWaitingMessage
    <3>1. Head(todo) \in Msgs /\ Tail(todo) \in Seq(Msgs)
      BY <2>5, HeadTailProperties DEF PopWaitingMessage, TypeOK, MemoryTypeOK, Msgs
    <3>2. /\ graph' \in [Pairs -> ChannelRecords \cup {NoChannel}] /\ writes' \in Seq(Writes)
          /\ received' \in SUBSET CapacityUpdates
      BY <2>5, <3>1, HandlingType DEF PopWaitingMessage
    <3>3. DatabaseTypeOK' /\ MemoryTypeOK'
      BY <2>5, <3>1, <3>2 DEF PopWaitingMessage, TypeOK, DatabaseTypeOK, MemoryTypeOK, Msgs
    <3>. QED
      BY <2>5, <3>2, <3>3 DEF PopWaitingMessage, TypeOK
  <2>6. CASE PopFails
    <3>1. Head(todo) \in Msgs /\ Tail(todo) \in Seq(Msgs)
      BY <2>6, HeadTailProperties DEF PopFails, TypeOK, MemoryTypeOK, Msgs
    <3>2. graph' = graph /\ writes' \in Seq(Writes) /\ received' \in SUBSET CapacityUpdates
      BY <2>6, <3>1, FailingType DEF PopFails
    <3>3. DatabaseTypeOK' /\ MemoryTypeOK'
      BY <2>6, <3>1, <3>2 DEF PopFails, TypeOK, DatabaseTypeOK, MemoryTypeOK, Msgs
    <3>. QED
      BY <2>6, <3>2, <3>3 DEF PopFails, TypeOK
  <2>7. CASE PopDone
    <3>1. batch # <<>> /\ Head(batch).type = "opened"
      BY <2>7 DEF PopDone, TypeOK, MemoryTypeOK
    <3>2. writes' \in Seq(Writes) /\ batch' \in Seq(Events)
      BY <2>7, <3>1, BatchType, WriteTypes, Singleton DEF PopDone
    <3>. QED
      BY <2>1, <2>7, <3>2 DEF PopDone, TypeOK, DatabaseTypeOK, MemoryTypeOK
  <2>8. CASE ChannelRemoved
    <3>. DEFINE c == Head(batch).ch
    <3>1. c \in Channels /\ PairOf[c] \in Pairs /\ batch' \in Seq(Events) /\ pc = "handle"
      BY <2>8, BatchType DEF ChannelRemoved, NextEvent
    <3>2. /\ channel' \in [Channels -> ChannelRecords \cup {NoChannel}]
          /\ graph' \in [Pairs -> ChannelRecords \cup {NoChannel}] /\ ids' \in SUBSET Channels
      BY <2>8, <3>1 DEF ChannelRemoved, TypeOK, DatabaseTypeOK, MemoryTypeOK
    <3>. QED
      BY <2>1, <2>8, <3>1, <3>2 DEF ChannelRemoved, TypeOK, DatabaseTypeOK, MemoryTypeOK
  <2>9. CASE UpdatedHeadBlock
    <3>1. writes' \in Seq(Writes)
      BY <2>9, WriteTypes, Singleton DEF UpdatedHeadBlock, TypeOK, MemoryTypeOK
    <3>. QED
      BY <2>1, <2>9, <3>1 DEF UpdatedHeadBlock, TypeOK, DatabaseTypeOK, MemoryTypeOK
  <2>. QED
    BY <1>7, <2>2, <2>3, <2>4, <2>5, <2>6, <2>7, <2>8, <2>9 DEF HandleEvent
<1>8. CASE Crash
  <2>1. MemoryTypeOK'
    BY <1>8, RestartType DEF Crash
  <2>. QED
    BY <1>8, <2>1, PfsConstants DEF Crash, TypeOK, DatabaseTypeOK
<1>9. ASSUME NEW m \in Messages, ListenerFails(m)
      PROVE  TypeOK'
  <2>1. m \in Msgs
    BY PfsConstants DEF Msgs
  <2>2. graph' = graph /\ writes' \in Seq(Writes) /\ received' \in SUBSET CapacityUpdates
    BY <1>9, <2>1, FailingType DEF ListenerFails
  <2>. QED
    BY <1>9, <2>2 DEF ListenerFails, TypeOK, DatabaseTypeOK, MemoryTypeOK
<1>10. CASE ErrorRestart
  <2>1. MemoryTypeOK'
    BY <1>10, RestartType DEF ErrorRestart
  <2>. QED
    BY <1>10, <2>1 DEF ErrorRestart, TypeOK, DatabaseTypeOK
<1>11. CASE NothingNew
  BY <1>1, <1>11 DEF NothingNew
<1>. QED
  BY <1>1, <1>2, <1>3, <1>4, <1>5, <1>6, <1>7, <1>8, <1>9, <1>10, <1>11 DEF Next

------------------------------------------------------------------------------
(* The log and the loop.                                                   *)

\* Every step of the chain keeps the order of the events.
LEMMA LogStep ==
    ASSUME TypeOK, LogInv, [Next]_vars
    PROVE  LogInv'
<1>. USE DEF dbvars, loopvars, hvars, EventVars
<1>1. ASSUME log' = log
      PROVE  LogInv'
  BY <1>1 DEF LogInv
<1>2. ASSUME NEW e \in Events, ChainEvent(e)
      PROVE  LogInv'
  <2>. DEFINE n == Len(log) + 1
  <2>1. /\ log' \in Seq(Events) /\ Len(log') = n /\ Len(log) \in Nat
        /\ \A i \in 1 .. Len(log) : log'[i] = log[i]
        /\ log'[n] = e
    BY <1>2, AppendProperties DEF ChainEvent, TypeOK
  <2>2. DOMAIN log = 1 .. Len(log) /\ DOMAIN log' = 1 .. n
    BY <2>1 DEF TypeOK
  <2>3. \A c \in Channels : /\ Opened(c).type = "opened" /\ Opened(c).ch = c
                            /\ Closed(c).type = "closed" /\ Closed(c).ch = c
                            /\ Settled(c).type = "settled" /\ Settled(c).ch = c
    BY DEF Opened, Closed, Settled
  <2>4. \A c \in Channels : /\ Happened("opened", c) <=> \E i \in 1 .. Len(log) : log[i] = Opened(c)
                            /\ Happened("closed", c) <=> \E i \in 1 .. Len(log) : log[i] = Closed(c)
                            /\ Happened("settled", c) <=> \E i \in 1 .. Len(log) : log[i] = Settled(c)
    BY <2>2 DEF Happened, Opened, Closed, Settled
  <2>5. ASSUME NEW c \in Channels
        PROVE  /\ e = Opened(c) => /\ ~Happened("opened", c)
                                   /\ \A d \in Channels : PairOf[d] = PairOf[c] /\ Happened("opened", d)
                                                          => Happened("settled", d)
               /\ e = Closed(c) => Happened("opened", c)
               /\ e = Settled(c) => Happened("closed", c)
    <3>1. CASE e = Opened(c)
      <4>1. e.type = "opened" /\ e.ch = c
        BY <2>3, <3>1
      <4>2. /\ ~Happened("opened", c)
            /\ \A d \in Channels : PairOf[d] = PairOf[c] /\ Happened("opened", d) => Happened("settled", d)
        BY <1>2, <4>1 DEF ChainEvent
      <4>. QED
        BY <2>3, <3>1, <4>2
    <3>2. CASE e = Closed(c)
      <4>1. e.type = "closed" /\ e.ch = c
        BY <2>3, <3>2
      <4>2. Happened("opened", c)
        BY <1>2, <4>1 DEF ChainEvent
      <4>. QED
        BY <2>3, <3>2, <4>2
    <3>3. CASE e = Settled(c)
      <4>1. e.type = "settled" /\ e.ch = c
        BY <2>3, <3>3
      <4>2. Happened("closed", c)
        BY <1>2, <4>1 DEF ChainEvent
      <4>. QED
        BY <2>3, <3>3, <4>2
    <3>. QED
      BY <3>1, <3>2, <3>3
  <2>. HIDE DEF n
  <2>6. ASSUME NEW c \in Channels, NEW i \in 1 .. n, NEW j \in 1 .. n,
               log'[i] = Opened(c), log'[j] = Opened(c)
        PROVE  i = j
    <3>1. CASE i # n /\ j # n
      BY <2>1, <2>2, <2>6, <3>1 DEF LogInv, n
    <3>2. CASE i = n /\ j # n
      BY <2>1, <2>4, <2>5, <2>6, <3>2 DEF n
    <3>3. CASE i # n /\ j = n
      BY <2>1, <2>4, <2>5, <2>6, <3>3 DEF n
    <3>. QED
      BY <3>1, <3>2, <3>3
  <2>7. ASSUME NEW c \in Channels, NEW j \in 1 .. n
        PROVE  /\ log'[j] = Closed(c) => \E i \in 1 .. j - 1 : log'[i] = Opened(c)
               /\ log'[j] = Settled(c) => \E i \in 1 .. j - 1 : log'[i] = Closed(c)
    <3>1. CASE j # n
      <4>1. j \in 1 .. Len(log) /\ log'[j] = log[j]
        BY <2>1, <3>1 DEF n
      <4>2. /\ log[j] = Closed(c) => \E i \in 1 .. j - 1 : log[i] = Opened(c)
            /\ log[j] = Settled(c) => \E i \in 1 .. j - 1 : log[i] = Closed(c)
        BY <2>2, <4>1 DEF LogInv
      <4>3. \A i \in 1 .. j - 1 : log'[i] = log[i]
        BY <2>1, <4>1
      <4>. QED
        BY <4>1, <4>2, <4>3
    <3>2. CASE j = n
      BY <2>1, <2>4, <2>5, <3>2 DEF n
    <3>. QED
      BY <3>1, <3>2
  <2>8. ASSUME NEW c \in Channels, NEW d \in Channels, NEW j \in 1 .. n, NEW i \in 1 .. j - 1,
               c # d, PairOf[c] = PairOf[d], log'[i] = Opened(c), log'[j] = Opened(d)
        PROVE  \E k \in 1 .. j - 1 : log'[k] = Closed(c)
    <3>0. i \in 1 .. Len(log) /\ log[i] = Opened(c)
      BY <2>1, <2>8 DEF n
    <3>1. CASE j # n
      <4>1. j \in 1 .. Len(log) /\ log[j] = Opened(d)
        BY <2>1, <2>8, <3>1 DEF n
      <4>2. \E k \in 1 .. j - 1 : log[k] = Closed(c)
        BY <2>2, <2>8, <3>0, <4>1 DEF LogInv
      <4>. QED
        BY <2>1, <4>1, <4>2
    <3>2. CASE j = n
      <4>1. Happened("settled", c)
        BY <2>1, <2>4, <2>5, <2>8, <3>0, <3>2
      <4>2. PICK k \in 1 .. Len(log) : log[k] = Settled(c)
        BY <2>4, <4>1
      <4>3. PICK l \in 1 .. k - 1 : log[l] = Closed(c)
        BY <2>2, <4>2 DEF LogInv
      <4>4. l \in 1 .. Len(log) /\ l \in 1 .. j - 1
        BY <2>1, <3>2 DEF n
      <4>. QED
        BY <2>1, <4>3, <4>4
    <3>. QED
      BY <3>1, <3>2
  <2>. QED
    BY <2>2, <2>6, <2>7, <2>8 DEF LogInv
<1>3. ExecuteStatement => log' = log
  BY DEF ExecuteStatement, SaveTokenNetwork, SaveChannel, SaveCapacityUpdate, SaveWaitingMessage,
         DeletePoppedMessages, SaveCommittedBlock, Statement
<1>4. HandleEvent => log' = log
  BY DEF HandleEvent, TokenNetworkCreated, ChannelOpened, SelectWaitingMessages, PopWaitingMessage,
         PopFails, PopDone, ChannelRemoved, UpdatedHeadBlock
<1>5. \A m \in Messages : ReceiveMessage(m) \/ ListenerFails(m) => log' = log
  BY DEF ReceiveMessage, ListenerFails
<1>6. Tick \/ GetBlockchainEvents \/ NothingNew \/ Crash \/ ErrorRestart \/ UNCHANGED vars => log' = log
  BY DEF Tick, GetBlockchainEvents, NothingNew, Crash, ErrorRestart, vars
<1>. QED
  BY <1>1, <1>2, <1>3, <1>4, <1>5, <1>6 DEF Next

\* Where the handled blocks end.
LEMMA HandledFacts ==
    ASSUME TypeOK, LoopInv
    PROVE  /\ Handled \in Nat /\ committed <= latest /\ latest <= Handled
           /\ Handled <= fetched /\ fetched <= Len(log)
           /\ pc # "poll" /\ batch # <<>> =>
                  /\ Handled + 1 \in 1 .. fetched /\ Handled + 1 \in DOMAIN log
                  /\ log[Handled + 1] = Head(batch)
           /\ writes = <<>> => committed = latest
<1>1. /\ committed \in Nat /\ latest \in Nat /\ head \in Nat /\ fetched \in Nat
      /\ Len(log) \in Nat /\ DOMAIN log = 1 .. Len(log)
      /\ Len(batch) \in Nat /\ DOMAIN batch = 1 .. Len(batch)
  BY DEF TypeOK, MemoryTypeOK, DatabaseTypeOK
<1>2. committed <= latest
  BY <1>1 DEF LoopInv
<1>3. writes = <<>> => committed = latest
  <2>1. <<UpdateLatestCommittedBlock(latest)>> # <<>>
    BY Singleton
  <2>. QED
    BY <2>1 DEF LoopInv
<1>4. CASE pc = "poll"
  BY <1>1, <1>2, <1>3, <1>4 DEF LoopInv, Handled
<1>5. CASE pc # "poll"
  <2>1. /\ head <= fetched /\ latest <= head - Len(batch) /\ fetched <= Len(log)
        /\ \A i \in DOMAIN batch : batch[i] = log[head - Len(batch) + i]
    BY <1>5 DEF LoopInv
  <2>2. Handled = head - Len(batch)
    BY <1>5 DEF Handled
  <2>3. ASSUME batch # <<>>
        PROVE  /\ Handled + 1 \in 1 .. fetched /\ Handled + 1 \in DOMAIN log
               /\ log[Handled + 1] = Head(batch)
    <3>1. 1 \in DOMAIN batch /\ batch[1] = Head(batch)
      BY <2>3, BatchType
    <3>2. log[Handled + 1] = batch[1]
      BY <2>1, <2>2, <3>1
    <3>. QED
      BY <1>1, <2>1, <2>2, <3>1, <3>2
  <2>. QED
    BY <1>1, <1>2, <1>3, <2>1, <2>2, <2>3
<1>. QED
  BY <1>4, <1>5

------------------------------------------------------------------------------
(* The kinds of steps.                                                     *)

\* Or the message changes the object between the two nodes to r.
Applied(m, r) ==
    LET g == graph[PairOf[m.ch]] IN
    /\ m.ch \in ids /\ m.from \in PairOf[m.ch]
    /\ g # NoChannel /\ r.ch = g.ch
    /\ graph' = [graph EXCEPT ![PairOf[m.ch]] = r]
    /\ \A p \in Nodes : r.fee[p] >= g.fee[p]
    /\ \/ /\ received' = received /\ writes' = <<UpsertChannel(r)>>
          /\ r.capacity = g.capacity
       \/ /\ m \in CapacityUpdates /\ NamesBoth(m) /\ received' = received \cup {m}
          /\ writes' = <<UpsertCapacityUpdate(m), UpsertChannel(r)>>
          /\ r = WithCapacity(g, m)

MessageStep(m) ==
    /\ writes = <<>> /\ pc # "select"
    /\ Dropped \/ PutAside(m) \/ SavedOnly(m) \/ \E r \in ChannelRecords : Applied(m, r)
    /\ IF pc = "pop" THEN m.ch = Head(batch).ch /\ todo # <<>> /\ todo' = Tail(todo) ELSE todo' = todo
    /\ UNCHANGED <<log, dbvars, ids, loopvars, fetched>>

Idling == UNCHANGED <<log, dbvars, ids, graph, loopvars, todo, writes, received, fetched>>

Restarting == Restart /\ UNCHANGED <<log, dbvars, received, fetched>>

\* A message is dropped, put aside or applied to a channel.
LEMMA HandlingEffect ==
    ASSUME TypeOK, TableInv, NEW m \in Msgs, writes = <<>>,
           OnCapacityUpdate(m) \/ OnFeeUpdate(m) \/ Refused(m) \/ Deferred(m)
    PROVE  Dropped \/ PutAside(m) \/ \E r \in ChannelRecords : Applied(m, r)
<1>. DEFINE p == PairOf[m.ch]
            g == graph[p]
<1>1. m.ch \in Channels /\ p \in Pairs /\ m.from \in Nodes
  BY MessageType, Pair
<1>2. g # NoChannel => g \in ChannelRecords /\ PairOf[g.ch] = p
  BY <1>1 DEF TypeOK, MemoryTypeOK, TableInv
<1>3. CASE OnCapacityUpdate(m)
  <2>. DEFINE r == WithCapacity(g, m)
  <2>1. /\ m \in CapacityUpdates /\ m.ch \in ids /\ NamesBoth(m) /\ m.from \in p /\ g # NoChannel
        /\ Change(r, <<UpsertCapacityUpdate(m)>>) /\ received' = received \cup {m}
    BY <1>3, MessageType DEF OnCapacityUpdate, ForChannel, Participants, Named, HasViews, NamesBoth
  <2>2. r \in ChannelRecords /\ r.ch = g.ch /\ r.fee = g.fee
    BY <1>2, <2>1, WithCapacityType
  <2>3. \A q \in Nodes : r.fee[q] >= g.fee[q]
    BY <1>2, <2>1, <2>2, RecordFields
  <2>4. /\ graph' = [graph EXCEPT ![p] = r]
        /\ writes' = <<UpsertCapacityUpdate(m)>> \o <<UpsertChannel(r)>>
    BY <1>2, <2>1, <2>2 DEF Change
  <2>5. writes' = <<UpsertCapacityUpdate(m), UpsertChannel(r)>>
    BY <2>1, <2>2, <2>4, WriteTypes, Two
  <2>6. Applied(m, r)
    BY <2>1, <2>2, <2>3, <2>4, <2>5 DEF Applied
  <2>. QED
    BY <2>2, <2>6
<1>4. CASE OnFeeUpdate(m)
  <2>. DEFINE r == [g EXCEPT !.fee[m.from] = m.timestamp]
  <2>1. /\ m.ch \in ids /\ m.from \in p /\ g # NoChannel /\ g.fee[m.from] < m.timestamp
        /\ m.timestamp \in Nat /\ Change(r, <<>>) /\ received' = received
    BY <1>4, MessageType DEF OnFeeUpdate, ForChannel, Participants, Named, HasViews, FeeAccepted
  <2>2. /\ r \in ChannelRecords /\ r.ch = g.ch /\ r.capacity = g.capacity
        /\ \A q \in Nodes : r.fee[q] >= g.fee[q]
    BY <1>1, <1>2, <2>1, WithFee
  <2>3. graph' = [graph EXCEPT ![p] = r] /\ writes' = <<>> \o <<UpsertChannel(r)>>
    BY <1>2, <2>1, <2>2 DEF Change
  <2>4. writes' = <<UpsertChannel(r)>>
    BY <2>2, <2>3, WriteTypes, Two
  <2>. HIDE DEF r
  <2>5. Applied(m, r)
    BY <2>1, <2>2, <2>3, <2>4 DEF Applied
  <2>. QED
    BY <2>2, <2>5
<1>5. CASE Refused(m)
  BY <1>5 DEF Refused, Dropped
<1>6. CASE Deferred(m)
  BY <1>6 DEF Deferred, PutAside
<1>. QED
  BY <1>3, <1>4, <1>5, <1>6

\* Every step is of one of these kinds.
LEMMA Kinds ==
    ASSUME TypeOK, TableInv, OpeningInv, [Next]_vars
    PROVE  \/ Idling
           \/ \E e \in Events : ChainEvent(e)
           \/ ExecuteStatement
           \/ \E m \in Msgs : MessageStep(m)
           \/ GetBlockchainEvents
           \/ TokenNetworkCreated \/ ChannelOpened \/ SelectWaitingMessages \/ PopDone
           \/ ChannelRemoved \/ UpdatedHeadBlock
           \/ Restarting
<1>. USE DEF dbvars, loopvars, hvars
<1>1. UNCHANGED vars \/ Tick \/ NothingNew => Idling
  BY DEF Idling, vars, Tick, NothingNew
<1>2. Messages \subseteq Msgs
  BY PfsConstants DEF Msgs
<1>3. ASSUME NEW m \in Messages, ReceiveMessage(m)
      PROVE  MessageStep(m)
  <2>1. Dropped \/ PutAside(m) \/ \E r \in ChannelRecords : Applied(m, r)
    BY <1>2, <1>3, HandlingEffect DEF ReceiveMessage
  <2>. QED
    BY <1>3, <2>1 DEF ReceiveMessage, MessageStep
<1>4. ASSUME PopWaitingMessage
      PROVE  \E m \in Msgs : MessageStep(m)
  <2>. DEFINE m == Head(todo)
  <2>1. todo \in Seq(Msgs) /\ todo # <<>>
    BY <1>4 DEF PopWaitingMessage, TypeOK, MemoryTypeOK, Msgs
  <2>2. m \in Msgs /\ m = todo[1] /\ 1 \in DOMAIN todo
    BY <2>1, HeadTailProperties, EmptySeq, LenProperties
  <2>3. m.ch = Head(batch).ch
    BY <1>4, <2>2 DEF PopWaitingMessage, OpeningInv
  <2>4. Dropped \/ PutAside(m) \/ \E r \in ChannelRecords : Applied(m, r)
    BY <1>4, <2>2, HandlingEffect DEF PopWaitingMessage
  <2>5. MessageStep(m)
    BY <1>4, <2>3, <2>4 DEF PopWaitingMessage, MessageStep
  <2>. QED
    BY <2>2, <2>5
<1>5. ASSUME PopFails
      PROVE  \E m \in Msgs : MessageStep(m)
  <2>. DEFINE m == Head(todo)
  <2>1. todo \in Seq(Msgs) /\ todo # <<>>
    BY <1>5 DEF PopFails, TypeOK, MemoryTypeOK, Msgs
  <2>2. m \in Msgs /\ m = todo[1] /\ 1 \in DOMAIN todo
    BY <2>1, HeadTailProperties, EmptySeq, LenProperties
  <2>3. m.ch = Head(batch).ch
    BY <1>5, <2>2 DEF PopFails, OpeningInv
  <2>4. Dropped \/ SavedOnly(m)
    BY <1>5, <2>2, FailingType DEF PopFails
  <2>5. MessageStep(m)
    BY <1>5, <2>3, <2>4 DEF PopFails, MessageStep
  <2>. QED
    BY <2>2, <2>5
<1>6. ASSUME NEW m \in Messages, ListenerFails(m)
      PROVE  MessageStep(m)
  <2>1. Dropped \/ SavedOnly(m)
    BY <1>2, <1>6, FailingType DEF ListenerFails
  <2>. QED
    BY <1>6, <2>1 DEF ListenerFails, MessageStep
<1>7. Crash \/ ErrorRestart => Restarting
  BY DEF Crash, ErrorRestart, Restarting
<1>. QED
  BY <1>1, <1>2, <1>3, <1>4, <1>5, <1>6, <1>7 DEF Next, HandleEvent

\* Only a statement "head" changes the committed block, and it is alone.
LEMMA StatementEffect ==
    ASSUME TypeOK, WritesInv, ExecuteStatement
    PROVE  LET w == Head(writes) IN
           /\ w = writes[1] /\ w \in Writes /\ 1 \in DOMAIN writes
           /\ writes' \in Seq(Writes) /\ Len(writes') = Len(writes) - 1
           /\ \A i \in DOMAIN writes' : i + 1 \in DOMAIN writes /\ writes'[i] = writes[i + 1]
           /\ w.op \notin {"channel", "capacity_update"} => writes' = <<>>
           /\ w.op = "channel" => writes' = <<>>
           /\ UNCHANGED <<now, log, follows, ids, graph, loopvars, todo, received, hvars>>
           /\ w.op # "head" => committed' = committed
           /\ w.op # "channel" => channel' = channel
           /\ w.op # "capacity_update" => capacity_update' = capacity_update
           /\ w.op \notin {"wait", "delete"} => waiting_message' = waiting_message
<1>. DEFINE w == Head(writes)
<1>. USE DEF ExecuteStatement, SaveTokenNetwork, SaveChannel, SaveCapacityUpdate, SaveWaitingMessage,
             DeletePoppedMessages, SaveCommittedBlock
<1>1. PICK op \in {"token_network", "channel", "capacity_update", "wait", "delete", "head"} :
          Statement(op)
  OBVIOUS
<1>2. /\ w = writes[1] /\ w \in Writes /\ 1 \in DOMAIN writes
      /\ writes' \in Seq(Writes) /\ Len(writes') = Len(writes) - 1
      /\ \A i \in DOMAIN writes' : i + 1 \in DOMAIN writes /\ writes'[i] = writes[i + 1]
  BY <1>1, StatementType
<1>3. w.op \notin {"channel", "capacity_update"} \/ w.op = "channel" => Len(writes) = 1
  BY <1>2 DEF WritesInv
<1>4. Len(writes') = 0 => writes' = <<>>
  BY <1>2, EmptySeq
<1>5. UNCHANGED <<now, log, follows, ids, graph, loopvars, todo, received, hvars>>
  BY <1>1 DEF Statement
<1>6. /\ w.op # "head" => committed' = committed
      /\ w.op # "channel" => channel' = channel
      /\ w.op # "capacity_update" => capacity_update' = capacity_update
      /\ w.op \notin {"wait", "delete"} => waiting_message' = waiting_message
  BY DEF Statement
<1>. QED
  BY <1>2, <1>3, <1>4, <1>5, <1>6

\* Every step keeps what holds of the loop, and handles one event, none, or starts again.
LEMMA LoopStep ==
    ASSUME TypeOK, TypeOK', LogInv, LoopInv, WritesInv, TableInv, OpeningInv, [Next]_vars
    PROVE  /\ LoopInv'
           /\ \/ Handled' = Handled
              \/ (TokenNetworkCreated \/ PopDone \/ ChannelRemoved) /\ Handled' = Handled + 1
              \/ Restarting /\ Handled' = committed
<1>. USE DEF dbvars, loopvars, hvars, EventVars
<1>. DEFINE Goal == /\ LoopInv'
                    /\ \/ Handled' = Handled
                       \/ (TokenNetworkCreated \/ PopDone \/ ChannelRemoved) /\ Handled' = Handled + 1
                       \/ Restarting /\ Handled' = committed
<1>0. /\ committed \in Nat /\ latest \in Nat /\ head \in Nat /\ fetched \in Nat
      /\ Len(log) \in Nat /\ DOMAIN log = 1 .. Len(log)
      /\ Len(batch) \in Nat /\ DOMAIN batch = 1 .. Len(batch)
      /\ Len(batch') \in Nat /\ DOMAIN batch' = 1 .. Len(batch')
  BY DEF TypeOK, MemoryTypeOK, DatabaseTypeOK
\* The loop stays where it is, and nothing is committed.
<1>1. ASSUME UNCHANGED <<log, loopvars, fetched, committed>>,
             writes' = writes \/ committed = latest
      PROVE  Goal
  <2>1. Handled' = Handled
    BY <1>1 DEF Handled
  <2>. QED
    BY <1>1, <2>1 DEF LoopInv
<1>2. CASE Idling
  BY <1>1, <1>2 DEF Idling
<1>3. ASSUME NEW e \in Events, ChainEvent(e)
      PROVE  Goal
  <2>1. /\ log' = Append(log, e) /\ pc = "poll"
        /\ UNCHANGED <<latest, pc, head, batch, fetched, committed, writes>>
    BY <1>3 DEF ChainEvent
  <2>2. Len(log') = Len(log) + 1
    BY <2>1, AppendProperties DEF TypeOK
  <2>3. Handled' = Handled
    BY <2>1 DEF Handled
  <2>. QED
    BY <1>0, <2>1, <2>2, <2>3 DEF LoopInv
<1>4. CASE ExecuteStatement
  <2>. DEFINE w == Head(writes)
  <2>1. /\ w = writes[1] /\ w \in Writes /\ 1 \in DOMAIN writes
        /\ UNCHANGED <<log, latest, pc, head, batch, fetched>>
        /\ w.op # "head" => committed' = committed
        /\ w.op = "head" => writes' = <<>>
    BY <1>4, StatementEffect
  <2>2. Handled' = Handled
    BY <2>1 DEF Handled
  <2>3. CASE w.op = "head"
    <3>1. committed' = w.block
      BY <1>4, <2>3 DEF ExecuteStatement, SaveTokenNetwork, SaveChannel, SaveCapacityUpdate,
                    SaveWaitingMessage, DeletePoppedMessages, SaveCommittedBlock, Statement
    <3>2. committed' = latest'
      BY <2>1, <2>3, <3>1 DEF WritesInv
    <3>. QED
      BY <2>1, <2>2, <3>2 DEF LoopInv
  <2>4. CASE w.op # "head"
    <3>1. committed = latest
      <4>1. <<UpdateLatestCommittedBlock(latest)>>[1].op = "head"
        BY DEF UpdateLatestCommittedBlock
      <4>. QED
        BY <2>1, <2>4, <4>1 DEF LoopInv
    <3>. QED
      BY <2>1, <2>2, <2>4, <3>1 DEF LoopInv
  <2>. QED
    BY <2>3, <2>4
<1>5. ASSUME NEW m \in Msgs, MessageStep(m)
      PROVE  Goal
  <2>1. committed = latest
    BY <1>5, HandledFacts DEF MessageStep
  <2>. QED
    BY <1>1, <1>5, <2>1 DEF MessageStep
<1>6. CASE GetBlockchainEvents
  <2>1. PICK b \in (latest + 1) .. Len(log) :
            /\ batch' = SubSeq(log, latest + 1, b)
            /\ head' = b
            /\ fetched' = IF b > fetched THEN b ELSE fetched
    BY <1>6 DEF GetBlockchainEvents
  <2>2. /\ pc = "poll" /\ pc' = "handle" /\ writes = <<>>
        /\ UNCHANGED <<log, committed, latest, writes>>
    BY <1>6 DEF GetBlockchainEvents
  <2>3. latest + 1 \in Int /\ b \in Int /\ \A i \in latest + 1 .. b : log[i] \in Events
    BY <1>0, ElementOfSeq DEF TypeOK
  <2>4. /\ Len(SubSeq(log, latest + 1, b)) = b - latest
        /\ \A i \in 1 .. b - latest : SubSeq(log, latest + 1, b)[i] = log[latest + i]
    <3>1. /\ Len(SubSeq(log, latest + 1, b)) = IF latest + 1 <= b THEN b - (latest + 1) + 1 ELSE 0
          /\ \A i \in 1 .. b - (latest + 1) + 1 :
                SubSeq(log, latest + 1, b)[i] = log[latest + 1 + i - 1]
      BY ONLY <2>3, SubSeqProperties
    <3>2. \A i \in 1 .. b - latest : latest + 1 + i - 1 = latest + i
      BY <1>0, <2>3
    <3>. QED
      BY <1>0, <2>3, <3>1, <3>2
  <2>5. Len(batch') = b - latest /\ \A i \in DOMAIN batch' : batch'[i] = log'[head' - Len(batch') + i]
    BY <1>0, <2>1, <2>2, <2>3, <2>4
  <2>6. Handled' = Handled
    BY <1>0, <2>1, <2>2, <2>3, <2>5 DEF Handled
  <2>7. committed = latest
    BY <2>2, HandledFacts
  <2>8. head' <= fetched' /\ latest' <= head' - Len(batch') /\ latest' <= fetched' /\ fetched' <= Len(log')
    BY <1>0, <2>1, <2>2, <2>3, <2>5 DEF LoopInv
  <2>. QED
    BY <2>2, <2>5, <2>6, <2>7, <2>8 DEF LoopInv
\* The first event of the batch is done.
<1>7. ASSUME pc # "poll", pc' # "poll", batch # <<>>, batch' = Tail(batch),
             UNCHANGED <<log, head, latest, fetched, committed>>, committed = latest
      PROVE  LoopInv' /\ Handled' = Handled + 1
  <2>1. /\ Len(batch') = Len(batch) - 1
        /\ \A i \in DOMAIN batch' : i + 1 \in DOMAIN batch /\ batch'[i] = batch[i + 1]
    BY <1>7, BatchType
  <2>2. Handled' = Handled + 1
    BY <1>0, <1>7, <2>1 DEF Handled
  <2>3. \A i \in DOMAIN batch' : batch'[i] = log'[head' - Len(batch') + i]
    <3>1. \A i \in DOMAIN batch' : batch'[i] = log[head - Len(batch) + (i + 1)]
      BY <1>7, <2>1 DEF LoopInv
    <3>2. \A i \in DOMAIN batch' : head - Len(batch) + (i + 1) = head' - Len(batch') + i
      BY <1>0, <1>7, <2>1
    <3>. QED
      BY <1>7, <3>1, <3>2
  <2>4. latest' <= head' - Len(batch')
    BY <1>0, <1>7, <2>1 DEF LoopInv
  <2>. QED
    BY <1>7, <2>2, <2>3, <2>4 DEF LoopInv
<1>8. CASE TokenNetworkCreated
  BY <1>7, <1>8, HandledFacts DEF TokenNetworkCreated, NextEvent
<1>9. CASE PopDone
  <2>1. batch # <<>>
    BY <1>9 DEF PopDone, TypeOK, MemoryTypeOK
  <2>. QED
    BY <1>7, <1>9, <2>1, HandledFacts DEF PopDone
<1>10. CASE ChannelRemoved
  BY <1>7, <1>10, HandledFacts DEF ChannelRemoved, NextEvent
<1>11. CASE ChannelOpened \/ SelectWaitingMessages
  <2>1. /\ pc # "poll" /\ pc' # "poll" /\ writes = <<>>
        /\ UNCHANGED <<log, head, latest, fetched, committed, batch>>
    BY <1>11 DEF ChannelOpened, SelectWaitingMessages, NextEvent
  <2>2. Handled' = Handled
    BY <2>1 DEF Handled
  <2>3. committed = latest
    BY <2>1, HandledFacts
  <2>. QED
    BY <2>1, <2>2, <2>3 DEF LoopInv
<1>12. CASE UpdatedHeadBlock
  <2>1. /\ pc = "handle" /\ pc' = "poll" /\ batch = <<>> /\ batch' = <<>> /\ writes = <<>>
        /\ latest' = head /\ writes' = <<UpdateLatestCommittedBlock(latest')>>
        /\ UNCHANGED <<log, head, fetched, committed>>
    BY <1>12 DEF UpdatedHeadBlock
  <2>2. Len(batch) = 0
    BY <2>1
  <2>3. Handled' = Handled
    BY <1>0, <2>1, <2>2 DEF Handled
  <2>4. committed <= head /\ head <= fetched /\ fetched <= Len(log)
    BY <1>0, <2>1, <2>2, HandledFacts DEF LoopInv
  <2>. QED
    BY <2>1, <2>3, <2>4 DEF LoopInv
<1>13. CASE Restarting
  <2>1. /\ pc' = "poll" /\ batch' = <<>> /\ latest' = committed
        /\ UNCHANGED <<log, fetched, committed>>
    BY <1>13 DEF Restarting, Restart
  <2>2. Handled' = committed
    BY <2>1 DEF Handled
  <2>3. committed <= fetched /\ fetched <= Len(log)
    BY <1>0, HandledFacts
  <2>. QED
    BY <1>13, <2>1, <2>2, <2>3 DEF LoopInv
<1>. QED
  BY <1>2, <1>3, <1>4, <1>5, <1>6, <1>8, <1>9, <1>10, <1>11, <1>12, <1>13, Kinds

------------------------------------------------------------------------------
(* The statements.                                                         *)

\* What each statement says.
LEMMA StatementFields ==
    /\ UpsertTokenNetwork.op = "token_network"
    /\ \A r : UpsertChannel(r).op = "channel" /\ UpsertChannel(r).row = r
    /\ \A m : UpsertCapacityUpdate(m).op = "capacity_update" /\ UpsertCapacityUpdate(m).msg = m
    /\ \A m : InsertWaitingMessage(m).op = "wait" /\ InsertWaitingMessage(m).msg = m
    /\ \A c : DeleteWaitingMessages(c).op = "delete" /\ DeleteWaitingMessages(c).ch = c
    /\ \A b : UpdateLatestCommittedBlock(b).op = "head" /\ UpdateLatestCommittedBlock(b).block = b
BY DEF UpsertTokenNetwork, UpsertChannel, UpsertCapacityUpdate, InsertWaitingMessage,
       DeleteWaitingMessages, UpdateLatestCommittedBlock

\* The three kinds of events of a channel.
LEMMA EventIs ==
    ASSUME NEW e \in Events
    PROVE  /\ e.type = "opened" => e = Opened(e.ch)
           /\ e.type = "closed" => e = Closed(e.ch)
           /\ e.type = "settled" => e = Settled(e.ch)
BY DEF Events, Opened, Closed, Settled

\* Events of different channels or of different types differ.
LEMMA EventsDiffer ==
    ASSUME NEW c, NEW d
    PROVE  /\ Opened(c) = Opened(d) => c = d
           /\ Closed(c) = Closed(d) => c = d
           /\ Opened(c) # Closed(d) /\ Opened(c) # Settled(d) /\ Closed(c) # Settled(d)
           /\ Opened(c).ch = c /\ Closed(c).ch = c /\ Settled(c).ch = c
           /\ Opened(c).type = "opened" /\ Closed(c).type = "closed" /\ Settled(c).type = "settled"
<1>1. /\ Opened(c).type = "opened" /\ Opened(c).ch = c /\ Opened(d).ch = d
      /\ Closed(c).type = "closed" /\ Closed(c).ch = c /\ Closed(d).ch = d /\ Closed(d).type = "closed"
      /\ Settled(d).type = "settled" /\ Settled(c).ch = c /\ Settled(c).type = "settled"
  BY DEF Opened, Closed, Settled
<1>. QED
  BY <1>1

\* Every step keeps what holds of the statements under way.
LEMMA WritesStep ==
    ASSUME TypeOK, TypeOK', LoopInv, LoopInv', WritesInv, TableInv, OpeningInv, [Next]_vars
    PROVE  WritesInv'
<1>. USE DEF dbvars, loopvars, hvars, EventVars
<1>0. ASSUME writes' = <<>>
      PROVE  WritesInv'
  BY <1>0, EmptySeq DEF WritesInv
\* One statement is left.
<1>1. ASSUME NEW w \in Writes, writes' = <<w>>,
             /\ w.op = "channel" => graph'[PairOf[w.row.ch]] = w.row
             /\ w.op = "capacity_update" => w.msg \in received'
             /\ w.op = "wait" => w.msg.ch \notin ids'
             /\ w.op = "delete" => pc' = "handle" /\ Handled' > latest' /\ log'[Handled'] = Opened(w.ch)
             /\ w.op = "head" => pc' = "poll" /\ w.block = latest'
      PROVE  WritesInv'
  <2>1. Len(writes') = 1 /\ DOMAIN writes' = {1} /\ writes'[1] = w
    BY <1>1, Singleton
  <2>. QED
    BY <1>1, <2>1 DEF WritesInv
<1>2. CASE Idling
  <2>1. Handled' = Handled
    BY <1>2 DEF Idling, Handled
  <2>. QED
    BY <1>2, <2>1 DEF Idling, WritesInv
<1>3. ASSUME NEW e \in Events, ChainEvent(e)
      PROVE  WritesInv'
  BY <1>0, <1>3 DEF ChainEvent
<1>4. CASE ExecuteStatement
  <2>. DEFINE w == Head(writes)
  <2>1. /\ w = writes[1] /\ w \in Writes /\ 1 \in DOMAIN writes
        /\ writes' \in Seq(Writes) /\ Len(writes') = Len(writes) - 1
        /\ \A i \in DOMAIN writes' : i + 1 \in DOMAIN writes /\ writes'[i] = writes[i + 1]
        /\ w.op \notin {"channel", "capacity_update"} => writes' = <<>>
        /\ w.op = "channel" => writes' = <<>>
        /\ UNCHANGED <<log, ids, graph, latest, pc, head, batch, received>>
    BY <1>4, StatementEffect
  <2>2. CASE w.op # "capacity_update"
    BY <1>0, <2>1, <2>2
  <2>3. CASE w.op = "capacity_update"
    <3>. SUFFICES ASSUME NEW i \in DOMAIN writes'
                  PROVE  LET v == writes'[i] IN
                         /\ v.op \in {"channel", "capacity_update"}
                         /\ v.op = "channel" => i = Len(writes') /\ graph'[PairOf[v.row.ch]] = v.row
                         /\ v.op = "capacity_update" => v.msg \in received'
      BY DEF WritesInv
    <3>1. /\ i \in 1 .. Len(writes') /\ i + 1 \in DOMAIN writes /\ writes'[i] = writes[i + 1]
          /\ Len(writes') \in Nat /\ Len(writes) \in Nat
      BY <2>1 DEF TypeOK, MemoryTypeOK
    <3>2. Len(writes) # 1
      BY <2>1, <3>1
    <3>. QED
      BY <2>1, <3>1, <3>2 DEF WritesInv
  <2>. QED
    BY <2>2, <2>3
<1>5. ASSUME NEW m \in Msgs, MessageStep(m)
      PROVE  WritesInv'
  <2>1. ids' = ids
    BY <1>5 DEF MessageStep
  <2>2. CASE Dropped
    BY <1>0, <2>2 DEF Dropped
  <2>3. CASE PutAside(m)
    BY <1>1, <2>1, <2>3, StatementFields, WriteTypes DEF PutAside
  <2>4. CASE SavedOnly(m)
    BY <1>1, <2>4, StatementFields, WriteTypes DEF SavedOnly
  <2>5. ASSUME NEW r \in ChannelRecords, Applied(m, r)
        PROVE  WritesInv'
    <3>1. graph'[PairOf[r.ch]] = r
      <4>1. PairOf[m.ch] \in Pairs /\ graph[PairOf[m.ch]] # NoChannel /\ r.ch = graph[PairOf[m.ch]].ch
        BY <2>5, MessageType, Pair DEF Applied
      <4>2. PairOf[r.ch] = PairOf[m.ch]
        BY <4>1 DEF TableInv
      <4>. QED
        BY <2>5, <4>1, <4>2 DEF Applied, TypeOK, MemoryTypeOK
    <3>2. CASE writes' = <<UpsertChannel(r)>>
      BY <1>1, <3>1, <3>2, StatementFields, WriteTypes
    <3>3. CASE /\ m \in CapacityUpdates /\ received' = received \cup {m}
               /\ writes' = <<UpsertCapacityUpdate(m), UpsertChannel(r)>>
      <4>1. /\ Len(writes') = 2 /\ DOMAIN writes' = {1, 2}
            /\ writes'[1] = UpsertCapacityUpdate(m) /\ writes'[2] = UpsertChannel(r)
        BY <3>3, WriteTypes, Two
      <4>. QED
        BY <3>1, <3>3, <4>1, StatementFields DEF WritesInv
    <3>. QED
      BY <2>5, <3>2, <3>3 DEF Applied
  <2>. QED
    BY <1>5, <2>2, <2>3, <2>4, <2>5 DEF MessageStep
<1>6. CASE GetBlockchainEvents \/ SelectWaitingMessages \/ ChannelRemoved
  BY <1>0, <1>6 DEF GetBlockchainEvents, SelectWaitingMessages, ChannelRemoved, NextEvent
<1>7. CASE TokenNetworkCreated
  BY <1>0, <1>1, <1>7, StatementFields, WriteTypes DEF TokenNetworkCreated
<1>8. CASE ChannelOpened
  <2>. DEFINE c == Head(batch).ch
  <2>1. c \in Channels /\ PairOf[c] \in Pairs
    BY <1>8, BatchType DEF ChannelOpened, NextEvent
  <2>2. FreshChannel(c) \in ChannelRecords /\ FreshChannel(c).ch = c
    BY <2>1, FreshType
  <2>3. graph'[PairOf[c]] = FreshChannel(c) /\ writes' = <<UpsertChannel(FreshChannel(c))>>
    BY <1>8, <2>1 DEF ChannelOpened, TypeOK, MemoryTypeOK
  <2>. QED
    BY <1>1, <2>2, <2>3, StatementFields, WriteTypes
<1>9. CASE PopDone
  <2>. DEFINE c == Head(batch).ch
  <2>1. batch # <<>> /\ Head(batch).type = "opened" /\ pc # "poll"
    BY <1>9 DEF PopDone, TypeOK, MemoryTypeOK
  <2>2. Head(batch) = Opened(c) /\ c \in Channels /\ log[Handled + 1] = Head(batch)
    BY <2>1, BatchType, EventIs, HandledFacts
  <2>3. Handled' = Handled + 1 /\ latest <= Handled /\ latest \in Nat /\ Handled \in Nat
    <3>1. head \in Nat /\ Len(batch) \in Nat /\ Len(batch') = Len(batch) - 1
      BY <1>9, <2>1, BatchType DEF PopDone, TypeOK, MemoryTypeOK
    <3>2. Handled' = Handled + 1
      BY <1>9, <2>1, <3>1 DEF Handled, PopDone
    <3>. QED
      BY <3>2, HandledFacts DEF TypeOK, MemoryTypeOK
  <2>4. writes' = <<DeleteWaitingMessages(c)>> /\ pc' = "handle" /\ latest' = latest /\ log' = log
    BY <1>9 DEF PopDone
  <2>5. Handled' > latest' /\ log'[Handled'] = Opened(c)
    BY <2>2, <2>3, <2>4
  <2>. QED
    BY <1>1, <2>2, <2>4, <2>5, StatementFields, WriteTypes
<1>10. CASE UpdatedHeadBlock
  <2>1. /\ pc' = "poll" /\ latest' = head /\ head \in Nat
        /\ writes' = <<UpdateLatestCommittedBlock(head)>>
    BY <1>10 DEF UpdatedHeadBlock, TypeOK, MemoryTypeOK
  <2>. QED
    BY <1>1, <2>1, StatementFields, WriteTypes
<1>11. CASE Restarting
  BY <1>0, <1>11 DEF Restarting, Restart
<1>. QED
  BY <1>2, <1>3, <1>4, <1>5, <1>6, <1>7, <1>8, <1>9, <1>10, <1>11, Kinds

------------------------------------------------------------------------------
(* The table and the graph.                                                *)

\* The channels that are about to be saved.
LEMMA Pending ==
    /\ writes = <<>> => \A p : ~SavePending(p)
    /\ writes' = <<>> => \A p : ~SavePending(p)'
    /\ \A w \in Writes : writes' = <<w>> =>
           \A p : SavePending(p)' <=> w.op = "channel" /\ PairOf[w.row.ch] = p
    /\ \A v, w \in Writes : writes' = <<v, w>> /\ v.op # "channel" =>
           \A p : SavePending(p)' <=> w.op = "channel" /\ PairOf[w.row.ch] = p
<1>1. /\ writes = <<>> => \A p : ~SavePending(p)
      /\ writes' = <<>> => \A p : ~SavePending(p)'
  BY EmptySeq DEF SavePending
<1>2. ASSUME NEW w \in Writes, writes' = <<w>>, NEW p
      PROVE  SavePending(p)' <=> w.op = "channel" /\ PairOf[w.row.ch] = p
  <2>1. DOMAIN writes' = {1} /\ writes'[1] = w
    BY <1>2, Singleton
  <2>. QED
    BY <2>1 DEF SavePending
<1>3. ASSUME NEW v \in Writes, NEW w \in Writes, writes' = <<v, w>>, v.op # "channel", NEW p
      PROVE  SavePending(p)' <=> w.op = "channel" /\ PairOf[w.row.ch] = p
  <2>1. DOMAIN writes' = {1, 2} /\ writes'[1] = v /\ writes'[2] = w
    BY <1>3, Two
  <2>. QED
    BY <1>3, <2>1 DEF SavePending
<1>. QED
  BY <1>1, <1>2, <1>3

\* A message changes at most the object of its pair of nodes, which is then
\* about to be saved.
LEMMA AppliedPending ==
    ASSUME TypeOK, TableInv, NEW m \in Msgs, NEW r \in ChannelRecords, Applied(m, r)
    PROVE  LET P == PairOf[m.ch] IN
           /\ P \in Pairs /\ PairOf[r.ch] = P /\ r.ch = graph[P].ch /\ r.ch \in ids
           /\ graph'[P] = r /\ r # NoChannel
           /\ \A p \in Pairs \ {P} : graph'[p] = graph[p]
           /\ \A p : SavePending(p)' <=> p = P
<1>. DEFINE P == PairOf[m.ch]
<1>1. P \in Pairs /\ graph[P] # NoChannel /\ r.ch = graph[P].ch /\ graph' = [graph EXCEPT ![P] = r]
  BY MessageType, Pair DEF Applied
<1>2. PairOf[r.ch] = P /\ r.ch \in ids
  BY <1>1 DEF TableInv
<1>3. graph'[P] = r /\ \A p \in Pairs \ {P} : graph'[p] = graph[p]
  BY <1>1 DEF TypeOK, MemoryTypeOK
<1>4. \A p : SavePending(p)' <=> p = P
  <2>1. UpsertChannel(r) \in Writes /\ UpsertChannel(r).op = "channel" /\ UpsertChannel(r).row = r
    BY WriteTypes, StatementFields
  <2>2. CASE writes' = <<UpsertChannel(r)>>
    BY <1>2, <2>1, <2>2, Pending
  <2>3. CASE m \in CapacityUpdates /\ writes' = <<UpsertCapacityUpdate(m), UpsertChannel(r)>>
    <3>1. UpsertCapacityUpdate(m) \in Writes /\ UpsertCapacityUpdate(m).op # "channel"
      BY <2>3, WriteTypes, StatementFields
    <3>. QED
      BY <1>2, <2>1, <2>3, <3>1, Pending
  <2>. QED
    BY <2>2, <2>3 DEF Applied
<1>. QED
  BY <1>1, <1>2, <1>3, <1>4, RecordFields

\* The first statement is executed: the others are still to be.
LEMMA ExecutedPending ==
    ASSUME TypeOK, WritesInv, ExecuteStatement
    PROVE  /\ Head(writes).op = "channel" => \A p : ~SavePending(p)'
           /\ Head(writes).op # "channel" => \A p : SavePending(p)' <=> SavePending(p)
<1>. DEFINE w == Head(writes)
<1>1. /\ w = writes[1] /\ w \in Writes /\ 1 \in DOMAIN writes
      /\ writes' \in Seq(Writes) /\ Len(writes') = Len(writes) - 1
      /\ \A i \in DOMAIN writes' : i + 1 \in DOMAIN writes /\ writes'[i] = writes[i + 1]
      /\ w.op = "channel" => writes' = <<>>
  BY StatementEffect
<1>2. w.op = "channel" => \A p : ~SavePending(p)'
  BY <1>1, Pending
<1>3. ASSUME w.op # "channel", NEW p
      PROVE  SavePending(p)' <=> SavePending(p)
  <2>1. SavePending(p)' => SavePending(p)
    BY <1>1 DEF SavePending
  <2>2. ASSUME SavePending(p)
        PROVE  SavePending(p)'
    <3>1. PICK i \in DOMAIN writes : writes[i].op = "channel" /\ PairOf[writes[i].row.ch] = p
      BY <2>2 DEF SavePending
    <3>2. DOMAIN writes = 1 .. Len(writes) /\ DOMAIN writes' = 1 .. Len(writes') /\ Len(writes) \in Nat
      BY <1>1 DEF TypeOK, MemoryTypeOK
    <3>3. i # 1
      BY <1>1, <1>3, <3>1
    <3>4. i - 1 \in DOMAIN writes' /\ (i - 1) + 1 = i
      BY <1>1, <3>1, <3>2, <3>3
    <3>5. writes'[i - 1] = writes[i]
      BY <1>1, <3>4
    <3>. QED
      BY <3>1, <3>4, <3>5 DEF SavePending
  <2>. QED
    BY <2>1, <2>2
<1>. QED
  BY <1>2, <1>3

\* SaveChannel, once its statement is known.
LEMMA SavedRow ==
    ASSUME TypeOK, WritesInv, ExecuteStatement, Head(writes).op = "channel"
    PROVE  LET r == Head(writes).row IN
           /\ r \in ChannelRecords /\ r.ch \in Channels /\ graph[PairOf[r.ch]] = r
           /\ channel'[r.ch] = r
           /\ \A c \in Channels : c # r.ch /\ PairOf[c] = PairOf[r.ch] => channel'[c] = NoChannel
           /\ \A c \in Channels : PairOf[c] # PairOf[r.ch] => channel'[c] = channel[c]
           /\ r.ch \in Rows' /\ SavePending(PairOf[r.ch])
<1>. DEFINE r == Head(writes).row
<1>1. Head(writes) = writes[1] /\ Head(writes) \in Writes /\ 1 \in DOMAIN writes
  BY StatementEffect
<1>2. r \in ChannelRecords /\ r.ch \in Channels /\ graph[PairOf[r.ch]] = r /\ r # NoChannel
  BY <1>1, WriteFields, RecordFields DEF WritesInv
<1>3. channel' = [c \in Channels |-> IF c = r.ch THEN r
                                     ELSE IF PairOf[c] = PairOf[r.ch] THEN NoChannel
                                     ELSE channel[c]]
  BY DEF ExecuteStatement, SaveTokenNetwork, SaveChannel, SaveCapacityUpdate, SaveWaitingMessage,
         DeletePoppedMessages, SaveCommittedBlock, Statement
<1>4. SavePending(PairOf[r.ch])
  BY <1>1 DEF SavePending
<1>. HIDE DEF r
<1>. QED
  BY <1>2, <1>3, <1>4 DEF Rows, r

\* What a restart loads.
LEMMA LoadedRow ==
    ASSUME TypeOK, TableInv, NEW p \in Pairs
    PROVE  /\ \A c \in Rows : PairOf[c] = p => Loaded(p) = channel[c]
           /\ Loaded(p) # NoChannel => /\ Loaded(p).ch \in Rows /\ PairOf[Loaded(p).ch] = p
                                       /\ Loaded(p) = channel[Loaded(p).ch]
<1>. DEFINE d == CHOOSE c \in Rows : PairOf[c] = p
<1>1. ASSUME NEW c \in Rows, PairOf[c] = p
      PROVE  d = c /\ Loaded(p) = channel[c]
  <2>1. d \in Rows /\ PairOf[d] = p
    BY <1>1
  <2>2. d = c
    BY <1>1, <2>1 DEF TableInv
  <2>. QED
    BY <1>1, <2>2 DEF Loaded
<1>2. ASSUME Loaded(p) # NoChannel
      PROVE  /\ Loaded(p).ch \in Rows /\ PairOf[Loaded(p).ch] = p
             /\ Loaded(p) = channel[Loaded(p).ch]
  <2>1. PICK c \in Rows : PairOf[c] = p
    BY <1>2 DEF Loaded
  <2>2. Loaded(p) = channel[c] /\ channel[c].ch = c
    BY <1>1, <2>1 DEF TableInv
  <2>. QED
    BY <2>1, <2>2
<1>. QED
  BY <1>1, <1>2

\* ChannelRemoved takes the row, the identifier and the object, or nothing.
LEMMA Removal ==
    ASSUME TypeOK, TableInv, ChannelRemoved
    PROVE  LET c == Head(batch).ch
               P == PairOf[c]
           IN  /\ c \in Channels /\ P \in Pairs /\ writes = <<>> /\ writes' = <<>>
               /\ pc = "handle" /\ pc' = "handle" /\ batch # <<>> /\ batch' = Tail(batch)
               /\ UNCHANGED <<log, latest, fetched, committed, received, capacity_update,
                              waiting_message, todo>>
               /\ Rows' = Rows \ {c} /\ \A d \in Rows' : channel'[d] = channel[d]
               /\ c \in Rows => /\ ids' = ids \ {c} /\ graph'[P] = NoChannel
                                /\ \A p \in Pairs \ {P} : graph'[p] = graph[p]
               /\ c \notin Rows => ids' = ids /\ graph' = graph
<1>. DEFINE c == Head(batch).ch
            P == PairOf[c]
<1>1. c \in Channels /\ P \in Pairs
  BY BatchType DEF ChannelRemoved, NextEvent
<1>2. /\ writes = <<>> /\ writes' = <<>> /\ pc = "handle" /\ pc' = "handle"
      /\ batch # <<>> /\ batch' = Tail(batch)
      /\ UNCHANGED <<log, latest, fetched, committed, received, capacity_update, waiting_message, todo>>
  BY DEF ChannelRemoved, NextEvent, EventVars, hvars
<1>3. CASE channel[c] # NoChannel
  <2>1. /\ channel' = [channel EXCEPT ![c] = NoChannel] /\ ids' = ids \ {c}
        /\ graph' = [graph EXCEPT ![P] = NoChannel]
    BY <1>3 DEF ChannelRemoved
  <2>2. c \in Rows /\ Rows' = Rows \ {c} /\ \A d \in Rows' : channel'[d] = channel[d]
    BY <1>1, <1>3, <2>1 DEF Rows, TypeOK, DatabaseTypeOK
  <2>3. graph'[P] = NoChannel /\ \A p \in Pairs \ {P} : graph'[p] = graph[p]
    BY <1>1, <2>1 DEF TypeOK, MemoryTypeOK
  <2>. QED
    BY <1>1, <1>2, <2>1, <2>2, <2>3
<1>4. CASE channel[c] = NoChannel
  <2>1. UNCHANGED <<channel, ids, graph>>
    BY <1>4 DEF ChannelRemoved
  <2>2. c \notin Rows /\ Rows' = Rows
    BY <1>4, <2>1 DEF Rows
  <2>. QED
    BY <1>1, <1>2, <2>1, <2>2
<1>. QED
  BY <1>3, <1>4

\* ChannelOpened puts a fresh object into the graph.
LEMMA Fresh ==
    ASSUME TypeOK, ChannelOpened
    PROVE  LET c == Head(batch).ch
               P == PairOf[c]
           IN  /\ c \in Channels /\ P \in Pairs /\ writes = <<>>
               /\ writes' = <<UpsertChannel(FreshChannel(c))>>
               /\ pc = "handle" /\ pc' = "select" /\ batch # <<>> /\ batch' = batch
               /\ Head(batch) = Opened(c)
               /\ UNCHANGED <<log, latest, fetched, committed, received, capacity_update,
                              waiting_message, channel, todo>>
               /\ Rows' = Rows /\ ids' = ids \cup {c}
               /\ graph'[P] = FreshChannel(c) /\ FreshChannel(c).ch = c
               /\ FreshChannel(c) \in ChannelRecords /\ FreshChannel(c) # NoChannel
               /\ \A p \in Pairs \ {P} : graph'[p] = graph[p]
               /\ \A p : SavePending(p)' <=> p = P
<1>. DEFINE c == Head(batch).ch
            P == PairOf[c]
<1>1. c \in Channels /\ P \in Pairs /\ Head(batch) = Opened(c)
  BY BatchType, EventIs DEF ChannelOpened, NextEvent
<1>2. /\ writes = <<>> /\ pc = "handle" /\ pc' = "select"
      /\ writes' = <<UpsertChannel(FreshChannel(c))>>
      /\ batch # <<>> /\ batch' = batch /\ Rows' = Rows /\ ids' = ids \cup {c}
      /\ graph' = [graph EXCEPT ![P] = FreshChannel(c)]
      /\ UNCHANGED <<log, latest, fetched, committed, received, capacity_update, waiting_message,
                     channel, todo>>
  BY DEF ChannelOpened, NextEvent, EventVars, hvars, Rows
<1>3. FreshChannel(c) \in ChannelRecords /\ FreshChannel(c) # NoChannel /\ FreshChannel(c).ch = c
  BY <1>1, FreshType, RecordFields
<1>4. graph'[P] = FreshChannel(c) /\ \A p \in Pairs \ {P} : graph'[p] = graph[p]
  BY <1>1, <1>2 DEF TypeOK, MemoryTypeOK
<1>5. \A p : SavePending(p)' <=> p = P
  BY <1>2, <1>3, Pending, WriteTypes, StatementFields
<1>. QED
  BY <1>1, <1>2, <1>3, <1>4, <1>5

\* Steps that leave the table channel, the graph, and what is about to be saved.
Quiet ==
    /\ UNCHANGED <<channel, ids, graph>>
    /\ \A p : SavePending(p)' <=> SavePending(p)

\* The steps that change the graph or the rows of channels.
LEMMA QuietOrNot ==
    ASSUME TypeOK, WritesInv, TableInv, OpeningInv, [Next]_vars
    PROVE  \/ Quiet
           \/ ExecuteStatement /\ Head(writes).op = "channel"
           \/ \E m \in Msgs, r \in ChannelRecords : MessageStep(m) /\ Applied(m, r)
           \/ ChannelOpened \/ ChannelRemoved \/ Restarting
<1>. USE DEF dbvars, loopvars, hvars, EventVars
<1>1. Idling => Quiet
  BY DEF Idling, Quiet, SavePending
<1>2. ASSUME writes = <<>>, NEW w \in Writes, w.op # "channel",
             writes' = <<>> \/ writes' = <<w>>, UNCHANGED <<channel, ids, graph>>
      PROVE  Quiet
  BY <1>2, Pending DEF Quiet
<1>3. UpsertTokenNetwork \in Writes /\ UpsertTokenNetwork.op # "channel"
  BY WriteTypes, StatementFields
<1>4. ASSUME NEW e \in Events, ChainEvent(e)
      PROVE  Quiet
  BY <1>2, <1>3, <1>4 DEF ChainEvent
<1>5. ASSUME ExecuteStatement, Head(writes).op # "channel"
      PROVE  Quiet
  BY <1>5, ExecutedPending, StatementEffect DEF Quiet
<1>6. ASSUME NEW m \in Msgs, MessageStep(m)
      PROVE  Quiet \/ \E r \in ChannelRecords : Applied(m, r)
  <2>1. writes = <<>> /\ UNCHANGED <<channel, ids>>
    BY <1>6 DEF MessageStep
  <2>2. Dropped => Quiet
    BY <1>2, <1>3, <2>1 DEF Dropped
  <2>3. PutAside(m) => Quiet
    BY <1>2, <2>1, WriteTypes, StatementFields DEF PutAside
  <2>4. SavedOnly(m) => Quiet
    BY <1>2, <2>1, WriteTypes, StatementFields DEF SavedOnly
  <2>. QED
    BY <1>6, <2>2, <2>3, <2>4 DEF MessageStep
<1>7. GetBlockchainEvents \/ SelectWaitingMessages \/ TokenNetworkCreated => Quiet
  BY <1>2, <1>3 DEF GetBlockchainEvents, SelectWaitingMessages, TokenNetworkCreated, NextEvent
<1>8. PopDone => Quiet
  <2>1. PopDone => Head(batch).ch \in Channels
    BY BatchType DEF PopDone, TypeOK, MemoryTypeOK
  <2>. QED
    BY <1>2, <2>1, WriteTypes, StatementFields DEF PopDone
<1>9. UpdatedHeadBlock => Quiet
  BY <1>2, WriteTypes, StatementFields DEF UpdatedHeadBlock, TypeOK, MemoryTypeOK
<1>. QED
  BY <1>1, <1>4, <1>5, <1>6, <1>7, <1>8, <1>9, Kinds

\* Every step keeps what holds of the graph and the rows.
LEMMA TableStep ==
    ASSUME TypeOK, TypeOK', WritesInv, TableInv, OpeningInv, [Next]_vars
    PROVE  TableInv'
<1>0. /\ Rows \subseteq Channels /\ Rows' \subseteq Channels
      /\ \A c \in Channels : PairOf[c] \in Pairs
      /\ \A c \in Channels : c \in Rows <=> channel[c] # NoChannel
      /\ \A c \in Channels : c \in Rows' <=> channel'[c] # NoChannel
  BY Pair DEF Rows
<1>1. CASE Quiet
  BY <1>1 DEF Quiet, TableInv, Rows
<1>2. CASE ExecuteStatement /\ Head(writes).op = "channel"
  <2>. DEFINE r == Head(writes).row
              P == PairOf[r.ch]
  <2>1. /\ r \in ChannelRecords /\ r.ch \in Channels /\ graph[P] = r /\ channel'[r.ch] = r
        /\ \A c \in Channels : c # r.ch /\ PairOf[c] = P => channel'[c] = NoChannel
        /\ \A c \in Channels : PairOf[c] # P => channel'[c] = channel[c]
        /\ r.ch \in Rows'
    BY <1>2, SavedRow
  <2>2. UNCHANGED <<ids, graph>> /\ \A p : ~SavePending(p)'
    BY <1>2, StatementEffect, ExecutedPending
  <2>3. \A p \in Pairs \ {P} : ~SavePending(p)
    <3>. SUFFICES ASSUME NEW p \in Pairs, SavePending(p)
                  PROVE  p = P
      OBVIOUS
    <3>1. PICK i \in DOMAIN writes : writes[i].op = "channel" /\ PairOf[writes[i].row.ch] = p
      BY DEF SavePending
    <3>2. Head(writes) = writes[1] /\ 1 \in DOMAIN writes
      BY <1>2, StatementEffect
    <3>3. i = Len(writes) /\ 1 = Len(writes)
      BY <1>2, <3>1, <3>2 DEF WritesInv
    <3>. QED
      BY <3>1, <3>2, <3>3
  <2>. HIDE DEF r, P
  <2>4. P \in Pairs /\ r # NoChannel
    BY <1>0, <2>1, RecordFields DEF P
  <2>5. \A c \in Rows' : c = r.ch \/ (c \in Rows /\ PairOf[c] # P /\ channel'[c] = channel[c])
    BY <1>0, <2>1
  <2>6. r.ch \in ids
    BY <2>1, <2>4 DEF TableInv
  <2>7. \A c \in Rows' : channel'[c].ch = c /\ c \in ids'
    BY <2>1, <2>2, <2>5, <2>6 DEF TableInv
  <2>8. \A c, d \in Rows' : PairOf[c] = PairOf[d] => c = d
    BY <2>5 DEF TableInv, P
  <2>9. \A c \in Rows' : graph'[PairOf[c]] = channel'[c]
    BY <1>0, <2>1, <2>2, <2>3, <2>5 DEF TableInv, P
  <2>10. ASSUME NEW p \in Pairs, graph'[p] # NoChannel
         PROVE  PairOf[graph'[p].ch] = p /\ graph'[p].ch \in ids' /\ graph'[p].ch \in Rows'
    <3>1. PairOf[graph[p].ch] = p /\ graph[p].ch \in ids /\ (graph[p].ch \in Rows \/ SavePending(p))
      BY <2>2, <2>10 DEF TableInv
    <3>2. CASE p = P
      BY <2>1, <2>2, <3>1, <3>2
    <3>3. CASE p # P
      BY <1>0, <2>1, <2>2, <2>3, <3>1, <3>3
    <3>. QED
      BY <3>2, <3>3
  <2>. QED
    BY <2>7, <2>8, <2>9, <2>10 DEF TableInv
<1>3. ASSUME NEW m \in Msgs, NEW r \in ChannelRecords, MessageStep(m), Applied(m, r)
      PROVE  TableInv'
  <2>. DEFINE P == PairOf[m.ch]
  <2>1. /\ P \in Pairs /\ PairOf[r.ch] = P /\ r.ch \in ids /\ graph'[P] = r
        /\ \A p \in Pairs \ {P} : graph'[p] = graph[p]
        /\ \A p : SavePending(p)' <=> p = P
    BY <1>3, AppliedPending
  <2>2. UNCHANGED <<channel, ids>> /\ Rows' = Rows /\ \A p : ~SavePending(p)
    BY <1>3, Pending DEF MessageStep, dbvars, Rows
  <2>. HIDE DEF P
  <2>. QED
    BY <1>0, <2>1, <2>2 DEF TableInv
<1>4. CASE ChannelOpened
  <2>. DEFINE c == Head(batch).ch
              P == PairOf[c]
  <2>1. /\ c \in Channels /\ P \in Pairs /\ Rows' = Rows /\ channel' = channel /\ ids' = ids \cup {c}
        /\ graph'[P] = FreshChannel(c) /\ FreshChannel(c).ch = c
        /\ \A p \in Pairs \ {P} : graph'[p] = graph[p]
        /\ \A p : SavePending(p)' <=> p = P
    BY <1>4, Fresh
  <2>2. \A p : ~SavePending(p)
    BY <1>4, Pending, Fresh
  <2>3. PairOf[FreshChannel(c).ch] = P
    BY <2>1
  <2>. HIDE DEF P, c
  <2>. QED
    BY <1>0, <2>1, <2>2, <2>3 DEF TableInv
<1>5. CASE ChannelRemoved
  <2>. DEFINE c == Head(batch).ch
              P == PairOf[c]
  <2>1. /\ c \in Channels /\ P \in Pairs /\ Rows' = Rows \ {c} /\ \A d \in Rows' : channel'[d] = channel[d]
        /\ c \in Rows => /\ ids' = ids \ {c} /\ graph'[P] = NoChannel
                         /\ \A p \in Pairs \ {P} : graph'[p] = graph[p]
        /\ c \notin Rows => ids' = ids /\ graph' = graph
        /\ writes = <<>> /\ writes' = <<>>
    BY <1>5, Removal
  <2>2. \A p : ~SavePending(p) /\ ~SavePending(p)'
    BY <2>1, Pending
  <2>3. P = PairOf[c]
    OBVIOUS
  <2>. HIDE DEF P, c
  <2>4. CASE c \notin Rows
    BY <1>0, <2>1, <2>2, <2>4 DEF TableInv
  <2>5. CASE c \in Rows
    <3>1. \A d \in Rows' : d \in Rows /\ d # c /\ PairOf[d] # P
      BY <2>1, <2>3, <2>5 DEF TableInv
    <3>. QED
      BY <1>0, <2>1, <2>2, <2>3, <2>5, <3>1 DEF TableInv
  <2>. QED
    BY <2>4, <2>5
<1>6. CASE Restarting
  <2>1. channel' = channel /\ Rows' = Rows /\ ids' = Rows /\ graph' = [p \in Pairs |-> Loaded(p)]
    BY <1>6 DEF Restarting, Restart, dbvars, Rows
  <2>2. \A c \in Rows : graph'[PairOf[c]] = channel[c]
    BY <1>0, <2>1, LoadedRow
  <2>3. \A p \in Pairs : graph'[p] # NoChannel => PairOf[graph'[p].ch] = p /\ graph'[p].ch \in Rows
    BY <2>1, LoadedRow
  <2>. QED
    BY <2>1, <2>2, <2>3 DEF TableInv
<1>. QED
  BY <1>1, <1>2, <1>3, <1>4, <1>5, <1>6, QuietOrNot

\* Nothing else runs while statements are left.
LEMMA Busy ==
    ASSUME TypeOK, TableInv, OpeningInv, [Next]_vars, writes # <<>>
    PROVE  Idling \/ ExecuteStatement \/ Restarting
BY Kinds DEF ChainEvent, MessageStep, GetBlockchainEvents, TokenNetworkCreated, ChannelOpened,
             SelectWaitingMessages, PopDone, ChannelRemoved, UpdatedHeadBlock, NextEvent

\* The steps after which a channel is being opened.
LEMMA InOpening ==
    ASSUME TypeOK, WritesInv, TableInv, OpeningInv, [Next]_vars, pc' \in {"select", "pop"}
    PROVE  \/ ChannelOpened
           \/ /\ pc \in {"select", "pop"} /\ batch' = batch
              /\ \/ SelectWaitingMessages
                 \/ pc' = pc /\ UNCHANGED <<ids, graph, todo>>
                 \/ \E m \in Msgs : MessageStep(m)
<1>. USE DEF loopvars, EventVars
<1>1. Idling => pc' = pc /\ batch' = batch /\ UNCHANGED <<ids, graph, todo>>
  BY DEF Idling
<1>2. ExecuteStatement => pc' = pc /\ batch' = batch /\ UNCHANGED <<ids, graph, todo>>
  BY StatementEffect
<1>3. ASSUME NEW e \in Events, ChainEvent(e)
      PROVE  FALSE
  BY <1>3 DEF ChainEvent
<1>4. ~GetBlockchainEvents /\ ~TokenNetworkCreated /\ ~PopDone /\ ~UpdatedHeadBlock /\ ~Restarting
  BY DEF GetBlockchainEvents, TokenNetworkCreated, NextEvent, PopDone, UpdatedHeadBlock, Restarting,
         Restart
<1>5. ~ChannelRemoved
  BY DEF ChannelRemoved, NextEvent
<1>6. \A m \in Msgs : MessageStep(m) => pc' = pc /\ batch' = batch
  BY DEF MessageStep
<1>7. SelectWaitingMessages => pc \in {"select", "pop"} /\ batch' = batch
  BY DEF SelectWaitingMessages
<1>. QED
  BY <1>1, <1>2, <1>3, <1>4, <1>5, <1>6, <1>7, Kinds

\* Every step keeps what holds of a channel that is being opened.
LEMMA OpeningStep ==
    ASSUME TypeOK, TypeOK', WritesInv, TableInv, OpeningInv, WaitingInv, [Next]_vars
    PROVE  OpeningInv'
<1>1. ASSUME pc' \in {"select", "pop"}
      PROVE  LET c == Head(batch').ch IN
             c \in ids' /\ graph'[PairOf[c]] # NoChannel /\ graph'[PairOf[c]].ch = c
  <2>. DEFINE c == Head(batch').ch
  <2>1. CASE ChannelOpened
    BY <2>1, Fresh
  <2>2. ASSUME pc \in {"select", "pop"}, batch' = batch
        PROVE  /\ c \in ids /\ graph[PairOf[c]] # NoChannel /\ graph[PairOf[c]].ch = c
               /\ c \in Channels /\ PairOf[c] \in Pairs
    BY <2>2, BatchType DEF OpeningInv, TypeOK, MemoryTypeOK
  <2>3. CASE SelectWaitingMessages
    BY <2>2, <2>3, <1>1, InOpening DEF SelectWaitingMessages, EventVars
  <2>4. CASE pc \in {"select", "pop"} /\ batch' = batch /\ UNCHANGED <<ids, graph>>
    BY <2>2, <2>4
  <2>5. ASSUME NEW m \in Msgs, MessageStep(m), pc \in {"select", "pop"}, batch' = batch
        PROVE  c \in ids' /\ graph'[PairOf[c]] # NoChannel /\ graph'[PairOf[c]].ch = c
    <3>1. ids' = ids
      BY <2>5 DEF MessageStep
    <3>2. CASE graph' = graph
      BY <2>2, <2>5, <3>1, <3>2
    <3>3. ASSUME NEW r \in ChannelRecords, Applied(m, r)
          PROVE  graph'[PairOf[c]] # NoChannel /\ graph'[PairOf[c]].ch = c
      <4>. DEFINE P == PairOf[m.ch]
      <4>1. /\ r.ch = graph[P].ch /\ graph'[P] = r /\ r # NoChannel
            /\ \A p \in Pairs \ {P} : graph'[p] = graph[p]
        BY <3>3, AppliedPending
      <4>2. CASE PairOf[c] = P
        BY <2>2, <2>5, <4>1, <4>2
      <4>3. CASE PairOf[c] # P
        BY <2>2, <2>5, <4>1, <4>3
      <4>. QED
        BY <4>2, <4>3
    <3>. QED
      BY <2>2, <2>5, <3>1, <3>2, <3>3 DEF MessageStep, Dropped, PutAside, SavedOnly
  <2>. QED
    BY <1>1, <2>1, <2>3, <2>4, <2>5, InOpening
<1>2. ASSUME pc' = "pop"
      PROVE  \A i \in DOMAIN todo' : todo'[i].ch = Head(batch').ch
  <2>1. CASE SelectWaitingMessages
    <3>1. batch' = batch /\ Head(batch).ch \in Channels /\ todo' = waiting_message[Head(batch).ch]
      BY <2>1, BatchType DEF SelectWaitingMessages, EventVars, TypeOK, MemoryTypeOK
    <3>. QED
      BY <3>1 DEF WaitingInv
  <2>2. CASE pc' = pc /\ batch' = batch /\ todo' = todo
    BY <1>2, <2>2 DEF OpeningInv
  <2>3. ASSUME NEW m \in Msgs, MessageStep(m), batch' = batch
        PROVE  \A i \in DOMAIN todo' : todo'[i].ch = Head(batch').ch
    <3>1. pc = "pop" /\ todo # <<>> /\ todo' = Tail(todo)
      BY <1>2, <2>3 DEF MessageStep, loopvars
    <3>2. /\ todo \in Seq(Msgs) /\ todo' \in Seq(Msgs) /\ Len(todo') = Len(todo) - 1
          /\ \A i \in 1 .. Len(todo') : todo'[i] = todo[i + 1]
      BY <3>1, HeadTailProperties DEF TypeOK, MemoryTypeOK, Msgs
    <3>3. \A i \in DOMAIN todo' : i + 1 \in DOMAIN todo /\ todo'[i] = todo[i + 1]
      BY <3>2
    <3>. QED
      BY <2>3, <3>1, <3>3 DEF OpeningInv
  <2>4. ~ChannelOpened
    BY <1>2 DEF ChannelOpened
  <2>. QED
    BY <1>2, <2>1, <2>2, <2>3, <2>4, InOpening
<1>3. ASSUME NEW p \in Pairs, SavePending(p)'
      PROVE  graph'[p].ch \in Rows' \/ (pc' = "select" /\ graph'[p].ch = Head(batch').ch)
  <2>1. CASE Quiet
    <3>1. SavePending(p) /\ graph' = graph /\ Rows' = Rows
      BY <1>3, <2>1 DEF Quiet, Rows
    <3>2. writes # <<>>
      BY <3>1, Pending
    <3>3. Restarting => ~SavePending(p)'
      BY Pending DEF Restarting, Restart
    <3>4. pc' = pc /\ batch' = batch
      BY <1>3, <3>2, <3>3, Busy, StatementEffect DEF Idling, loopvars
    <3>. QED
      BY <3>1, <3>4 DEF OpeningInv
  <2>2. CASE ExecuteStatement /\ Head(writes).op = "channel"
    BY <1>3, <2>2, ExecutedPending
  <2>3. ASSUME NEW m \in Msgs, NEW r \in ChannelRecords, MessageStep(m), Applied(m, r)
        PROVE  graph'[p].ch \in Rows'
    <3>. DEFINE P == PairOf[m.ch]
    <3>1. P = p /\ r.ch = graph[P].ch /\ graph'[P] = r /\ graph[P] # NoChannel
      BY <1>3, <2>3, AppliedPending DEF Applied
    <3>2. Rows' = Rows /\ ~SavePending(P)
      BY <2>3, Pending DEF MessageStep, dbvars, Rows
    <3>3. graph[p].ch \in Rows
      BY <3>1, <3>2 DEF TableInv
    <3>. QED
      BY <3>1, <3>2, <3>3
  <2>4. CASE ChannelOpened
    BY <1>3, <2>4, Fresh
  <2>5. CASE ChannelRemoved \/ Restarting
    BY <1>3, <2>5, Pending, Removal DEF Restarting, Restart
  <2>. QED
    BY <2>1, <2>2, <2>3, <2>4, <2>5, QuietOrNot
<1>. QED
  BY <1>1, <1>2, <1>3 DEF OpeningInv

------------------------------------------------------------------------------
(* What is handled again after a restart.                                  *)

\* How far the service is, step by step.
LEMMA HandledSteps ==
    ASSUME TypeOK, TypeOK', LogInv, LoopInv, WritesInv, TableInv, OpeningInv, [Next]_vars
    PROVE  /\ UNCHANGED loopvars => Handled' = Handled
           /\ GetBlockchainEvents \/ ChannelOpened \/ SelectWaitingMessages \/ UpdatedHeadBlock
                 => Handled' = Handled
           /\ TokenNetworkCreated \/ PopDone \/ ChannelRemoved
                 => Handled' = Handled + 1 /\ pc # "poll" /\ batch # <<>>
           /\ Restarting => Handled' = committed
<1>. USE DEF EventVars, hvars, dbvars
<1>1. UNCHANGED loopvars => Handled' = Handled
  BY DEF loopvars, Handled
<1>2. ChannelOpened \/ SelectWaitingMessages => Handled' = Handled
  BY DEF ChannelOpened, SelectWaitingMessages, NextEvent, Handled
<1>3. GetBlockchainEvents => Handled' = Handled
  BY LoopStep DEF GetBlockchainEvents, TokenNetworkCreated, PopDone, ChannelRemoved, NextEvent,
                  Restarting, Restart
<1>4. UpdatedHeadBlock => Handled' = Handled
  BY DEF UpdatedHeadBlock, Handled, TypeOK, MemoryTypeOK
<1>5. ASSUME TokenNetworkCreated \/ PopDone \/ ChannelRemoved
      PROVE  Handled' = Handled + 1 /\ pc # "poll" /\ batch # <<>>
  <2>1. pc # "poll" /\ pc' # "poll" /\ batch # <<>> /\ batch' = Tail(batch) /\ head' = head
    BY <1>5 DEF TokenNetworkCreated, PopDone, ChannelRemoved, NextEvent, TypeOK, MemoryTypeOK
  <2>2. head \in Nat /\ Len(batch) \in Nat /\ Len(batch') = Len(batch) - 1
    BY <2>1, BatchType DEF TypeOK, MemoryTypeOK
  <2>. QED
    BY <2>1, <2>2 DEF Handled
<1>6. Restarting => Handled' = committed
  BY DEF Restarting, Restart, Handled
<1>. QED
  BY <1>1, <1>2, <1>3, <1>4, <1>5, <1>6

\* The steps that handle no event and change no row and no channel identifier.
LEMMA SameChannels ==
    ASSUME TypeOK, TypeOK', LogInv, LoopInv, WritesInv, TableInv, OpeningInv, [Next]_vars
    PROVE  \/ /\ ids' = ids /\ Rows' = Rows /\ Handled' = Handled /\ fetched <= fetched'
              /\ \A i \in 1 .. Len(log) : log'[i] = log[i]
              /\ \A p \in Pairs : graph'[p] # NoChannel =>
                     graph[p] # NoChannel /\ graph'[p].ch = graph[p].ch
              /\ \A c : Opening(c) => Opening(c)'
           \/ ExecuteStatement /\ Head(writes).op = "channel"
           \/ TokenNetworkCreated \/ ChannelOpened \/ PopDone \/ ChannelRemoved \/ Restarting
<1>. DEFINE Same == /\ ids' = ids /\ Rows' = Rows /\ Handled' = Handled /\ fetched <= fetched'
                    /\ \A i \in 1 .. Len(log) : log'[i] = log[i]
                    /\ \A p \in Pairs : graph'[p] # NoChannel =>
                          graph[p] # NoChannel /\ graph'[p].ch = graph[p].ch
                    /\ \A c : Opening(c) => Opening(c)'
<1>0. fetched \in Nat
  BY DEF TypeOK
<1>1. ASSUME UNCHANGED <<log, channel, ids, graph, loopvars, fetched>>
      PROVE  Same
  BY <1>0, <1>1, HandledSteps DEF loopvars, Opening, Rows
<1>2. Idling => Same
  BY <1>1 DEF Idling, dbvars
<1>3. ASSUME NEW e \in Events, ChainEvent(e)
      PROVE  Same
  <2>1. /\ log' = Append(log, e) /\ UNCHANGED <<channel, ids, graph, loopvars, fetched>>
    BY <1>3 DEF ChainEvent, dbvars, hvars
  <2>2. \A i \in 1 .. Len(log) : log'[i] = log[i]
    BY <2>1, AppendProperties DEF TypeOK
  <2>. QED
    BY <1>0, <2>1, <2>2, HandledSteps DEF loopvars, Opening, Rows
<1>4. ExecuteStatement /\ Head(writes).op # "channel" => Same
  BY <1>1, StatementEffect DEF hvars
<1>5. ASSUME NEW m \in Msgs, MessageStep(m)
      PROVE  Same
  <2>1. UNCHANGED <<log, channel, ids, loopvars, fetched>>
    BY <1>5 DEF MessageStep, dbvars
  <2>2. CASE graph' = graph
    BY <1>1, <2>1, <2>2
  <2>3. ASSUME NEW r \in ChannelRecords, Applied(m, r)
        PROVE  Same
    <3>1. \A p \in Pairs : graph'[p] # NoChannel => graph[p] # NoChannel /\ graph'[p].ch = graph[p].ch
      BY <2>3, AppliedPending DEF Applied
    <3>. QED
      BY <1>0, <2>1, <3>1, HandledSteps DEF loopvars, Opening, Rows
  <2>. QED
    BY <1>5, <2>2, <2>3 DEF MessageStep, Dropped, PutAside, SavedOnly
<1>6. CASE GetBlockchainEvents
  <2>1. UNCHANGED <<log, channel, ids, graph>> /\ pc = "poll"
    BY <1>6 DEF GetBlockchainEvents, dbvars
  <2>2. fetched <= fetched'
    BY <1>0, <1>6 DEF GetBlockchainEvents, TypeOK, MemoryTypeOK
  <2>. QED
    BY <1>6, <2>1, <2>2, HandledSteps DEF Opening, Rows
<1>7. CASE SelectWaitingMessages \/ UpdatedHeadBlock
  <2>1. UNCHANGED <<log, channel, ids, graph, fetched, batch>>
    BY <1>7 DEF SelectWaitingMessages, UpdatedHeadBlock, EventVars, hvars
  <2>2. \A c : Opening(c) => Opening(c)'
    BY <1>7, <2>1 DEF Opening, SelectWaitingMessages, UpdatedHeadBlock
  <2>. QED
    BY <1>0, <1>7, <2>1, <2>2, HandledSteps DEF Rows
<1>. QED
  BY <1>2, <1>3, <1>4, <1>5, <1>6, <1>7, Kinds

\* A channel that is opened next is not closed yet.
LEMMA NotClosedYet ==
    ASSUME TypeOK, LogInv, NEW c \in Channels, NEW i \in DOMAIN log, log[i] = Opened(c)
    PROVE  \A k \in 1 .. i : log[k] # Closed(c)
<1>. SUFFICES ASSUME NEW k \in 1 .. i, log[k] = Closed(c)
              PROVE  FALSE
  OBVIOUS
<1>0. DOMAIN log = 1 .. Len(log) /\ Len(log) \in Nat
  BY DEF TypeOK
<1>1. k \in DOMAIN log
  BY <1>0
<1>2. PICK j \in 1 .. k - 1 : log[j] = Opened(c)
  BY <1>1 DEF LogInv
<1>3. j \in DOMAIN log
  BY <1>0, <1>1
<1>4. j = i
  BY <1>2, <1>3 DEF LogInv
<1>. QED
  BY <1>0, <1>2, <1>4

\* Every step keeps what explains the graph by the events handled.
LEMMA ReplayStep ==
    ASSUME TypeOK, TypeOK', LogInv, LoopInv, LoopInv', WritesInv, TableInv, OpeningInv, ReplayInv,
           [Next]_vars
    PROVE  ReplayInv'
<1>0. /\ Handled \in Nat /\ committed \in Nat /\ fetched \in Nat /\ Len(log) \in Nat
      /\ committed <= Handled /\ Handled <= fetched /\ fetched <= Len(log)
      /\ DOMAIN log = 1 .. Len(log)
      /\ ids \subseteq Channels /\ Rows \subseteq Channels
  <2>1. /\ committed \in Nat /\ latest \in Nat /\ fetched \in Nat /\ Len(log) \in Nat
        /\ DOMAIN log = 1 .. Len(log) /\ ids \subseteq Channels /\ Rows \subseteq Channels
    BY DEF TypeOK, DatabaseTypeOK, MemoryTypeOK, Rows
  <2>. QED
    BY <2>1, HandledFacts
<1>a. \A c \in ids : \E i \in 1 .. fetched :
          /\ log[i] = Opened(c)
          /\ i > Handled \/ (c \in Rows /\ \A k \in 1 .. Handled : log[k] # Closed(c))
  BY DEF ReplayInv
<1>b. \A c \in Channels : \A i \in 1 .. Handled :
          log[i] = Opened(c) /\ (\A k \in 1 .. fetched : log[k] # Closed(c)) => c \in ids
  BY DEF ReplayInv
<1>e. \A d \in ids : graph[PairOf[d]] # NoChannel /\ graph[PairOf[d]].ch # d =>
          \/ Opening(graph[PairOf[d]].ch)
          \/ \E i \in 1 .. Handled : log[i] = Opened(graph[PairOf[d]].ch)
  BY DEF ReplayInv
<1>p. \A d \in Channels : PairOf[d] \in Pairs
  BY Pair
<1>1. CASE /\ ids' = ids /\ Rows' = Rows /\ Handled' = Handled /\ fetched <= fetched'
           /\ \A i \in 1 .. Len(log) : log'[i] = log[i]
           /\ \A p \in Pairs : graph'[p] # NoChannel =>
                  graph[p] # NoChannel /\ graph'[p].ch = graph[p].ch
           /\ \A c : Opening(c) => Opening(c)'
  <2>0. fetched' \in Nat /\ \A i \in 1 .. fetched : i \in 1 .. fetched' /\ log'[i] = log[i]
    BY <1>0, <1>1 DEF TypeOK
  <2>1. \A i \in 1 .. Handled : i \in 1 .. fetched
    BY <1>0
  <2>2. ASSUME NEW c \in ids'
        PROVE  \E i \in 1 .. fetched' :
                  /\ log'[i] = Opened(c)
                  /\ i > Handled' \/ (c \in Rows' /\ \A k \in 1 .. Handled' : log'[k] # Closed(c))
    <3>1. PICK i \in 1 .. fetched :
              /\ log[i] = Opened(c)
              /\ i > Handled \/ (c \in Rows /\ \A k \in 1 .. Handled : log[k] # Closed(c))
      BY <1>1, <1>a
    <3>2. i \in 1 .. fetched' /\ log'[i] = Opened(c)
      BY <2>0, <3>1
    <3>. QED
      BY <1>1, <2>0, <2>1, <3>1, <3>2
  <2>3. ASSUME NEW c \in Channels, NEW i \in 1 .. Handled', log'[i] = Opened(c),
               \A k \in 1 .. fetched' : log'[k] # Closed(c)
        PROVE  c \in ids'
    BY <1>1, <1>b, <2>0, <2>1, <2>3
  <2>4. ASSUME NEW d \in ids', graph'[PairOf[d]] # NoChannel, graph'[PairOf[d]].ch # d
        PROVE  \/ Opening(graph[PairOf[d]].ch)'
               \/ \E i \in 1 .. Handled' : log'[i] = Opened(graph'[PairOf[d]].ch)
    <3>1. d \in ids /\ PairOf[d] \in Pairs
      BY <1>0, <1>1, <1>p, <2>4
    <3>2. graph[PairOf[d]] # NoChannel /\ graph'[PairOf[d]].ch = graph[PairOf[d]].ch
      BY <1>1, <2>4, <3>1
    <3>. QED
      BY <1>1, <1>e, <2>0, <2>1, <2>4, <3>1, <3>2 DEF Opening
  <2>. QED
    BY <2>2, <2>3, <2>4 DEF ReplayInv
<1>2. CASE ExecuteStatement /\ Head(writes).op = "channel"
  <2>. DEFINE r == Head(writes).row
              P == PairOf[r.ch]
  <2>1. /\ r.ch \in Channels /\ graph[P] = r /\ r # NoChannel
        /\ \A c \in Channels : PairOf[c] # P => channel'[c] = channel[c]
        /\ r.ch \in Rows' /\ SavePending(P)
    BY <1>2, SavedRow, RecordFields
  <2>2. UNCHANGED <<ids, graph, log, fetched, loopvars>> /\ Handled' = Handled
    BY <1>2, StatementEffect, HandledSteps DEF hvars
  <2>3. P \in Pairs
    BY <1>p, <2>1
  <2>4. ASSUME NEW c \in ids, c \in Rows, NEW i \in 1 .. Handled, log[i] = Opened(c),
               \A k \in 1 .. Handled : log[k] # Closed(c)
        PROVE  c \in Rows'
    <3>1. CASE PairOf[c] # P
      BY <1>0, <2>1, <2>4, <3>1 DEF Rows
    <3>2. CASE c = r.ch
      BY <2>1, <3>2
    <3>3. ASSUME PairOf[c] = P, c # r.ch
          PROVE  FALSE
      <4>1. r.ch \notin Rows
        BY <2>4, <3>3 DEF TableInv
      <4>2. pc = "select" /\ r.ch = Head(batch).ch
        BY <2>1, <2>3, <4>1 DEF OpeningInv
      <4>3. batch # <<>> /\ Head(batch).type = "opened"
        BY <4>2 DEF TypeOK, MemoryTypeOK
      <4>4. Handled + 1 \in DOMAIN log /\ log[Handled + 1] = Opened(r.ch)
        BY <4>2, <4>3, HandledFacts, BatchType, EventIs
      <4>5. i \in 1 .. (Handled + 1) - 1 /\ (Handled + 1) - 1 = Handled
        BY <1>0
      <4>6. \E k \in 1 .. (Handled + 1) - 1 : log[k] = Closed(c)
        BY <1>0, <2>1, <2>4, <3>3, <4>4, <4>5 DEF LogInv
      <4>. QED
        BY <2>4, <4>5, <4>6
    <3>. QED
      BY <3>1, <3>2, <3>3
  <2>5. \A c \in ids : \E i \in 1 .. fetched :
            /\ log[i] = Opened(c)
            /\ i > Handled \/ (c \in Rows' /\ \A k \in 1 .. Handled : log[k] # Closed(c))
    <3>. SUFFICES ASSUME NEW c \in ids
                  PROVE  \E i \in 1 .. fetched :
                            /\ log[i] = Opened(c)
                            /\ i > Handled \/ (c \in Rows' /\ \A k \in 1 .. Handled : log[k] # Closed(c))
      OBVIOUS
    <3>1. PICK i \in 1 .. fetched :
              /\ log[i] = Opened(c)
              /\ i > Handled \/ (c \in Rows /\ \A k \in 1 .. Handled : log[k] # Closed(c))
      BY <1>a
    <3>2. CASE i > Handled
      BY <3>1, <3>2
    <3>3. CASE ~(i > Handled)
      <4>1. i \in 1 .. Handled
        BY <1>0, <3>3
      <4>. QED
        BY <2>4, <3>1, <3>3, <4>1
    <3>. QED
      BY <3>2, <3>3
  <2>6. \A c : Opening(c)' <=> Opening(c)
    BY <2>2 DEF Opening, loopvars
  <2>. QED
    BY <1>b, <1>e, <2>2, <2>5, <2>6 DEF ReplayInv
\* One more event is handled.
<1>h. ASSUME TokenNetworkCreated \/ PopDone \/ ChannelRemoved
      PROVE  /\ Handled' = Handled + 1 /\ Handled + 1 \in 1 .. fetched /\ Handled + 1 \in DOMAIN log
             /\ log[Handled + 1] = Head(batch) /\ Head(batch) \in Events
             /\ UNCHANGED <<log, fetched>>
  BY <1>h, HandledSteps, HandledFacts, BatchType
     DEF TokenNetworkCreated, PopDone, ChannelRemoved, EventVars, hvars
<1>3. CASE TokenNetworkCreated
  <2>1. UNCHANGED <<ids, graph, channel>> /\ Rows' = Rows /\ pc = "handle"
    BY <1>3 DEF TokenNetworkCreated, NextEvent, EventVars, Rows
  <2>2. \A c : log[Handled + 1] # Opened(c) /\ log[Handled + 1] # Closed(c)
    BY <1>3, <1>h, EventsDiffer DEF TokenNetworkCreated, NextEvent
  <2>3. \A i \in 1 .. Handled + 1 : i \in 1 .. Handled \/ i = Handled + 1
    BY <1>0
  <2>4. \A i \in 1 .. fetched : i > Handled => i = Handled + 1 \/ i > Handled + 1
    BY <1>0
  <2>5. \A c : ~Opening(c)
    BY <2>1 DEF Opening
  <2>6. \A i \in 1 .. Handled : i \in 1 .. Handled + 1
    BY <1>0
  <2>a. \A c \in ids' : \E i \in 1 .. fetched' :
            /\ log'[i] = Opened(c)
            /\ i > Handled' \/ (c \in Rows' /\ \A k \in 1 .. Handled' : log'[k] # Closed(c))
    BY <1>3, <1>a, <1>h, <2>1, <2>2, <2>3, <2>4
  <2>b. \A c \in Channels : \A i \in 1 .. Handled' :
            log'[i] = Opened(c) /\ (\A k \in 1 .. fetched' : log'[k] # Closed(c)) => c \in ids'
    BY <1>3, <1>b, <1>h, <2>1, <2>2, <2>3
  <2>e. \A d \in ids' : graph'[PairOf[d]] # NoChannel /\ graph'[PairOf[d]].ch # d =>
            \E i \in 1 .. Handled' : log'[i] = Opened(graph'[PairOf[d]].ch)
    BY <1>3, <1>e, <1>h, <2>1, <2>5, <2>6
  <2>. QED
    BY <2>a, <2>b, <2>e DEF ReplayInv
<1>4. CASE PopDone
  <2>. DEFINE c0 == Head(batch).ch
  <2>1. UNCHANGED <<ids, graph, channel>> /\ Rows' = Rows /\ pc = "pop" /\ writes = <<>>
    BY <1>4 DEF PopDone, EventVars, Rows
  <2>2. batch # <<>> /\ Head(batch).type = "opened"
    BY <2>1 DEF TypeOK, MemoryTypeOK
  <2>3. c0 \in Channels /\ PairOf[c0] \in Pairs /\ log[Handled + 1] = Opened(c0)
    BY <1>4, <1>h, <2>2, BatchType, EventIs
  <2>4. c0 \in ids /\ graph[PairOf[c0]] # NoChannel /\ graph[PairOf[c0]].ch = c0
    BY <2>1 DEF OpeningInv
  <2>5. c0 \in Rows
    BY <2>1, <2>3, <2>4, Pending DEF TableInv
  <2>6. \A k \in 1 .. Handled + 1 : log[k] # Closed(c0)
    BY <1>4, <1>h, <2>3, NotClosedYet
  <2>7. /\ \A i \in 1 .. Handled + 1 : i \in 1 .. Handled \/ i = Handled + 1
        /\ \A i \in 1 .. fetched : i > Handled => i = Handled + 1 \/ i > Handled + 1
        /\ \A i \in 1 .. Handled : i \in 1 .. Handled + 1
        /\ Handled + 1 \in 1 .. Handled + 1
    BY <1>0
  <2>8. \A c : Opening(c) => c = c0
    BY DEF Opening
  <2>9. \A c : log[Handled + 1] # Closed(c) /\ (log[Handled + 1] = Opened(c) => c = c0)
    BY <2>3, EventsDiffer
  <2>. HIDE DEF c0
  <2>a. ASSUME NEW c \in ids
        PROVE  \E i \in 1 .. fetched :
                  /\ log[i] = Opened(c)
                  /\ i > Handled + 1 \/ (c \in Rows /\ \A k \in 1 .. Handled + 1 : log[k] # Closed(c))
    <3>1. PICK i \in 1 .. fetched :
              /\ log[i] = Opened(c)
              /\ i > Handled \/ (c \in Rows /\ \A k \in 1 .. Handled : log[k] # Closed(c))
      BY <1>a
    <3>2. CASE i > Handled
      BY <2>5, <2>6, <2>7, <2>9, <3>1, <3>2
    <3>3. CASE c \in Rows /\ \A k \in 1 .. Handled : log[k] # Closed(c)
      BY <2>7, <2>9, <3>1, <3>3
    <3>. QED
      BY <3>1, <3>2, <3>3
  <2>b. ASSUME NEW c \in Channels, NEW i \in 1 .. Handled + 1, log[i] = Opened(c),
               \A k \in 1 .. fetched : log[k] # Closed(c)
        PROVE  c \in ids
    BY <1>b, <2>4, <2>7, <2>9, <2>b
  <2>e. ASSUME NEW d \in ids, graph[PairOf[d]] # NoChannel, graph[PairOf[d]].ch # d
        PROVE  \E i \in 1 .. Handled + 1 : log[i] = Opened(graph[PairOf[d]].ch)
    BY <1>e, <2>3, <2>7, <2>8, <2>e
  <2>. QED
    BY <1>4, <1>h, <2>1, <2>a, <2>b, <2>e DEF ReplayInv
<1>5. CASE ChannelRemoved
  <2>. DEFINE c0 == Head(batch).ch
              P == PairOf[c0]
  <2>1. /\ c0 \in Channels /\ P \in Pairs /\ pc = "handle" /\ Rows' = Rows \ {c0}
        /\ c0 \in Rows => /\ ids' = ids \ {c0} /\ graph'[P] = NoChannel
                          /\ \A p \in Pairs \ {P} : graph'[p] = graph[p]
        /\ c0 \notin Rows => ids' = ids /\ graph' = graph
    BY <1>5, Removal
  <2>2. log[Handled + 1] = Closed(c0) \/ log[Handled + 1] = Settled(c0)
    BY <1>5, <1>h, EventIs DEF ChannelRemoved, NextEvent
  <2>3. \A c : log[Handled + 1] # Opened(c) /\ (log[Handled + 1] = Closed(c) => c = c0)
    BY <2>2, EventsDiffer
  <2>4. \E k \in 1 .. fetched : log[k] = Closed(c0)
    <3>1. CASE log[Handled + 1] = Closed(c0)
      BY <1>5, <1>h, <3>1
    <3>2. CASE log[Handled + 1] = Settled(c0)
      <4>1. PICK k \in 1 .. (Handled + 1) - 1 : log[k] = Closed(c0)
        BY <1>5, <1>h, <2>1, <3>2 DEF LogInv
      <4>2. k \in 1 .. fetched
        BY <1>0
      <4>. QED
        BY <4>1, <4>2
    <3>. QED
      BY <2>2, <3>1, <3>2
  <2>5. /\ \A i \in 1 .. Handled + 1 : i \in 1 .. Handled \/ i = Handled + 1
        /\ \A i \in 1 .. fetched : i > Handled => i = Handled + 1 \/ i > Handled + 1
        /\ \A i \in 1 .. Handled : i \in 1 .. Handled + 1
    BY <1>0
  <2>6. \A c : ~Opening(c)
    BY <2>1 DEF Opening
  <2>p. P = PairOf[c0]
    OBVIOUS
  <2>. HIDE DEF c0, P
  <2>a. ASSUME NEW c \in ids'
        PROVE  \E i \in 1 .. fetched :
                  /\ log[i] = Opened(c)
                  /\ i > Handled + 1 \/ (c \in Rows' /\ \A k \in 1 .. Handled + 1 : log[k] # Closed(c))
    <3>0. c \in ids /\ (c = c0 => c0 \notin Rows)
      BY <2>1
    <3>1. PICK i \in 1 .. fetched :
              /\ log[i] = Opened(c)
              /\ i > Handled \/ (c \in Rows /\ \A k \in 1 .. Handled : log[k] # Closed(c))
      BY <1>a, <3>0
    <3>2. CASE i > Handled
      BY <2>3, <2>5, <3>1, <3>2
    <3>3. CASE c \in Rows /\ \A k \in 1 .. Handled : log[k] # Closed(c)
      BY <2>1, <2>3, <2>5, <3>0, <3>1, <3>3
    <3>. QED
      BY <3>1, <3>2, <3>3
  <2>b. ASSUME NEW c \in Channels, NEW i \in 1 .. Handled + 1, log[i] = Opened(c),
               \A k \in 1 .. fetched : log[k] # Closed(c)
        PROVE  c \in ids'
    BY <1>b, <2>1, <2>3, <2>4, <2>5, <2>b
  <2>e. ASSUME NEW d \in ids', graph'[PairOf[d]] # NoChannel, graph'[PairOf[d]].ch # d
        PROVE  \E i \in 1 .. Handled + 1 : log[i] = Opened(graph'[PairOf[d]].ch)
    <3>1. d \in ids /\ PairOf[d] \in Pairs
      BY <1>0, <1>p, <2>1
    <3>2. graph'[PairOf[d]] = graph[PairOf[d]]
      BY <2>1, <2>e, <3>1
    <3>. QED
      BY <1>e, <2>5, <2>6, <2>e, <3>1, <3>2
  <2>. QED
    BY <1>5, <1>h, <2>a, <2>b, <2>e DEF ReplayInv
<1>6. CASE ChannelOpened
  <2>. DEFINE c0 == Head(batch).ch
              P == PairOf[c0]
  <2>1. /\ c0 \in Channels /\ P \in Pairs /\ pc = "handle" /\ pc' = "select" /\ batch' = batch
        /\ batch # <<>> /\ Head(batch) = Opened(c0)
        /\ Rows' = Rows /\ ids' = ids \cup {c0} /\ UNCHANGED <<log, fetched>>
        /\ graph'[P] = FreshChannel(c0) /\ FreshChannel(c0).ch = c0
        /\ \A p \in Pairs \ {P} : graph'[p] = graph[p]
    BY <1>6, Fresh
  <2>2. Handled' = Handled /\ Handled + 1 \in 1 .. fetched /\ log[Handled + 1] = Opened(c0)
    BY <1>6, <2>1, HandledSteps, HandledFacts
  <2>3. Handled + 1 > Handled
    BY <1>0
  <2>4. Head(batch').ch = c0 /\ \A c : ~Opening(c)
    BY <2>1 DEF Opening
  <2>5. P = PairOf[c0]
    OBVIOUS
  <2>. HIDE DEF c0, P
  <2>a. \A c \in ids' : \E i \in 1 .. fetched :
            /\ log[i] = Opened(c)
            /\ i > Handled \/ (c \in Rows' /\ \A k \in 1 .. Handled : log[k] # Closed(c))
    BY <1>a, <2>1, <2>2, <2>3
  <2>e. ASSUME NEW d \in ids', graph'[PairOf[d]] # NoChannel, graph'[PairOf[d]].ch # d
        PROVE  \/ Opening(graph[PairOf[d]].ch)'
               \/ \E i \in 1 .. Handled : log[i] = Opened(graph'[PairOf[d]].ch)
    <3>1. d \in Channels /\ PairOf[d] \in Pairs
      BY <1>0, <1>p, <2>1
    <3>2. CASE PairOf[d] = P
      <4>1. graph'[PairOf[d]].ch = c0
        BY <2>1, <3>2
      <4>. QED
        BY <2>1, <2>4, <4>1 DEF Opening
    <3>3. CASE PairOf[d] # P
      <4>1. d \in ids /\ graph'[PairOf[d]] = graph[PairOf[d]]
        BY <2>1, <2>5, <3>1, <3>3
      <4>. QED
        BY <1>e, <2>4, <2>e, <4>1
    <3>. QED
      BY <3>2, <3>3
  <2>. QED
    BY <1>b, <2>1, <2>2, <2>a, <2>e DEF ReplayInv
<1>7. CASE Restarting
  <2>1. /\ UNCHANGED <<log, channel, fetched>> /\ Rows' = Rows /\ ids' = Rows
        /\ graph' = [p \in Pairs |-> Loaded(p)] /\ Handled' = committed
    BY <1>7, HandledSteps DEF Restarting, Restart, dbvars, Rows
  <2>2. \A i \in 1 .. committed : i \in 1 .. Handled
    BY <1>0
  <2>3. \A i \in 1 .. fetched : i > Handled => i > committed
    BY <1>0
  <2>4. \A c \in Rows : c \in ids
    BY DEF TableInv
  <2>a. \A c \in Rows : \E i \in 1 .. fetched :
            /\ log[i] = Opened(c)
            /\ i > committed \/ (c \in Rows /\ \A k \in 1 .. committed : log[k] # Closed(c))
    BY <1>a, <2>2, <2>3, <2>4
  <2>b. ASSUME NEW c \in Channels, NEW i \in 1 .. committed, log[i] = Opened(c),
               \A k \in 1 .. fetched : log[k] # Closed(c)
        PROVE  c \in Rows
    <3>1. c \in ids
      BY <1>b, <2>2, <2>b
    <3>2. PICK j \in 1 .. fetched :
              /\ log[j] = Opened(c)
              /\ j > Handled \/ (c \in Rows /\ \A k \in 1 .. Handled : log[k] # Closed(c))
      BY <1>a, <3>1
    <3>3. i \in DOMAIN log /\ j \in DOMAIN log
      BY <1>0
    <3>4. j = i
      BY <2>b, <3>2, <3>3 DEF LogInv
    <3>. QED
      BY <1>0, <3>2, <3>4
  <2>e. \A d \in Rows : graph'[PairOf[d]].ch = d
    <3>. SUFFICES ASSUME NEW d \in Rows
                  PROVE  graph'[PairOf[d]].ch = d
      OBVIOUS
    <3>1. PairOf[d] \in Pairs
      BY <1>0, <1>p
    <3>2. Loaded(PairOf[d]) = channel[d] /\ channel[d].ch = d
      BY <3>1, LoadedRow DEF TableInv
    <3>. QED
      BY <2>1, <3>1, <3>2
  <2>. QED
    BY <2>1, <2>a, <2>b, <2>e DEF ReplayInv
<1>. QED
  BY <1>1, <1>2, <1>3, <1>4, <1>5, <1>6, <1>7, SameChannels

------------------------------------------------------------------------------
(* The messages that were put aside.                                       *)

\* The statement that deletes the waiting messages of a channel.
LEMMA DeletePending ==
    ASSUME NEW c, writes = <<DeleteWaitingMessages(c)>>
    PROVE  writes # <<>> /\ Head(writes).op = "delete" /\ Head(writes).ch = c
BY Singleton, StatementFields

\* Every step keeps what holds of waiting messages.
LEMMA WaitingStep ==
    ASSUME TypeOK, TypeOK', LogInv, LoopInv, WritesInv, TableInv, OpeningInv, WaitingInv, [Next]_vars
    PROVE  WaitingInv'
<1>. USE DEF EventVars, hvars, dbvars
<1>0. /\ Handled \in Nat /\ committed \in Nat /\ fetched \in Nat /\ Len(log) \in Nat
      /\ committed <= Handled /\ Handled <= fetched /\ fetched <= Len(log)
      /\ ids \subseteq Channels
  <2>1. /\ committed \in Nat /\ latest \in Nat /\ fetched \in Nat /\ Len(log) \in Nat
        /\ ids \subseteq Channels
    BY DEF TypeOK, DatabaseTypeOK, MemoryTypeOK
  <2>. QED
    BY <2>1, HandledFacts
<1>w. \A c \in ids : waiting_message[c] # <<>> =>
          \E i \in committed + 1 .. Len(log) :
              log[i] = Opened(c) /\ (i > Handled \/ writes = <<DeleteWaitingMessages(c)>>)
  BY DEF WaitingInv
<1>1. ASSUME NEW c \in ids', ids' \subseteq ids, waiting_message' = waiting_message,
             waiting_message'[c] # <<>>, committed' = committed, Handled' = Handled,
             Len(log') \in Nat, Len(log) <= Len(log'), \A i \in 1 .. Len(log) : log'[i] = log[i],
             writes' = writes \/ \A d : writes # <<DeleteWaitingMessages(d)>>
      PROVE  \E i \in committed' + 1 .. Len(log') :
                log'[i] = Opened(c) /\ (i > Handled' \/ writes' = <<DeleteWaitingMessages(c)>>)
  <2>1. PICK i \in committed + 1 .. Len(log) :
            log[i] = Opened(c) /\ (i > Handled \/ writes = <<DeleteWaitingMessages(c)>>)
    BY <1>1, <1>w
  <2>2. i \in committed' + 1 .. Len(log') /\ i \in 1 .. Len(log)
    BY <1>0, <1>1
  <2>. QED
    BY <1>1, <2>1, <2>2
<1>2. ASSUME waiting_message' = waiting_message, ids' \subseteq ids, log' = log, committed' = committed,
             Handled' = Handled, writes' = writes \/ \A d : writes # <<DeleteWaitingMessages(d)>>
      PROVE  WaitingInv'
  BY <1>0, <1>1, <1>2 DEF WaitingInv
<1>3. ASSUME writes = <<>> \/ Head(writes).op # "delete"
      PROVE  \A d : writes # <<DeleteWaitingMessages(d)>>
  BY <1>3, DeletePending
<1>4. CASE Idling
  BY <1>2, <1>4, HandledSteps DEF Idling
<1>5. ASSUME NEW e \in Events, ChainEvent(e)
      PROVE  WaitingInv'
  <2>1. /\ log' = Append(log, e) /\ writes = <<>>
        /\ UNCHANGED <<ids, waiting_message, loopvars, committed>>
    BY <1>5 DEF ChainEvent
  <2>2. Len(log') = Len(log) + 1 /\ \A i \in 1 .. Len(log) : log'[i] = log[i]
    BY <2>1, AppendProperties DEF TypeOK
  <2>3. Handled' = Handled /\ Len(log') \in Nat /\ Len(log) <= Len(log')
    BY <1>0, <2>1, <2>2, HandledSteps
  <2>. QED
    BY <1>1, <1>3, <2>1, <2>2, <2>3 DEF WaitingInv
<1>6. CASE ExecuteStatement
  <2>. DEFINE w == Head(writes)
  <2>1. /\ w = writes[1] /\ w \in Writes /\ 1 \in DOMAIN writes
        /\ UNCHANGED <<log, ids, loopvars>>
        /\ w.op # "head" => committed' = committed
        /\ w.op \notin {"wait", "delete"} => waiting_message' = waiting_message
    BY <1>6, StatementEffect
  <2>2. Handled' = Handled
    BY <2>1, HandledSteps
  <2>3. CASE w.op \notin {"head", "wait", "delete"}
    BY <1>2, <1>3, <2>1, <2>2, <2>3
  <2>4. CASE w.op = "head"
    <3>1. committed' = w.block
      BY <1>6, <2>4 DEF ExecuteStatement, SaveTokenNetwork, SaveChannel, SaveCapacityUpdate,
                    SaveWaitingMessage, DeletePoppedMessages, SaveCommittedBlock, Statement
    <3>2. committed' = Handled /\ waiting_message' = waiting_message
      BY <2>1, <2>4, <3>1 DEF WritesInv, Handled
    <3>3. \A i \in committed + 1 .. Len(log) : i > Handled => i \in committed' + 1 .. Len(log)
      BY <1>0, <3>2
    <3>4. \A d : writes # <<DeleteWaitingMessages(d)>>
      BY <1>3, <2>4
    <3>. QED
      BY <1>w, <2>1, <2>2, <3>2, <3>3, <3>4 DEF WaitingInv
  <2>5. CASE w.op = "wait"
    <3>. DEFINE m == w.msg
    <3>1. m \in Msgs /\ m.ch \in Channels /\ m.ch \notin ids
      BY <2>1, <2>5, WriteFields, MessageType DEF WritesInv
    <3>2. waiting_message' = [waiting_message EXCEPT ![m.ch] = Append(waiting_message[m.ch], m)]
      BY <1>6, <2>5 DEF ExecuteStatement, SaveTokenNetwork, SaveChannel, SaveCapacityUpdate,
                    SaveWaitingMessage, DeletePoppedMessages, SaveCommittedBlock, Statement
    <3>. HIDE DEF m, w
    <3>3. /\ waiting_message'[m.ch] = Append(waiting_message[m.ch], m)
          /\ \A c \in Channels \ {m.ch} : waiting_message'[c] = waiting_message[c]
          /\ waiting_message[m.ch] \in Seq(Msgs)
      BY <3>1, <3>2 DEF TypeOK, DatabaseTypeOK, Msgs
    <3>4. ASSUME NEW i \in DOMAIN waiting_message'[m.ch]
          PROVE  waiting_message'[m.ch][i].ch = m.ch
      <4>. DEFINE q == waiting_message[m.ch]
      <4>1. /\ Append(q, m) \in Seq(Msgs) /\ Len(Append(q, m)) = Len(q) + 1
            /\ \A k \in 1 .. Len(q) : Append(q, m)[k] = q[k]
            /\ Append(q, m)[Len(q) + 1] = m
        BY <3>1, <3>3, AppendProperties
      <4>2. i \in 1 .. Len(q) \/ i = Len(q) + 1
        BY <3>3, <4>1
      <4>3. DOMAIN q = 1 .. Len(q)
        BY <3>3
      <4>. QED
        BY <3>1, <3>3, <4>1, <4>2, <4>3 DEF WaitingInv
    <3>5. \A c \in ids : waiting_message'[c] = waiting_message[c]
      BY <1>0, <3>1, <3>3
    <3>6. \A d : writes # <<DeleteWaitingMessages(d)>>
      BY <1>3, <2>5 DEF w
    <3>7. committed' = committed /\ log' = log /\ ids' = ids
      BY <2>1, <2>5
    <3>. QED
      BY <1>w, <2>2, <3>3, <3>4, <3>5, <3>6, <3>7 DEF WaitingInv
  <2>6. CASE w.op = "delete"
    <3>. DEFINE d == w.ch
    <3>1. d \in Channels /\ waiting_message' = [waiting_message EXCEPT ![d] = <<>>]
      BY <1>6, <2>1, <2>6, WriteFields
         DEF ExecuteStatement, SaveTokenNetwork, SaveChannel, SaveCapacityUpdate,
             SaveWaitingMessage, DeletePoppedMessages, SaveCommittedBlock, Statement
    <3>2. \A c : writes = <<DeleteWaitingMessages(c)>> => c = d
      BY DeletePending
    <3>. HIDE DEF d, w
    <3>3. /\ waiting_message'[d] = <<>>
          /\ \A c \in Channels \ {d} : waiting_message'[c] = waiting_message[c]
      BY <3>1 DEF TypeOK, DatabaseTypeOK
    <3>4. committed' = committed /\ log' = log /\ ids' = ids
      BY <2>1, <2>6
    <3>5. \A c \in Channels : \A i \in DOMAIN waiting_message'[c] : waiting_message'[c][i].ch = c
      BY <3>3, EmptySeq DEF WaitingInv
    <3>6. \A c \in ids : waiting_message'[c] # <<>> =>
              \E i \in committed + 1 .. Len(log) : log[i] = Opened(c) /\ i > Handled
      BY <1>0, <1>w, <3>2, <3>3
    <3>. QED
      BY <2>2, <3>4, <3>5, <3>6 DEF WaitingInv
  <2>. QED
    BY <2>3, <2>4, <2>5, <2>6
<1>7. ASSUME NEW m \in Msgs, MessageStep(m)
      PROVE  WaitingInv'
  BY <1>2, <1>3, <1>7, HandledSteps DEF MessageStep
<1>8. CASE GetBlockchainEvents \/ SelectWaitingMessages \/ UpdatedHeadBlock
  BY <1>2, <1>3, <1>8, HandledSteps DEF GetBlockchainEvents, SelectWaitingMessages, UpdatedHeadBlock
\* One more event is handled: if it is an opening, the messages are deleted next.
<1>9. ASSUME TokenNetworkCreated \/ PopDone \/ ChannelRemoved, ids' \subseteq ids,
             \A c : log[Handled + 1] = Opened(c) => writes' = <<DeleteWaitingMessages(c)>>
      PROVE  WaitingInv'
  <2>1. /\ UNCHANGED <<log, committed, waiting_message>> /\ writes = <<>> /\ Handled' = Handled + 1
    BY <1>9, HandledSteps DEF TokenNetworkCreated, PopDone, ChannelRemoved, NextEvent
  <2>2. ASSUME NEW c \in ids', waiting_message'[c] # <<>>
        PROVE  \E i \in committed + 1 .. Len(log) :
                  log[i] = Opened(c) /\ (i > Handled' \/ writes' = <<DeleteWaitingMessages(c)>>)
    <3>1. PICK i \in committed + 1 .. Len(log) :
              log[i] = Opened(c) /\ (i > Handled \/ writes = <<DeleteWaitingMessages(c)>>)
      BY <1>9, <1>w, <2>1, <2>2
    <3>2. i > Handled
      BY <1>3, <2>1, <3>1
    <3>3. i = Handled + 1 \/ i > Handled + 1
      BY <1>0, <3>2
    <3>. QED
      BY <1>9, <2>1, <3>1, <3>3
  <2>. QED
    BY <2>1, <2>2 DEF WaitingInv
<1>10. CASE TokenNetworkCreated
  <2>1. Head(batch).type = "created" /\ batch # <<>> /\ pc # "poll" /\ ids' = ids
    BY <1>10 DEF TokenNetworkCreated, NextEvent
  <2>2. \A c : log[Handled + 1] # Opened(c)
    BY <2>1, HandledFacts, EventsDiffer
  <2>. QED
    BY <1>9, <1>10, <2>1, <2>2
<1>11. CASE PopDone
  <2>1. Head(batch).type = "opened" /\ batch # <<>> /\ pc # "poll" /\ ids' = ids
    BY <1>11 DEF PopDone, TypeOK, MemoryTypeOK
  <2>2. log[Handled + 1] = Head(batch)
    BY <2>1, HandledFacts
  <2>3. writes' = <<DeleteWaitingMessages(Head(batch).ch)>>
    BY <1>11 DEF PopDone
  <2>4. \A c : log[Handled + 1] = Opened(c) => Head(batch).ch = c
    BY <2>2, EventsDiffer
  <2>. QED
    BY <1>9, <1>11, <2>1, <2>3, <2>4
<1>12. CASE ChannelRemoved
  <2>1. Head(batch).type \in {"closed", "settled"} /\ batch # <<>> /\ pc # "poll" /\ ids' \subseteq ids
    BY <1>12 DEF ChannelRemoved, NextEvent
  <2>2. \A c : log[Handled + 1] # Opened(c)
    BY <2>1, HandledFacts, EventsDiffer
  <2>. QED
    BY <1>9, <1>12, <2>1, <2>2
<1>13. CASE ChannelOpened
  <2>. DEFINE c0 == Head(batch).ch
  <2>1. /\ UNCHANGED <<log, committed, waiting_message>> /\ ids' = ids \cup {c0} /\ writes = <<>>
        /\ Head(batch) = Opened(c0) /\ batch # <<>> /\ pc # "poll" /\ Handled' = Handled
    BY <1>13, Fresh, HandledSteps
  <2>2. Handled + 1 \in committed + 1 .. Len(log) /\ Handled + 1 > Handled /\ log[Handled + 1] = Opened(c0)
    <3>1. Handled + 1 \in 1 .. fetched /\ log[Handled + 1] = Opened(c0)
      BY <2>1, HandledFacts
    <3>. QED
      BY <1>0, <3>1
  <2>3. \A d : writes # <<DeleteWaitingMessages(d)>>
    BY <1>3, <2>1
  <2>. HIDE DEF c0
  <2>4. \A c \in ids' : waiting_message[c] # <<>> =>
            \E i \in committed + 1 .. Len(log) : log[i] = Opened(c) /\ i > Handled
    BY <1>w, <2>1, <2>2, <2>3
  <2>. QED
    BY <2>1, <2>4 DEF WaitingInv
<1>14. CASE Restarting
  <2>1. /\ UNCHANGED <<log, committed, waiting_message>> /\ ids' \subseteq ids /\ Handled' = committed
    BY <1>14, HandledSteps DEF Restarting, Restart, TableInv
  <2>2. \A i \in committed + 1 .. Len(log) : i > committed
    BY <1>0
  <2>. QED
    BY <1>w, <2>1, <2>2 DEF WaitingInv
<1>. QED
  BY <1>4, <1>5, <1>6, <1>7, <1>8, <1>10, <1>11, <1>12, <1>13, <1>14, Kinds

------------------------------------------------------------------------------
(* Capacities and fees.                                                    *)

\* What was confirmed stays so when more messages arrive.
LEMMA ConfirmedMono ==
    ASSUME NEW R, NEW S, R \subseteq S, NEW r, NEW c, ConfirmedBy(R, r, c)
    PROVE  ConfirmedBy(S, r, c)
BY DEF ConfirmedBy

\* A new channel has no capacity to confirm.
LEMMA ConfirmedFresh ==
    ASSUME NEW R, NEW c \in Channels
    PROVE  ConfirmedBy(R, FreshChannel(c), c)
<1>1. \A p \in PairOf[c] : FreshChannel(c).capacity[p] = 0
  BY Pair DEF FreshChannel
<1>. QED
  BY <1>1 DEF ConfirmedBy

\* Both participants of the channel said what a capacity update computes, when
\* it is the channel of the object that is changed.
LEMMA ConfirmedUpdate ==
    ASSUME TypeOK, ClaimsInv, NEW m \in CapacityUpdates, NamesBoth(m),
           NEW g \in ChannelRecords
    PROVE  ConfirmedBy(received \cup {m}, WithCapacity(g, m), m.ch)
<1>. DEFINE q == m.partner
            u == capacity_update[<<m.ch, q>>]
            r == WithCapacity(g, m)
            R == received \cup {m}
<1>1. m.ch \in Channels /\ m.updating \in Nat /\ m.other \in Nat
  BY DEF CapacityUpdates
<1>2. q \in PairOf[m.ch] /\ q # m.from /\ q \in Nodes /\ PairOf[m.ch] = {m.from, q}
  BY <1>1, PartnerIsOther
<1>3. u.updating \in Nat /\ u.other \in Nat
  BY <1>1, <1>2 DEF TypeOK, DatabaseTypeOK
<1>4. r.capacity[m.from] = MinOf(m.updating, u.other) /\ r.capacity[q] = MinOf(m.other, u.updating)
  BY WithCapacityType
<1>5. \/ u.updating = 0 /\ u.other = 0
      \/ \E n \in received : n.ch = m.ch /\ n.from = q /\ n.updating = u.updating /\ n.other = u.other
  BY <1>1, <1>2 DEF ClaimsInv, NoUpdate
<1>. HIDE DEF q, u, r
<1>6. ASSUME r.capacity[m.from] > 0
      PROVE  /\ \E n \in R : n.ch = m.ch /\ n.from = m.from /\ r.capacity[m.from] <= n.updating
             /\ \E n \in R : n.ch = m.ch /\ n.from \in PairOf[m.ch] \ {m.from}
                             /\ r.capacity[m.from] <= n.other
  BY <1>1, <1>2, <1>3, <1>4, <1>5, <1>6 DEF MinOf
<1>7. ASSUME r.capacity[q] > 0
      PROVE  /\ \E n \in R : n.ch = m.ch /\ n.from = q /\ r.capacity[q] <= n.updating
             /\ \E n \in R : n.ch = m.ch /\ n.from \in PairOf[m.ch] \ {q} /\ r.capacity[q] <= n.other
  BY <1>1, <1>2, <1>3, <1>4, <1>5, <1>7 DEF MinOf
<1>8. ConfirmedBy(R, r, m.ch)
  BY <1>2, <1>6, <1>7 DEF ConfirmedBy
<1>. QED
  BY <1>8 DEF r

\* A message that changes the object of another channel does so when that
\* channel is closed in a block that was queried already.
LEMMA OtherChannelClosed ==
    ASSUME TypeOK, LogInv, LoopInv, TableInv, OpeningInv, ReplayInv, NEW m \in Msgs,
           NEW r \in ChannelRecords, MessageStep(m), Applied(m, r), m.ch # r.ch
    PROVE  ClosedIn(fetched, r.ch)
<1>. DEFINE P == PairOf[m.ch]
<1>1. /\ P \in Pairs /\ PairOf[r.ch] = P /\ r.ch = graph[P].ch /\ graph[P] # NoChannel
      /\ m.ch \in ids /\ m.ch \in Channels /\ r.ch \in Channels
  BY AppliedPending, MessageType, RecordFields DEF Applied
<1>2. writes = <<>> /\ pc # "select" /\ (pc = "pop" => m.ch = Head(batch).ch)
  BY DEF MessageStep
<1>0. /\ Handled \in Nat /\ fetched \in Nat /\ Len(log) \in Nat
      /\ Handled <= fetched /\ fetched <= Len(log) /\ DOMAIN log = 1 .. Len(log)
  BY HandledFacts DEF TypeOK
<1>3. ~Opening(r.ch)
  BY <1>2 DEF Opening
<1>4. PICK i \in 1 .. Handled : log[i] = Opened(r.ch)
  BY <1>1, <1>3 DEF ReplayInv
<1>5. m.ch \notin Rows
  BY <1>1, <1>2, Pending DEF TableInv
<1>6. PICK j \in 1 .. fetched : log[j] = Opened(m.ch) /\ j > Handled
  BY <1>1, <1>5 DEF ReplayInv
<1>7. i \in 1 .. j - 1 /\ j \in DOMAIN log
  BY <1>0, <1>6
<1>8. PICK k \in 1 .. j - 1 : log[k] = Closed(r.ch)
  BY <1>1, <1>4, <1>6, <1>7 DEF LogInv
<1>9. k \in 1 .. fetched
  BY <1>0, <1>6
<1>. QED
  BY <1>8, <1>9 DEF ClosedIn

\* What was received, queried or logged stays so.
LEMMA HistoryGrows ==
    ASSUME TypeOK, TypeOK', LoopInv, WritesInv, TableInv, OpeningInv, [Next]_vars
    PROVE  /\ received \subseteq received' /\ fetched <= fetched'
           /\ \A i \in 1 .. Len(log) : log'[i] = log[i]
           /\ \A c : ClosedIn(fetched, c) => \E k \in 1 .. fetched' : log'[k] = Closed(c)
<1>. DEFINE Grows == /\ received \subseteq received' /\ fetched <= fetched'
                     /\ \A i \in 1 .. Len(log) : log'[i] = log[i]
<1>. USE DEF dbvars, hvars, EventVars
<1>0. fetched \in Nat /\ fetched' \in Nat /\ Len(log) \in Nat /\ latest \in Nat /\ fetched <= Len(log)
  BY DEF TypeOK, MemoryTypeOK, LoopInv
<1>1. UNCHANGED <<received, fetched, log>> => Grows
  BY <1>0
<1>2. Idling \/ ExecuteStatement \/ Restarting => Grows
  BY <1>1, StatementEffect DEF Idling, Restarting
<1>3. ASSUME NEW e \in Events, ChainEvent(e)
      PROVE  Grows
  BY <1>0, <1>3, AppendProperties DEF ChainEvent, TypeOK
<1>4. ASSUME NEW m \in Msgs, MessageStep(m)
      PROVE  Grows
  BY <1>0, <1>4 DEF MessageStep, Dropped, PutAside, SavedOnly, Applied
<1>5. GetBlockchainEvents => Grows
  BY <1>0 DEF GetBlockchainEvents
<1>6. TokenNetworkCreated \/ ChannelOpened \/ SelectWaitingMessages => Grows
  BY <1>1 DEF TokenNetworkCreated, ChannelOpened, SelectWaitingMessages
<1>7. PopDone \/ ChannelRemoved \/ UpdatedHeadBlock => Grows
  BY <1>1 DEF PopDone, ChannelRemoved, UpdatedHeadBlock
<1>8. Grows
  BY <1>2, <1>3, <1>4, <1>5, <1>6, <1>7, Kinds
<1>9. ASSUME NEW c, ClosedIn(fetched, c)
      PROVE  \E k \in 1 .. fetched' : log'[k] = Closed(c)
  <2>1. PICK k \in 1 .. fetched : log[k] = Closed(c)
    BY <1>9 DEF ClosedIn
  <2>2. k \in 1 .. fetched' /\ log'[k] = log[k]
    BY <1>0, <1>8
  <2>. QED
    BY <2>1, <2>2
<1>. QED
  BY <1>8, <1>9

\* Every step keeps what holds of the capacities.
LEMMA ClaimsStep ==
    ASSUME TypeOK, TypeOK', LogInv, LoopInv, WritesInv, TableInv, OpeningInv, ReplayInv, ClaimsInv,
           [Next]_vars
    PROVE  ClaimsInv'
<1>. DEFINE Good(r, c) == ConfirmedBy(received, r, c) \/ ClosedIn(fetched, c)
            GoodNow(r, c) == \/ ConfirmedBy(received', r, c)
                             \/ \E k \in 1 .. fetched' : log'[k] = Closed(c)
<1>g. \A r, c : Good(r, c) => GoodNow(r, c)
  BY HistoryGrows, ConfirmedMono
<1>c. \A c \in Rows : Good(channel[c], c)
  BY DEF ClaimsInv
<1>d. \A p \in Pairs : graph[p] # NoChannel => Good(graph[p], graph[p].ch)
  BY DEF ClaimsInv
<1>p. \A c \in Channels : PairOf[c] \in Pairs
  BY Pair
<1>r. Rows \subseteq Channels /\ Rows' \subseteq Channels
  BY DEF Rows
<1>u. /\ received \subseteq received'
      /\ \A c \in Channels, p \in Nodes :
             capacity_update[<<c, p>>] = NoUpdate
             \/ \E m \in received : /\ m.ch = c /\ m.from = p
                                    /\ m.updating = capacity_update[<<c, p>>].updating
                                    /\ m.other = capacity_update[<<c, p>>].other
  BY HistoryGrows DEF ClaimsInv
<1>. HIDE DEF Good
<1>1. ASSUME NEW c \in Channels, NEW p \in Nodes, capacity_update'[<<c, p>>] # NoUpdate
      PROVE  \E m \in received' : /\ m.ch = c /\ m.from = p
                                  /\ m.updating = capacity_update'[<<c, p>>].updating
                                  /\ m.other = capacity_update'[<<c, p>>].other
  <2>1. CASE capacity_update' = capacity_update
    BY <1>1, <1>u, <2>1
  <2>2. CASE ExecuteStatement /\ Head(writes).op = "capacity_update"
    <3>. DEFINE m == Head(writes).msg
                u == [updating |-> m.updating, other |-> m.other]
    <3>1. m \in CapacityUpdates /\ m \in received /\ m.ch \in Channels /\ m.from \in Nodes
      BY <2>2, StatementEffect, WriteFields DEF WritesInv, CapacityUpdates
    <3>2. capacity_update' = [capacity_update EXCEPT ![<<m.ch, m.from>>] = u]
      BY <2>2 DEF ExecuteStatement, SaveTokenNetwork, SaveChannel, SaveCapacityUpdate,
                  SaveWaitingMessage, DeletePoppedMessages, SaveCommittedBlock, Statement
    <3>3. u.updating = m.updating /\ u.other = m.other
      OBVIOUS
    <3>. HIDE DEF m, u
    <3>4. capacity_update'[<<c, p>>] = IF c = m.ch /\ p = m.from THEN u
                                       ELSE capacity_update[<<c, p>>]
      BY <3>1, <3>2 DEF TypeOK, DatabaseTypeOK
    <3>. QED
      BY <1>1, <1>u, <3>1, <3>3, <3>4
  <2>3. capacity_update' = capacity_update \/ (ExecuteStatement /\ Head(writes).op = "capacity_update")
    BY Kinds, StatementEffect
       DEF Idling, ChainEvent, MessageStep, GetBlockchainEvents, TokenNetworkCreated, ChannelOpened,
           SelectWaitingMessages, PopDone, ChannelRemoved, UpdatedHeadBlock, Restarting, dbvars,
           EventVars
  <2>. QED
    BY <2>1, <2>2, <2>3
<1>2. (\A c \in Rows' : GoodNow(channel'[c], c))
      /\ (\A p \in Pairs : graph'[p] # NoChannel => GoodNow(graph'[p], graph'[p].ch))
  <2>1. CASE Quiet
    BY <1>c, <1>d, <1>g, <2>1 DEF Quiet, Rows
  <2>2. CASE ExecuteStatement /\ Head(writes).op = "channel"
    <3>. DEFINE r == Head(writes).row
                P == PairOf[r.ch]
    <3>1. /\ r \in ChannelRecords /\ r # NoChannel /\ r.ch \in Channels
          /\ graph[P] = r /\ channel'[r.ch] = r
          /\ \A c \in Channels : c # r.ch /\ PairOf[c] = P => channel'[c] = NoChannel
          /\ \A c \in Channels : PairOf[c] # P => channel'[c] = channel[c]
      BY <2>2, SavedRow, RecordFields
    <3>2. graph' = graph
      BY <2>2, StatementEffect
    <3>3. P \in Pairs
      BY <1>p, <3>1
    <3>. HIDE DEF r, P
    <3>4. Good(r, r.ch)
      BY <1>d, <3>1, <3>3
    <3>5. \A c \in Rows' : c = r.ch \/ (c \in Rows /\ channel'[c] = channel[c])
      BY <1>r, <3>1 DEF Rows
    <3>6. \A c \in Rows' : Good(channel'[c], c)
      BY <1>c, <3>1, <3>4, <3>5
    <3>. QED
      BY <1>d, <1>g, <3>2, <3>6
  <2>3. ASSUME NEW m \in Msgs, NEW r \in ChannelRecords, MessageStep(m), Applied(m, r)
        PROVE  /\ \A c \in Rows' : GoodNow(channel'[c], c)
               /\ \A p \in Pairs : graph'[p] # NoChannel => GoodNow(graph'[p], graph'[p].ch)
    <3>. DEFINE P == PairOf[m.ch]
    <3>1. /\ P \in Pairs /\ r.ch = graph[P].ch /\ graph'[P] = r /\ graph[P] # NoChannel
          /\ \A p \in Pairs \ {P} : graph'[p] = graph[p]
      BY <2>3, AppliedPending DEF Applied
    <3>2. channel' = channel /\ Rows' = Rows
      BY <2>3 DEF MessageStep, dbvars, Rows
    <3>3. GoodNow(r, r.ch)
      <4>1. CASE r.capacity = graph[P].capacity
        <5>1. Good(graph[P], r.ch)
          BY <1>d, <3>1
        <5>2. Good(r, r.ch)
          BY <4>1, <5>1 DEF Good, ConfirmedBy
        <5>. QED
          BY <1>g, <5>2
      <4>2. CASE m.ch # r.ch
        <5>1. ClosedIn(fetched, r.ch)
          BY <2>3, <4>2, OtherChannelClosed
        <5>. QED
          BY <5>1, HistoryGrows
      <4>3. CASE m.ch = r.ch /\ m \in CapacityUpdates /\ NamesBoth(m)
                 /\ received' = received \cup {m} /\ r = WithCapacity(graph[P], m)
        <5>1. graph[P] \in ChannelRecords
          BY <2>3, <3>1 DEF Applied, TypeOK, MemoryTypeOK
        <5>2. ConfirmedBy(received', r, r.ch)
          BY <4>3, <5>1, ConfirmedUpdate
        <5>. QED
          BY <5>2
      <4>. QED
        BY <2>3, <4>1, <4>2, <4>3 DEF Applied
    <3>. HIDE DEF P
    <3>. QED
      BY <1>c, <1>d, <1>g, <3>1, <3>2, <3>3
  <2>4. CASE ChannelOpened
    <3>. DEFINE c == Head(batch).ch
                P == PairOf[c]
    <3>1. /\ c \in Channels /\ Rows' = Rows /\ channel' = channel
          /\ graph'[P] = FreshChannel(c) /\ FreshChannel(c).ch = c
          /\ \A p \in Pairs \ {P} : graph'[p] = graph[p]
      BY <2>4, Fresh
    <3>2. ConfirmedBy(received', FreshChannel(c), c)
      BY <3>1, ConfirmedFresh
    <3>. HIDE DEF P, c
    <3>. QED
      BY <1>c, <1>d, <1>g, <3>1, <3>2
  <2>5. CASE ChannelRemoved
    <3>. DEFINE c == Head(batch).ch
                P == PairOf[c]
    <3>1. /\ Rows' = Rows \ {c} /\ \A d \in Rows' : channel'[d] = channel[d]
          /\ c \in Rows => graph'[P] = NoChannel /\ \A p \in Pairs \ {P} : graph'[p] = graph[p]
          /\ c \notin Rows => graph' = graph
      BY <2>5, Removal
    <3>. HIDE DEF P, c
    <3>. QED
      BY <1>c, <1>d, <1>g, <3>1
  <2>6. CASE Restarting
    <3>1. channel' = channel /\ Rows' = Rows /\ graph' = [p \in Pairs |-> Loaded(p)]
      BY <2>6 DEF Restarting, Restart, dbvars, Rows
    <3>2. ASSUME NEW p \in Pairs, graph'[p] # NoChannel
          PROVE  Good(graph'[p], graph'[p].ch)
      <4>1. graph'[p].ch \in Rows /\ graph'[p] = channel[graph'[p].ch]
        BY <3>1, <3>2, LoadedRow
      <4>. QED
        BY <1>c, <4>1
    <3>. QED
      BY <1>c, <1>g, <3>1, <3>2
  <2>. QED
    BY <2>1, <2>2, <2>3, <2>4, <2>5, <2>6, QuietOrNot
<1>. QED
  BY <1>1, <1>2 DEF ClaimsInv, ClosedIn

\* Every step keeps what holds of the fee schedules.
LEMMA FeesStep ==
    ASSUME TypeOK, TypeOK', WritesInv, TableInv, OpeningInv, FeesInv, [Next]_vars
    PROVE  FeesInv'
<1>. USE DEF dbvars, loopvars, hvars, EventVars
<1>0. ASSUME \A i \in DOMAIN writes' : writes'[i].op # "channel"
      PROVE  FeesInv'
  BY <1>0 DEF FeesInv
<1>1. ASSUME writes' = <<>> \/ \E w \in Writes : w.op # "channel" /\ writes' = <<w>>
      PROVE  FeesInv'
  <2>1. \A i \in DOMAIN writes' : writes'[i].op # "channel"
    BY <1>1, EmptySeq, Singleton
  <2>. QED
    BY <1>0, <2>1
<1>2. CASE Idling
  BY <1>2 DEF Idling, FeesInv, Rows
<1>3. ASSUME NEW e \in Events, ChainEvent(e)
      PROVE  FeesInv'
  BY <1>1, <1>3 DEF ChainEvent
<1>4. CASE ExecuteStatement
  <2>1. CASE Head(writes).op = "channel"
    BY <1>1, <1>4, <2>1, StatementEffect
  <2>2. CASE Head(writes).op # "channel"
    <3>1. /\ \A i \in DOMAIN writes' : i + 1 \in DOMAIN writes /\ writes'[i] = writes[i + 1]
          /\ channel' = channel
      BY <1>4, <2>2, StatementEffect
    <3>. QED
      BY <3>1 DEF FeesInv, Rows
  <2>. QED
    BY <2>1, <2>2
<1>5. ASSUME NEW m \in Msgs, MessageStep(m)
      PROVE  FeesInv'
  <2>1. Dropped => FeesInv'
    BY <1>1 DEF Dropped
  <2>2. PutAside(m) => FeesInv'
    BY <1>1, WriteTypes, StatementFields DEF PutAside
  <2>3. SavedOnly(m) => FeesInv'
    BY <1>1, WriteTypes, StatementFields DEF SavedOnly
  <2>4. ASSUME NEW r \in ChannelRecords, Applied(m, r)
        PROVE  FeesInv'
    <3>. DEFINE P == PairOf[m.ch]
    <3>1. /\ P \in Pairs /\ PairOf[r.ch] = P /\ r.ch = graph[P].ch
          /\ \A p \in Nodes : r.fee[p] >= graph[P].fee[p]
      BY <2>4, AppliedPending DEF Applied
    <3>2. channel' = channel /\ Rows' = Rows /\ ~SavePending(P)
      BY <1>5, Pending DEF MessageStep, Rows
    <3>3. r.ch \in Rows => \A p \in Nodes : r.fee[p] >= channel[r.ch].fee[p]
      BY <3>1, <3>2 DEF TableInv
    <3>4. UpsertChannel(r) \in Writes /\ UpsertChannel(r).row = r
      BY WriteTypes, StatementFields
    <3>5. \A i \in DOMAIN writes' : writes'[i].op = "channel" => writes'[i].row = r
      <4>1. CASE writes' = <<UpsertChannel(r)>>
        BY <3>4, <4>1, Singleton
      <4>2. CASE m \in CapacityUpdates /\ writes' = <<UpsertCapacityUpdate(m), UpsertChannel(r)>>
        <5>1. UpsertCapacityUpdate(m) \in Writes /\ UpsertCapacityUpdate(m).op # "channel"
          BY <4>2, WriteTypes, StatementFields
        <5>. QED
          BY <3>4, <4>2, <5>1, Two
      <4>. QED
        BY <2>4, <4>1, <4>2 DEF Applied
    <3>. QED
      BY <3>2, <3>3, <3>5 DEF FeesInv
  <2>. QED
    BY <1>5, <2>1, <2>2, <2>3, <2>4 DEF MessageStep
<1>6. CASE GetBlockchainEvents \/ SelectWaitingMessages \/ ChannelRemoved \/ TokenNetworkCreated
  BY <1>1, <1>6, WriteTypes, StatementFields
     DEF GetBlockchainEvents, SelectWaitingMessages, ChannelRemoved, TokenNetworkCreated, NextEvent
<1>7. CASE ChannelOpened
  <2>. DEFINE c == Head(batch).ch
  <2>1. /\ writes' = <<UpsertChannel(FreshChannel(c))>> /\ FreshChannel(c) \in ChannelRecords
        /\ FreshChannel(c).ch = c
    BY <1>7, Fresh
  <2>2. DOMAIN writes' = {1} /\ writes'[1].row = FreshChannel(c)
    BY <2>1, WriteTypes, StatementFields, Singleton
  <2>. QED
    BY <2>1, <2>2 DEF FeesInv
<1>8. CASE PopDone
  <2>1. Head(batch).ch \in Channels
    BY <1>8, BatchType DEF PopDone, TypeOK, MemoryTypeOK
  <2>. QED
    BY <1>1, <1>8, <2>1, WriteTypes, StatementFields DEF PopDone
<1>9. CASE UpdatedHeadBlock
  BY <1>1, <1>9, WriteTypes, StatementFields DEF UpdatedHeadBlock, TypeOK, MemoryTypeOK
<1>10. CASE Restarting
  BY <1>1, <1>10 DEF Restarting, Restart
<1>. QED
  BY <1>2, <1>3, <1>4, <1>5, <1>6, <1>7, <1>8, <1>9, <1>10, Kinds

------------------------------------------------------------------------------
(* The inductive invariant.                                                *)

\* The invariant holds initially.
LEMMA InitInv == Init => IInv
<1>. SUFFICES ASSUME Init PROVE IInv
  OBVIOUS
<1>1. TypeOK
  BY TypeInit
<1>2. Rows = {} /\ Handled = 0 /\ \A p : ~SavePending(p)
  BY Pending DEF Init, Rows, Handled
<1>3. LogInv
  BY EmptySeq DEF Init, LogInv
<1>4. LoopInv
  BY DEF Init, LoopInv
<1>5. WritesInv /\ FeesInv
  BY EmptySeq DEF Init, WritesInv, FeesInv
<1>6. \A p \in Pairs : graph[p] = NoChannel
  BY DEF Init
<1>7. TableInv
  BY <1>2, <1>6 DEF TableInv
<1>8. OpeningInv
  BY <1>2 DEF Init, OpeningInv
<1>9. ReplayInv
  BY <1>2 DEF Init, ReplayInv
<1>10. WaitingInv
  BY EmptySeq DEF Init, WaitingInv
<1>11. \A c \in Channels, p \in Nodes : capacity_update[<<c, p>>] = NoUpdate
  BY DEF Init
<1>12. ClaimsInv
  BY <1>2, <1>6, <1>11 DEF ClaimsInv
<1>. QED
  BY <1>1, <1>3, <1>4, <1>5, <1>7, <1>8, <1>9, <1>10, <1>12 DEF IInv

\* Every step keeps the invariant.
LEMMA StepInv == IInv /\ [Next]_vars => IInv'
<1>. SUFFICES ASSUME IInv, [Next]_vars PROVE IInv'
  OBVIOUS
<1>. USE DEF IInv
<1>1. TypeOK'
  BY TypeStep
<1>2. LogInv'
  BY LogStep
<1>3. LoopInv'
  BY <1>1, LoopStep
<1>4. WritesInv'
  BY <1>1, <1>3, WritesStep
<1>5. TableInv'
  BY <1>1, TableStep
<1>6. OpeningInv'
  BY <1>1, OpeningStep
<1>7. ReplayInv'
  BY <1>1, <1>3, ReplayStep
<1>8. WaitingInv'
  BY <1>1, WaitingStep
<1>9. ClaimsInv'
  BY <1>1, ClaimsStep
<1>10. FeesInv'
  BY <1>1, FeesStep
<1>. QED
  BY <1>1, <1>2, <1>3, <1>4, <1>5, <1>6, <1>7, <1>8, <1>9, <1>10

\* The inductive invariant holds in every state.
LEMMA Invariant == Spec => []IInv
BY InitInv, StepInv, PTL DEF Spec

\* Once the service has caught up, it has handled all it ever queried.
LEMMA CaughtUpFacts ==
    ASSUME IInv, CaughtUp
    PROVE  Handled = fetched /\ committed = fetched /\ \A p : ~SavePending(p)
<1>1. /\ Handled \in Nat /\ committed \in Nat /\ latest \in Nat /\ fetched \in Nat
      /\ committed <= latest /\ latest <= Handled /\ Handled <= fetched
  BY HandledFacts DEF IInv, TypeOK, DatabaseTypeOK, MemoryTypeOK
<1>. QED
  BY <1>1, Pending DEF CaughtUp

------------------------------------------------------------------------------
(* Theorems.                                                               *)

\* Every variable keeps its type, whatever arrives, in whichever order, and
\* wherever the service dies: no handler reads a field a value does not have.
THEOREM TypeCorrect == Spec => []TypeOK
<1>1. IInv => TypeOK
  BY DEF IInv
<1>. QED
  BY <1>1, Invariant, PTL

\* Between two handlers a restart would change nothing: the object at the edge
\* of a saved channel is the row that was saved.
THEOREM RestartChangesNothing == Spec => []DatabaseInGraph
<1>1. IInv => DatabaseInGraph
  <2>. SUFFICES ASSUME IInv, AtRest, NEW c \in Rows
                PROVE  c \in ids /\ graph[PairOf[c]] = channel[c]
    BY DEF DatabaseInGraph
  <2>. QED
    BY Pending DEF IInv, TableInv, AtRest
<1>. QED
  BY <1>1, Invariant, PTL

\* Once the service has caught up, the graph and the database hold exactly the
\* channels that are open, whatever was handled again after a crash.
THEOREM ExactGraph == Spec => []GraphExact
<1>1. ASSUME IInv, CaughtUp
      PROVE  /\ ids = OpenChannels(committed) /\ Rows = ids
             /\ \A p \in Pairs : graph[p] # NoChannel => graph[p].ch \in ids
  <2>1. Handled = fetched /\ committed = fetched /\ \A p : ~SavePending(p)
    BY <1>1, CaughtUpFacts
  <2>2. fetched \in Nat /\ ids \subseteq Channels
    BY <1>1 DEF IInv, TypeOK, MemoryTypeOK
  <2>3. ASSUME NEW c \in ids
        PROVE  c \in Rows /\ c \in OpenChannels(committed)
    <3>1. PICK i \in 1 .. fetched :
              /\ log[i] = Opened(c)
              /\ i > Handled \/ (c \in Rows /\ \A k \in 1 .. Handled : log[k] # Closed(c))
      BY <1>1 DEF IInv, ReplayInv
    <3>2. c \in Rows /\ \A k \in 1 .. fetched : log[k] # Closed(c)
      BY <2>1, <2>2, <3>1
    <3>. QED
      BY <2>1, <2>2, <3>1, <3>2 DEF OpenChannels, Opened, Closed
  <2>4. ASSUME NEW c \in OpenChannels(committed)
        PROVE  c \in ids
    <3>1. /\ c \in Channels /\ \E i \in 1 .. Handled : log[i] = Opened(c)
          /\ \A k \in 1 .. fetched : log[k] # Closed(c)
      BY <2>1 DEF OpenChannels, Opened, Closed
    <3>. QED
      BY <1>1, <3>1 DEF IInv, ReplayInv
  <2>5. \A c \in Rows : c \in ids
    BY <1>1 DEF IInv, TableInv
  <2>6. \A p \in Pairs : graph[p] # NoChannel => graph[p].ch \in ids
    BY <1>1 DEF IInv, TableInv
  <2>. QED
    BY <2>3, <2>4, <2>5, <2>6
<1>2. IInv => GraphExact
  BY <1>1 DEF GraphExact
<1>. QED
  BY <1>2, Invariant, PTL

\* Nobody pretends to a capacity: once the service has caught up, what it takes
\* a node to be able to send was said by both participants of that channel.
THEOREM ConfirmedCapacity == Spec => []CapacityConfirmed
<1>1. ASSUME IInv, CaughtUp, NEW c \in Rows, NEW p \in PairOf[c], channel[c].capacity[p] > 0
      PROVE  /\ \E a \in Claims(c, p) : channel[c].capacity[p] <= a
             /\ \E a \in ClaimsOfPartner(c, p) : channel[c].capacity[p] <= a
  <2>1. Handled = fetched
    BY <1>1, CaughtUpFacts
  <2>2. fetched \in Nat /\ c \in ids
    BY <1>1 DEF IInv, TypeOK, TableInv
  <2>3. PICK i \in 1 .. fetched :
            /\ log[i] = Opened(c)
            /\ i > Handled \/ (c \in Rows /\ \A k \in 1 .. Handled : log[k] # Closed(c))
    BY <1>1, <2>2 DEF IInv, ReplayInv
  <2>4. ~ClosedIn(fetched, c)
    BY <2>1, <2>2, <2>3 DEF ClosedIn
  <2>5. ConfirmedBy(received, channel[c], c)
    BY <1>1, <2>4 DEF IInv, ClaimsInv
  <2>. QED
    BY <1>1, <2>5 DEF ConfirmedBy, Claims, ClaimsOfPartner
<1>2. IInv => CapacityConfirmed
  BY <1>1 DEF CapacityConfirmed
<1>. QED
  BY <1>2, Invariant, PTL

\* No message that was put aside is forgotten: once the service has caught up,
\* none waits for a channel that is known.
THEOREM DeferredHandled == Spec => []DeferredDelivered
<1>1. ASSUME IInv, CaughtUp, NEW c \in ids
      PROVE  waiting_message[c] = <<>>
  <2>1. Handled = fetched /\ committed = fetched
    BY <1>1, CaughtUpFacts
  <2>2. \A d : writes # <<DeleteWaitingMessages(d)>>
    BY <1>1, DeletePending DEF CaughtUp
  <2>3. fetched \in Nat /\ Len(log) \in Nat /\ DOMAIN log = 1 .. Len(log) /\ fetched <= Len(log)
    BY <1>1 DEF IInv, TypeOK, LoopInv
  <2>4. PICK i \in 1 .. fetched : log[i] = Opened(c)
    BY <1>1 DEF IInv, ReplayInv
  <2>5. ASSUME waiting_message[c] # <<>>
        PROVE  FALSE
    <3>1. PICK j \in committed + 1 .. Len(log) : log[j] = Opened(c)
      BY <1>1, <2>5 DEF IInv, WaitingInv
    <3>2. i \in DOMAIN log /\ j \in DOMAIN log /\ i # j
      BY <2>1, <2>3
    <3>3. c \in Channels
      BY <1>1 DEF IInv, TypeOK, MemoryTypeOK
    <3>. QED
      BY <1>1, <2>4, <3>1, <3>2, <3>3 DEF IInv, LogInv
  <2>. QED
    BY <2>5
<1>2. IInv => DeferredDelivered
  BY <1>1 DEF DeferredDelivered
<1>. QED
  BY <1>2, Invariant, PTL

\* A late fee update never replaces a newer one: no step makes the saved fee
\* schedule of a channel older, unless the channel is opened again or removed.
THEOREM FeesOnlyNewer == Spec => FeesNeverGoBack
<1>. DEFINE Newer == \A c \in Rows : \A p \in PairOf[c] :
                        channel'[c] # NoChannel /\ channel'[c] # FreshChannel(c)
                        => channel'[c].fee[p] >= channel[c].fee[p]
<1>1. ASSUME IInv, [Next]_vars
      PROVE  Newer
  <2>. SUFFICES ASSUME NEW c \in Rows, NEW p \in PairOf[c],
                       channel'[c] # NoChannel, channel'[c] # FreshChannel(c)
                PROVE  channel'[c].fee[p] >= channel[c].fee[p]
    OBVIOUS
  <2>0. c \in Channels /\ p \in Nodes /\ channel[c].fee[p] \in Nat
    <3>1. c \in Channels /\ channel[c] \in ChannelRecords
      BY <1>1 DEF IInv, TypeOK, DatabaseTypeOK, Rows
    <3>2. p \in Nodes
      BY <3>1, Pair
    <3>. QED
      BY <3>1, <3>2, RecordFields
  <2>1. CASE channel'[c] = channel[c]
    BY <2>0, <2>1
  <2>2. CASE ExecuteStatement /\ Head(writes).op = "channel"
    <3>. DEFINE r == Head(writes).row
    <3>1. /\ r.ch \in Channels /\ channel'[r.ch] = r
          /\ \A d \in Channels : d # r.ch /\ PairOf[d] = PairOf[r.ch] => channel'[d] = NoChannel
          /\ \A d \in Channels : PairOf[d] # PairOf[r.ch] => channel'[d] = channel[d]
      BY <1>1, <2>2, SavedRow DEF IInv
    <3>2. CASE c = r.ch
      <4>1. Head(writes) = writes[1] /\ 1 \in DOMAIN writes
        BY <1>1, <2>2, StatementEffect DEF IInv
      <4>2. r = FreshChannel(r.ch) \/ \A q \in Nodes : r.fee[q] >= channel[r.ch].fee[q]
        BY <1>1, <2>2, <3>2, <4>1 DEF IInv, FeesInv
      <4>. QED
        BY <2>0, <3>1, <3>2, <4>2
    <3>3. CASE c # r.ch
      BY <2>0, <2>1, <3>1, <3>3
    <3>. QED
      BY <3>2, <3>3
  <2>3. CASE ChannelRemoved
    <3>1. Rows' = Rows \ {Head(batch).ch} /\ \A d \in Rows' : channel'[d] = channel[d]
      BY <1>1, <2>3, Removal DEF IInv
    <3>2. c \in Rows'
      BY <2>0 DEF Rows
    <3>. QED
      BY <2>1, <3>1, <3>2
  <2>4. channel' = channel \/ (ExecuteStatement /\ Head(writes).op = "channel") \/ ChannelRemoved
    <3>1. \A m \in Msgs : MessageStep(m) => channel' = channel
      BY DEF MessageStep, dbvars
    <3>2. ChannelOpened \/ Restarting => channel' = channel
      BY DEF ChannelOpened, Restarting, dbvars
    <3>. QED
      BY <1>1, <3>1, <3>2, QuietOrNot DEF IInv, Quiet
  <2>. QED
    BY <2>1, <2>2, <2>3, <2>4
<1>2. Spec => [][Newer]_vars
  BY <1>1, Invariant, PTL DEF Spec
<1>. QED
  BY <1>2 DEF FeesNeverGoBack

=============================================================================
