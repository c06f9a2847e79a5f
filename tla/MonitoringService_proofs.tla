----------------------- MODULE MonitoringService_proofs -----------------------
(***************************************************************************)
(* Proofs about MonitoringService: for any number of channels, requests,   *)
(* other services, crashes and faults, and any timing of the contracts.    *)
(***************************************************************************)
EXTENDS MonitoringService, FiniteSetTheorems, SequenceTheorems, TLAPS

------------------------------------------------------------------------------
(* The chain.                                                              *)

\* An event of a token network that is emitted now is well-formed.
LEMMA TokenNetworkEventType ==
    ASSUME IsFiniteSet(log), now \in Nat,
           NEW k \in Nat, NEW type \in TokenNetworkEvents, NEW c \in Channels,
           NEW who \in Participants \cup {None}, NEW nonce \in Nat
    PROVE  Event(k, type, c, who, nonce) \in Events
<1>1. Cardinality(log) + k \in Nat
  BY FS_CardinalityType
<1>. QED
  BY <1>1 DEF Event, Events

\* So is an event of the monitoring service contract.
LEMMA MSCEventType ==
    ASSUME IsFiniteSet(log), now \in Nat,
           NEW k \in Nat, NEW type \in MSCEvents, NEW c \in Channels,
           NEW who \in Services, NEW nonce \in Nat
    PROVE  Event(k, type, c, who, nonce) \in Events
<1>1. Cardinality(log) + k \in Nat
  BY FS_CardinalityType
<1>. QED
  BY <1>1 DEF Event, Events

\* The events emitted so far carry no nonce above the one of their channel.
LogInv == \A e \in log : e.type # "created" => e.nonce <= chain[e.on].nonce

\* What a contract's transaction does to a channel and to the log.
LEMMA OneEvent ==
    ASSUME ChainTypeOK, LogInv,
           NEW c \in Channels, NEW r \in ChannelOnChain, r.nonce >= chain[c].nonce,
           NEW e \in Events, e.type # "created", e.on = c, e.nonce <= r.nonce,
           chain' = [chain EXCEPT ![c] = r],
           log' = log \cup {e}
    PROVE  /\ chain' \in [Channels -> ChannelOnChain]
           /\ log' \in SUBSET Events /\ IsFiniteSet(log')
           /\ LogInv'
           /\ log \subseteq log'
           /\ \A d \in Channels : chain'[d].nonce >= chain[d].nonce
<1>1. chain' \in [Channels -> ChannelOnChain]
  BY DEF ChainTypeOK
<1>2. log' \in SUBSET Events /\ IsFiniteSet(log')
  BY FS_AddElement DEF ChainTypeOK
<1>3. \A d \in Channels : chain[d].nonce \in Nat /\ chain'[d].nonce >= chain[d].nonce
  BY DEF ChainTypeOK, ChannelOnChain
<1>4. ASSUME NEW f \in log', f.type # "created"
      PROVE  f.nonce <= chain'[f.on].nonce
  <2>1. CASE f = e
    BY <2>1, <1>4 DEF ChainTypeOK
  <2>2. CASE f \in log
    <3>1. f.on \in Channels /\ f.nonce \in Nat
      BY <1>4, <2>2 DEF ChainTypeOK, Events
    <3>2. f.nonce <= chain[f.on].nonce
      BY <1>4, <2>2 DEF LogInv
    <3>. QED
      BY <3>1, <3>2, <1>1, <1>3 DEF ChannelOnChain
  <2>. QED
    BY <2>1, <2>2, <1>4
<1>. QED
  BY <1>1, <1>2, <1>3, <1>4 DEF LogInv

\* A call of MSC.monitor emits two events.
LEMMA TwoEvents ==
    ASSUME ChainTypeOK, LogInv,
           NEW c \in Channels, NEW n \in Nat, n >= chain[c].nonce, NEW ms \in Services,
           MonitorEffect(c, n, ms)
    PROVE  /\ chain' \in [Channels -> ChannelOnChain]
           /\ log' \in SUBSET Events /\ IsFiniteSet(log')
           /\ LogInv'
           /\ log \subseteq log'
           /\ \A d \in Channels : chain'[d].nonce >= chain[d].nonce
<1>. DEFINE r == [chain[c] EXCEPT !.nonce = n, !.rewardTo = ms]
            e == Event(1, "updated", c, chain[c].closer, n)
            f == Event(2, "monitored", c, ms, n)
<1>1. /\ now \in Nat /\ IsFiniteSet(log) /\ log \in SUBSET Events
      /\ \A d \in Channels : /\ chain[d] \in ChannelOnChain
                             /\ chain[d].nonce \in Nat
                             /\ chain[d].closer \in Participants \cup {None}
  BY DEF ChainTypeOK, ChannelOnChain
<1>2. r \in ChannelOnChain /\ r.nonce = n
  BY <1>1 DEF ChannelOnChain
<1>3. chain' = [chain EXCEPT ![c] = r]
  BY DEF MonitorEffect
<1>4. chain' \in [Channels -> ChannelOnChain]
  BY <1>2, <1>3 DEF ChainTypeOK
<1>5. e \in Events
  BY <1>1, TokenNetworkEventType DEF TokenNetworkEvents
<1>6. f \in Events
  BY <1>1, MSCEventType DEF MSCEvents
<1>7. log' = (log \cup {e}) \cup {f}
  BY DEF MonitorEffect
<1>8. IsFiniteSet(log \cup {e})
  BY <1>1, FS_AddElement
<1>9. IsFiniteSet(log')
  BY <1>7, <1>8, FS_AddElement
<1>10. \A d \in Channels : chain'[d].nonce >= chain[d].nonce
  BY <1>1, <1>2, <1>3 DEF ChainTypeOK
<1>11. e.on = c /\ e.nonce = n /\ f.on = c /\ f.nonce = n
  BY DEF Event
<1>12. ASSUME NEW g \in log', g.type # "created"
       PROVE  g.nonce <= chain'[g.on].nonce
  <2>1. CASE g \in {e, f}
    BY <2>1, <1>2, <1>3, <1>11 DEF ChainTypeOK
  <2>2. CASE g \in log
    <3>1. g.on \in Channels /\ g.nonce \in Nat
      BY <1>12, <2>2 DEF ChainTypeOK, Events
    <3>2. g.nonce <= chain[g.on].nonce
      BY <1>12, <2>2 DEF LogInv
    <3>3. chain'[g.on].nonce \in Nat
      BY <3>1, <1>4 DEF ChannelOnChain
    <3>. QED
      BY <3>1, <3>2, <3>3, <1>1, <1>10
  <2>. QED
    BY <2>1, <2>2, <1>7, <1>12
<1>. QED
  BY <1>1, <1>4, <1>5, <1>6, <1>7, <1>9, <1>10, <1>12 DEF LogInv

\* A transaction that is mined is still a transaction.
LEMMA MinedType ==
    ASSUME ChainTypeOK, NEW i \in DOMAIN txs, Mined(i)
    PROVE  txs' \in Seq(Transactions)
<1>1. txs \in [1 .. Len(txs) -> Transactions] /\ Len(txs) \in Nat /\ now \in Nat
  BY LenProperties DEF ChainTypeOK
<1>2. i \in 1 .. Len(txs)
  BY <1>1
<1>3. [txs[i] EXCEPT !.block = now] \in Transactions
  BY <1>1, <1>2 DEF Transactions
<1>4. txs' = [txs EXCEPT ![i] = [txs[i] EXCEPT !.block = now]]
  BY DEF Mined
<1>5. txs' \in [1 .. Len(txs) -> Transactions]
  BY <1>1, <1>2, <1>3, <1>4
<1>. QED
  BY <1>1, <1>5, SeqDef

\* The transactions on the chain keep it well-formed, never forget an event and
\* never lower a nonce.
LEMMA ChainSteps ==
    ASSUME ChainTypeOK, LogInv, ChainTransaction \/ MineTx
    PROVE  /\ ChainTypeOK'
           /\ LogInv'
           /\ log \subseteq log'
           /\ \A d \in Channels : chain'[d].nonce >= chain[d].nonce
<1>. DEFINE Grown == /\ chain' \in [Channels -> ChannelOnChain]
                     /\ log' \in SUBSET Events /\ IsFiniteSet(log')
                     /\ LogInv'
                     /\ log \subseteq log'
                     /\ \A d \in Channels : chain'[d].nonce >= chain[d].nonce
<1>. USE ChainConstants
<1>types. /\ now \in Nat /\ IsFiniteSet(log)
          /\ \A c \in Channels : /\ chain[c] \in ChannelOnChain
                                 /\ chain[c].nonce \in Nat
                                 /\ chain[c].closer \in Participants \cup {None}
  BY DEF ChainTypeOK, ChannelOnChain
<1>same. ASSUME UNCHANGED <<chain, log>> PROVE Grown
  BY <1>same, <1>types DEF ChainTypeOK, LogInv
<1>1. ASSUME NEW c \in Channels, OpenChannel(c) PROVE ChainTypeOK' /\ Grown
  <2>. DEFINE r == [chain[c] EXCEPT !.state = "opened"]
              e == Event(1, "opened", c, None, 0)
  <2>1. r \in ChannelOnChain /\ r.nonce >= chain[c].nonce /\ 0 <= r.nonce
    BY <1>types DEF ChannelOnChain
  <2>2. e \in Events
    BY <1>types, TokenNetworkEventType DEF TokenNetworkEvents
  <2>3. e.type # "created" /\ e.on = c /\ e.nonce <= r.nonce
    BY <2>1 DEF Event
  <2>4. chain' = [chain EXCEPT ![c] = r] /\ log' = log \cup {e}
    BY <1>1 DEF OpenChannel
  <2>5. Grown
    BY <2>1, <2>2, <2>3, <2>4, OneEvent
  <2>. QED
    BY <1>1, <2>5 DEF OpenChannel, ChainTypeOK
<1>2. ASSUME NEW c \in Channels, NEW p \in Closers, CloseChannel(c, p)
      PROVE  ChainTypeOK' /\ Grown
  <2>. DEFINE r == [chain[c] EXCEPT !.state = "closed", !.closer = p, !.closedAt = now]
              e == Event(1, "closed", c, p, 0)
  <2>p. p \in Participants \cup {None}
    OBVIOUS
  <2>0. r.nonce = chain[c].nonce
    BY <1>types DEF ChannelOnChain
  <2>r. r \in ChannelOnChain
    BY <1>types, <2>p DEF ChannelOnChain
  <2>1. r \in ChannelOnChain /\ r.nonce >= chain[c].nonce /\ 0 <= r.nonce
    BY <1>types, <2>0, <2>r
  <2>2. e \in Events
    BY <1>types, <2>p, TokenNetworkEventType DEF TokenNetworkEvents
  <2>3. e.type # "created" /\ e.on = c /\ e.nonce <= r.nonce
    BY <2>1 DEF Event
  <2>4. chain' = [chain EXCEPT ![c] = r] /\ log' = log \cup {e}
    BY <1>2 DEF CloseChannel
  <2>5. Grown
    BY <2>1, <2>2, <2>3, <2>4, OneEvent
  <2>. QED
    BY <1>2, <2>5 DEF CloseChannel, ChainTypeOK
<1>3. ASSUME NEW c \in Channels, NEW n \in Nonces, UpdateNonClosing(c, n)
      PROVE  ChainTypeOK' /\ Grown
  <2>. DEFINE r == [chain[c] EXCEPT !.nonce = n]
              e == Event(1, "updated", c, chain[c].closer, n)
  <2>1. n \in Nat /\ r \in ChannelOnChain /\ r.nonce >= chain[c].nonce /\ n <= r.nonce
    BY <1>3, <1>types DEF ChannelOnChain, UpdateNonClosing, CanUpdate, Nonces
  <2>2. e \in Events
    BY <1>types, <2>1, TokenNetworkEventType DEF TokenNetworkEvents
  <2>3. e.type # "created" /\ e.on = c /\ e.nonce <= r.nonce
    BY <2>1 DEF Event
  <2>4. chain' = [chain EXCEPT ![c] = r] /\ log' = log \cup {e}
    BY <1>3 DEF UpdateNonClosing
  <2>5. Grown
    BY <2>1, <2>2, <2>3, <2>4, OneEvent
  <2>. QED
    BY <1>3, <2>5 DEF UpdateNonClosing, ChainTypeOK
<1>4. ASSUME NEW c \in Channels, NEW n \in Nonces, NEW ms \in OtherServices,
             MonitorByOther(c, n, ms)
      PROVE  ChainTypeOK' /\ Grown
  <2>1. n \in Nat /\ n >= chain[c].nonce /\ ms \in Services
    BY <1>4, <1>types DEF MonitorByOther, CanMonitor, CanUpdate, Nonces, Services
  <2>2. Grown
    BY <1>4, <2>1, TwoEvents DEF MonitorByOther
  <2>. QED
    BY <1>4, <2>2 DEF MonitorByOther, ChainTypeOK
<1>5. ASSUME NEW c \in Channels, SettleChannel(c) PROVE ChainTypeOK' /\ Grown
  <2>. DEFINE r == [chain[c] EXCEPT !.state = "settled"]
              e == Event(1, "settled", c, None, 0)
  <2>1. r \in ChannelOnChain /\ r.nonce >= chain[c].nonce /\ 0 <= r.nonce
    BY <1>types DEF ChannelOnChain
  <2>2. e \in Events
    BY <1>types, TokenNetworkEventType DEF TokenNetworkEvents
  <2>3. e.type # "created" /\ e.on = c /\ e.nonce <= r.nonce
    BY <2>1 DEF Event
  <2>4. chain' = [chain EXCEPT ![c] = r] /\ log' = log \cup {e}
    BY <1>5 DEF SettleChannel
  <2>5. Grown
    BY <2>1, <2>2, <2>3, <2>4, OneEvent
  <2>. QED
    BY <1>5, <2>5 DEF SettleChannel, ChainTypeOK
<1>6. ASSUME NEW p \in Participants, NEW b \in Balances[p], ChangeBalance(p, b)
      PROVE  ChainTypeOK' /\ Grown
  <2>1. b \in Nat
    OBVIOUS
  <2>. QED
    BY <1>6, <1>same, <2>1 DEF ChangeBalance, ChainTypeOK
<1>7. ASSUME NEW p \in Participants, ConfirmBalance(p) PROVE ChainTypeOK' /\ Grown
  BY <1>7, <1>same DEF ConfirmBalance, ChainTypeOK
<1>txs. \A i \in DOMAIN txs : /\ txs[i].ch \in Channels
                              /\ txs[i].nonce \in Nat
  <2>1. txs \in [1 .. Len(txs) -> Transactions]
    BY LenProperties DEF ChainTypeOK
  <2>2. \A i \in DOMAIN txs : txs[i] \in Transactions
    BY <2>1
  <2>. QED
    BY <2>2 DEF Transactions
<1>8. ASSUME NEW i \in DOMAIN txs, MineMonitor(i) PROVE ChainTypeOK' /\ Grown
  <2>. DEFINE c == txs[i].ch
              n == txs[i].nonce
  <2>1. c \in Channels /\ n \in Nat /\ n >= chain[c].nonce /\ Us \in Services
    BY <1>8, <1>types, <1>txs DEF MineMonitor, CanMonitor, CanUpdate, Services
  <2>2. MonitorEffect(c, n, Us) /\ Mined(i)
    BY <1>8 DEF MineMonitor
  <2>3. Grown
    BY <2>1, <2>2, TwoEvents
  <2>4. txs' \in Seq(Transactions)
    BY <2>2, MinedType
  <2>. QED
    BY <1>8, <2>3, <2>4 DEF MineMonitor, ChainTypeOK
<1>9. ASSUME NEW i \in DOMAIN txs, MineClaim(i) PROVE ChainTypeOK' /\ Grown
  <2>. DEFINE c == txs[i].ch
              r == [chain[c] EXCEPT !.rewardTo = None]
              e == Event(1, "claimed", c, Us, 0)
  <2>1. c \in Channels
    BY <1>txs
  <2>2. r \in ChannelOnChain /\ r.nonce >= chain[c].nonce /\ 0 <= r.nonce
    BY <1>types, <2>1 DEF ChannelOnChain
  <2>3. e \in Events
    BY <1>types, <2>1, MSCEventType DEF MSCEvents, Services
  <2>4. e.type # "created" /\ e.on = c /\ e.nonce <= r.nonce
    BY <2>2 DEF Event
  <2>5. chain' = [chain EXCEPT ![c] = r] /\ log' = log \cup {e} /\ Mined(i)
    BY <1>9 DEF MineClaim
  <2>6. Grown
    BY <2>1, <2>2, <2>3, <2>4, <2>5, OneEvent
  <2>7. txs' \in Seq(Transactions)
    BY <2>5, MinedType
  <2>. QED
    BY <1>9, <2>6, <2>7 DEF MineClaim, ChainTypeOK
<1>10. ASSUME NEW i \in DOMAIN txs, MineReverted(i) PROVE ChainTypeOK' /\ Grown
  BY <1>10, <1>same, MinedType DEF MineReverted, ChainTypeOK
<1>. QED
  BY <1>1, <1>2, <1>3, <1>4, <1>5, <1>6, <1>7, <1>8, <1>9, <1>10 DEF ChainTransaction, MineTx

------------------------------------------------------------------------------
(* The statements of the handlers.                                         *)

\* The statements that save no row with a nonce above the one on the chain ch.
Sound(ch) == {w \in Writes : w.op = "channel" => w.row.nonce <= ch[w.ch].nonce}

\* What each kind of statement carries.
LEMMA WriteFacts ==
    ASSUME NEW w \in Writes
    PROVE  /\ w.op = "token_network" => w.net \in Networks
           /\ w.op = "channel" => w.ch \in Channels /\ w.row \in ChannelRows
           /\ w.op \in {"schedule", "unschedule"} => w.ev \in ScheduledEvents
           /\ w.op = "waiting" => w.tx \in Nat
           /\ w.op = "head" => w.block \in Nat
BY DEF Writes

\* Sequences of sound statements, said with an index.
LEMMA SoundSequences ==
    ASSUME NEW ws, NEW ch
    PROVE  ws \in Seq(Sound(ch)) <=>
            /\ ws \in Seq(Writes)
            /\ \A i \in DOMAIN ws :
                ws[i].op = "channel" => ws[i].row.nonce <= ch[ws[i].ch].nonce
<1>1. ASSUME ws \in Seq(Sound(ch))
      PROVE  /\ ws \in Seq(Writes)
             /\ \A i \in DOMAIN ws :
                 ws[i].op = "channel" => ws[i].row.nonce <= ch[ws[i].ch].nonce
  <2>1. ws \in [1 .. Len(ws) -> Sound(ch)] /\ Len(ws) \in Nat
    BY <1>1, LenProperties
  <2>2. ws \in [1 .. Len(ws) -> Writes]
    BY <2>1 DEF Sound
  <2>3. ws \in Seq(Writes)
    BY <2>1, <2>2, SeqDef
  <2>. QED
    BY <2>1, <2>3 DEF Sound
<1>2. ASSUME ws \in Seq(Writes),
             \A i \in DOMAIN ws :
                ws[i].op = "channel" => ws[i].row.nonce <= ch[ws[i].ch].nonce
      PROVE  ws \in Seq(Sound(ch))
  <2>1. ws \in [1 .. Len(ws) -> Writes] /\ Len(ws) \in Nat
    BY <1>2, LenProperties
  <2>2. ws \in [1 .. Len(ws) -> Sound(ch)]
    BY <1>2, <2>1 DEF Sound
  <2>. QED
    BY <2>1, <2>2, SeqDef
<1>. QED
  BY <1>1, <1>2

\* One or two sound statements are a sound sequence.
LEMMA ShortSequences ==
    ASSUME NEW S, NEW a \in S
    PROVE  /\ <<>> \in Seq(S)
           /\ <<a>> \in Seq(S)
           /\ \A b \in S : <<a, b>> \in Seq(S)
OBVIOUS

\* A statement that saves no channel is sound.
LEMMA OtherStatements ==
    ASSUME NEW ch
    PROVE  /\ \A n \in Networks : UpsertTokenNetwork(n) \in Sound(ch)
           /\ \A ev \in ScheduledEvents : UpsertScheduledEvent(ev) \in Sound(ch)
           /\ \A ev \in ScheduledEvents : RemoveScheduledEvent(ev) \in Sound(ch)
           /\ \A t \in Nat : AddWaitingTransaction(t) \in Sound(ch)
           /\ \A b \in Nat : UpdateLatestCommittedBlock(b) \in Sound(ch)
BY DEF Sound, Writes, UpsertTokenNetwork, UpsertScheduledEvent, RemoveScheduledEvent,
       AddWaitingTransaction, UpdateLatestCommittedBlock

\* A statement that saves a row with a nonce of the chain's is sound.
LEMMA ChannelStatements ==
    ASSUME NEW ch, NEW c \in Channels, NEW r \in ChannelRows, r.nonce <= ch[c].nonce
    PROVE  UpsertChannel(c, r) \in Sound(ch)
BY DEF Sound, Writes, UpsertChannel

------------------------------------------------------------------------------
(* The steps of the service.                                               *)

\* The inductive invariant.
IInv == TypeOK /\ NonceInv

\* NonceInv in terms of sound sequences.
LEMMA InvParts == IInv <=> /\ TypeOK
                           /\ LogInv
                           /\ batch \subseteq log
                           /\ writes \in Seq(Sound(chain))
                           /\ NonceNotAhead
BY SoundSequences DEF IInv, NonceInv, LogInv, TypeOK, LoopTypeOK

\* The same of the next state.
LEMMA InvPartsNext == IInv' <=> /\ TypeOK'
                                /\ LogInv'
                                /\ batch' \subseteq log'
                                /\ writes' \in Seq(Sound(chain'))
                                /\ NonceNotAhead'
BY SoundSequences DEF IInv, NonceInv, LogInv, TypeOK, LoopTypeOK

\* A sequence that is sound stays so while the nonces grow.
LEMMA SoundGrows ==
    ASSUME ChainTypeOK, ChainTypeOK', NEW ws \in Seq(Sound(chain)),
           \A c \in Channels : chain'[c].nonce >= chain[c].nonce
    PROVE  ws \in Seq(Sound(chain'))
<1>1. ws \in [1 .. Len(ws) -> Sound(chain)] /\ Len(ws) \in Nat
  BY LenProperties
<1>2. ASSUME NEW w \in Sound(chain) PROVE w \in Sound(chain')
  <2>1. w \in Writes
    BY DEF Sound
  <2>2. ASSUME w.op = "channel" PROVE w.row.nonce <= chain'[w.ch].nonce
    <3>1. w.ch \in Channels /\ w.row.nonce \in Nat
      BY <2>1, <2>2, WriteFacts DEF ChannelRows
    <3>2. chain[w.ch].nonce \in Nat /\ chain'[w.ch].nonce \in Nat
      BY <3>1 DEF ChainTypeOK, ChannelOnChain
    <3>3. w.row.nonce <= chain[w.ch].nonce
      BY <2>2 DEF Sound
    <3>. QED
      BY <3>1, <3>2, <3>3
  <2>. QED
    BY <2>1, <2>2 DEF Sound
<1>3. ws \in [1 .. Len(ws) -> Sound(chain')]
  BY <1>1, <1>2
<1>. QED
  BY <1>1, <1>3, SeqDef

\* The chain's steps keep the invariant.
LEMMA ChainKeeps ==
    ASSUME IInv, ChainStep \/ Mine \/ Tick
    PROVE  IInv'
<1>1. CASE ChainStep \/ Mine
  <2>1. /\ ChainTypeOK' /\ LogInv' /\ log \subseteq log'
        /\ \A d \in Channels : chain'[d].nonce >= chain[d].nonce
    BY <1>1, ChainSteps, InvParts DEF ChainStep, Mine, TypeOK
  <2>2. /\ UNCHANGED <<dbvars, monitor_request, pc, latest, head, batch, triggered, writes,
                       try_after, hvars>>
    BY <1>1 DEF ChainStep, Mine
  <2>3. TypeOK'
    BY <2>1, <2>2 DEF IInv, TypeOK, DatabaseTypeOK, LoopTypeOK, HistoryTypeOK, dbvars, hvars
  <2>4. writes' \in Seq(Sound(chain'))
    BY <2>1, <2>2, InvParts, SoundGrows DEF TypeOK
  <2>5. NonceNotAhead'
    <3>. SUFFICES ASSUME NEW c \in Channels, channel'[c] # NoRow
                  PROVE  channel'[c].nonce <= chain'[c].nonce
      BY DEF NonceNotAhead
    <3>1. channel' = channel
      BY <2>2 DEF dbvars
    <3>2. channel[c].nonce <= chain[c].nonce
      BY <3>1, InvParts DEF NonceNotAhead
    <3>3. channel[c].nonce \in Nat
      BY <3>1 DEF IInv, TypeOK, DatabaseTypeOK, ChannelRows
    <3>4. chain[c].nonce \in Nat /\ chain'[c].nonce \in Nat
      BY <2>1 DEF IInv, TypeOK, ChainTypeOK, ChannelOnChain
    <3>. QED
      BY <2>1, <3>1, <3>2, <3>3, <3>4
  <2>. QED
    BY <2>1, <2>2, <2>3, <2>4, <2>5, InvParts, InvPartsNext
<1>2. CASE Tick
  <2>1. ChainTypeOK'
    BY <1>2 DEF IInv, TypeOK, ChainTypeOK, Tick, NewBlock
  <2>2. DatabaseTypeOK' /\ LoopTypeOK'
    BY <1>2 DEF IInv, TypeOK, DatabaseTypeOK, LoopTypeOK, dbvars, Tick
  <2>3. HistoryTypeOK'
    BY <1>2 DEF IInv, TypeOK, HistoryTypeOK, Tick
  <2>. QED
    BY <1>2, <2>1, <2>2, <2>3 DEF TypeOK, IInv, NonceInv, NonceNotAhead, Tick, NewBlock, dbvars
<1>. QED
  BY <1>1, <1>2

\* So does the request collector.
LEMMA CollectorKeeps ==
    ASSUME IInv, NEW mr \in Requests, OnMonitorRequest(mr)
    PROVE  IInv'
<1>1. mr \in MonitorRequests /\ Clock \in Nat
  BY ServiceConstants DEF IInv, TypeOK, ChainTypeOK, Clock
<1>2. [nonce |-> mr.nonce, signer |-> mr.signer, reward |-> mr.reward, saved_at |-> Clock]
         \in StoredRequests
  BY <1>1 DEF MonitorRequests, StoredRequests
<1>3. monitor_request' \in [Channels \X Participants -> StoredRequests \cup {NoRequest}]
  BY <1>1, <1>2 DEF IInv, TypeOK, DatabaseTypeOK, OnMonitorRequest, MonitorRequests
<1>4. TypeOK'
  BY <1>3 DEF IInv, TypeOK, ChainTypeOK, DatabaseTypeOK, LoopTypeOK, HistoryTypeOK, cvars, dbvars,
              hvars, OnMonitorRequest
<1>. QED
  BY <1>4 DEF IInv, NonceInv, NonceNotAhead, OnMonitorRequest, cvars, dbvars

\* Executing a statement keeps the invariant.
LEMMA StatementKeeps ==
    ASSUME IInv, ExecuteStatement
    PROVE  IInv'
<1>. DEFINE w == Head(writes)
<1>1. /\ writes # <<>>
      /\ writes' = Tail(writes)
      /\ UNCHANGED <<cvars, monitor_request, pc, latest, head, batch, triggered, try_after, hvars>>
  BY DEF ExecuteStatement, SaveTokenNetwork, SaveChannel, SaveScheduledEvent, DeleteScheduledEvent,
         SaveWaitingTransaction, SaveCommittedBlock, Statement
<1>2. w \in Sound(chain) /\ Tail(writes) \in Seq(Sound(chain))
  BY <1>1, InvParts, HeadTailProperties
<1>3. w \in Writes
  BY <1>2 DEF Sound
<1>4. writes' \in Seq(Sound(chain')) /\ writes' \in Seq(Writes)
  BY <1>1, <1>2, SoundSequences DEF cvars
<1>5. ChainTypeOK' /\ LoopTypeOK' /\ HistoryTypeOK'
  BY <1>1, <1>4 DEF IInv, TypeOK, ChainTypeOK, LoopTypeOK, HistoryTypeOK, cvars, hvars
<1>6. DatabaseTypeOK' /\ NonceNotAhead'
  <2>1. CASE SaveChannel
    <3>1. /\ w.op = "channel" /\ channel' = [channel EXCEPT ![w.ch] = w.row]
          /\ UNCHANGED <<token_network, scheduled_events, waiting_transactions, committed>>
      BY <2>1 DEF SaveChannel, Statement
    <3>2. w.ch \in Channels /\ w.row \in ChannelRows /\ w.row.nonce <= chain[w.ch].nonce
      BY <1>2, <1>3, <3>1, WriteFacts DEF Sound
    <3>3. DatabaseTypeOK'
      BY <1>1, <3>1, <3>2 DEF IInv, TypeOK, DatabaseTypeOK
    <3>. QED
      BY <1>1, <3>1, <3>2, <3>3, InvParts DEF TypeOK, DatabaseTypeOK, NonceNotAhead, cvars
  <2>3. channel' = channel => NonceNotAhead'
    BY <1>1, InvParts DEF NonceNotAhead, cvars
  <2>4. CASE SaveTokenNetwork
    BY <1>1, <1>3, <2>3, <2>4, WriteFacts DEF IInv, TypeOK, DatabaseTypeOK, SaveTokenNetwork, Statement
  <2>5. CASE SaveScheduledEvent
    BY <1>1, <1>3, <2>3, <2>5, WriteFacts DEF IInv, TypeOK, DatabaseTypeOK, SaveScheduledEvent, Statement
  <2>6. CASE DeleteScheduledEvent
    BY <1>1, <2>3, <2>6 DEF IInv, TypeOK, DatabaseTypeOK, DeleteScheduledEvent
  <2>7. CASE SaveWaitingTransaction
    BY <1>1, <1>3, <2>3, <2>7, WriteFacts
       DEF IInv, TypeOK, DatabaseTypeOK, SaveWaitingTransaction, Statement
  <2>8. CASE SaveCommittedBlock
    BY <1>1, <1>3, <2>3, <2>8, WriteFacts DEF IInv, TypeOK, DatabaseTypeOK, SaveCommittedBlock, Statement
  <2>. QED
    BY <2>1, <2>4, <2>5, <2>6, <2>7, <2>8 DEF ExecuteStatement
<1>7. batch' \subseteq log' /\ LogInv'
  BY <1>1, InvParts DEF LogInv, cvars
<1>. QED
  BY <1>4, <1>5, <1>6, <1>7, InvPartsNext DEF TypeOK

\* Handling an event with sound statements keeps the invariant.
LEMMA HandleKeeps ==
    ASSUME IInv, NEW e \in batch, NEW ws \in Seq(Sound(chain)), Handle(e, ws),
           faults' \in 0 .. MaxFaults
    PROVE  IInv'
<1>1. /\ writes' = ws /\ batch' = batch \ {e}
      /\ UNCHANGED <<ProcessVars, pc, latest, head, triggered, try_after, fetched>>
  BY DEF Handle
<1>2. writes' \in Seq(Sound(chain')) /\ writes' \in Seq(Writes)
  BY <1>1, SoundSequences DEF ProcessVars, cvars
<1>3. ChainTypeOK' /\ DatabaseTypeOK'
  BY <1>1 DEF IInv, TypeOK, ChainTypeOK, DatabaseTypeOK, ProcessVars, cvars, dbvars
<1>4. openings' \in [Channels -> Nat]
  <2>1. openings \in [Channels -> Nat] /\ (e.type = "opened" => e.on \in Channels)
    BY DEF IInv, TypeOK, HistoryTypeOK, LoopTypeOK, Events
  <2>. QED
    BY <2>1 DEF Handle
<1>5. LoopTypeOK' /\ HistoryTypeOK'
  BY <1>1, <1>2, <1>4 DEF IInv, TypeOK, LoopTypeOK, HistoryTypeOK, ProcessVars
<1>6. batch' \subseteq log' /\ LogInv' /\ NonceNotAhead'
  BY <1>1, InvParts DEF LogInv, NonceNotAhead, ProcessVars, cvars, dbvars
<1>. QED
  BY <1>2, <1>3, <1>5, <1>6, InvPartsNext DEF TypeOK

\* So does the end of a triggered event's handler.
LEMMA DoneKeeps ==
    ASSUME IInv, NEW s \in triggered, NEW ws \in Seq(Sound(chain)), Done(s, ws),
           txs' \in Seq(Transactions), faults' \in 0 .. MaxFaults
    PROVE  IInv'
<1>1. /\ writes' = ws \o <<RemoveScheduledEvent(s)>> /\ triggered' = triggered \ {s}
      /\ UNCHANGED <<SchedulerVars, pc, try_after>>
  BY DEF Done
<1>2. <<RemoveScheduledEvent(s)>> \in Seq(Sound(chain))
  BY OtherStatements, ShortSequences DEF IInv, TypeOK, LoopTypeOK
<1>3. writes' \in Seq(Sound(chain))
  BY <1>1, <1>2, ConcatProperties
<1>4. writes' \in Seq(Sound(chain')) /\ writes' \in Seq(Writes)
  BY <1>1, <1>3, SoundSequences DEF SchedulerVars
<1>5. ChainTypeOK' /\ DatabaseTypeOK'
  BY <1>1 DEF IInv, TypeOK, ChainTypeOK, DatabaseTypeOK, SchedulerVars, dbvars
<1>6. LoopTypeOK' /\ HistoryTypeOK'
  BY <1>1, <1>4 DEF IInv, TypeOK, LoopTypeOK, HistoryTypeOK, SchedulerVars
<1>7. batch' \subseteq log' /\ LogInv' /\ NonceNotAhead'
  BY <1>1, InvParts DEF LogInv, NonceNotAhead, SchedulerVars, dbvars
<1>. QED
  BY <1>4, <1>5, <1>6, <1>7, InvPartsNext DEF TypeOK

\* What is known of an event of the batch and of the row of its channel.
LEMMA EventFacts ==
    ASSUME IInv, NEW e \in batch
    PROVE  /\ e.type = "created" => e.on \in Networks
           /\ e.type # "created" =>
                /\ e.on \in Channels
                /\ e.block \in Nat
                /\ e.nonce \in Nat
                /\ chain[e.on].nonce \in Nat
                /\ e.nonce <= chain[e.on].nonce
                /\ channel[e.on] # NoRow =>
                    /\ channel[e.on] \in ChannelRows
                    /\ channel[e.on].nonce <= chain[e.on].nonce
           /\ e.type = "closed" => e.who \in Participants \cup {None}
           /\ e.type = "monitored" => e.who \in Services
<1>1. e \in Events /\ e \in log
  BY InvParts DEF IInv, TypeOK, LoopTypeOK
<1>2. e.type # "created" => e.nonce <= chain[e.on].nonce
  BY <1>1, InvParts DEF LogInv
<1>3. e.type # "created" => e.on \in Channels /\ e.block \in Nat /\ e.nonce \in Nat
  BY <1>1 DEF Events
<1>4. /\ e.type = "created" => e.on \in Networks
      /\ e.type = "closed" => e.who \in Participants \cup {None}
      /\ e.type = "monitored" => e.who \in Services
  BY <1>1 DEF Events, TokenNetworkEvents, MSCEvents
<1>5. ASSUME e.type # "created"
      PROVE  /\ chain[e.on].nonce \in Nat
             /\ channel[e.on] # NoRow => /\ channel[e.on] \in ChannelRows
                                         /\ channel[e.on].nonce <= chain[e.on].nonce
  BY <1>3, <1>5, InvParts
     DEF TypeOK, ChainTypeOK, DatabaseTypeOK, ChannelOnChain, NonceNotAhead
<1>. QED
  BY <1>2, <1>3, <1>4, <1>5

\* What the handler of a close executes is sound.
LEMMA ClosedSound ==
    ASSUME IInv, NEW e \in batch, e.type = "closed", channel[e.on] # NoRow
    PROVE  /\ ClosedStatements(e) \in Seq(Sound(chain))
           /\ ClosedStatements(e) # <<>>
<1>1. MonitorEvent(e) \in ScheduledEvents
  BY EventFacts, ChainConstants
     DEF MonitorEvent, ScheduledEvents, FirstAllowedToMonitor, Other, Participants, IInv, TypeOK,
         ChainTypeOK, ChannelOnChain
<1>2. ClosedRow(e) \in ChannelRows /\ ClosedRow(e).nonce = channel[e.on].nonce
  BY EventFacts DEF ClosedRow, ChannelRows
<1>3. UpsertChannel(e.on, ClosedRow(e)) \in Sound(chain)
  BY <1>2, EventFacts, ChannelStatements
<1>4. UpsertScheduledEvent(MonitorEvent(e)) \in Sound(chain)
  BY <1>1, OtherStatements
<1>. QED
  BY <1>3, <1>4, ShortSequences DEF ClosedStatements

\* What the handler of an MSC update executes is sound.
LEMMA MonitoredSound ==
    ASSUME IInv, NEW e \in batch, e.type = "monitored", channel[e.on] # NoRow
    PROVE  MonitoredStatements(e) \in Seq(Sound(chain))
<1>. DEFINE row == UpdatedRow(channel[e.on], e.nonce, e.who)
<1>1. row \in ChannelRows /\ row.nonce = e.nonce
  BY EventFacts DEF UpdatedRow, ChannelRows
<1>2. UpsertChannel(e.on, row) \in Sound(chain)
  BY <1>1, EventFacts, ChannelStatements
<1>3. ClaimEvent(e.on, row.closing_block) \in ScheduledEvents
  BY <1>1, EventFacts, ChainConstants
     DEF ClaimEvent, ScheduledEvents, Other, Participants, ChannelRows
<1>4. UpsertScheduledEvent(ClaimEvent(e.on, row.closing_block)) \in Sound(chain)
  BY <1>3, OtherStatements
<1>. QED
  BY <1>2, <1>4, ShortSequences DEF MonitoredStatements

\* Every handler of a blockchain event keeps the invariant, failing or not.
LEMMA EventsKeep ==
    ASSUME IInv, HandleEvent \/ EventLost
    PROVE  IInv'
<1>. PICK e \in batch :
        \/ TokenNetworkCreated(e) \/ ChannelOpened(e) \/ ChannelUnknown(e) \/ ChannelClosed(e)
        \/ NonClosingBalanceProofUpdated(e) \/ ChannelSettled(e) \/ MonitorNewBalanceProof(e)
        \/ MonitorRewardClaimed(e) \/ HandlerFails(e)
  BY DEF HandleEvent, EventLost
<1>f. faults \in 0 .. MaxFaults
  BY DEF IInv, TypeOK, HistoryTypeOK
<1>n. <<>> \in Seq(Sound(chain))
  OBVIOUS
<1>1. CASE TokenNetworkCreated(e)
  <2>1. <<UpsertTokenNetwork(e.on)>> \in Seq(Sound(chain))
    BY <1>1, EventFacts, OtherStatements, ShortSequences DEF TokenNetworkCreated
  <2>. QED
    BY <1>1, <1>f, <2>1, HandleKeeps DEF TokenNetworkCreated
<1>2. CASE ChannelOpened(e)
  <2>1. FreshRow \in ChannelRows /\ FreshRow.nonce = 0
    BY DEF FreshRow, ChannelRows
  <2>2. <<UpsertChannel(e.on, FreshRow)>> \in Seq(Sound(chain))
    BY <1>2, <2>1, EventFacts, ChannelStatements, ShortSequences DEF ChannelOpened
  <2>. QED
    BY <1>2, <1>f, <2>2, HandleKeeps DEF ChannelOpened
<1>3. CASE ChannelUnknown(e) \/ MonitorRewardClaimed(e)
  BY <1>3, <1>f, <1>n, HandleKeeps DEF ChannelUnknown, MonitorRewardClaimed
<1>4. CASE ChannelClosed(e)
  BY <1>4, <1>f, ClosedSound, HandleKeeps DEF ChannelClosed
<1>5. CASE NonClosingBalanceProofUpdated(e)
  <2>. DEFINE row == UpdatedRow(channel[e.on], e.nonce, Other(e.who))
  <2>1. row \in ChannelRows /\ row.nonce = e.nonce
    BY <1>5, EventFacts DEF NonClosingBalanceProofUpdated, UpdatedRow, ChannelRows, Other, Participants
  <2>2. <<UpsertChannel(e.on, row)>> \in Seq(Sound(chain))
    BY <1>5, <2>1, EventFacts, ChannelStatements, ShortSequences DEF NonClosingBalanceProofUpdated
  <2>. QED
    BY <1>5, <1>f, <1>n, <2>2, HandleKeeps DEF NonClosingBalanceProofUpdated
<1>6. CASE ChannelSettled(e)
  <2>. DEFINE row == [channel[e.on] EXCEPT !.state = "SETTLED"]
  <2>1. row \in ChannelRows /\ row.nonce = channel[e.on].nonce
    BY <1>6, EventFacts DEF ChannelSettled, ChannelRows
  <2>2. <<UpsertChannel(e.on, row)>> \in Seq(Sound(chain))
    BY <1>6, <2>1, EventFacts, ChannelStatements, ShortSequences DEF ChannelSettled
  <2>. QED
    BY <1>6, <1>f, <2>2, HandleKeeps DEF ChannelSettled
<1>7. CASE MonitorNewBalanceProof(e)
  BY <1>7, <1>f, MonitoredSound, HandleKeeps DEF MonitorNewBalanceProof
<1>8. CASE HandlerFails(e)
  <2>1. faults' \in 0 .. MaxFaults
    BY <1>8, <1>f, ServiceConstants DEF HandlerFails
  <2>2. CASE Handle(e, <<>>)
    BY <1>n, <2>1, <2>2, HandleKeeps
  <2>3. CASE /\ e.type = "closed" /\ channel[e.on] # NoRow
             /\ Handle(e, <<Head(ClosedStatements(e))>>)
    <3>1. <<Head(ClosedStatements(e))>> \in Seq(Sound(chain))
      BY <2>3, ClosedSound, HeadTailProperties, ShortSequences
    <3>. QED
      BY <2>1, <2>3, <3>1, HandleKeeps
  <2>4. CASE /\ e.type = "monitored" /\ channel[e.on] # NoRow
             /\ Len(MonitoredStatements(e)) = 2
             /\ Handle(e, <<Head(MonitoredStatements(e))>>)
    <3>1. <<Head(MonitoredStatements(e))>> \in Seq(Sound(chain))
      BY <2>4, MonitoredSound, HeadTailProperties, EmptySeq, ShortSequences
    <3>. QED
      BY <2>1, <2>4, <3>1, HandleKeeps
  <2>. QED
    BY <1>8, <2>2, <2>3, <2>4 DEF HandlerFails
<1>. QED
  BY <1>1, <1>2, <1>3, <1>4, <1>5, <1>6, <1>7, <1>8

\* What is known of a triggered event, its request and the row of its channel.
LEMMA ActionFacts ==
    ASSUME IInv, NEW s \in triggered
    PROVE  /\ s \in ScheduledEvents /\ s.ch \in Channels
           /\ Len(txs) + 1 \in Nat
           /\ Request(s) # NoRequest => Request(s).nonce \in Nat
           /\ channel[s.ch] # NoRow =>
                /\ channel[s.ch] \in ChannelRows
                /\ channel[s.ch].nonce <= chain[s.ch].nonce
<1>1. s \in ScheduledEvents /\ s.ch \in Channels /\ s.who \in Participants
  BY DEF IInv, TypeOK, LoopTypeOK, ScheduledEvents
<1>2. Len(txs) + 1 \in Nat
  BY LenProperties DEF IInv, TypeOK, ChainTypeOK
<1>3. Request(s) \in StoredRequests \cup {NoRequest}
  BY <1>1 DEF IInv, TypeOK, DatabaseTypeOK, Request
<1>4. Request(s) # NoRequest => Request(s).nonce \in Nat
  BY <1>3 DEF StoredRequests
<1>5. channel[s.ch] # NoRow => /\ channel[s.ch] \in ChannelRows
                               /\ channel[s.ch].nonce <= chain[s.ch].nonce
  BY <1>1, InvParts DEF TypeOK, DatabaseTypeOK, NonceNotAhead
<1>. QED
  BY <1>1, <1>2, <1>4, <1>5

\* A transaction that is sent is well-formed.
LEMMA SentType ==
    ASSUME IInv, NEW s \in triggered
    PROVE  /\ WorthMonitoring(s) => Append(txs, MonitorTx(s)) \in Seq(Transactions)
           /\ Append(txs, ClaimTx(s)) \in Seq(Transactions)
<1>1. txs \in Seq(Transactions)
  BY DEF IInv, TypeOK, ChainTypeOK
<1>2. WorthMonitoring(s) => MonitorTx(s) \in Transactions
  BY ActionFacts DEF WorthMonitoring, MonitorTx, Transactions
<1>3. ClaimTx(s) \in Transactions
  BY ActionFacts DEF ClaimTx, Transactions
<1>. QED
  BY <1>1, <1>2, <1>3, AppendProperties

\* Sending a transaction and saving its hash keeps the invariant.
LEMMA SendKeeps ==
    ASSUME IInv, NEW s \in triggered, NEW tx, NEW row \in ChannelRows,
           row.nonce <= chain[s.ch].nonce,
           Append(txs, tx) \in Seq(Transactions), Send(s, tx, row), UNCHANGED faults
    PROVE  IInv'
<1>1. AddWaitingTransaction(Len(txs) + 1) \in Sound(chain)
  BY ActionFacts, OtherStatements
<1>2. UpsertChannel(s.ch, row) \in Sound(chain)
  BY ActionFacts, ChannelStatements
<1>3. <<AddWaitingTransaction(Len(txs) + 1), UpsertChannel(s.ch, row)>> \in Seq(Sound(chain))
  BY <1>1, <1>2, ShortSequences
<1>4. faults' \in 0 .. MaxFaults
  BY DEF IInv, TypeOK, HistoryTypeOK
<1>. QED
  BY <1>3, <1>4, DoneKeeps DEF Send

\* Every handler of a triggered event keeps the invariant, failing or not.
LEMMA ActionsKeep ==
    ASSUME IInv, HandleScheduledEvent \/ ActionLost
    PROVE  IInv'
<1>. PICK s \in triggered :
        \/ MonitorDropped(s) \/ MonitorRescheduled(s) \/ MonitorSent(s)
        \/ ClaimDropped(s) \/ ClaimSent(s) \/ HandleTooEarly(s) \/ ActionFails(s)
  BY DEF HandleScheduledEvent, ActionLost
<1>f. faults \in 0 .. MaxFaults /\ txs \in Seq(Transactions) /\ Clock \in Nat
  BY ServiceConstants DEF IInv, TypeOK, ChainTypeOK, HistoryTypeOK, Clock
<1>n. <<>> \in Seq(Sound(chain))
  OBVIOUS
<1>1. CASE MonitorDropped(s) \/ ClaimDropped(s)
  BY <1>1, <1>f, <1>n, DoneKeeps DEF MonitorDropped, ClaimDropped
<1>2. CASE MonitorRescheduled(s)
  <2>1. [s EXCEPT !.at = Clock] \in ScheduledEvents
    BY <1>f, ActionFacts DEF ScheduledEvents
  <2>2. <<UpsertScheduledEvent([s EXCEPT !.at = Clock])>> \in Seq(Sound(chain))
    BY <2>1, OtherStatements, ShortSequences
  <2>. QED
    BY <1>2, <1>f, <2>2, DoneKeeps DEF MonitorRescheduled
<1>3. CASE MonitorSent(s)
  <2>. DEFINE row == [channel[s.ch] EXCEPT !.monitor_tx = Len(txs) + 1]
  <2>1. WorthMonitoring(s) /\ channel[s.ch] # NoRow
    BY <1>3 DEF MonitorSent, MayMonitor, WorthMonitoring
  <2>2. row \in ChannelRows /\ row.nonce = channel[s.ch].nonce
    BY <2>1, ActionFacts DEF ChannelRows
  <2>. QED
    BY <1>3, <2>1, <2>2, ActionFacts, SentType, SendKeeps DEF MonitorSent
<1>4. CASE ClaimSent(s)
  <2>. DEFINE row == [channel[s.ch] EXCEPT !.claim_tx = Len(txs) + 1]
  <2>1. channel[s.ch] # NoRow
    BY <1>4 DEF ClaimSent, MayClaim, WorthClaiming
  <2>2. row \in ChannelRows /\ row.nonce = channel[s.ch].nonce
    BY <2>1, ActionFacts DEF ChannelRows
  <2>. QED
    BY <1>4, <2>1, <2>2, ActionFacts, SentType, SendKeeps DEF ClaimSent
<1>5. CASE HandleTooEarly(s)
  <2>1. /\ triggered' = {} /\ try_after' = Clock + RetryDelay /\ pc' = "pending"
        /\ UNCHANGED <<SchedulerVars, txs, writes, faults>>
    BY <1>5 DEF HandleTooEarly, TooEarly
  <2>2. TypeOK'
    BY <1>f, <2>1, ServiceConstants
       DEF IInv, TypeOK, ChainTypeOK, DatabaseTypeOK, LoopTypeOK, HistoryTypeOK, SchedulerVars, dbvars
  <2>. QED
    BY <2>1, <2>2 DEF IInv, NonceInv, NonceNotAhead, SchedulerVars, dbvars
<1>6. CASE ActionFails(s)
  <2>1. faults' \in 0 .. MaxFaults
    BY <1>6, <1>f, ServiceConstants DEF ActionFails
  <2>2. CASE Done(s, <<>>) /\ UNCHANGED txs
    BY <1>f, <1>n, <2>1, <2>2, DoneKeeps
  <2>3. CASE /\ \/ MayMonitor(s) /\ txs' = Append(txs, MonitorTx(s))
                \/ MayClaim(s) /\ txs' = Append(txs, ClaimTx(s))
             /\ \E ws \in {<<>>, <<AddWaitingTransaction(Len(txs) + 1)>>} : Done(s, ws)
    <3>1. txs' \in Seq(Transactions)
      BY <2>3, SentType DEF MayMonitor
    <3>2. <<AddWaitingTransaction(Len(txs) + 1)>> \in Seq(Sound(chain))
      BY ActionFacts, OtherStatements, ShortSequences
    <3>. QED
      BY <1>n, <2>1, <2>3, <3>1, <3>2, DoneKeeps
  <2>. QED
    BY <1>6, <2>2, <2>3 DEF ActionFails
<1>. QED
  BY <1>1, <1>2, <1>3, <1>4, <1>5, <1>6

\* The other steps of the loop keep the invariant, and so do crashes.
LEMMA LoopKeeps ==
    ASSUME IInv,
           \/ NoNewBlocks \/ GetBlockchainEvents \/ GetBlockchainEventsTimeout
           \/ UpdatedHeadBlock \/ UpdatedHeadBlockFails
           \/ TriggerNotYet \/ TriggerScheduledEvents \/ TriggeredEventsDone
           \/ CheckPendingTransactions \/ CrashAndRestart
    PROVE  IInv'
<1>types. /\ now \in Nat /\ latest \in Nat /\ head \in Nat /\ Clock \in Nat /\ fetched \in Nat
          /\ faults \in 0 .. MaxFaults
          /\ MaxFaults \in Nat /\ MaxCrashes \in Nat /\ Confirmations \in Nat
  BY ServiceConstants DEF IInv, TypeOK, ChainTypeOK, LoopTypeOK, HistoryTypeOK, Clock
<1>1. CASE NoNewBlocks \/ GetBlockchainEventsTimeout
  <2>1. ChainTypeOK' /\ DatabaseTypeOK' /\ LoopTypeOK'
    BY <1>1
       DEF IInv, TypeOK, ChainTypeOK, DatabaseTypeOK, LoopTypeOK, NoNewBlocks,
           GetBlockchainEventsTimeout, ProcessVars, cvars, dbvars
  <2>2. HistoryTypeOK'
    BY <1>1, <1>types
       DEF IInv, TypeOK, HistoryTypeOK, NoNewBlocks, GetBlockchainEventsTimeout, ProcessVars
  <2>. QED
    BY <1>1, <2>1, <2>2 DEF IInv, TypeOK, NonceInv, NonceNotAhead, NoNewBlocks, GetBlockchainEventsTimeout,
                      ProcessVars, cvars, dbvars
<1>2. CASE GetBlockchainEvents
  <2>1. /\ batch' \subseteq log /\ head' \in Nat /\ fetched' \in Nat /\ pc' = "handle"
        /\ UNCHANGED <<ProcessVars, openings, latest, triggered, writes, try_after, faults>>
    BY <1>2, <1>types DEF GetBlockchainEvents
  <2>2. ChainTypeOK' /\ DatabaseTypeOK' /\ HistoryTypeOK'
    BY <2>1 DEF IInv, TypeOK, ChainTypeOK, DatabaseTypeOK, HistoryTypeOK, ProcessVars, cvars, dbvars
  <2>3. LoopTypeOK'
    BY <2>1 DEF IInv, TypeOK, ChainTypeOK, LoopTypeOK
  <2>. QED
    BY <2>1, <2>2, <2>3 DEF IInv, TypeOK, NonceInv, NonceNotAhead, ProcessVars, cvars, dbvars
<1>3. CASE UpdatedHeadBlock
  <2>1. <<UpdateLatestCommittedBlock(head)>> \in Seq(Sound(chain))
    BY <1>types, OtherStatements, ShortSequences
  <2>2. writes' \in Seq(Sound(chain')) /\ writes' \in Seq(Writes)
    BY <1>3, <2>1, SoundSequences DEF UpdatedHeadBlock, ProcessVars, cvars
  <2>3. ChainTypeOK' /\ DatabaseTypeOK' /\ HistoryTypeOK'
    BY <1>3 DEF IInv, TypeOK, ChainTypeOK, DatabaseTypeOK, HistoryTypeOK, UpdatedHeadBlock,
                ProcessVars, cvars, dbvars
  <2>4. LoopTypeOK'
    BY <1>3, <1>types, <2>2 DEF IInv, TypeOK, LoopTypeOK, UpdatedHeadBlock
  <2>5. batch' \subseteq log' /\ LogInv' /\ NonceNotAhead'
    BY <1>3, InvParts DEF UpdatedHeadBlock, LogInv, NonceNotAhead, ProcessVars, cvars, dbvars
  <2>. QED
    BY <2>2, <2>3, <2>4, <2>5, InvPartsNext DEF TypeOK
<1>4. CASE UpdatedHeadBlockFails
  <2>1. TypeOK'
    BY <1>4, <1>types
       DEF IInv, TypeOK, ChainTypeOK, DatabaseTypeOK, LoopTypeOK, HistoryTypeOK,
           UpdatedHeadBlockFails, ProcessVars, cvars, dbvars
  <2>. QED
    BY <1>4, <2>1 DEF IInv, NonceInv, NonceNotAhead, UpdatedHeadBlockFails, ProcessVars, cvars, dbvars
<1>5. CASE TriggerNotYet \/ TriggerScheduledEvents \/ TriggeredEventsDone
  <2>1. TypeOK'
    BY <1>5
       DEF IInv, TypeOK, ChainTypeOK, DatabaseTypeOK, LoopTypeOK, HistoryTypeOK, TriggerNotYet,
           TriggerScheduledEvents, TriggeredEventsDone, SchedulerVars, dbvars
  <2>. QED
    BY <1>5, <2>1 DEF IInv, NonceInv, NonceNotAhead, TriggerNotYet, TriggerScheduledEvents,
                      TriggeredEventsDone, SchedulerVars, dbvars
<1>6. CASE CheckPendingTransactions
  <2>1. ChainTypeOK' /\ DatabaseTypeOK' /\ LoopTypeOK'
    BY <1>6 DEF IInv, TypeOK, ChainTypeOK, DatabaseTypeOK, LoopTypeOK, CheckPendingTransactions, cvars
  <2>2. HistoryTypeOK'
    BY <1>6 DEF IInv, TypeOK, HistoryTypeOK, CheckPendingTransactions
  <2>. QED
    BY <1>6, <2>1, <2>2
       DEF IInv, TypeOK, NonceInv, NonceNotAhead, CheckPendingTransactions, cvars
<1>7. CASE CrashAndRestart
  <2>1. ChainTypeOK' /\ DatabaseTypeOK'
    BY <1>7 DEF IInv, TypeOK, ChainTypeOK, DatabaseTypeOK, CrashAndRestart, cvars, dbvars
  <2>2. LoopTypeOK'
    BY <1>7, <1>types DEF IInv, TypeOK, DatabaseTypeOK, LoopTypeOK, CrashAndRestart, dbvars
  <2>3. HistoryTypeOK'
    BY <1>7, <1>types DEF IInv, TypeOK, HistoryTypeOK, CrashAndRestart
  <2>. QED
    BY <1>7, <2>1, <2>2, <2>3
       DEF IInv, TypeOK, NonceInv, NonceNotAhead, CrashAndRestart, cvars, dbvars
<1>. QED
  BY <1>1, <1>2, <1>3, <1>4, <1>5, <1>6, <1>7

\* The invariant holds when the service is started for the first time.
LEMMA InitEstablishes == Init => IInv
<1>. SUFFICES ASSUME Init PROVE IInv
  OBVIOUS
<1>. DEFINE created(n) == [pos |-> 0, block |-> 1, type |-> "created", on |-> n, who |-> None,
                           nonce |-> 0]
            f == [n \in Networks |-> created(n)]
<1>1. log = {created(n) : n \in Networks}
  BY DEF Init, ChainInit
<1>2. f \in Surjection(Networks, log)
  BY <1>1 DEF Surjection
<1>3. IsFiniteSet(log)
  BY <1>2, FS_Surjection, ChainConstants DEF ExistsSurjection
<1>4. log \in SUBSET Events
  BY <1>1 DEF Events
<1>5. udc \in [Participants -> [confirmed : Nat, latest : Nat]]
  BY ChainConstants DEF Init, ChainInit
<1>6. ChainTypeOK
  BY <1>3, <1>4, <1>5 DEF Init, ChainInit, ChainTypeOK, ChannelOnChain
<1>7. DatabaseTypeOK /\ LoopTypeOK
  BY ServiceConstants DEF Init, ChainInit, DatabaseTypeOK, LoopTypeOK, Clock
<1>8. HistoryTypeOK
  <2>1. polled \in BOOLEAN
    BY DEF Init
  <2>. QED
    BY <2>1, ServiceConstants DEF Init, HistoryTypeOK
<1>9. NonceInv
  BY <1>1 DEF Init, NonceInv, NonceNotAhead
<1>. QED
  BY <1>6, <1>7, <1>8, <1>9 DEF IInv, TypeOK

\* Every step keeps the invariant.
LEMMA StepPreserves == IInv /\ [Next]_vars => IInv'
<1>. SUFFICES ASSUME IInv, [Next]_vars PROVE IInv'
  OBVIOUS
<1>1. CASE UNCHANGED vars
  BY <1>1 DEF IInv, TypeOK, ChainTypeOK, DatabaseTypeOK, LoopTypeOK, HistoryTypeOK, NonceInv,
              NonceNotAhead, vars, cvars, hvars
<1>2. CASE Next
  BY <1>2, ChainKeeps, CollectorKeeps, StatementKeeps, EventsKeep, ActionsKeep, LoopKeeps
     DEF Next, Loop
<1>. QED
  BY <1>1, <1>2

\* The inductive invariant holds in every state.
THEOREM Invariance == Spec => []IInv
BY InitEstablishes, StepPreserves, PTL DEF Spec

\* Type correctness: whatever the chain, the clients, the node and the crashes
\* do, the tables and the statements under way are well-formed.
THEOREM TypeCorrect == Spec => []TypeOK
<1>1. IInv => TypeOK
  BY DEF IInv
<1>. QED
  BY <1>1, Invariance, PTL

\* The nonce a channel's row holds never exceeds the chain's, although events
\* are replayed after crashes and lost in faults, and rows are written some
\* steps after they were computed.  No monitor request is taken for outdated
\* that is not.
THEOREM NoPhantomUpdate == Spec => []NonceNotAhead
<1>1. IInv => NonceNotAhead
  BY DEF IInv, NonceInv
<1>. QED
  BY <1>1, Invariance, PTL

------------------------------------------------------------------------------
(* What the rows, the hashes and the scheduled checks say, and the facts   *)
(* about the chain and the loop that it rests on.                          *)

\* The order of the log: positions and blocks grow, a channel is opened and
\* closed once, and only a channel that was opened and closed is updated, with
\* growing nonces.
OrderInv ==
    /\ \A e \in log : e.pos <= Cardinality(log) /\ 1 <= e.block /\ e.block <= now
    /\ \A e \in log : e.type = "created" => e.block = 1
    /\ \A n \in Networks : \E e \in log : e.type = "created" /\ e.on = n
    /\ \A e \in log : e.type # "created" => chain[e.on].state # "absent"
    /\ \A e \in log : e.type \in {"closed", "updated", "monitored"} =>
          chain[e.on].state \in {"closed", "settled"}
    /\ \A e \in log : e.type \in {"updated", "monitored"} => e.nonce > 0
    /\ \A e \in log : e.type = "updated" => e.who = chain[e.on].closer
    /\ \A c \in Channels : chain[c].state \in {"closed", "settled"} => chain[c].closer \in Participants
    /\ \A e, f \in log : e.on = f.on /\ e.type = "opened" /\ f.type \in {"updated", "monitored"} =>
          e.pos < f.pos /\ e.block <= f.block
    /\ \A e, f \in log : e.on = f.on /\ e.type = f.type /\ e.type \in {"opened", "closed"} => e = f
    /\ \A e, f \in log : e.on = f.on /\ e.type = "monitored" /\ f.type = "monitored"
                         /\ e.nonce = f.nonce => e.who = f.who

\* The block up to which events were fetched in this pass, and those that were
\* handled.
Reached == IF pc = "handle" THEN head ELSE latest
Handled(e) == e \in log /\ e.block <= Reached /\ e \notin batch

\* The statements that may be left in each phase of the loop.
StatementsAt(p) ==
    CASE p = "handle" -> {"token_network", "channel", "schedule"}
      [] p = "trigger" -> {"head"}
      [] p = "scheduled" -> {"waiting", "channel", "schedule", "unschedule"}
      [] OTHER -> {}

\* Where the loop is, what it has fetched and which statements it may have left.
LoopInv ==
    /\ committed <= latest /\ latest <= fetched /\ head <= fetched /\ fetched < now
    /\ pc = "handle" => latest < head /\ \A e \in batch : latest < e.block /\ e.block <= head
    /\ pc # "handle" => batch = {}
    /\ \A i \in DOMAIN writes :
          /\ writes[i].op \in StatementsAt(pc)
          /\ writes[i].op = "head" => writes[i].block = latest
          /\ writes[i].op = "unschedule" => i = Len(writes) /\ writes[i].ev \notin triggered

\* Without faults the committed block is the one in memory, all the networks
\* are queried, and the list of events is handled in its order.
PassInv ==
    faults = 0 =>
        /\ (\A i \in DOMAIN writes : writes[i].op # "head") => committed = latest
        /\ latest >= 1 => token_network = Networks
        /\ pc = "handle" => \A n \in Networks :
              \/ n \in token_network
              \/ \E e \in batch : e.type = "created" /\ e.on = n
              \/ \E i \in DOMAIN writes : writes[i] = UpsertTokenNetwork(n)
        /\ pc = "handle" => \A e \in batch, f \in log :
              latest < f.block /\ f.block <= head /\ Precedes(e, f) => f \in batch

\* A row that no statement is going to replace.
Settled(c) == \A i \in DOMAIN writes : writes[i].op = "channel" => writes[i].ch # c

\* The update status of a row is that of an update, and none in E is newer.
Explained(c, r) ==
    \/ r.nonce = 0 /\ r.sender = None
    \/ \E e \in Updates(c, fetched) :
          /\ r.nonce = e.nonce
          /\ r.sender = IF e.type = "updated" THEN Other(e.who) ELSE e.who

\* No update in E is newer than the row, and a monitoring of the same nonce is its.
Complete(r, E) ==
    \A e \in E : /\ e.nonce <= r.nonce
                 /\ e.type = "monitored" /\ e.nonce = r.nonce => r.sender = e.who

\* The updates of a channel that were handled.
HandledUpdates(c) == {e \in Updates(c, Reached) : e \notin batch}

\* The channel's row, and the rows about to replace it, hold the newest update handled.
StatusAt(c) ==
    /\ channel[c] # NoRow =>
          Explained(c, channel[c]) /\ Complete(channel[c], Updates(c, latest))
    /\ channel[c] # NoRow /\ Settled(c) => Complete(channel[c], HandledUpdates(c))
    /\ \A i \in DOMAIN writes : writes[i].op = "channel" /\ writes[i].ch = c =>
          Explained(c, writes[i].row) /\ Complete(writes[i].row, HandledUpdates(c))

\* So it is for every channel, as long as no handler failed.
StatusInv == faults = 0 => \A c \in Channels : StatusAt(c)

\* A row without a hash leaves room for one transaction more; and the opening
\* of a channel that was not handled in this pass, for one opening more.
Unsaved(c) == pc = "scheduled" /\ ~Settled(c)

\* How many transactions a channel's openings, lost answers and faults explain.
Budget(c) == openings[c] + lost + faults

\* A row without a hash is not yet up to it.
Room(c, r) ==
    /\ r.monitor_tx = 0 => Cardinality(MonitorTxs(c)) < Budget(c)
    /\ r.claim_tx = 0 => Cardinality(ClaimTxs(c)) < Budget(c)

\* No channel has more transactions than that, and each row knows of those sent for it.
HashInv ==
    \A c \in Channels :
        /\ Cardinality(MonitorTxs(c)) <= Budget(c) /\ Cardinality(ClaimTxs(c)) <= Budget(c)
        /\ channel[c] # NoRow /\ ~Unsaved(c) => Room(c, channel[c])
        /\ \A i \in DOMAIN writes :
              writes[i].op = "channel" /\ writes[i].ch = c => Room(c, writes[i].row)

\* The opening of a channel is handled again only after a crash.
OpeningsInv ==
    \A c \in Channels :
        /\ openings[c] <= 1 + crashes
        /\ (\A e \in log : e.type = "opened" /\ e.on = c => ~Handled(e)) => openings[c] <= crashes

\* The checks for a monitor request of a channel that are scheduled, triggered
\* or about to be scheduled, and not about to be removed.
Written(op) == {writes[i].ev : i \in {j \in DOMAIN writes : writes[j].op = op}}

Checks(c) ==
    {s \in (scheduled_events \cup triggered \cup Written("schedule")) \ Written("unschedule") :
        s.type = "monitor" /\ s.ch = c}

\* A monitoring transaction is in the row, or about to be.
Monitored(c) ==
    \/ channel[c] # NoRow /\ channel[c].monitor_tx # 0
    \/ \E i \in DOMAIN writes :
          writes[i].op = "channel" /\ writes[i].ch = c /\ writes[i].row.monitor_tx # 0

\* There is one check at most, none once the channel is monitored, and none before it is closed.
CheckAt(c) ==
    /\ \A s, t \in Checks(c) : s = t
    /\ Checks(c) # {} => ~Monitored(c)
    /\ Checks(c) # {} \/ Monitored(c) => \E e \in log : e.type = "closed" /\ e.on = c /\ Handled(e)

\* So it is for every channel, as long as the process did not crash.
CheckInv == crashes = 0 => \A c \in Channels : CheckAt(c)

\* The steps, by what they change: the loop moves on, the chain does, a
\* statement is executed, events are fetched or handled, the block is
\* committed, a triggered event is handled, or the process dies.
MovesOn ==
    /\ UNCHANGED <<cvars, token_network, channel, scheduled_events, committed, latest, head, batch,
                   writes, fetched, openings, crashes, lost>>
    /\ triggered' \subseteq triggered \cup scheduled_events
    /\ faults' \in {faults, faults + 1}
    /\ \/ UNCHANGED <<pc, triggered>>
       \/ writes = <<>> /\ pc # "handle" /\ pc' # "handle"

\* The chain moves on.
OnChain ==
    /\ ChainTransaction \/ MineTx \/ NewBlock
    /\ LooksAtChain
    /\ UNCHANGED <<dbvars, pc, latest, head, batch, triggered, writes, fetched, openings, crashes,
                   lost, faults>>

\* A triggered event is handled.
Acts(s) ==
    \/ MonitorDropped(s) \/ MonitorRescheduled(s) \/ MonitorSent(s)
    \/ ClaimDropped(s) \/ ClaimSent(s) \/ ActionFails(s)

\* Every step is of one of these kinds.
LEMMA Kinds ==
    ASSUME TypeOK, [Next]_vars
    PROVE  \/ MovesOn \/ OnChain \/ ExecuteStatement \/ GetBlockchainEvents
           \/ HandleEvent \/ EventLost \/ UpdatedHeadBlock \/ UpdatedHeadBlockFails
           \/ \E s \in triggered : Acts(s)
           \/ CrashAndRestart
<1>1. CASE UNCHANGED vars
  BY <1>1 DEF vars, cvars, hvars, MovesOn
<1>2. CASE ChainStep \/ Mine \/ Tick
  BY <1>2 DEF ChainStep, Mine, Tick, OnChain, hvars, dbvars
<1>3. ASSUME NEW mr \in Requests, OnMonitorRequest(mr)
      PROVE  MovesOn
  BY <1>3 DEF OnMonitorRequest, MovesOn, cvars, dbvars, hvars
<1>4. CASE NoNewBlocks \/ GetBlockchainEventsTimeout
  BY <1>4 DEF NoNewBlocks, GetBlockchainEventsTimeout, MovesOn, ProcessVars, At, dbvars
<1>5. CASE TriggerNotYet \/ TriggeredEventsDone
  BY <1>5 DEF TriggerNotYet, TriggeredEventsDone, MovesOn, SchedulerVars, At, dbvars, cvars
<1>6. CASE TriggerScheduledEvents
  BY <1>6 DEF TriggerScheduledEvents, MovesOn, SchedulerVars, At, dbvars, cvars
<1>7. CASE CheckPendingTransactions
  BY <1>7 DEF CheckPendingTransactions, MovesOn, At
<1>8. ASSUME NEW s \in triggered, HandleTooEarly(s)
      PROVE  MovesOn
  BY <1>8 DEF HandleTooEarly, TooEarly, Due, MovesOn, SchedulerVars, At, dbvars, cvars
<1>9. HandleScheduledEvent \/ ActionLost => MovesOn \/ \E s \in triggered : Acts(s)
  BY <1>8 DEF HandleScheduledEvent, ActionLost, Acts
<1>. QED
  BY <1>1, <1>2, <1>3, <1>4, <1>5, <1>6, <1>7, <1>9 DEF Next, Loop

\* Events that a channel's transaction adds to the log keep its order.
LEMMA NewEvents ==
    ASSUME ChainTypeOK, ChainTypeOK', LogInv, OrderInv, now' = now,
           NEW c \in Channels, NEW New \in SUBSET Events, log' = log \cup New,
           Cardinality(log) <= Cardinality(log'),
           \A e \in New : /\ e.type # "created" /\ e.on = c /\ e.block = now
                          /\ Cardinality(log) < e.pos /\ e.pos <= Cardinality(log')
                          /\ e.type = "opened" => chain[c].state = "absent" /\ New = {e}
                          /\ e.type = "closed" => chain[c].state = "opened" /\ New = {e}
                          /\ e.type \in {"closed", "updated", "monitored"} => chain'[c].state = "closed"
                          /\ e.type \in {"updated", "monitored"} => e.nonce > chain[c].nonce
                          /\ e.type = "updated" => e.who = chain[c].closer /\ chain[c].state = "closed",
           \A e, f \in New : e.type = "monitored" /\ f.type = "monitored" => e = f,
           \A d \in Channels \ {c} : chain'[d] = chain[d],
           chain'[c].state # "absent",
           chain'[c].state \in {"closed", "settled"} => chain'[c].closer \in Participants,
           chain[c].state \in {"closed", "settled"} =>
               chain'[c].state \in {"closed", "settled"} /\ chain'[c].closer = chain[c].closer,
           now >= 1
    PROVE  OrderInv'
<1>1. /\ now \in Nat /\ Cardinality(log) \in Nat /\ Cardinality(log') \in Nat
      /\ \A d \in Channels : chain[d].nonce \in Nat
      /\ \A e \in log' : e.pos \in Nat /\ e.block \in Nat /\ e.nonce \in Nat
                         /\ (e.type # "created" => e.on \in Channels)
  BY FS_CardinalityType DEF ChainTypeOK, Events, ChannelOnChain
<1>2. \A e \in log : /\ e.pos <= Cardinality(log) /\ 1 <= e.block /\ e.block <= now
                     /\ e.type = "created" => e.block = 1
                     /\ e.type # "created" => chain[e.on].state # "absent" /\ e.nonce <= chain[e.on].nonce
                     /\ e.type \in {"closed", "updated", "monitored"} => chain[e.on].state \in {"closed", "settled"}
                     /\ e.type \in {"updated", "monitored"} => e.nonce > 0
                     /\ e.type = "updated" => e.who = chain[e.on].closer
  BY DEF OrderInv, LogInv
<1>3. ASSUME NEW e \in log'
      PROVE  e.pos <= Cardinality(log') /\ 1 <= e.block /\ e.block <= now'
  <2>1. CASE e \in log
    <3>1. e.pos <= Cardinality(log) /\ 1 <= e.block /\ e.block <= now /\ e.pos \in Nat
      BY <1>1, <1>2, <2>1
    <3>. HIDE <1>2
    <3>. QED
      BY <1>1, <3>1
  <2>2. CASE e \in New
    <3>1. e.block = now /\ e.pos <= Cardinality(log')
      BY <2>2
    <3>. QED
      BY <1>1, <3>1
  <2>. QED
    BY <2>1, <2>2
<1>4. \A e \in log' : e.type = "created" => e.block = 1
  BY <1>2
<1>5. \A n \in Networks : \E e \in log' : e.type = "created" /\ e.on = n
  BY DEF OrderInv
<1>6. \A e \in log' : e.type # "created" => chain'[e.on].state # "absent"
  BY <1>1, <1>2
<1>7. \A e \in log' : e.type \in {"closed", "updated", "monitored"} => chain'[e.on].state \in {"closed", "settled"}
  BY <1>1, <1>2
<1>8. \A e \in log' : e.type \in {"updated", "monitored"} => e.nonce > 0
  BY <1>1, <1>2
<1>9. \A e \in log' : e.type = "updated" => e.who = chain'[e.on].closer
  BY <1>1, <1>2
<1>10. \A d \in Channels : chain'[d].state \in {"closed", "settled"} => chain'[d].closer \in Participants
  BY DEF OrderInv
<1>11. ASSUME NEW e \in log', NEW f \in log', e.on = f.on, e.type = "opened", f.type \in {"updated", "monitored"}
       PROVE  e.pos < f.pos /\ e.block <= f.block
  <2>1. CASE e \in New
    <3>1. f \notin New
      BY <1>11, <2>1
    <3>2. f \in log /\ f.on = c
      BY <1>11, <2>1, <3>1
    <3>. QED
      BY <1>2, <1>11, <2>1, <3>2
  <2>2. CASE e \in log /\ f \in New
    BY <1>1, <1>2, <2>2
  <2>3. CASE e \in log /\ f \in log
    BY <1>11, <2>3 DEF OrderInv
  <2>. QED
    BY <2>1, <2>2, <2>3
<1>12. ASSUME NEW e \in log', NEW f \in log', e.on = f.on, e.type = f.type, e.type \in {"opened", "closed"}
       PROVE  e = f
  <2>1. CASE e \in New /\ f \in New
    BY <1>12, <2>1
  <2>2. CASE e \in New /\ f \in log
    BY <1>2, <1>12, <2>2
  <2>3. CASE e \in log /\ f \in New
    BY <1>2, <1>12, <2>3
  <2>4. CASE e \in log /\ f \in log
    BY <1>12, <2>4 DEF OrderInv
  <2>. QED
    BY <2>1, <2>2, <2>3, <2>4
<1>13. ASSUME NEW e \in log', NEW f \in log', e.on = f.on, e.type = "monitored", f.type = "monitored",
              e.nonce = f.nonce
       PROVE  e.who = f.who
  <2>1. CASE e \in New /\ f \in New
    BY <1>13, <2>1
  <2>2. CASE e \in New /\ f \in log
    BY <1>1, <1>2, <1>13, <2>2
  <2>3. CASE e \in log /\ f \in New
    BY <1>1, <1>2, <1>13, <2>3
  <2>4. CASE e \in log /\ f \in log
    BY <1>13, <2>4 DEF OrderInv
  <2>. QED
    BY <2>1, <2>2, <2>3, <2>4
<1>14. /\ \A e, f \in log' : e.on = f.on /\ e.type = "opened" /\ f.type \in {"updated", "monitored"} =>
              e.pos < f.pos /\ e.block <= f.block
       /\ \A e, f \in log' : e.on = f.on /\ e.type = f.type /\ e.type \in {"opened", "closed"} => e = f
       /\ \A e, f \in log' : e.on = f.on /\ e.type = "monitored" /\ f.type = "monitored"
                             /\ e.nonce = f.nonce => e.who = f.who
  BY <1>11, <1>12, <1>13, Zenon
<1>. QED
  BY <1>3, <1>4, <1>5, <1>6, <1>7, <1>8, <1>9, <1>10, <1>14, Zenon DEF OrderInv

\* The events of a transaction are new, and counted.
LEMMA Counted ==
    ASSUME ChainTypeOK, OrderInv, NEW e, e.pos = Cardinality(log) + 1
    PROVE  /\ IsFiniteSet(log \cup {e}) /\ Cardinality(log \cup {e}) = Cardinality(log) + 1
           /\ \A f : f.pos = Cardinality(log) + 2 =>
                 Cardinality(log \cup {e, f}) = Cardinality(log) + 2
<1>1. Cardinality(log) \in Nat /\ IsFiniteSet(log) /\ \A f \in log : f.pos \in Nat /\ f.pos <= Cardinality(log)
  BY FS_CardinalityType DEF ChainTypeOK, OrderInv, Events
<1>2. e \notin log
  BY <1>1
<1>3. IsFiniteSet(log \cup {e}) /\ Cardinality(log \cup {e}) = Cardinality(log) + 1
  BY <1>1, <1>2, FS_AddElement
<1>4. ASSUME NEW f, f.pos = Cardinality(log) + 2
      PROVE  Cardinality(log \cup {e, f}) = Cardinality(log) + 2
  <2>1. f \notin log \cup {e}
    BY <1>1, <1>4
  <2>2. Cardinality((log \cup {e}) \cup {f}) = Cardinality(log \cup {e}) + 1
    BY <1>3, <2>1, FS_AddElement
  <2>3. (log \cup {e}) \cup {f} = log \cup {e, f}
    OBVIOUS
  <2>4. Cardinality(log \cup {e, f}) = Cardinality(log \cup {e}) + 1
    BY <2>2, <2>3, Zenon
  <2>. QED
    BY <1>1, <1>3, <2>4
<1>. QED
  BY <1>3, <1>4

\* An event of a transaction of the participants is in order behind the others.
LEMMA OrderOneEvent ==
    ASSUME ChainTypeOK, ChainTypeOK', LogInv, OrderInv, now' = now, now >= 1,
           NEW c \in Channels, NEW e, e \in log', log' = log \cup {e}, e.pos = Cardinality(log) + 1,
           e.on = c, e.block = now, e.type # "created", e.type # "monitored",
           e.type = "opened" => chain[c].state = "absent",
           e.type = "closed" => chain[c].state = "opened" /\ chain'[c].state = "closed",
           e.type = "updated" => /\ e.nonce > chain[c].nonce /\ e.who = chain[c].closer
                                 /\ chain[c].state = "closed" /\ chain'[c].state = "closed",
           \A d \in Channels \ {c} : chain'[d] = chain[d],
           chain'[c].state # "absent",
           chain'[c].state \in {"closed", "settled"} => chain'[c].closer \in Participants,
           chain[c].state \in {"closed", "settled"} =>
               chain'[c].state \in {"closed", "settled"} /\ chain'[c].closer = chain[c].closer
    PROVE  OrderInv'
<1>1. Cardinality(log') = Cardinality(log) + 1 /\ Cardinality(log) \in Nat
  BY Counted, FS_CardinalityType DEF ChainTypeOK
<1>. DEFINE New == {e}
<1>2. New \in SUBSET Events /\ log' = log \cup New
  BY DEF ChainTypeOK
<1>3. ASSUME NEW g \in New
      PROVE  /\ g.type # "created" /\ g.on = c /\ g.block = now
             /\ Cardinality(log) < g.pos /\ g.pos <= Cardinality(log')
             /\ g.type = "opened" => chain[c].state = "absent" /\ New = {g}
             /\ g.type = "closed" => chain[c].state = "opened" /\ New = {g}
             /\ g.type \in {"closed", "updated", "monitored"} => chain'[c].state = "closed"
             /\ g.type \in {"updated", "monitored"} => g.nonce > chain[c].nonce
             /\ g.type = "updated" => g.who = chain[c].closer /\ chain[c].state = "closed"
  <2>1. g = e
    OBVIOUS
  <2>2. Cardinality(log) < e.pos /\ e.pos <= Cardinality(log')
    BY <1>1
  <2>. QED
    BY <2>1, <2>2
<1>4. \A g, h \in New : g.type = "monitored" /\ h.type = "monitored" => g = h
  OBVIOUS
<1>5. Cardinality(log) <= Cardinality(log')
  BY <1>1
<1>. HIDE DEF New
<1>. QED
  BY <1>2, <1>3, <1>4, <1>5, NewEvents

\* So are the two events of a monitoring transaction.
LEMMA OrderMonitorEffect ==
    ASSUME ChainTypeOK, ChainTypeOK', LogInv, OrderInv, now' = now, now >= 1,
           NEW c \in Channels, NEW n \in Nat, NEW ms, CanMonitor(c, n), MonitorEffect(c, n, ms)
    PROVE  OrderInv'
<1>. DEFINE e == Event(1, "updated", c, chain[c].closer, n)
            f == Event(2, "monitored", c, ms, n)
<1>1. /\ log' = log \cup {e, f} /\ chain' = [chain EXCEPT ![c].nonce = n, ![c].rewardTo = ms]
      /\ chain[c].state = "closed" /\ n > chain[c].nonce
  BY DEF MonitorEffect, CanMonitor, CanUpdate
<1>2. /\ e.pos = Cardinality(log) + 1 /\ e.type = "updated" /\ e.on = c /\ e.block = now
      /\ e.nonce = n /\ e.who = chain[c].closer
      /\ f.pos = Cardinality(log) + 2 /\ f.type = "monitored" /\ f.on = c /\ f.block = now /\ f.nonce = n
  BY DEF Event
<1>. HIDE DEF e, f
<1>3. Cardinality(log') = Cardinality(log) + 2 /\ Cardinality(log) \in Nat
  BY <1>1, <1>2, Counted, FS_CardinalityType DEF ChainTypeOK
<1>. DEFINE New == {e, f}
<1>4. New \in SUBSET Events /\ log' = log \cup New
  BY <1>1 DEF ChainTypeOK
<1>5. /\ \A d \in Channels \ {c} : chain'[d] = chain[d]
      /\ chain'[c].state = chain[c].state /\ chain'[c].closer = chain[c].closer
  BY <1>1 DEF ChainTypeOK, ChannelOnChain
<1>6. chain[c].closer \in Participants
  BY <1>1 DEF OrderInv
<1>7. ASSUME NEW g \in New
      PROVE  /\ g.type # "created" /\ g.on = c /\ g.block = now
             /\ Cardinality(log) < g.pos /\ g.pos <= Cardinality(log')
             /\ g.type # "opened" /\ g.type # "closed"
             /\ g.nonce > chain[c].nonce
             /\ g.type = "updated" => g.who = chain[c].closer
  <2>1. CASE g = e
    BY <1>1, <1>2, <1>3, <2>1
  <2>2. CASE g = f
    BY <1>1, <1>2, <1>3, <2>2
  <2>. QED
    BY <2>1, <2>2
<1>8. \A g, h \in New : g.type = "monitored" /\ h.type = "monitored" => g = h
  BY <1>2
<1>9. Cardinality(log) <= Cardinality(log')
  BY <1>3
<1>. HIDE DEF New
<1>10. \A g \in New : /\ g.type # "created" /\ g.on = c /\ g.block = now
                      /\ Cardinality(log) < g.pos /\ g.pos <= Cardinality(log')
                      /\ g.type = "opened" => chain[c].state = "absent" /\ New = {g}
                      /\ g.type = "closed" => chain[c].state = "opened" /\ New = {g}
                      /\ g.type \in {"closed", "updated", "monitored"} => chain'[c].state = "closed"
                      /\ g.type \in {"updated", "monitored"} => g.nonce > chain[c].nonce
                      /\ g.type = "updated" => g.who = chain[c].closer /\ chain[c].state = "closed"
  BY <1>1, <1>5, <1>7
<1>11. /\ chain'[c].state # "absent"
       /\ chain'[c].state \in {"closed", "settled"} => chain'[c].closer \in Participants
       /\ chain[c].state \in {"closed", "settled"} =>
             chain'[c].state \in {"closed", "settled"} /\ chain'[c].closer = chain[c].closer
  BY <1>1, <1>5, <1>6
<1>. QED
  BY <1>4, <1>5, <1>8, <1>9, <1>10, <1>11, NewEvents

\* Nothing happens to a channel but that a field changes which the order of
\* the log does not depend on.
LEMMA OrderSame ==
    ASSUME OrderInv, log' = log, now \in Nat, now' >= now, now' \in Nat, ChainTypeOK,
           \A d \in Channels : chain'[d].state = chain[d].state /\ chain'[d].closer = chain[d].closer
    PROVE  OrderInv'
<1>1. \A e \in log : e.block \in Nat /\ (e.type # "created" => e.on \in Channels)
  BY DEF ChainTypeOK, Events
<1>2. \A e \in log : e.pos <= Cardinality(log) /\ 1 <= e.block /\ e.block <= now'
  BY <1>1 DEF OrderInv
<1>. QED
  BY <1>1, <1>2 DEF OrderInv

\* Every step of the chain keeps the order.
LEMMA OrderStep ==
    ASSUME ChainTypeOK, ChainTypeOK', LogInv, OrderInv, now >= 1,
           ChainTransaction \/ MineTx \/ NewBlock \/ UNCHANGED <<now, chain, log>>
    PROVE  OrderInv'
<1>types. /\ now \in Nat /\ \A c \in Channels : chain[c] \in ChannelOnChain
          /\ \A c \in Channels : chain[c].closer \in Participants \cup {None} /\ chain[c].nonce \in Nat
  BY DEF ChainTypeOK, ChannelOnChain
<1>txs. \A i \in DOMAIN txs : txs[i].ch \in Channels /\ txs[i].nonce \in Nat
  <2>1. txs \in [1 .. Len(txs) -> Transactions]
    BY LenProperties DEF ChainTypeOK
  <2>. QED
    BY <2>1 DEF Transactions
<1>1. ASSUME NEW c \in Channels, OpenChannel(c)
      PROVE  OrderInv'
  <2>. DEFINE e == Event(1, "opened", c, None, 0)
  <2>1. e.pos = Cardinality(log) + 1 /\ e.on = c /\ e.block = now /\ e.type = "opened" /\ e \in log' /\ log' = log \cup {e}
    BY <1>1 DEF OpenChannel, Event
  <2>2. /\ chain[c].state = "absent" /\ chain'[c].state = "opened" /\ now' = now
        /\ \A d \in Channels \ {c} : chain'[d] = chain[d]
    BY <1>1, <1>types DEF OpenChannel, ChainTypeOK, ChannelOnChain
  <2>. HIDE DEF e
  <2>. QED
    BY <2>1, <2>2, OrderOneEvent
<1>2. ASSUME NEW c \in Channels, NEW p \in Closers, CloseChannel(c, p)
      PROVE  OrderInv'
  <2>. DEFINE e == Event(1, "closed", c, p, 0)
  <2>1. e.pos = Cardinality(log) + 1 /\ e.on = c /\ e.block = now /\ e.type = "closed" /\ e \in log' /\ log' = log \cup {e}
    BY <1>2 DEF CloseChannel, Event
  <2>2. /\ chain[c].state = "opened" /\ chain'[c].state = "closed" /\ chain'[c].closer = p /\ now' = now
        /\ \A d \in Channels \ {c} : chain'[d] = chain[d]
    BY <1>2, <1>types DEF CloseChannel, ChainTypeOK, ChannelOnChain
  <2>3. p \in Participants
    BY ChainConstants
  <2>. HIDE DEF e
  <2>. QED
    BY <2>1, <2>2, <2>3, OrderOneEvent
<1>3. ASSUME NEW c \in Channels, NEW n \in Nonces, UpdateNonClosing(c, n)
      PROVE  OrderInv'
  <2>. DEFINE e == Event(1, "updated", c, chain[c].closer, n)
  <2>1. /\ e.pos = Cardinality(log) + 1 /\ e.on = c /\ e.block = now /\ e.type = "updated" /\ e.nonce = n
        /\ e.who = chain[c].closer /\ e \in log' /\ log' = log \cup {e}
    BY <1>3 DEF UpdateNonClosing, Event
  <2>2. /\ chain[c].state = "closed" /\ n > chain[c].nonce /\ now' = now
        /\ chain'[c].state = "closed" /\ chain'[c].closer = chain[c].closer
        /\ \A d \in Channels \ {c} : chain'[d] = chain[d]
    BY <1>3, <1>types DEF UpdateNonClosing, CanUpdate, ChainTypeOK, ChannelOnChain
  <2>3. chain[c].closer \in Participants
    BY <2>2 DEF OrderInv
  <2>. HIDE DEF e
  <2>. QED
    BY <2>1, <2>2, <2>3, OrderOneEvent
<1>4. ASSUME NEW c \in Channels, NEW n \in Nonces, NEW ms \in OtherServices, MonitorByOther(c, n, ms)
      PROVE  OrderInv'
  <2>1. n \in Nat
    BY ChainConstants DEF Nonces
  <2>. QED
    BY <1>4, <2>1, OrderMonitorEffect DEF MonitorByOther
<1>5. ASSUME NEW c \in Channels, SettleChannel(c)
      PROVE  OrderInv'
  <2>. DEFINE e == Event(1, "settled", c, None, 0)
  <2>1. e.pos = Cardinality(log) + 1 /\ e.on = c /\ e.block = now /\ e.type = "settled" /\ e \in log' /\ log' = log \cup {e}
    BY <1>5 DEF SettleChannel, Event
  <2>2. /\ chain[c].state = "closed" /\ chain'[c].state = "settled" /\ now' = now
        /\ chain'[c].closer = chain[c].closer
        /\ \A d \in Channels \ {c} : chain'[d] = chain[d]
    BY <1>5, <1>types DEF SettleChannel, ChainTypeOK, ChannelOnChain
  <2>3. chain[c].closer \in Participants
    BY <2>2 DEF OrderInv
  <2>. HIDE DEF e
  <2>. QED
    BY <2>1, <2>2, <2>3, OrderOneEvent
<1>6. CASE UNCHANGED <<now, chain, log>>
  BY <1>6, <1>types, OrderSame
<1>7. CASE NewBlock
  BY <1>7, <1>types, OrderSame DEF NewBlock
<1>8. ASSUME NEW i \in DOMAIN txs, MineMonitor(i)
      PROVE  OrderInv'
  <2>1. txs[i].ch \in Channels /\ txs[i].nonce \in Nat
    BY <1>txs
  <2>. QED
    BY <1>8, <2>1, OrderMonitorEffect DEF MineMonitor
<1>9. ASSUME NEW i \in DOMAIN txs, MineClaim(i)
      PROVE  OrderInv'
  <2>. DEFINE c == txs[i].ch
              e == Event(1, "claimed", c, Us, 0)
  <2>0. c \in Channels
    BY <1>txs
  <2>1. e.pos = Cardinality(log) + 1 /\ e.on = c /\ e.block = now /\ e.type = "claimed" /\ e \in log' /\ log' = log \cup {e}
    BY <1>9 DEF MineClaim, Event
  <2>2. /\ chain[c].state = "settled" /\ chain'[c].state = "settled" /\ now' = now
        /\ chain'[c].closer = chain[c].closer
        /\ \A d \in Channels \ {c} : chain'[d] = chain[d]
    BY <1>9, <1>types, <2>0 DEF MineClaim, CanClaim, ChainTypeOK, ChannelOnChain
  <2>3. chain[c].closer \in Participants
    BY <2>0, <2>2 DEF OrderInv
  <2>. HIDE DEF e, c
  <2>. QED
    BY <2>0, <2>1, <2>2, <2>3, OrderOneEvent
<1>10. ASSUME NEW i \in DOMAIN txs, MineReverted(i)
       PROVE  OrderInv'
  BY <1>6, <1>10 DEF MineReverted
<1>11. ASSUME NEW p \in Participants, (\E b \in Balances[p] : ChangeBalance(p, b)) \/ ConfirmBalance(p)
       PROVE  OrderInv'
  BY <1>6, <1>11 DEF ChangeBalance, ConfirmBalance
<1>. QED
  BY <1>1, <1>2, <1>3, <1>4, <1>5, <1>6, <1>7, <1>8, <1>9, <1>10, <1>11 DEF ChainTransaction, MineTx

------------------------------------------------------------------------------
(* What the steps do to the statements that are left to execute.           *)

\* Short sequences of statements, put together.
LEMMA Joined ==
    ASSUME NEW S, NEW a \in S, NEW b \in S, NEW d \in S
    PROVE  /\ <<>> \o <<a>> = <<a>> /\ <<a>> \o <<>> = <<a>>
           /\ <<a>> \o <<b>> = <<a, b>> /\ <<a, b>> \o <<d>> = <<a, b, d>>
<1>1. <<a>> \in Seq(S) /\ <<b>> \in Seq(S) /\ <<a, b>> \in Seq(S) /\ <<d>> \in Seq(S) /\ <<a, b, d>> \in Seq(S)
  OBVIOUS
<1>2. <<>> \o <<a>> = <<a>> /\ <<a>> \o <<>> = <<a>>
  BY <1>1, ConcatEmptySeq
<1>3. <<a>> \o <<b>> = <<a, b>>
  <2>. DEFINE s == <<a>> \o <<b>>
  <2>1. s \in Seq(S) /\ Len(s) = 2 /\ s[1] = a /\ s[2] = b
    BY <1>1, ConcatProperties
  <2>. HIDE DEF s
  <2>2. s = <<a, b>>
    BY <1>1, <2>1, SeqEqual
  <2>. QED
    BY <2>2 DEF s
<1>4. <<a, b>> \o <<d>> = <<a, b, d>>
  <2>. DEFINE s == <<a, b>> \o <<d>>
  <2>1. s \in Seq(S) /\ Len(s) = 3 /\ s[1] = a /\ s[2] = b /\ s[3] = d
    BY <1>1, ConcatProperties
  <2>. HIDE DEF s
  <2>2. s = <<a, b, d>>
    BY <1>1, <2>1, SeqEqual
  <2>. QED
    BY <2>2 DEF s
<1>. QED
  BY <1>2, <1>3, <1>4

\* The statements left when the first one is executed.
LEMMA TailFacts ==
    ASSUME NEW S, NEW ws \in Seq(S), ws # <<>>
    PROVE  /\ Tail(ws) \in Seq(S) /\ Len(ws) \in Nat /\ Len(Tail(ws)) = Len(ws) - 1
           /\ 1 \in DOMAIN ws /\ Head(ws) = ws[1] /\ DOMAIN ws = 1 .. Len(ws)
           /\ \A i \in DOMAIN Tail(ws) : i + 1 \in DOMAIN ws /\ Tail(ws)[i] = ws[i + 1]
           /\ \A i \in DOMAIN ws \ {1} : i - 1 \in DOMAIN Tail(ws) /\ Tail(ws)[i - 1] = ws[i]
  BY LenProperties, HeadTailProperties

\* What executing a statement leaves alone.
LEMMA StatementEffect ==
    ASSUME TypeOK, ExecuteStatement
    PROVE  /\ writes # <<>> /\ writes' = Tail(writes) /\ Head(writes) = writes[1] /\ 1 \in DOMAIN writes
           /\ \A i \in DOMAIN writes' : i + 1 \in DOMAIN writes /\ writes'[i] = writes[i + 1]
           /\ \A i \in DOMAIN writes \ {1} : i - 1 \in DOMAIN writes' /\ writes'[i - 1] = writes[i]
           /\ UNCHANGED <<cvars, monitor_request, pc, latest, head, batch, triggered, try_after, hvars>>
           /\ writes[1].op # "token_network" => UNCHANGED token_network
           /\ writes[1].op # "channel" => UNCHANGED channel
           /\ writes[1].op \notin {"schedule", "unschedule"} => UNCHANGED scheduled_events
           /\ writes[1].op # "head" => UNCHANGED committed
           /\ writes[1].op = "token_network" => token_network' = token_network \cup {writes[1].net}
           /\ writes[1].op = "channel" =>
                 channel' = [channel EXCEPT ![writes[1].ch] = writes[1].row]
           /\ writes[1].op = "schedule" => scheduled_events' = scheduled_events \cup {writes[1].ev}
           /\ writes[1].op = "unschedule" =>
                 scheduled_events' \subseteq scheduled_events \ {writes[1].ev}
           /\ writes[1].op = "head" => committed' = writes[1].block
<1>1. writes \in Seq(Writes)
  BY DEF TypeOK, LoopTypeOK
<1>2. writes # <<>> /\ writes' = Tail(writes)
      /\ UNCHANGED <<cvars, monitor_request, pc, latest, head, batch, triggered, try_after, hvars>>
  BY DEF ExecuteStatement, SaveTokenNetwork, SaveChannel, SaveScheduledEvent, DeleteScheduledEvent,
         SaveWaitingTransaction, SaveCommittedBlock, Statement
<1>3. Head(writes) = writes[1] /\ 1 \in DOMAIN writes
  BY <1>1, <1>2, TailFacts
<1>4. /\ \A i \in DOMAIN writes' : i + 1 \in DOMAIN writes /\ writes'[i] = writes[i + 1]
      /\ \A i \in DOMAIN writes \ {1} : i - 1 \in DOMAIN writes' /\ writes'[i - 1] = writes[i]
  BY <1>1, <1>2, TailFacts
<1>5. /\ writes[1].op # "token_network" => UNCHANGED token_network
      /\ writes[1].op # "channel" => UNCHANGED channel
      /\ writes[1].op \notin {"schedule", "unschedule"} => UNCHANGED scheduled_events
      /\ writes[1].op # "head" => UNCHANGED committed
      /\ writes[1].op = "token_network" => token_network' = token_network \cup {writes[1].net}
      /\ writes[1].op = "channel" => channel' = [channel EXCEPT ![writes[1].ch] = writes[1].row]
      /\ writes[1].op = "schedule" => scheduled_events' = scheduled_events \cup {writes[1].ev}
      /\ writes[1].op = "unschedule" => scheduled_events' \subseteq scheduled_events \ {writes[1].ev}
      /\ writes[1].op = "head" => committed' = writes[1].block
  BY <1>3 DEF ExecuteStatement, SaveTokenNetwork, SaveChannel, SaveScheduledEvent, DeleteScheduledEvent,
         SaveWaitingTransaction, SaveCommittedBlock, Statement
<1>. QED
  BY <1>2, <1>3, <1>4, <1>5

\* The statements of an event's handler: a token network, a channel's new row,
\* a row that keeps its hashes, a claim, or the check of a closed channel.
HandlerStatement(e, w) ==
    \/ e.type = "created" /\ w = UpsertTokenNetwork(e.on)
    \/ e.type = "opened" /\ w = UpsertChannel(e.on, FreshRow)
    \/ /\ e.type \notin {"created", "opened"} /\ channel[e.on] # NoRow
       /\ w.op = "channel" /\ w.ch = e.on
       /\ w.row.monitor_tx = channel[e.on].monitor_tx /\ w.row.claim_tx = channel[e.on].claim_tx
    \/ w.op = "schedule" /\ w.ev.type = "claim"
    \/ e.type = "closed" /\ w = UpsertScheduledEvent(MonitorEvent(e))

\* The closing handler's statements are about its event.
LEMMA ClosedWrites ==
    ASSUME IInv, NEW e \in batch, e.type = "closed", channel[e.on] # NoRow
    PROVE  /\ \A i \in DOMAIN ClosedStatements(e) : HandlerStatement(e, ClosedStatements(e)[i])
           /\ HandlerStatement(e, Head(ClosedStatements(e)))
<1>. DEFINE u == UpsertScheduledEvent(MonitorEvent(e))
            w == UpsertChannel(e.on, ClosedRow(e))
<1>1. ClosedStatements(e) = <<w>> \/ ClosedStatements(e) = <<u, w>>
  <2>1. /\ ClosedStatements(e) = <<>> \o <<w>> \/ ClosedStatements(e) = <<u>> \o <<w>>
        /\ u \in {u, w} /\ w \in {u, w}
    BY DEF ClosedStatements
  <2>. HIDE DEF u, w
  <2>2. <<>> \o <<w>> = <<w>> /\ <<u>> \o <<w>> = <<u, w>>
    BY <2>1, Joined
  <2>. QED
    BY <2>1, <2>2
<1>2. channel[e.on] \in ChannelRows
  BY EventFacts
<1>3. HandlerStatement(e, w)
  BY <1>2 DEF HandlerStatement, UpsertChannel, ClosedRow, ChannelRows
<1>4. HandlerStatement(e, u)
  BY DEF HandlerStatement
<1>. HIDE DEF u, w
<1>. QED
  BY <1>1, <1>3, <1>4

\* So are those of the handler of a monitoring.
LEMMA MonitoredWrites ==
    ASSUME IInv, NEW e \in batch, e.type = "monitored", channel[e.on] # NoRow
    PROVE  /\ \A i \in DOMAIN MonitoredStatements(e) : HandlerStatement(e, MonitoredStatements(e)[i])
           /\ MonitoredStatements(e) # <<>> => HandlerStatement(e, Head(MonitoredStatements(e)))
<1>. DEFINE row == UpdatedRow(channel[e.on], e.nonce, e.who)
            u == UpsertScheduledEvent(ClaimEvent(e.on, row.closing_block))
            w == UpsertChannel(e.on, row)
<1>1. \/ MonitoredStatements(e) = <<>> \/ MonitoredStatements(e) = <<w>> \/ MonitoredStatements(e) = <<w, u>>
  <2>1. /\ \/ MonitoredStatements(e) = <<>> \/ MonitoredStatements(e) = <<w>> \o <<>>
           \/ MonitoredStatements(e) = <<w>> \o <<u>>
        /\ u \in {u, w} /\ w \in {u, w}
    BY DEF MonitoredStatements
  <2>. HIDE DEF u, w
  <2>2. <<w>> \o <<>> = <<w>> /\ <<w>> \o <<u>> = <<w, u>>
    BY <2>1, Joined
  <2>. QED
    BY <2>1, <2>2
<1>2. channel[e.on] \in ChannelRows
  BY EventFacts
<1>3. HandlerStatement(e, w)
  BY <1>2 DEF HandlerStatement, UpsertChannel, UpdatedRow, ChannelRows
<1>4. HandlerStatement(e, u)
  BY DEF HandlerStatement, UpsertScheduledEvent, ClaimEvent
<1>. HIDE DEF u, w
<1>. QED
  BY <1>1, <1>3, <1>4

\* An event is handled, or lost, with statements about it alone.
LEMMA HandlerWrites ==
    ASSUME IInv, HandleEvent \/ EventLost
    PROVE  \E e \in batch : \E ws :
              /\ Handle(e, ws) /\ faults' \in {faults, faults + 1}
              /\ \A i \in DOMAIN ws : HandlerStatement(e, ws[i])
<1>. DEFINE Fine(e, ws) == /\ Handle(e, ws) /\ faults' \in {faults, faults + 1}
                           /\ \A i \in DOMAIN ws : HandlerStatement(e, ws[i])
<1>. SUFFICES \E e \in batch : \E ws : Fine(e, ws)
  OBVIOUS
<1>. PICK e \in batch :
        \/ TokenNetworkCreated(e) \/ ChannelOpened(e) \/ ChannelUnknown(e) \/ ChannelClosed(e)
        \/ NonClosingBalanceProofUpdated(e) \/ ChannelSettled(e) \/ MonitorNewBalanceProof(e)
        \/ MonitorRewardClaimed(e) \/ HandlerFails(e)
  BY DEF HandleEvent, EventLost
<1>0. e.type # "created" /\ channel[e.on] # NoRow => channel[e.on] \in ChannelRows
  BY EventFacts
<1>1. ASSUME NEW w, HandlerStatement(e, w), Handle(e, <<w>>), faults' \in {faults, faults + 1}
      PROVE  \E ws : Fine(e, ws)
  BY <1>1
<1>2. ASSUME Handle(e, <<>>), faults' \in {faults, faults + 1}
      PROVE  \E ws : Fine(e, ws)
  BY <1>2
<1>3. CASE TokenNetworkCreated(e)
  <2>1. HandlerStatement(e, UpsertTokenNetwork(e.on))
    BY <1>3 DEF TokenNetworkCreated, HandlerStatement
  <2>. QED
    BY <1>1, <1>3, <2>1 DEF TokenNetworkCreated
<1>4. CASE ChannelOpened(e)
  <2>1. HandlerStatement(e, UpsertChannel(e.on, FreshRow))
    BY <1>4 DEF ChannelOpened, HandlerStatement
  <2>. QED
    BY <1>1, <1>4, <2>1 DEF ChannelOpened
<1>5. CASE ChannelUnknown(e) \/ MonitorRewardClaimed(e)
  BY <1>2, <1>5 DEF ChannelUnknown, MonitorRewardClaimed
<1>6. CASE ChannelClosed(e)
  BY <1>6, ClosedWrites DEF ChannelClosed
<1>7. CASE NonClosingBalanceProofUpdated(e)
  <2>. DEFINE w == UpsertChannel(e.on, UpdatedRow(channel[e.on], e.nonce, Other(e.who)))
  <2>1. HandlerStatement(e, w)
    BY <1>0, <1>7 DEF NonClosingBalanceProofUpdated, HandlerStatement, UpsertChannel, UpdatedRow, ChannelRows
  <2>2. Handle(e, <<>>) \/ Handle(e, <<w>>)
    BY <1>7 DEF NonClosingBalanceProofUpdated
  <2>. HIDE DEF w
  <2>. QED
    BY <1>1, <1>2, <1>7, <2>1, <2>2 DEF NonClosingBalanceProofUpdated
<1>8. CASE ChannelSettled(e)
  <2>. DEFINE w == UpsertChannel(e.on, [channel[e.on] EXCEPT !.state = "SETTLED"])
  <2>1. HandlerStatement(e, w)
    BY <1>0, <1>8 DEF ChannelSettled, HandlerStatement, UpsertChannel, ChannelRows
  <2>. QED
    BY <1>1, <1>8, <2>1 DEF ChannelSettled
<1>9. CASE MonitorNewBalanceProof(e)
  BY <1>9, MonitoredWrites DEF MonitorNewBalanceProof
<1>10. CASE HandlerFails(e)
  <2>1. faults' \in {faults, faults + 1}
    BY <1>10 DEF HandlerFails
  <2>2. CASE Handle(e, <<>>)
    BY <1>2, <2>1, <2>2
  <2>3. CASE /\ e.type = "closed" /\ channel[e.on] # NoRow
             /\ Handle(e, <<Head(ClosedStatements(e))>>)
    BY <1>1, <2>1, <2>3, ClosedWrites
  <2>4. CASE /\ e.type = "monitored" /\ channel[e.on] # NoRow
             /\ Len(MonitoredStatements(e)) = 2
             /\ Handle(e, <<Head(MonitoredStatements(e))>>)
    <3>1. MonitoredStatements(e) # <<>>
      BY <2>4
    <3>. QED
      BY <1>1, <2>1, <2>4, <3>1, MonitoredWrites
  <2>. QED
    BY <1>10, <2>2, <2>3, <2>4 DEF HandlerFails
<1>. HIDE DEF Fine
<1>. QED
  BY <1>3, <1>4, <1>5, <1>6, <1>7, <1>8, <1>9, <1>10 DEF Fine

\* The end of a triggered event's handler: nothing was done, the event was
\* put off, a transaction was sent and its hash is about to be saved, or it was
\* sent and a fault prevents that.
Removal(s) == <<RemoveScheduledEvent(s)>>

\* Acting on it changes nothing, schedules it again, or sends a transaction, whose hash is
\* saved, or is lost when the answer does not arrive.
Nothing(s) == writes' = Removal(s) /\ txs' = txs /\ faults' \in {faults, faults + 1}
PutOff(s) ==
    /\ s.type = "monitor" /\ txs' = txs /\ faults' = faults
    /\ writes' = <<UpsertScheduledEvent([s EXCEPT !.at = Clock]), RemoveScheduledEvent(s)>>
Sent(s, tx, row) ==
    /\ channel[s.ch] # NoRow /\ txs' = Append(txs, tx) /\ faults' = faults
    /\ writes' = <<AddWaitingTransaction(Len(txs) + 1), UpsertChannel(s.ch, row), RemoveScheduledEvent(s)>>
SentMonitor(s) ==
    /\ s.type = "monitor" /\ channel[s.ch].monitor_tx = 0
    /\ Sent(s, MonitorTx(s), [channel[s.ch] EXCEPT !.monitor_tx = Len(txs) + 1])
SentClaim(s) ==
    /\ s.type = "claim" /\ channel[s.ch].claim_tx = 0
    /\ Sent(s, ClaimTx(s), [channel[s.ch] EXCEPT !.claim_tx = Len(txs) + 1])
SentOnly(s) ==
    /\ faults' = faults + 1
    /\ \/ s.type = "monitor" /\ txs' = Append(txs, MonitorTx(s))
       \/ s.type = "claim" /\ txs' = Append(txs, ClaimTx(s))
    /\ writes' \in {Removal(s), <<AddWaitingTransaction(Len(txs) + 1), RemoveScheduledEvent(s)>>}

\* What acting on a triggered event comes to: nothing, another try, or a transaction.
LEMMA ActionWrites ==
    ASSUME IInv, NEW s \in triggered, Acts(s)
    PROVE  /\ At("scheduled") /\ triggered' = triggered \ {s} /\ UNCHANGED <<SchedulerVars, pc>>
           /\ Nothing(s) \/ PutOff(s) \/ SentMonitor(s) \/ SentClaim(s) \/ SentOnly(s)
<1>. DEFINE r == RemoveScheduledEvent(s)
<1>1. ASSUME NEW ws, Done(s, ws)
      PROVE  /\ At("scheduled") /\ triggered' = triggered \ {s} /\ UNCHANGED <<SchedulerVars, pc>>
             /\ writes' = ws \o <<r>>
  BY <1>1 DEF Done, Due
<1>2. /\ <<>> \o <<r>> = <<r>> /\ \A a : <<a>> \o <<r>> = <<a, r>>
      /\ \A a, b : <<a, b>> \o <<r>> = <<a, b, r>>
  <2>1. <<>> \o <<r>> = <<r>>
    BY Joined
  <2>2. ASSUME NEW a
        PROVE  <<a>> \o <<r>> = <<a, r>>
    <3>1. a \in {a, r} /\ r \in {a, r}
      OBVIOUS
    <3>. QED
      BY <3>1, Joined
  <2>3. ASSUME NEW a, NEW b
        PROVE  <<a, b>> \o <<r>> = <<a, b, r>>
    <3>1. a \in {a, b, r} /\ b \in {a, b, r} /\ r \in {a, b, r}
      OBVIOUS
    <3>. QED
      BY <3>1, Joined
  <2>. QED
    BY <2>1, <2>2, <2>3
<1>. HIDE DEF r
<1>3. CASE MonitorDropped(s) \/ ClaimDropped(s)
  <2>1. Done(s, <<>>) /\ UNCHANGED <<txs, faults>>
    BY <1>3 DEF MonitorDropped, ClaimDropped
  <2>. QED
    BY <1>1, <1>2, <2>1 DEF Nothing, Removal, r
<1>4. CASE MonitorRescheduled(s)
  <2>. DEFINE u == UpsertScheduledEvent([s EXCEPT !.at = Clock])
  <2>1. Done(s, <<u>>) /\ UNCHANGED <<txs, faults>> /\ s.type = "monitor"
    BY <1>4 DEF MonitorRescheduled, WorthMonitoring
  <2>2. writes' = <<u, r>>
    BY <1>1, <1>2, <2>1
  <2>. QED
    BY <1>1, <2>1, <2>2 DEF PutOff, r
<1>5. CASE MonitorSent(s)
  <2>. DEFINE row == [channel[s.ch] EXCEPT !.monitor_tx = Len(txs) + 1]
              a == AddWaitingTransaction(Len(txs) + 1)
              b == UpsertChannel(s.ch, row)
  <2>1. /\ Done(s, <<a, b>>) /\ txs' = Append(txs, MonitorTx(s)) /\ UNCHANGED faults
        /\ s.type = "monitor" /\ channel[s.ch] # NoRow /\ channel[s.ch].monitor_tx = 0
    BY <1>5 DEF MonitorSent, Send, MayMonitor, WorthMonitoring
  <2>2. writes' = <<a, b, r>>
    BY <1>1, <1>2, <2>1
  <2>. QED
    BY <1>1, <2>1, <2>2 DEF SentMonitor, Sent, r
<1>6. CASE ClaimSent(s)
  <2>. DEFINE row == [channel[s.ch] EXCEPT !.claim_tx = Len(txs) + 1]
              a == AddWaitingTransaction(Len(txs) + 1)
              b == UpsertChannel(s.ch, row)
  <2>1. /\ Done(s, <<a, b>>) /\ txs' = Append(txs, ClaimTx(s)) /\ UNCHANGED faults
        /\ s.type = "claim" /\ channel[s.ch] # NoRow /\ channel[s.ch].claim_tx = 0
    BY <1>6 DEF ClaimSent, Send, MayClaim, WorthClaiming
  <2>2. writes' = <<a, b, r>>
    BY <1>1, <1>2, <2>1
  <2>. QED
    BY <1>1, <2>1, <2>2 DEF SentClaim, Sent, r
<1>7. CASE ActionFails(s)
  <2>. DEFINE a == AddWaitingTransaction(Len(txs) + 1)
  <2>1. CASE Done(s, <<>>) /\ UNCHANGED txs
    BY <1>1, <1>2, <1>7, <2>1 DEF ActionFails, Nothing, Removal, r
  <2>2. CASE /\ \/ MayMonitor(s) /\ txs' = Append(txs, MonitorTx(s))
                \/ MayClaim(s) /\ txs' = Append(txs, ClaimTx(s))
             /\ \E ws \in {<<>>, <<a>>} : Done(s, ws)
    <3>1. writes' \in {<<r>>, <<a, r>>}
          /\ At("scheduled") /\ triggered' = triggered \ {s} /\ UNCHANGED <<SchedulerVars, pc>>
      BY <1>1, <1>2, <2>2
    <3>2. \/ s.type = "monitor" /\ txs' = Append(txs, MonitorTx(s))
          \/ s.type = "claim" /\ txs' = Append(txs, ClaimTx(s))
      BY <2>2 DEF MayMonitor, MayClaim, WorthMonitoring, WorthClaiming
    <3>3. faults' = faults + 1
      BY <1>7 DEF ActionFails
    <3>. QED
      BY <3>1, <3>2, <3>3 DEF SentOnly, Removal, r
  <2>. QED
    BY <1>7, <2>1, <2>2 DEF ActionFails
<1>. QED
  BY <1>3, <1>4, <1>5, <1>6, <1>7 DEF Acts

------------------------------------------------------------------------------
(* Where the loop is.                                                      *)

\* The counters are numbers, and the statements are well-formed.
LEMMA Numbers ==
    ASSUME TypeOK
    PROVE  /\ now \in Nat /\ committed \in Nat /\ latest \in Nat /\ head \in Nat /\ fetched \in Nat
           /\ crashes \in Nat /\ lost \in Nat /\ faults \in Nat /\ Len(writes) \in Nat
           /\ openings \in [Channels -> Nat] /\ DOMAIN writes = 1 .. Len(writes)
           /\ \A e \in log \cup batch : e.block \in Nat /\ e.pos \in Nat /\ e.nonce \in Nat
           /\ \A i \in DOMAIN writes : writes[i] \in Writes
<1>1. writes \in Seq(Writes)
  BY DEF TypeOK, LoopTypeOK
<1>2. Len(writes) \in Nat /\ DOMAIN writes = 1 .. Len(writes) /\ \A i \in DOMAIN writes : writes[i] \in Writes
  BY <1>1, LenProperties, ElementOfSeq
<1>3. \A e \in log \cup batch : e.block \in Nat /\ e.pos \in Nat /\ e.nonce \in Nat
  BY DEF TypeOK, ChainTypeOK, LoopTypeOK, Events
<1>4. crashes \in Nat /\ lost \in Nat /\ faults \in Nat
  BY ServiceConstants DEF TypeOK, HistoryTypeOK
<1>. QED
  BY <1>2, <1>3, <1>4 DEF TypeOK, ChainTypeOK, DatabaseTypeOK, LoopTypeOK, HistoryTypeOK

\* The chain only grows.
LEMMA OnChainGrows ==
    ASSUME IInv, OrderInv, OnChain
    PROVE  /\ now <= now' /\ log \subseteq log' /\ now' \in Nat
           /\ \A e \in log' \ log : e.block = now
<1>0. ChainTypeOK /\ LogInv /\ now \in Nat
  BY InvParts, Numbers DEF TypeOK
<1>1. CASE NewBlock
  BY <1>0, <1>1 DEF NewBlock
<1>2. CASE ChainTransaction \/ MineTx
  <2>. DEFINE Stamped == now' = now /\ \A e \in log' \ log : e.block = now
  <2>a. \A k, type, on, who, nonce : Event(k, type, on, who, nonce).block = now
    BY DEF Event
  <2>b. ASSUME NEW c, NEW n, NEW ms, MonitorEffect(c, n, ms), now' = now
        PROVE  Stamped
    BY <2>a, <2>b DEF MonitorEffect
  <2>c. ASSUME ChainTransaction
        PROVE  Stamped
    <3>1. ASSUME NEW c \in Channels, OpenChannel(c) \/ SettleChannel(c)
          PROVE  Stamped
      BY <2>a, <3>1 DEF OpenChannel, SettleChannel
    <3>2. ASSUME NEW c \in Channels, NEW p \in Closers, CloseChannel(c, p)
          PROVE  Stamped
      BY <2>a, <3>2 DEF CloseChannel
    <3>3. ASSUME NEW c \in Channels, NEW n \in Nonces, UpdateNonClosing(c, n)
          PROVE  Stamped
      BY <2>a, <3>3 DEF UpdateNonClosing
    <3>4. ASSUME NEW c \in Channels, NEW n \in Nonces, NEW ms \in OtherServices, MonitorByOther(c, n, ms)
          PROVE  Stamped
      BY <2>b, <3>4 DEF MonitorByOther
    <3>5. ASSUME NEW p \in Participants, (\E b \in Balances[p] : ChangeBalance(p, b)) \/ ConfirmBalance(p)
          PROVE  Stamped
      BY <3>5 DEF ChangeBalance, ConfirmBalance
    <3>. QED
      BY <2>c, <3>1, <3>2, <3>3, <3>4, <3>5 DEF ChainTransaction
  <2>d. ASSUME NEW i \in DOMAIN txs, MineMonitor(i) \/ MineClaim(i) \/ MineReverted(i)
        PROVE  Stamped
    <3>1. CASE MineMonitor(i)
      BY <2>b, <3>1 DEF MineMonitor
    <3>. QED
      BY <2>a, <2>d, <3>1 DEF MineClaim, MineReverted
  <2>1. Stamped
    BY <1>2, <2>c, <2>d DEF MineTx
  <2>2. log \subseteq log'
    BY <1>0, <1>2, ChainSteps
  <2>. QED
    BY <1>0, <2>1, <2>2
<1>. QED
  BY <1>1, <1>2 DEF OnChain

\* Every step keeps what holds of the loop.
LEMMA LoopStep ==
    ASSUME IInv, IInv', OrderInv, LoopInv, [Next]_vars
    PROVE  LoopInv'
<1>0. TypeOK /\ TypeOK'
  BY DEF IInv
<1>n. /\ now \in Nat /\ committed \in Nat /\ latest \in Nat /\ head \in Nat /\ fetched \in Nat
      /\ Len(writes) \in Nat /\ DOMAIN writes = 1 .. Len(writes)
  BY <1>0, Numbers
<1>t. writes \in Seq(Writes)
  BY <1>0 DEF TypeOK, LoopTypeOK
<1>. USE DEF StatementsAt
<1>1. CASE MovesOn
  BY <1>1, <1>n DEF MovesOn, LoopInv, cvars
<1>2. CASE OnChain
  <2>1. now <= now' /\ now' \in Nat
    BY <1>2, OnChainGrows
  <2>2. UNCHANGED <<committed, latest, head, fetched, pc, batch, writes, triggered>>
    BY <1>2 DEF OnChain, dbvars
  <2>. QED
    BY <1>n, <2>1, <2>2 DEF LoopInv
<1>3. CASE ExecuteStatement
  <2>1. /\ 1 \in DOMAIN writes /\ UNCHANGED <<now, latest, head, fetched, pc, batch, triggered>>
        /\ writes[1].op # "head" => committed' = committed
        /\ writes[1].op = "head" => committed' = writes[1].block
        /\ \A i \in DOMAIN writes' : i + 1 \in DOMAIN writes /\ writes'[i] = writes[i + 1]
        /\ writes # <<>> /\ writes' = Tail(writes)
    BY <1>0, <1>3, StatementEffect DEF cvars, hvars
  <2>2. Len(writes') = Len(writes) - 1 /\ DOMAIN writes' = 1 .. Len(writes')
    BY <1>n, <1>t, <2>1, TailFacts, LenProperties
  <2>3. committed' <= latest
    BY <1>n, <2>1 DEF LoopInv
  <2>4. ASSUME NEW i \in DOMAIN writes'
        PROVE  /\ writes'[i].op \in StatementsAt(pc')
               /\ writes'[i].op = "head" => writes'[i].block = latest'
               /\ writes'[i].op = "unschedule" => i = Len(writes') /\ writes'[i].ev \notin triggered'
    <3>1. i + 1 \in DOMAIN writes /\ writes'[i] = writes[i + 1] /\ i \in Nat
      BY <2>1, <2>2, <1>n
    <3>2. i + 1 = Len(writes) => i = Len(writes')
      BY <2>2, <1>n, <3>1
    <3>. QED
      BY <2>1, <3>1, <3>2 DEF LoopInv
  <2>5. /\ pc' = "handle" => latest' < head' /\ \A e \in batch' : latest' < e.block /\ e.block <= head'
        /\ pc' # "handle" => batch' = {}
        /\ latest' <= fetched' /\ head' <= fetched' /\ fetched' < now'
    BY <2>1 DEF LoopInv
  <2>. QED
    BY <2>1, <2>3, <2>4, <2>5 DEF LoopInv
<1>4. CASE GetBlockchainEvents
  <2>1. PICK b \in (latest + 1) .. (now - Confirmations) :
          /\ batch' \subseteq {e \in log : latest + 1 <= e.block /\ e.block <= b}
          /\ head' = b /\ fetched' = IF b > fetched THEN b ELSE fetched
    BY <1>4 DEF GetBlockchainEvents
  <2>2. b \in Nat /\ latest < b /\ b < now
    BY <1>n, ServiceConstants
  <2>3. /\ pc' = "handle" /\ writes' = <<>> /\ writes = <<>>
        /\ UNCHANGED <<now, committed, latest>>
    BY <1>4 DEF GetBlockchainEvents, At, ProcessVars, cvars, dbvars
  <2>4. \A e \in log : e.block \in Nat
    BY <1>0, Numbers
  <2>5. \A e \in batch' : latest < e.block /\ e.block <= b
    BY <1>n, <2>1, <2>4
  <2>. QED
    BY <1>n, <2>1, <2>2, <2>3, <2>5 DEF LoopInv
<1>5. CASE HandleEvent \/ EventLost
  <2>1. PICK e \in batch : \E ws :
              /\ Handle(e, ws) /\ \A i \in DOMAIN ws : HandlerStatement(e, ws[i])
    BY <1>5, HandlerWrites
  <2>2. /\ pc = "handle" /\ batch' = batch \ {e}
        /\ UNCHANGED <<now, committed, latest, head, fetched, pc, triggered>>
        /\ \A i \in DOMAIN writes' : HandlerStatement(e, writes'[i])
    BY <2>1 DEF Handle, At, ProcessVars, cvars, dbvars
  <2>3. ASSUME NEW i \in DOMAIN writes'
        PROVE  writes'[i].op \in {"token_network", "channel", "schedule"}
    BY <2>2 DEF HandlerStatement, UpsertTokenNetwork, UpsertChannel, UpsertScheduledEvent
  <2>. QED
    BY <2>2, <2>3 DEF LoopInv
<1>6. CASE UpdatedHeadBlock
  <2>1. /\ writes' = <<UpdateLatestCommittedBlock(head)>> /\ pc' = "trigger" /\ latest' = head
        /\ UNCHANGED <<now, committed, head, fetched, batch>> /\ pc = "handle" /\ batch = {}
    BY <1>6 DEF UpdatedHeadBlock, At, ProcessVars, cvars, dbvars
  <2>. QED
    BY <1>n, <2>1 DEF LoopInv, UpdateLatestCommittedBlock
<1>7. CASE UpdatedHeadBlockFails
  <2>1. /\ writes' = <<>> /\ pc' = "trigger" /\ latest' = head
        /\ UNCHANGED <<now, committed, head, fetched, batch>> /\ pc = "handle" /\ batch = {}
    BY <1>7 DEF UpdatedHeadBlockFails, At, ProcessVars, cvars, dbvars
  <2>. QED
    BY <1>n, <2>1 DEF LoopInv
<1>8. ASSUME NEW s \in triggered, Acts(s)
      PROVE  LoopInv'
  <2>1. /\ pc = "scheduled" /\ triggered' = triggered \ {s}
        /\ UNCHANGED <<now, committed, latest, head, fetched, pc, batch>>
        /\ Nothing(s) \/ PutOff(s) \/ SentMonitor(s) \/ SentClaim(s) \/ SentOnly(s)
    BY <1>8, ActionWrites DEF At, SchedulerVars, dbvars
  <2>2. \/ writes' = <<RemoveScheduledEvent(s)>>
        \/ \E a : /\ a.op \in {"schedule", "waiting"}
                  /\ writes' = <<a, RemoveScheduledEvent(s)>>
        \/ \E a, b : /\ a.op = "waiting" /\ b.op = "channel"
                     /\ writes' = <<a, b, RemoveScheduledEvent(s)>>
    BY <2>1 DEF Nothing, PutOff, SentMonitor, SentClaim, SentOnly, Sent, Removal,
           UpsertScheduledEvent, AddWaitingTransaction, UpsertChannel
  <2>3. ASSUME NEW i \in DOMAIN writes'
        PROVE  /\ writes'[i].op \in StatementsAt("scheduled")
               /\ writes'[i].op # "head"
               /\ writes'[i].op = "unschedule" => i = Len(writes') /\ writes'[i].ev \notin triggered'
    <3>. DEFINE u == RemoveScheduledEvent(s)
    <3>0. u.op = "unschedule" /\ u.ev = s /\ s \notin triggered'
      BY <2>1 DEF RemoveScheduledEvent
    <3>. HIDE DEF u
    <3>1. CASE writes' = <<u>>
      BY <3>0, <3>1
    <3>2. ASSUME NEW a, a.op \in {"schedule", "waiting"}, writes' = <<a, u>>
          PROVE  /\ writes'[i].op \in StatementsAt("scheduled")
                 /\ writes'[i].op # "head"
                 /\ writes'[i].op = "unschedule" => i = Len(writes') /\ writes'[i].ev \notin triggered'
      BY <3>0, <3>2
    <3>3. ASSUME NEW a, NEW b, a.op = "waiting", b.op = "channel", writes' = <<a, b, u>>
          PROVE  /\ writes'[i].op \in StatementsAt("scheduled")
                 /\ writes'[i].op # "head"
                 /\ writes'[i].op = "unschedule" => i = Len(writes') /\ writes'[i].ev \notin triggered'
      BY <3>0, <3>3
    <3>. QED
      BY <2>2, <3>1, <3>2, <3>3 DEF u
  <2>. QED
    BY <2>1, <2>3 DEF LoopInv
<1>9. CASE CrashAndRestart
  <2>1. /\ writes' = <<>> /\ pc' = "blocks" /\ latest' = committed /\ head' = 0 /\ batch' = {}
        /\ UNCHANGED <<now, committed, fetched>>
    BY <1>9 DEF CrashAndRestart, cvars, dbvars
  <2>. QED
    BY <1>n, <2>1 DEF LoopInv
<1>. QED
  BY <1>0, <1>1, <1>2, <1>3, <1>4, <1>5, <1>6, <1>7, <1>8, <1>9, Kinds

\* Without faults every token network is known, or created in the next batch.
LEMMA NetworksQueried ==
    ASSUME TypeOK, OrderInv, PassInv, faults = 0, NEW b \in Nat, latest < b,
           NEW n \in Networks
    PROVE  \/ n \in token_network
           \/ \E e \in log : /\ latest + 1 <= e.block /\ e.block <= b
                             /\ e.type = "created" /\ e.on = n
<1>n. latest \in Nat
  BY Numbers
<1>1. CASE latest >= 1
  BY <1>1 DEF PassInv
<1>2. CASE latest = 0
  <2>1. PICK e \in log : e.type = "created" /\ e.on = n
    BY DEF OrderInv
  <2>2. e.block = 1
    BY <2>1 DEF OrderInv
  <2>. QED
    BY <1>2, <2>1, <2>2
<1>. QED
  BY <1>n, <1>1, <1>2

\* A handler that returns.
LEMMA HandledOne ==
    ASSUME HandleEvent
    PROVE  \E e \in batch : /\ \E ws : Handle(e, ws)
                            /\ faults' = faults
                            /\ e.type = "created" => Handle(e, <<UpsertTokenNetwork(e.on)>>)
<1>. PICK e \in batch :
        \/ TokenNetworkCreated(e) \/ ChannelOpened(e) \/ ChannelUnknown(e) \/ ChannelClosed(e)
        \/ NonClosingBalanceProofUpdated(e) \/ ChannelSettled(e) \/ MonitorNewBalanceProof(e)
        \/ MonitorRewardClaimed(e)
  BY DEF HandleEvent
<1>1. CASE TokenNetworkCreated(e)
  BY <1>1 DEF TokenNetworkCreated
<1>2. CASE ~TokenNetworkCreated(e)
  <2>1. e.type # "created"
    BY <1>2 DEF ChannelOpened, ChannelUnknown, ChannelClosed, NonClosingBalanceProofUpdated,
           ChannelSettled, MonitorNewBalanceProof, MonitorRewardClaimed
  <2>2. (\E ws : Handle(e, ws)) /\ faults' = faults
    BY <1>2 DEF ChannelOpened, ChannelUnknown, ChannelClosed, NonClosingBalanceProofUpdated,
           ChannelSettled, MonitorNewBalanceProof, MonitorRewardClaimed
  <2>. QED
    BY <2>1, <2>2
<1>. QED
  BY <1>1, <1>2

\* A fault is never forgotten.
LEMMA FaultsStay ==
    ASSUME IInv, [Next]_vars
    PROVE  /\ faults' \in {faults, faults + 1}
           /\ faults' = 0 => faults = 0 /\ ~EventLost /\ ~UpdatedHeadBlockFails
<1>0. TypeOK
  BY DEF IInv
<1>n. faults \in Nat
  BY <1>0, Numbers
<1>1. MovesOn => faults' \in {faults, faults + 1}
  BY DEF MovesOn
<1>2. OnChain \/ ExecuteStatement \/ GetBlockchainEvents \/ UpdatedHeadBlock \/ CrashAndRestart
      => faults' = faults
  BY <1>0, StatementEffect DEF OnChain, GetBlockchainEvents, UpdatedHeadBlock, CrashAndRestart, hvars
<1>3. HandleEvent => faults' = faults
  BY HandledOne
<1>4. EventLost \/ UpdatedHeadBlockFails => faults' = faults + 1
  BY DEF EventLost, HandlerFails, UpdatedHeadBlockFails
<1>5. ASSUME NEW s \in triggered, Acts(s)
      PROVE  faults' \in {faults, faults + 1}
  BY <1>5, ActionWrites DEF Nothing, PutOff, SentMonitor, SentClaim, SentOnly, Sent
<1>6. faults' \in {faults, faults + 1}
  BY <1>0, <1>1, <1>2, <1>3, <1>4, <1>5, Kinds
<1>. QED
  BY <1>n, <1>4, <1>6

\* Without faults a batch holds every event of its blocks.
LEMMA FetchedAll ==
    ASSUME IInv, OrderInv, PassInv, faults = 0, GetBlockchainEvents
    PROVE  /\ head' \in Nat /\ latest < head'
           /\ \A n \in Networks : \/ n \in token_network
                                  \/ \E e \in batch' : e.type = "created" /\ e.on = n
           /\ \A f \in log : latest < f.block /\ f.block <= head' => f \in batch'
<1>0. TypeOK
  BY DEF IInv
<1>n. latest \in Nat /\ now \in Nat
  BY <1>0, Numbers
<1>. DEFINE Fetched(b) == {e \in log : latest + 1 <= e.block /\ e.block <= b}
            Queried(b) == token_network \cup {e.on : e \in {f \in Fetched(b) : f.type = "created"}}
<1>1. PICK b \in (latest + 1) .. (now - Confirmations) :
        /\ batch' = {e \in Fetched(b) : e.type \in TokenNetworkEvents => NetOf[e.on] \in Queried(b)}
        /\ head' = b
  BY DEF GetBlockchainEvents
<1>2. b \in Nat /\ latest < b
  BY <1>n, ServiceConstants
<1>3. \A n \in Networks : \/ n \in token_network
                          \/ \E e \in Fetched(b) : e.type = "created" /\ e.on = n
  BY <1>0, <1>2, NetworksQueried
<1>4. Networks \subseteq Queried(b)
  BY <1>3
<1>5. \A e \in Fetched(b) : e \in batch'
  <2>1. \A e \in log : e.type \in TokenNetworkEvents => e.on \in Channels
    BY <1>0 DEF TypeOK, ChainTypeOK, Events, TokenNetworkEvents, MSCEvents
  <2>2. \A e \in log : e.type \in TokenNetworkEvents => NetOf[e.on] \in Networks
    BY <2>1, ChainConstants
  <2>. HIDE DEF Queried
  <2>. QED
    BY <1>1, <1>4, <2>2
<1>6. \A e \in log : e.block \in Nat
  BY <1>0, Numbers
<1>7. \A f \in log : latest < f.block /\ f.block <= b => f \in Fetched(b)
  BY <1>n, <1>6
<1>. HIDE DEF Fetched, Queried
<1>. QED
  BY <1>1, <1>2, <1>3, <1>5, <1>7

\* Every step keeps what holds of a pass over the events.
LEMMA PassStep ==
    ASSUME IInv, IInv', OrderInv, LoopInv, PassInv, [Next]_vars
    PROVE  PassInv'
<1>. SUFFICES ASSUME faults' = 0
              PROVE  /\ (\A i \in DOMAIN writes' : writes'[i].op # "head") => committed' = latest'
                     /\ latest' >= 1 => token_network' = Networks
                     /\ pc' = "handle" => \A n \in Networks :
                           \/ n \in token_network'
                           \/ \E e \in batch' : e.type = "created" /\ e.on = n
                           \/ \E i \in DOMAIN writes' : writes'[i] = UpsertTokenNetwork(n)
                     /\ pc' = "handle" => \A e \in batch', f \in log' :
                           latest' < f.block /\ f.block <= head' /\ Precedes(e, f) => f \in batch'
  BY DEF PassInv
<1>0. TypeOK /\ TypeOK' /\ faults = 0 /\ ~EventLost /\ ~UpdatedHeadBlockFails
  BY FaultsStay DEF IInv
<1>n. /\ committed \in Nat /\ latest \in Nat /\ head \in Nat /\ committed <= latest
      /\ token_network \subseteq Networks
  BY <1>0, Numbers DEF LoopInv, TypeOK, DatabaseTypeOK
<1>p. /\ (\A i \in DOMAIN writes : writes[i].op # "head") => committed = latest
      /\ latest >= 1 => token_network = Networks
      /\ pc = "handle" => \A n \in Networks :
            \/ n \in token_network
            \/ \E e \in batch : e.type = "created" /\ e.on = n
            \/ \E i \in DOMAIN writes : writes[i] = UpsertTokenNetwork(n)
      /\ pc = "handle" => \A e \in batch, f \in log :
            latest < f.block /\ f.block <= head /\ Precedes(e, f) => f \in batch
  BY <1>0 DEF PassInv
<1>1. CASE MovesOn
  BY <1>1, <1>p DEF MovesOn, cvars
<1>2. CASE OnChain
  <2>1. UNCHANGED <<token_network, committed, latest, head, pc, batch, writes>> /\ pc # "handle"
    BY <1>2 DEF OnChain, dbvars, LooksAtChain
  <2>. QED
    BY <1>p, <2>1
<1>3. CASE ExecuteStatement
  <2>1. /\ 1 \in DOMAIN writes /\ UNCHANGED <<log, latest, head, pc, batch>>
        /\ writes[1].op # "head" => committed' = committed
        /\ writes[1].op = "head" => committed' = writes[1].block
        /\ writes[1].op # "token_network" => UNCHANGED token_network
        /\ writes[1].op = "token_network" => token_network' = token_network \cup {writes[1].net}
        /\ \A i \in DOMAIN writes \ {1} : i - 1 \in DOMAIN writes' /\ writes'[i - 1] = writes[i]
    BY <1>0, <1>3, StatementEffect DEF cvars, hvars
  <2>2. (\A i \in DOMAIN writes' : writes'[i].op # "head") => committed' = latest'
    <3>1. CASE writes[1].op = "head"
      BY <2>1, <3>1 DEF LoopInv
    <3>2. CASE writes[1].op # "head"
      BY <1>p, <2>1, <3>2
    <3>. QED
      BY <3>1, <3>2
  <2>3. token_network \subseteq token_network' /\ token_network' \subseteq Networks
    BY <1>0, <2>1 DEF TypeOK, DatabaseTypeOK
  <2>4. latest' >= 1 => token_network' = Networks
    BY <1>p, <2>1, <2>3
  <2>5. ASSUME pc' = "handle", NEW n \in Networks
        PROVE  \/ n \in token_network'
               \/ \E e \in batch' : e.type = "created" /\ e.on = n
               \/ \E i \in DOMAIN writes' : writes'[i] = UpsertTokenNetwork(n)
    <3>1. CASE \E i \in DOMAIN writes : writes[i] = UpsertTokenNetwork(n)
      <4>1. PICK i \in DOMAIN writes : writes[i] = UpsertTokenNetwork(n)
        BY <3>1
      <4>2. CASE i = 1
        BY <2>1, <4>1, <4>2 DEF UpsertTokenNetwork
      <4>3. CASE i # 1
        BY <2>1, <4>1, <4>3
      <4>. QED
        BY <4>2, <4>3
    <3>. QED
      BY <1>p, <2>1, <2>3, <2>5, <3>1
  <2>6. pc' = "handle" => \A e \in batch', f \in log' :
            latest' < f.block /\ f.block <= head' /\ Precedes(e, f) => f \in batch'
    BY <1>p, <2>1
  <2>. QED
    BY <2>2, <2>4, <2>5, <2>6
<1>4. CASE GetBlockchainEvents
  <2>1. pc' = "handle" /\ writes' = <<>> /\ writes = <<>> /\ UNCHANGED <<log, committed, latest, token_network>>
    BY <1>4 DEF GetBlockchainEvents, At, ProcessVars, cvars, dbvars
  <2>2. /\ \A n \in Networks : \/ n \in token_network
                               \/ \E e \in batch' : e.type = "created" /\ e.on = n
        /\ \A f \in log : latest < f.block /\ f.block <= head' => f \in batch'
    BY <1>0, <1>4, FetchedAll
  <2>. QED
    BY <1>p, <2>1, <2>2
<1>5. CASE HandleEvent
  <2>1. PICK e \in batch : /\ \E ws : Handle(e, ws)
                           /\ e.type = "created" => Handle(e, <<UpsertTokenNetwork(e.on)>>)
    BY <1>5, HandledOne
  <2>2. /\ pc = "handle" /\ batch' = batch \ {e} /\ writes = <<>> /\ \A f \in batch : ~Precedes(f, e)
        /\ UNCHANGED <<log, token_network, committed, latest, head, pc>>
        /\ e.type = "created" => writes' = <<UpsertTokenNetwork(e.on)>>
    BY <2>1 DEF Handle, At, ProcessVars, cvars, dbvars
  <2>3. committed = latest
    BY <1>p, <2>2
  <2>4. ASSUME NEW n \in Networks
        PROVE  \/ n \in token_network
               \/ \E f \in batch' : f.type = "created" /\ f.on = n
               \/ \E i \in DOMAIN writes' : writes'[i] = UpsertTokenNetwork(n)
    <3>1. CASE n \in token_network
      BY <3>1
    <3>2. CASE \E f \in batch : f.type = "created" /\ f.on = n
      <4>1. PICK f \in batch : f.type = "created" /\ f.on = n
        BY <3>2
      <4>2. CASE f = e
        <5>1. writes' = <<UpsertTokenNetwork(n)>>
          BY <2>2, <4>1, <4>2
        <5>. QED
          BY <5>1
      <4>3. CASE f # e
        BY <2>2, <4>1, <4>3
      <4>. QED
        BY <4>2, <4>3
    <3>3. ~ \E i \in DOMAIN writes : writes[i] = UpsertTokenNetwork(n)
      BY <2>2
    <3>. QED
      BY <1>p, <2>2, <3>1, <3>2, <3>3
  <2>5. \A g \in batch', f \in log' :
            latest' < f.block /\ f.block <= head' /\ Precedes(g, f) => f \in batch'
    BY <1>p, <2>2
  <2>. QED
    BY <1>p, <2>2, <2>3, <2>4, <2>5
<1>6. CASE UpdatedHeadBlock
  <2>1. /\ writes' = <<UpdateLatestCommittedBlock(head)>> /\ pc' = "trigger" /\ latest' = head
        /\ UNCHANGED token_network /\ pc = "handle" /\ batch = {} /\ writes = <<>>
    BY <1>6 DEF UpdatedHeadBlock, At, ProcessVars, cvars, dbvars
  <2>2. token_network = Networks
    <3>1. \A n \in Networks : n \in token_network
      BY <1>p, <2>1
    <3>. QED
      BY <1>n, <3>1
  <2>3. writes'[1].op = "head" /\ 1 \in DOMAIN writes'
    BY <2>1 DEF UpdateLatestCommittedBlock
  <2>. QED
    BY <2>1, <2>2, <2>3
<1>8. ASSUME NEW s \in triggered, Acts(s)
      PROVE  UNCHANGED <<committed, latest, token_network, pc>> /\ pc = "scheduled" /\ writes = <<>>
  BY <1>8, ActionWrites DEF At, SchedulerVars, dbvars
<1>9. CASE CrashAndRestart
  <2>1. pc' = "blocks" /\ latest' = committed /\ UNCHANGED <<committed, token_network>>
    BY <1>9 DEF CrashAndRestart, cvars, dbvars
  <2>. QED
    BY <1>n, <1>p, <2>1
<1>10. CASE \E s \in triggered : Acts(s)
  BY <1>8, <1>10, <1>p
<1>. QED
  BY <1>0, <1>1, <1>2, <1>3, <1>4, <1>5, <1>6, <1>9, <1>10, Kinds

------------------------------------------------------------------------------
(* The hashes of the transactions.                                         *)

\* The transactions of a type for a channel can be counted.
LEMMA TxsCounted ==
    ASSUME ChainTypeOK, NEW c
    PROVE  /\ IsFiniteSet(MonitorTxs(c)) /\ Cardinality(MonitorTxs(c)) \in Nat
           /\ IsFiniteSet(ClaimTxs(c)) /\ Cardinality(ClaimTxs(c)) \in Nat
<1>1. Len(txs) \in Nat /\ DOMAIN txs = 1 .. Len(txs)
  BY LenProperties DEF ChainTypeOK
<1>2. IsFiniteSet(1 .. Len(txs))
  BY <1>1, FS_Interval
<1>3. MonitorTxs(c) \subseteq 1 .. Len(txs) /\ ClaimTxs(c) \subseteq 1 .. Len(txs)
  BY <1>1 DEF MonitorTxs, ClaimTxs
<1>4. IsFiniteSet(MonitorTxs(c)) /\ IsFiniteSet(ClaimTxs(c))
  BY <1>2, <1>3, FS_Subset
<1>. QED
  BY <1>4, FS_CardinalityType

\* A transaction that is sent is one more of its type for its channel.
LEMMA TxSent ==
    ASSUME ChainTypeOK, NEW c, NEW tx, txs' = Append(txs, tx)
    PROVE  /\ Cardinality(MonitorTxs(c))' <= Cardinality(MonitorTxs(c)) + 1
           /\ Cardinality(ClaimTxs(c))' <= Cardinality(ClaimTxs(c)) + 1
           /\ tx.ch # c \/ tx.type # "monitor" => MonitorTxs(c)' = MonitorTxs(c)
           /\ tx.ch # c \/ tx.type # "claim" => ClaimTxs(c)' = ClaimTxs(c)
<1>1. /\ Len(txs) \in Nat /\ DOMAIN txs = 1 .. Len(txs) /\ Len(txs') = Len(txs) + 1
      /\ DOMAIN txs' = 1 .. Len(txs')
      /\ \A i \in DOMAIN txs : txs'[i] = txs[i]
      /\ txs'[Len(txs) + 1] = tx
  BY LenProperties, AppendProperties DEF ChainTypeOK
<1>2. DOMAIN txs' = DOMAIN txs \cup {Len(txs) + 1} /\ Len(txs) + 1 \notin DOMAIN txs
  BY <1>1
<1>3. MonitorTxs(c)' = MonitorTxs(c) \/ MonitorTxs(c)' = MonitorTxs(c) \cup {Len(txs) + 1}
  BY <1>1, <1>2 DEF MonitorTxs
<1>4. ClaimTxs(c)' = ClaimTxs(c) \/ ClaimTxs(c)' = ClaimTxs(c) \cup {Len(txs) + 1}
  BY <1>1, <1>2 DEF ClaimTxs
<1>5. /\ IsFiniteSet(MonitorTxs(c)) /\ Cardinality(MonitorTxs(c)) \in Nat
      /\ IsFiniteSet(ClaimTxs(c)) /\ Cardinality(ClaimTxs(c)) \in Nat
  BY TxsCounted
<1>6. /\ tx.ch # c \/ tx.type # "monitor" => MonitorTxs(c)' = MonitorTxs(c)
      /\ tx.ch # c \/ tx.type # "claim" => ClaimTxs(c)' = ClaimTxs(c)
  BY <1>1, <1>2 DEF MonitorTxs, ClaimTxs
<1>7. Len(txs) + 1 \notin MonitorTxs(c) /\ Len(txs) + 1 \notin ClaimTxs(c)
  BY <1>2 DEF MonitorTxs, ClaimTxs
<1>8. /\ Cardinality(MonitorTxs(c) \cup {Len(txs) + 1}) = Cardinality(MonitorTxs(c)) + 1
      /\ Cardinality(ClaimTxs(c) \cup {Len(txs) + 1}) = Cardinality(ClaimTxs(c)) + 1
  BY <1>5, <1>7, FS_AddElement
<1>9. Cardinality(MonitorTxs(c))' <= Cardinality(MonitorTxs(c)) + 1
  <2>1. CASE MonitorTxs(c)' = MonitorTxs(c)
    <3>1. Cardinality(MonitorTxs(c))' = Cardinality(MonitorTxs(c))
      BY <2>1
    <3>. QED
      BY <1>5, <3>1
  <2>2. CASE MonitorTxs(c)' = MonitorTxs(c) \cup {Len(txs) + 1}
    <3>1. Cardinality(MonitorTxs(c))' = Cardinality(MonitorTxs(c)) + 1
      BY <1>8, <2>2
    <3>. QED
      BY <1>5, <3>1
  <2>. QED
    BY <1>3, <2>1, <2>2
<1>10. Cardinality(ClaimTxs(c))' <= Cardinality(ClaimTxs(c)) + 1
  <2>1. CASE ClaimTxs(c)' = ClaimTxs(c)
    <3>1. Cardinality(ClaimTxs(c))' = Cardinality(ClaimTxs(c))
      BY <2>1
    <3>. QED
      BY <1>5, <3>1
  <2>2. CASE ClaimTxs(c)' = ClaimTxs(c) \cup {Len(txs) + 1}
    <3>1. Cardinality(ClaimTxs(c))' = Cardinality(ClaimTxs(c)) + 1
      BY <1>8, <2>2
    <3>. QED
      BY <1>5, <3>1
  <2>. QED
    BY <1>4, <2>1, <2>2
<1>. QED
  BY <1>6, <1>9, <1>10

\* Mining changes no transaction's type or channel.
LEMMA TxsMined ==
    ASSUME ChainTypeOK, OnChain, NEW c
    PROVE  MonitorTxs(c)' = MonitorTxs(c) /\ ClaimTxs(c)' = ClaimTxs(c)
<1>1. txs' = txs \/ \E i \in DOMAIN txs : Mined(i)
  BY DEF OnChain, ChainTransaction, MineTx, NewBlock, OpenChannel, CloseChannel, UpdateNonClosing,
         MonitorByOther, SettleChannel, ChangeBalance, ConfirmBalance, MineMonitor, MineClaim,
         MineReverted
<1>2. CASE txs' = txs
  BY <1>2 DEF MonitorTxs, ClaimTxs
<1>3. ASSUME NEW i \in DOMAIN txs, Mined(i)
      PROVE  MonitorTxs(c)' = MonitorTxs(c) /\ ClaimTxs(c)' = ClaimTxs(c)
  <2>1. txs \in [1 .. Len(txs) -> Transactions] /\ DOMAIN txs = 1 .. Len(txs)
    BY LenProperties DEF ChainTypeOK
  <2>2. /\ DOMAIN txs' = DOMAIN txs
        /\ \A j \in DOMAIN txs : txs'[j].type = txs[j].type /\ txs'[j].ch = txs[j].ch
    BY <1>3, <2>1 DEF Mined, Transactions
  <2>. QED
    BY <2>2 DEF MonitorTxs, ClaimTxs
<1>. QED
  BY <1>1, <1>2, <1>3

\* Unless the process dies, what was handled stays handled.
LEMMA HandledStays ==
    ASSUME IInv, OrderInv, LoopInv, [Next]_vars, ~CrashAndRestart
    PROVE  Reached <= Reached' /\ \A e : Handled(e) => Handled(e)'
<1>0. TypeOK
  BY DEF IInv
<1>n. /\ latest \in Nat /\ head \in Nat /\ Reached \in Nat /\ \A e \in log : e.block \in Nat
  BY <1>0, Numbers DEF Reached
<1>. USE DEF Reached, Handled
<1>1. CASE MovesOn
  BY <1>n, <1>1 DEF MovesOn, cvars
<1>2. CASE OnChain
  BY <1>n, <1>2, OnChainGrows DEF OnChain
<1>3. CASE ExecuteStatement
  <2>1. UNCHANGED <<log, latest, head, pc, batch>>
    BY <1>0, <1>3, StatementEffect DEF cvars
  <2>. QED
    BY <1>n, <2>1
<1>4. CASE GetBlockchainEvents
  <2>1. PICK b \in (latest + 1) .. (now - Confirmations) :
          /\ batch' \subseteq {e \in log : latest + 1 <= e.block /\ e.block <= b}
          /\ head' = b
    BY <1>4 DEF GetBlockchainEvents
  <2>2. b \in Nat /\ latest < b
    BY <1>0, <1>n, Numbers, ServiceConstants
  <2>3. pc = "blocks" /\ pc' = "handle" /\ UNCHANGED log
    BY <1>4 DEF GetBlockchainEvents, At, ProcessVars, cvars
  <2>. QED
    BY <1>n, <2>1, <2>2, <2>3
<1>5. CASE HandleEvent \/ EventLost
  <2>1. PICK e \in batch : \E ws : Handle(e, ws)
    BY <1>5, HandlerWrites
  <2>. QED
    BY <1>n, <2>1 DEF Handle, ProcessVars, cvars
<1>6. CASE UpdatedHeadBlock \/ UpdatedHeadBlockFails
  BY <1>n, <1>6 DEF UpdatedHeadBlock, UpdatedHeadBlockFails, At, ProcessVars, cvars
<1>7. ASSUME NEW s \in triggered, Acts(s)
      PROVE  Reached <= Reached' /\ \A e : Handled(e) => Handled(e)'
  BY <1>n, <1>7, ActionWrites DEF SchedulerVars
<1>. QED
  BY <1>0, <1>1, <1>2, <1>3, <1>4, <1>5, <1>6, <1>7, Kinds

\* The opening of a channel is handled once, and once more for each crash.
LEMMA OpeningsStep ==
    ASSUME IInv, OrderInv, LoopInv, OpeningsInv, [Next]_vars
    PROVE  OpeningsInv'
<1>0. TypeOK /\ batch \subseteq log
  BY DEF IInv, NonceInv
<1>n. crashes \in Nat /\ openings \in [Channels -> Nat]
  BY <1>0, Numbers
<1>1. ASSUME UNCHANGED <<openings, crashes>>, ~CrashAndRestart
      PROVE  OpeningsInv'
  <2>1. log \subseteq log'
    <3>1. OnChain => log \subseteq log'
      BY OnChainGrows
    <3>2. MovesOn \/ GetBlockchainEvents \/ UpdatedHeadBlock \/ UpdatedHeadBlockFails => log' = log
      BY DEF MovesOn, GetBlockchainEvents, UpdatedHeadBlock, UpdatedHeadBlockFails, ProcessVars, cvars
    <3>3. ExecuteStatement => log' = log
      BY <1>0, StatementEffect DEF cvars
    <3>4. HandleEvent \/ EventLost => log' = log
      BY HandlerWrites DEF Handle, ProcessVars, cvars
    <3>5. (\E s \in triggered : Acts(s)) => log' = log
      BY ActionWrites DEF SchedulerVars
    <3>. QED
      BY <1>0, <1>1, <3>1, <3>2, <3>3, <3>4, <3>5, Kinds
  <2>2. \A e : Handled(e) => Handled(e)'
    BY <1>1, HandledStays
  <2>. QED
    BY <1>1, <2>1, <2>2 DEF OpeningsInv
<1>2. CASE CrashAndRestart
  <2>1. openings' = openings /\ crashes' = crashes + 1
    BY <1>2 DEF CrashAndRestart
  <2>. QED
    BY <1>n, <2>1 DEF OpeningsInv
<1>3. CASE HandleEvent \/ EventLost
  <2>1. PICK e \in batch : \E ws : Handle(e, ws)
    BY <1>3, HandlerWrites
  <2>2. /\ pc = "handle" /\ batch' = batch \ {e} /\ UNCHANGED <<log, pc, head, latest, crashes>>
        /\ openings' = IF e.type = "opened" THEN [openings EXCEPT ![e.on] = @ + 1] ELSE openings
    BY <2>1 DEF Handle, At, ProcessVars, cvars
  <2>3. e \in log /\ e.block <= head /\ Handled(e)' /\ ~Handled(e)
    BY <1>0, <2>2 DEF LoopInv, Handled, Reached
  <2>4. \A f \in log : Handled(f) => Handled(f)'
    BY <2>2 DEF Handled, Reached
  <2>5. ASSUME NEW c \in Channels
        PROVE  /\ openings'[c] <= 1 + crashes
               /\ (\A f \in log' : f.type = "opened" /\ f.on = c => ~Handled(f)') => openings'[c] <= crashes
    <3>1. CASE e.type = "opened" /\ e.on = c
      <4>1. \A f \in log : f.type = "opened" /\ f.on = c => f = e
        BY <2>3, <3>1 DEF OrderInv
      <4>2. openings[c] <= crashes
        BY <2>3, <4>1 DEF OpeningsInv
      <4>. QED
        BY <1>n, <2>2, <2>3, <3>1, <4>2
    <3>2. CASE ~(e.type = "opened" /\ e.on = c)
      <4>1. openings'[c] = openings[c]
        BY <1>n, <2>2, <3>2
      <4>. QED
        BY <2>2, <2>4, <4>1 DEF OpeningsInv
    <3>. QED
      BY <3>1, <3>2
  <2>. QED
    BY <2>2, <2>5 DEF OpeningsInv
<1>4. \/ MovesOn \/ OnChain \/ ExecuteStatement \/ GetBlockchainEvents \/ UpdatedHeadBlock
      \/ UpdatedHeadBlockFails \/ \E s \in triggered : Acts(s)
      => UNCHANGED <<openings, crashes>>
  <2>1. MovesOn \/ OnChain \/ GetBlockchainEvents \/ UpdatedHeadBlock \/ UpdatedHeadBlockFails
        => UNCHANGED <<openings, crashes>>
    BY DEF MovesOn, OnChain, GetBlockchainEvents, UpdatedHeadBlock, UpdatedHeadBlockFails, ProcessVars
  <2>2. ExecuteStatement => UNCHANGED <<openings, crashes>>
    BY <1>0, StatementEffect DEF hvars
  <2>3. (\E s \in triggered : Acts(s)) => UNCHANGED <<openings, crashes>>
    BY ActionWrites DEF SchedulerVars
  <2>. QED
    BY <2>1, <2>2, <2>3
<1>. QED
  BY <1>0, <1>1, <1>2, <1>3, <1>4, Kinds

\* The budgets only grow.
LEMMA Budgets ==
    ASSUME IInv, IInv', [Next]_vars, NEW c \in Channels
    PROVE  Budget(c) \in Nat /\ Budget(c)' \in Nat /\ Budget(c) <= Budget(c)'
<1>0. TypeOK /\ TypeOK'
  BY DEF IInv
<1>n. /\ openings[c] \in Nat /\ lost \in Nat /\ faults \in Nat
      /\ openings'[c] \in Nat /\ lost' \in Nat /\ faults' \in Nat
  BY <1>0, Numbers, ServiceConstants DEF TypeOK, HistoryTypeOK
<1>1. faults <= faults'
  BY <1>n, FaultsStay
<1>2. openings[c] <= openings'[c] /\ lost <= lost'
  <2>1. MovesOn \/ OnChain \/ GetBlockchainEvents \/ UpdatedHeadBlock \/ UpdatedHeadBlockFails
        => UNCHANGED <<openings, lost>>
    BY DEF MovesOn, OnChain, GetBlockchainEvents, UpdatedHeadBlock, UpdatedHeadBlockFails, ProcessVars
  <2>2. ExecuteStatement => UNCHANGED <<openings, lost>>
    BY <1>0, StatementEffect DEF hvars
  <2>3. (\E s \in triggered : Acts(s)) => UNCHANGED <<openings, lost>>
    BY ActionWrites DEF SchedulerVars
  <2>4. CrashAndRestart => UNCHANGED openings /\ lost' \in {lost, lost + 1}
    BY DEF CrashAndRestart
  <2>5. ASSUME HandleEvent \/ EventLost
        PROVE  openings[c] <= openings'[c] /\ lost' = lost
    <3>1. PICK e \in batch : \E ws : Handle(e, ws)
      BY <2>5, HandlerWrites
    <3>2. lost' = lost /\ openings' = IF e.type = "opened" THEN [openings EXCEPT ![e.on] = @ + 1] ELSE openings
      BY <3>1 DEF Handle, ProcessVars
    <3>3. openings \in [Channels -> Nat]
      BY <1>0 DEF TypeOK, HistoryTypeOK
    <3>. QED
      BY <1>n, <3>2, <3>3
  <2>. QED
    BY <1>0, <1>n, <2>1, <2>2, <2>3, <2>4, <2>5, Kinds
<1>. QED
  BY <1>n, <1>1, <1>2 DEF Budget

\* Unless a transaction is sent, a row that leaves room for one goes on to.
LEMMA RoomStays ==
    ASSUME IInv, IInv', [Next]_vars, NEW c \in Channels,
           MonitorTxs(c)' = MonitorTxs(c), ClaimTxs(c)' = ClaimTxs(c)
    PROVE  /\ \A r : Room(c, r) => Room(c, r)'
           /\ Cardinality(MonitorTxs(c)) <= Budget(c) => Cardinality(MonitorTxs(c))' <= Budget(c)'
           /\ Cardinality(ClaimTxs(c)) <= Budget(c) => Cardinality(ClaimTxs(c))' <= Budget(c)'
<1>1. Budget(c) \in Nat /\ Budget(c)' \in Nat /\ Budget(c) <= Budget(c)'
  BY Budgets
<1>2. Cardinality(MonitorTxs(c)) \in Nat /\ Cardinality(ClaimTxs(c)) \in Nat
  BY TxsCounted DEF IInv, TypeOK
<1>3. Cardinality(MonitorTxs(c))' = Cardinality(MonitorTxs(c)) /\ Cardinality(ClaimTxs(c))' = Cardinality(ClaimTxs(c))
  OBVIOUS
<1>. QED
  BY <1>1, <1>2, <1>3 DEF Room

\* A row that no statement is going to replace, and the others.
LEMMA NoStatements ==
    ASSUME NEW c
    PROVE  /\ writes = <<>> => Settled(c) /\ ~Unsaved(c)
           /\ writes' = <<>> => Settled(c)' /\ ~Unsaved(c)'
BY DEF Settled, Unsaved

\* HashInv of one channel.
HashAt(c) ==
    /\ Cardinality(MonitorTxs(c)) <= Budget(c) /\ Cardinality(ClaimTxs(c)) <= Budget(c)
    /\ channel[c] # NoRow /\ ~Unsaved(c) => Room(c, channel[c])
    /\ \A i \in DOMAIN writes :
          writes[i].op = "channel" /\ writes[i].ch = c => Room(c, writes[i].row)

\* After sending a transaction there is room for no more, until its hash is
\* saved; and then there is none.
LEMMA HashSent ==
    ASSUME IInv, IInv', LoopInv, [Next]_vars, NEW c \in Channels, HashAt(c),
           NEW s \in triggered, Acts(s)
    PROVE  HashAt(c)'
<1>0. TypeOK /\ TypeOK' /\ ChainTypeOK
  BY DEF IInv, TypeOK
<1>1. /\ pc = "scheduled" /\ writes = <<>> /\ pc' = pc /\ channel' = channel
      /\ UNCHANGED <<openings, lost>>
      /\ Nothing(s) \/ PutOff(s) \/ SentMonitor(s) \/ SentClaim(s) \/ SentOnly(s)
  BY ActionWrites DEF At, SchedulerVars, dbvars
<1>2. ~Unsaved(c)
  BY <1>1, NoStatements
<1>n. /\ Budget(c) \in Nat /\ Budget(c)' \in Nat /\ Budget(c) <= Budget(c)'
      /\ Cardinality(MonitorTxs(c)) \in Nat /\ Cardinality(ClaimTxs(c)) \in Nat
      /\ Cardinality(MonitorTxs(c))' \in Nat /\ Cardinality(ClaimTxs(c))' \in Nat
      /\ openings[c] \in Nat /\ lost \in Nat /\ faults \in Nat
  <2>1. Cardinality(MonitorTxs(c)) \in Nat /\ Cardinality(ClaimTxs(c)) \in Nat
    BY <1>0, TxsCounted
  <2>2. ChainTypeOK'
    BY <1>0 DEF TypeOK
  <2>3. (Cardinality(MonitorTxs(c)) \in Nat /\ Cardinality(ClaimTxs(c)) \in Nat)'
    <3>1. DOMAIN txs' = 1 .. Len(txs') /\ Len(txs') \in Nat
      BY <2>2, LenProperties DEF ChainTypeOK
    <3>2. IsFiniteSet(1 .. Len(txs'))
      BY <3>1, FS_Interval
    <3>3. MonitorTxs(c)' \subseteq 1 .. Len(txs') /\ ClaimTxs(c)' \subseteq 1 .. Len(txs')
      BY <3>1 DEF MonitorTxs, ClaimTxs
    <3>. QED
      BY <3>2, <3>3, FS_Subset, FS_CardinalityType
  <2>. QED
    BY <1>0, <2>1, <2>3, Budgets, Numbers
<1>3. CASE Nothing(s) \/ PutOff(s)
  <2>1. txs' = txs /\ \A i \in DOMAIN writes' : writes'[i].op # "channel"
    BY <1>3 DEF Nothing, PutOff, Removal, RemoveScheduledEvent, UpsertScheduledEvent
  <2>2. MonitorTxs(c)' = MonitorTxs(c) /\ ClaimTxs(c)' = ClaimTxs(c)
    BY <2>1 DEF MonitorTxs, ClaimTxs
  <2>3. /\ \A r : Room(c, r) => Room(c, r)'
        /\ Cardinality(MonitorTxs(c)) <= Budget(c) => Cardinality(MonitorTxs(c))' <= Budget(c)'
        /\ Cardinality(ClaimTxs(c)) <= Budget(c) => Cardinality(ClaimTxs(c))' <= Budget(c)'
    BY <2>2, RoomStays
  <2>4. channel[c] # NoRow => Room(c, channel[c])'
    <3>1. channel[c] # NoRow => Room(c, channel[c])
      BY <1>2 DEF HashAt
    <3>. QED
      BY <1>1, <2>3, <3>1 DEF Room
  <2>. QED
    BY <1>1, <2>1, <2>3, <2>4 DEF HashAt
<1>4. CASE SentOnly(s)
  <2>1. PICK tx : txs' = Append(txs, tx)
    BY <1>4 DEF SentOnly
  <2>2. \A i \in DOMAIN writes' : writes'[i].op # "channel"
    BY <1>4 DEF SentOnly, Removal, RemoveScheduledEvent, AddWaitingTransaction
  <2>3. Budget(c)' = Budget(c) + 1
    BY <1>1, <1>4, <1>n DEF SentOnly, Budget
  <2>4. /\ Cardinality(MonitorTxs(c))' <= Cardinality(MonitorTxs(c)) + 1
        /\ Cardinality(ClaimTxs(c))' <= Cardinality(ClaimTxs(c)) + 1
    BY <1>0, <2>1, TxSent
  <2>. QED
    BY <1>1, <1>2, <1>n, <2>2, <2>3, <2>4 DEF HashAt, Room
<1>5. CASE SentMonitor(s) \/ SentClaim(s)
  <2>1. CASE s.ch # c
    <3>1. PICK tx, row : /\ txs' = Append(txs, tx) /\ tx.ch = s.ch
                         /\ writes' = <<AddWaitingTransaction(Len(txs) + 1), UpsertChannel(s.ch, row),
                                        RemoveScheduledEvent(s)>>
      BY <1>5 DEF SentMonitor, SentClaim, Sent, MonitorTx, ClaimTx
    <3>2. MonitorTxs(c)' = MonitorTxs(c) /\ ClaimTxs(c)' = ClaimTxs(c)
      BY <1>0, <2>1, <3>1, TxSent
    <3>3. \A i \in DOMAIN writes' : writes'[i].op = "channel" => writes'[i].ch = s.ch
      BY <3>1 DEF AddWaitingTransaction, UpsertChannel, RemoveScheduledEvent
    <3>4. /\ \A r : Room(c, r) => Room(c, r)'
          /\ Cardinality(MonitorTxs(c)) <= Budget(c) => Cardinality(MonitorTxs(c))' <= Budget(c)'
          /\ Cardinality(ClaimTxs(c)) <= Budget(c) => Cardinality(ClaimTxs(c))' <= Budget(c)'
      BY <3>2, RoomStays
    <3>5. channel[c] # NoRow => Room(c, channel[c])'
      <4>1. channel[c] # NoRow => Room(c, channel[c])
        BY <1>2 DEF HashAt
      <4>. QED
        BY <1>1, <3>4, <4>1 DEF Room
    <3>. QED
      BY <1>1, <2>1, <3>3, <3>4, <3>5 DEF HashAt
  <2>2. CASE s.ch = c
    <3>. DEFINE u == AddWaitingTransaction(Len(txs) + 1)
                v == RemoveScheduledEvent(s)
    <3>0. channel[c] \in ChannelRows /\ Len(txs) + 1 # 0
      <4>1. channel[c] # NoRow
        BY <1>5, <2>2 DEF SentMonitor, SentClaim, Sent
      <4>2. Len(txs) \in Nat
        BY <1>0, LenProperties DEF ChainTypeOK
      <4>. QED
        BY <1>0, <4>1, <4>2 DEF TypeOK, DatabaseTypeOK
    <3>1. Room(c, channel[c])
      BY <1>2, <1>5, <2>2 DEF HashAt, SentMonitor, SentClaim, Sent
    <3>2. PICK row :
             /\ writes' = <<u, UpsertChannel(c, row), v>>
             /\ \/ /\ channel[c].monitor_tx = 0 /\ row.monitor_tx # 0 /\ row.claim_tx = channel[c].claim_tx
                   /\ \E tx : txs' = Append(txs, tx) /\ tx.type = "monitor"
                \/ /\ channel[c].claim_tx = 0 /\ row.claim_tx # 0 /\ row.monitor_tx = channel[c].monitor_tx
                   /\ \E tx : txs' = Append(txs, tx) /\ tx.type = "claim"
      <4>1. CASE SentMonitor(s)
        <5>. DEFINE row == [channel[c] EXCEPT !.monitor_tx = Len(txs) + 1]
        <5>1. writes' = <<u, UpsertChannel(c, row), v>> /\ channel[c].monitor_tx = 0
              /\ txs' = Append(txs, MonitorTx(s)) /\ MonitorTx(s).type = "monitor"
          BY <2>2, <4>1 DEF SentMonitor, Sent, MonitorTx
        <5>2. row.monitor_tx # 0 /\ row.claim_tx = channel[c].claim_tx
          BY <3>0 DEF ChannelRows
        <5>. HIDE DEF row, u, v
        <5>. QED
          BY <5>1, <5>2
      <4>2. CASE SentClaim(s)
        <5>. DEFINE row == [channel[c] EXCEPT !.claim_tx = Len(txs) + 1]
        <5>1. writes' = <<u, UpsertChannel(c, row), v>> /\ channel[c].claim_tx = 0
              /\ txs' = Append(txs, ClaimTx(s)) /\ ClaimTx(s).type = "claim"
          BY <2>2, <4>2 DEF SentClaim, Sent, ClaimTx
        <5>2. row.claim_tx # 0 /\ row.monitor_tx = channel[c].monitor_tx
          BY <3>0 DEF ChannelRows
        <5>. HIDE DEF row, u, v
        <5>. QED
          BY <5>1, <5>2
      <4>. QED
        BY <1>5, <4>1, <4>2
    <3>3. /\ \A i \in DOMAIN writes' : writes'[i].op = "channel" => writes'[i].row = row
          /\ 2 \in DOMAIN writes' /\ writes'[2].op = "channel" /\ writes'[2].ch = c
      BY <3>2 DEF UpsertChannel, AddWaitingTransaction, RemoveScheduledEvent
    <3>4. Unsaved(c)'
      BY <1>1, <3>3 DEF Unsaved, Settled
    <3>5. /\ \/ /\ channel[c].monitor_tx = 0 /\ row.monitor_tx # 0 /\ row.claim_tx = channel[c].claim_tx
                /\ Cardinality(ClaimTxs(c))' = Cardinality(ClaimTxs(c))
             \/ /\ channel[c].claim_tx = 0 /\ row.claim_tx # 0 /\ row.monitor_tx = channel[c].monitor_tx
                /\ Cardinality(MonitorTxs(c))' = Cardinality(MonitorTxs(c))
          /\ Cardinality(MonitorTxs(c))' <= Cardinality(MonitorTxs(c)) + 1
          /\ Cardinality(ClaimTxs(c))' <= Cardinality(ClaimTxs(c)) + 1
      BY <1>0, <3>2, TxSent
    <3>6. Cardinality(MonitorTxs(c)) <= Budget(c) /\ Cardinality(ClaimTxs(c)) <= Budget(c)
      BY DEF HashAt
    <3>7. /\ Cardinality(MonitorTxs(c))' <= Budget(c)' /\ Cardinality(ClaimTxs(c))' <= Budget(c)'
          /\ Room(c, row)'
      BY <1>n, <3>1, <3>5, <3>6 DEF Room
    <3>8. \A i \in DOMAIN writes' :
              (writes[i].op = "channel" /\ writes[i].ch = c => Room(c, writes[i].row))'
      BY <3>3, <3>7 DEF Room
    <3>. QED
      BY <3>4, <3>7, <3>8 DEF HashAt
  <2>. QED
    BY <2>1, <2>2
<1>. QED
  BY <1>1, <1>3, <1>4, <1>5

\* Every step keeps the account of the transactions.
LEMMA HashStep ==
    ASSUME IInv, IInv', OrderInv, LoopInv, HashInv, [Next]_vars
    PROVE  HashInv'
<1>. SUFFICES ASSUME NEW c \in Channels, HashAt(c)
              PROVE  HashAt(c)'
  BY DEF HashInv, HashAt
<1>0. TypeOK /\ TypeOK' /\ ChainTypeOK
  BY DEF IInv, TypeOK
\* The steps that send nothing and change no row.
<1>same. ASSUME MonitorTxs(c)' = MonitorTxs(c), ClaimTxs(c)' = ClaimTxs(c), channel' = channel,
                ~Unsaved(c)' => ~Unsaved(c),
                \A i \in DOMAIN writes' :
                    writes'[i].op = "channel" /\ writes'[i].ch = c =>
                        \/ \E j \in DOMAIN writes : writes'[i] = writes[j]
                        \/ /\ channel[c] # NoRow /\ ~Unsaved(c)
                           /\ writes'[i].row.monitor_tx = channel[c].monitor_tx
                           /\ writes'[i].row.claim_tx = channel[c].claim_tx
         PROVE  HashAt(c)'
  <2>1. /\ \A r : Room(c, r) => Room(c, r)'
        /\ Cardinality(MonitorTxs(c)) <= Budget(c) => Cardinality(MonitorTxs(c))' <= Budget(c)'
        /\ Cardinality(ClaimTxs(c)) <= Budget(c) => Cardinality(ClaimTxs(c))' <= Budget(c)'
    BY <1>same, RoomStays
  <2>2. ASSUME channel[c] # NoRow, ~Unsaved(c)'
        PROVE  Room(c, channel[c])'
    <3>1. Room(c, channel[c])
      BY <1>same, <2>2 DEF HashAt
    <3>. DEFINE row == channel[c]
    <3>2. Room(c, row) /\ row' = row
      BY <1>same, <3>1
    <3>. QED
      BY <2>1, <3>2 DEF Room
  <2>3. ASSUME NEW i \in DOMAIN writes', writes'[i].op = "channel", writes'[i].ch = c
        PROVE  Room(c, writes[i].row)'
    <3>1. PICK row : row = writes'[i].row
      OBVIOUS
    <3>2. Room(c, row)
      <4>1. CASE \E j \in DOMAIN writes : writes'[i] = writes[j]
        BY <2>3, <3>1, <4>1 DEF HashAt
      <4>2. CASE /\ channel[c] # NoRow /\ ~Unsaved(c)
                 /\ writes'[i].row.monitor_tx = channel[c].monitor_tx
                 /\ writes'[i].row.claim_tx = channel[c].claim_tx
        BY <3>1, <4>2 DEF HashAt, Room
      <4>. QED
        BY <1>same, <2>3, <4>1, <4>2
    <3>3. Room(c, row)'
      BY <2>1, <3>2
    <3>. QED
      BY <3>1, <3>3 DEF Room
  <2>. QED
    BY <1>same, <2>1, <2>2, <2>3 DEF HashAt
<1>txs. txs' = txs => MonitorTxs(c)' = MonitorTxs(c) /\ ClaimTxs(c)' = ClaimTxs(c)
  BY DEF MonitorTxs, ClaimTxs
<1>1. CASE MovesOn
  <2>1. txs' = txs /\ channel' = channel /\ writes' = writes /\ (pc' = pc \/ writes = <<>>)
    BY <1>1 DEF MovesOn, cvars
  <2>2. Unsaved(c)' = Unsaved(c)
    BY <2>1 DEF Unsaved, Settled
  <2>. QED
    BY <1>same, <1>txs, <2>1, <2>2
<1>2. CASE OnChain
  <2>1. channel' = channel /\ writes' = writes /\ pc' = pc
    BY <1>2 DEF OnChain, dbvars
  <2>2. Unsaved(c)' = Unsaved(c)
    BY <2>1 DEF Unsaved, Settled
  <2>3. MonitorTxs(c)' = MonitorTxs(c) /\ ClaimTxs(c)' = ClaimTxs(c)
    BY <1>0, <1>2, TxsMined
  <2>. QED
    BY <1>same, <2>1, <2>2, <2>3
<1>3. CASE ExecuteStatement
  <2>1. /\ 1 \in DOMAIN writes /\ UNCHANGED <<txs, pc>>
        /\ writes[1].op # "channel" => UNCHANGED channel
        /\ writes[1].op = "channel" => channel' = [channel EXCEPT ![writes[1].ch] = writes[1].row]
        /\ \A i \in DOMAIN writes' : i + 1 \in DOMAIN writes /\ writes'[i] = writes[i + 1]
        /\ \A i \in DOMAIN writes \ {1} : i - 1 \in DOMAIN writes' /\ writes'[i - 1] = writes[i]
    BY <1>0, <1>3, StatementEffect DEF cvars
  <2>2. /\ \A r : Room(c, r) => Room(c, r)'
        /\ Cardinality(MonitorTxs(c)) <= Budget(c) => Cardinality(MonitorTxs(c))' <= Budget(c)'
        /\ Cardinality(ClaimTxs(c)) <= Budget(c) => Cardinality(ClaimTxs(c))' <= Budget(c)'
    BY <1>txs, <2>1, RoomStays
  <2>3. ASSUME NEW i \in DOMAIN writes', writes'[i].op = "channel", writes'[i].ch = c
        PROVE  Room(c, writes[i].row)'
    <3>1. PICK row : row = writes'[i].row
      OBVIOUS
    <3>2. Room(c, row)
      BY <2>1, <2>3, <3>1 DEF HashAt
    <3>3. Room(c, row)'
      BY <2>2, <3>2
    <3>. QED
      BY <3>1, <3>3 DEF Room
  <2>4. ASSUME channel'[c] # NoRow, ~Unsaved(c)'
        PROVE  Room(c, channel[c])'
    <3>1. PICK row : row = channel'[c]
      OBVIOUS
    <3>2. Room(c, row)
      <4>1. CASE writes[1].op = "channel" /\ writes[1].ch = c
        <5>1. row = writes[1].row
          BY <1>0, <2>1, <3>1, <4>1 DEF TypeOK, DatabaseTypeOK
        <5>. QED
          BY <2>1, <4>1, <5>1 DEF HashAt
      <4>2. CASE ~(writes[1].op = "channel" /\ writes[1].ch = c)
        <5>1. row = channel[c]
          BY <1>0, <2>1, <3>1, <4>2 DEF TypeOK, DatabaseTypeOK
        <5>2. ~Unsaved(c)
          BY <2>1, <2>4, <4>2 DEF Unsaved, Settled
        <5>. QED
          BY <2>4, <3>1, <5>1, <5>2 DEF HashAt
      <4>. QED
        BY <4>1, <4>2
    <3>3. Room(c, row)'
      BY <2>2, <3>2
    <3>. QED
      BY <3>1, <3>3 DEF Room
  <2>. QED
    BY <2>2, <2>3, <2>4 DEF HashAt
<1>4. CASE GetBlockchainEvents \/ UpdatedHeadBlock \/ UpdatedHeadBlockFails
  <2>1. /\ txs' = txs /\ channel' = channel /\ writes = <<>> /\ \A i \in DOMAIN writes' : writes'[i].op # "channel"
    BY <1>4 DEF GetBlockchainEvents, UpdatedHeadBlock, UpdatedHeadBlockFails, At, ProcessVars, cvars, dbvars,
           UpdateLatestCommittedBlock
  <2>2. ~Unsaved(c)
    BY <2>1, NoStatements
  <2>. QED
    BY <1>same, <1>txs, <2>1, <2>2
<1>5. CASE HandleEvent \/ EventLost
  <2>1. PICK e \in batch : \E ws : Handle(e, ws) /\ \A i \in DOMAIN ws : HandlerStatement(e, ws[i])
    BY <1>5, HandlerWrites
  <2>2. /\ txs' = txs /\ channel' = channel /\ writes = <<>> /\ UNCHANGED lost
        /\ openings' = IF e.type = "opened" THEN [openings EXCEPT ![e.on] = @ + 1] ELSE openings
        /\ \A i \in DOMAIN writes' : HandlerStatement(e, writes'[i])
    BY <2>1 DEF Handle, At, ProcessVars, cvars, dbvars
  <2>3. ~Unsaved(c)
    BY <2>2, NoStatements
  <2>4. CASE e.type = "opened" /\ e.on = c
    <3>1. /\ openings \in [Channels -> Nat] /\ lost \in Nat /\ faults \in Nat
          /\ faults' \in {faults, faults + 1}
      BY <1>0, Numbers, FaultsStay
    <3>2. Budget(c) \in Nat /\ Budget(c)' \in Nat /\ Budget(c) < Budget(c)'
      BY <2>2, <2>4, <3>1, Budgets DEF Budget
    <3>3. Cardinality(MonitorTxs(c)) \in Nat /\ Cardinality(ClaimTxs(c)) \in Nat
      BY <1>0, TxsCounted
    <3>4. /\ Cardinality(MonitorTxs(c))' = Cardinality(MonitorTxs(c))
          /\ Cardinality(ClaimTxs(c))' = Cardinality(ClaimTxs(c))
      BY <1>txs, <2>2
    <3>5. Cardinality(MonitorTxs(c))' < Budget(c)' /\ Cardinality(ClaimTxs(c))' < Budget(c)'
      BY <3>2, <3>3, <3>4 DEF HashAt
    <3>. QED
      BY <3>2, <3>3, <3>4, <3>5 DEF HashAt, Room
  <2>5. CASE ~(e.type = "opened" /\ e.on = c)
    <3>1. ASSUME NEW i \in DOMAIN writes', writes'[i].op = "channel", writes'[i].ch = c
          PROVE  /\ channel[c] # NoRow
                 /\ writes'[i].row.monitor_tx = channel[c].monitor_tx
                 /\ writes'[i].row.claim_tx = channel[c].claim_tx
      BY <2>2, <2>5, <3>1 DEF HandlerStatement, UpsertTokenNetwork, UpsertChannel, UpsertScheduledEvent
    <3>. QED
      BY <1>same, <1>txs, <2>2, <2>3, <3>1
  <2>. QED
    BY <2>4, <2>5
<1>6. ASSUME NEW s \in triggered, Acts(s)
      PROVE  HashAt(c)'
  BY <1>6, HashSent
<1>7. CASE CrashAndRestart
  <2>1. /\ txs' = txs /\ channel' = channel /\ writes' = <<>> /\ UNCHANGED <<openings, faults>>
        /\ lost' = IF HashUnsaved THEN lost + 1 ELSE lost
    BY <1>7 DEF CrashAndRestart, cvars, dbvars
  <2>2. CASE ~Unsaved(c)
    BY <1>same, <1>txs, <2>1, <2>2
  <2>3. CASE Unsaved(c)
    <3>1. HashUnsaved
      BY <2>3 DEF Unsaved, Settled, HashUnsaved
    <3>2. openings \in [Channels -> Nat] /\ lost \in Nat /\ faults \in Nat
      BY <1>0, Numbers
    <3>3. Budget(c) \in Nat /\ Budget(c)' \in Nat /\ Budget(c) < Budget(c)'
      BY <2>1, <3>1, <3>2, Budgets DEF Budget
    <3>4. Cardinality(MonitorTxs(c)) \in Nat /\ Cardinality(ClaimTxs(c)) \in Nat
      BY <1>0, TxsCounted
    <3>5. /\ Cardinality(MonitorTxs(c))' = Cardinality(MonitorTxs(c))
          /\ Cardinality(ClaimTxs(c))' = Cardinality(ClaimTxs(c))
      BY <1>txs, <2>1
    <3>6. Cardinality(MonitorTxs(c))' < Budget(c)' /\ Cardinality(ClaimTxs(c))' < Budget(c)'
      BY <3>3, <3>4, <3>5 DEF HashAt
    <3>. QED
      BY <2>1, <3>3, <3>4, <3>5, <3>6 DEF HashAt, Room
  <2>. QED
    BY <2>2, <2>3
<1>. QED
  BY <1>0, <1>1, <1>2, <1>3, <1>4, <1>5, <1>6, <1>7, Kinds

------------------------------------------------------------------------------
(* The checks for a monitor request.                                       *)

\* Removing a check, or a hash, does no harm.
LEMMA FewerChecks ==
    ASSUME NEW c, CheckAt(c), Checks(c)' \subseteq Checks(c), Monitored(c)' => Monitored(c),
           \A e : Handled(e) => Handled(e)'
    PROVE  CheckAt(c)'
<1>1. (\E e \in log : e.type = "closed" /\ e.on = c /\ Handled(e))
      => \E e \in log' : e.type = "closed" /\ e.on = c /\ Handled(e)'
  BY DEF Handled
<1>. QED
  BY <1>1 DEF CheckAt

\* A statement that was computed is executed.
LEMMA CheckStatement ==
    ASSUME IInv, IInv', OrderInv, LoopInv, [Next]_vars, NEW c \in Channels, CheckAt(c), ExecuteStatement
    PROVE  Checks(c)' \subseteq Checks(c) /\ (Monitored(c)' => Monitored(c))
<1>0. TypeOK
  BY DEF IInv
<1>1. /\ 1 \in DOMAIN writes /\ UNCHANGED triggered
      /\ writes[1].op # "channel" => UNCHANGED channel
      /\ writes[1].op = "channel" => channel' = [channel EXCEPT ![writes[1].ch] = writes[1].row]
      /\ writes[1].op \notin {"schedule", "unschedule"} => UNCHANGED scheduled_events
      /\ writes[1].op = "schedule" => scheduled_events' = scheduled_events \cup {writes[1].ev}
      /\ writes[1].op = "unschedule" => scheduled_events' \subseteq scheduled_events \ {writes[1].ev}
      /\ \A i \in DOMAIN writes' : i + 1 \in DOMAIN writes /\ writes'[i] = writes[i + 1]
      /\ \A i \in DOMAIN writes \ {1} : i - 1 \in DOMAIN writes' /\ writes'[i - 1] = writes[i]
  BY <1>0, StatementEffect
<1>2. Written("schedule")' \subseteq Written("schedule")
  BY <1>1 DEF Written
<1>3. writes[1].op = "schedule" => writes[1].ev \in Written("schedule")
  BY <1>1 DEF Written
<1>4. Checks(c)' \subseteq Checks(c)
  <2>1. CASE writes[1].op = "unschedule"
    <3>1. Len(writes) = 1 /\ writes[1].ev \notin triggered
      BY <1>1, <2>1 DEF LoopInv
    <3>2. DOMAIN writes = {1}
      BY <1>0, <3>1, Numbers
    <3>3. Written("unschedule") = {writes[1].ev}
      BY <2>1, <3>2 DEF Written
    <3>4. Written("schedule")' = {}
      <4>1. \A i \in DOMAIN writes' : FALSE
        <5>. SUFFICES ASSUME NEW i \in DOMAIN writes'
                      PROVE  FALSE
          OBVIOUS
        <5>1. DOMAIN writes' = 1 .. Len(writes') /\ Len(writes') \in Nat
          BY LenProperties DEF IInv, TypeOK, LoopTypeOK
        <5>2. i \in Nat /\ i >= 1 /\ i + 1 \in DOMAIN writes
          BY <1>1, <5>1
        <5>. QED
          BY <3>2, <5>2
      <4>. QED
        BY <4>1 DEF Written
    <3>. QED
      BY <1>1, <2>1, <3>1, <3>3, <3>4 DEF Checks
  <2>2. CASE writes[1].op # "unschedule"
    <3>1. Written("unschedule") \subseteq Written("unschedule")'
      <4>. SUFFICES ASSUME NEW i \in DOMAIN writes, writes[i].op = "unschedule"
                    PROVE  writes[i].ev \in Written("unschedule")'
        BY DEF Written
      <4>1. i - 1 \in DOMAIN writes' /\ writes'[i - 1] = writes[i]
        BY <1>1, <2>2
      <4>. QED
        BY <4>1 DEF Written
    <3>2. scheduled_events' \subseteq scheduled_events \cup Written("schedule")
      BY <1>1, <1>3, <2>2
    <3>. QED
      BY <1>1, <1>2, <3>1, <3>2 DEF Checks
  <2>. QED
    BY <2>1, <2>2
<1>5. ASSUME Monitored(c)'
      PROVE  Monitored(c)
  <2>1. CASE channel'[c] # NoRow /\ channel'[c].monitor_tx # 0
    <3>1. CASE writes[1].op = "channel" /\ writes[1].ch = c
      <4>1. channel'[c] = writes[1].row
        BY <1>0, <1>1, <3>1 DEF TypeOK, DatabaseTypeOK
      <4>. QED
        BY <1>1, <2>1, <3>1, <4>1 DEF Monitored
    <3>2. CASE ~(writes[1].op = "channel" /\ writes[1].ch = c)
      <4>1. channel'[c] = channel[c]
        BY <1>0, <1>1, <3>2 DEF TypeOK, DatabaseTypeOK
      <4>. QED
        BY <2>1, <4>1 DEF Monitored
    <3>. QED
      BY <3>1, <3>2
  <2>2. CASE \E i \in DOMAIN writes' :
                writes'[i].op = "channel" /\ writes'[i].ch = c /\ writes'[i].row.monitor_tx # 0
    BY <1>1, <2>2 DEF Monitored
  <2>. QED
    BY <1>5, <2>1, <2>2 DEF Monitored
<1>. QED
  BY <1>4, <1>5

\* The handler of an event schedules a check only for the first close.
LEMMA CheckHandled ==
    ASSUME IInv, OrderInv, LoopInv, [Next]_vars, NEW c \in Channels, CheckAt(c), HandleEvent \/ EventLost,
           \A e : Handled(e) => Handled(e)'
    PROVE  CheckAt(c)'
<1>0. TypeOK /\ batch \subseteq log
  BY DEF IInv, NonceInv
<1>1. PICK e \in batch : \E ws : Handle(e, ws) /\ \A i \in DOMAIN ws : HandlerStatement(e, ws[i])
  BY HandlerWrites
<1>2. /\ pc = "handle" /\ batch' = batch \ {e} /\ writes = <<>>
      /\ UNCHANGED <<log, channel, scheduled_events, triggered, pc, head, latest>>
      /\ \A i \in DOMAIN writes' : HandlerStatement(e, writes'[i])
  BY <1>1 DEF Handle, At, ProcessVars, cvars, dbvars
<1>3. Written("unschedule") = {} /\ Written("schedule") = {}
  BY <1>2 DEF Written
<1>4. \A x \in Written("schedule")' : x.type = "claim" \/ (e.type = "closed" /\ x = MonitorEvent(e))
  <2>. SUFFICES ASSUME NEW i \in DOMAIN writes', writes'[i].op = "schedule"
                PROVE  LET x == writes'[i].ev
                       IN  x.type = "claim" \/ (e.type = "closed" /\ x = MonitorEvent(e))
    BY DEF Written
  <2>. QED
    BY <1>2 DEF HandlerStatement, UpsertTokenNetwork, UpsertChannel, UpsertScheduledEvent
<1>5. ASSUME NEW i \in DOMAIN writes', writes'[i].op = "channel", writes'[i].ch = c,
             writes'[i].row.monitor_tx # 0
      PROVE  channel[c] # NoRow /\ channel[c].monitor_tx # 0
  BY <1>2, <1>5 DEF HandlerStatement, UpsertTokenNetwork, UpsertChannel, UpsertScheduledEvent, FreshRow
<1>6. Monitored(c)' => Monitored(c)
  BY <1>2, <1>5 DEF Monitored
<1>7. CASE e.type = "closed" /\ e.on = c
  <2>1. e \in log /\ e.block <= head /\ Handled(e)' /\ ~Handled(e)
    BY <1>0, <1>2 DEF LoopInv, Handled, Reached
  <2>2. \A f \in log : f.type = "closed" /\ f.on = c => f = e
    BY <1>7, <2>1 DEF OrderInv
  <2>3. Checks(c) = {} /\ ~Monitored(c)
    BY <2>1, <2>2 DEF CheckAt
  <2>4. Checks(c)' \subseteq {MonitorEvent(e)}
    BY <1>2, <1>3, <1>4, <2>3 DEF Checks
  <2>5. \E f \in log' : f.type = "closed" /\ f.on = c /\ Handled(f)'
    BY <1>2, <1>7, <2>1
  <2>6. \A s, t \in Checks(c)' : s = t
    BY <2>4
  <2>. QED
    BY <1>6, <2>3, <2>5, <2>6 DEF CheckAt
<1>8. CASE ~(e.type = "closed" /\ e.on = c)
  <2>1. e.type = "closed" => MonitorEvent(e).ch # c
    BY <1>8 DEF MonitorEvent
  <2>2. Checks(c)' \subseteq Checks(c)
    BY <1>2, <1>3, <1>4, <2>1 DEF Checks
  <2>. QED
    BY <1>6, <2>2, FewerChecks
<1>. QED
  BY <1>7, <1>8

\* A check that is due is replaced by itself, or it is over.
LEMMA CheckActed ==
    ASSUME IInv, NEW c \in Channels, CheckAt(c), NEW s \in triggered, Acts(s),
           \A e : Handled(e) => Handled(e)'
    PROVE  CheckAt(c)'
<1>0. TypeOK
  BY DEF IInv
<1>1. /\ writes = <<>> /\ triggered' = triggered \ {s} /\ UNCHANGED <<log, channel, scheduled_events>>
      /\ Nothing(s) \/ PutOff(s) \/ SentMonitor(s) \/ SentClaim(s) \/ SentOnly(s)
  BY ActionWrites DEF At, SchedulerVars, dbvars
<1>2. Written("unschedule") = {} /\ Written("schedule") = {}
  BY <1>1 DEF Written
<1>. DEFINE v == RemoveScheduledEvent(s)
<1>v. v.op = "unschedule" /\ v.ev = s
  BY DEF RemoveScheduledEvent
<1>. HIDE DEF v
<1>3. \E i \in DOMAIN writes' : writes'[i] = v
  <2>1. \/ writes' = <<v>> \/ (\E a : writes' = <<a, v>>) \/ (\E a, b : writes' = <<a, b, v>>)
    BY <1>1 DEF Nothing, PutOff, SentMonitor, SentClaim, SentOnly, Sent, Removal, v
  <2>. QED
    BY <2>1
<1>4. s \in Written("unschedule")'
  BY <1>3, <1>v DEF Written
<1>5. s.type = "monitor" /\ s.ch = c => s \in Checks(c)
  BY <1>2 DEF Checks
<1>6. ASSUME Written("schedule")' = {}
      PROVE  Checks(c)' \subseteq Checks(c) \ {s}
  BY <1>1, <1>2, <1>4, <1>6 DEF Checks
<1>h. (\E e \in log : e.type = "closed" /\ e.on = c /\ Handled(e))
      => \E e \in log' : e.type = "closed" /\ e.on = c /\ Handled(e)'
  BY DEF Handled
<1>7. CASE Nothing(s) \/ SentOnly(s)
  <2>1. \A i \in DOMAIN writes' : writes'[i].op \in {"waiting", "unschedule"}
    <3>1. writes' = <<v>> \/ writes' = <<AddWaitingTransaction(Len(txs) + 1), v>>
      BY <1>7 DEF Nothing, SentOnly, Removal, v
    <3>. QED
      BY <1>v, <3>1 DEF AddWaitingTransaction
  <2>2. Written("schedule")' = {}
    BY <2>1 DEF Written
  <2>3. Monitored(c)' => Monitored(c)
    BY <1>1, <2>1 DEF Monitored
  <2>. QED
    BY <1>6, <2>2, <2>3, FewerChecks
<1>8. CASE PutOff(s)
  <2>. DEFINE t == [s EXCEPT !.at = Clock]
              u == UpsertScheduledEvent(t)
  <2>0. u.op = "schedule" /\ u.ev = t /\ t.ch = s.ch
    BY <1>0 DEF UpsertScheduledEvent, TypeOK, LoopTypeOK, ScheduledEvents
  <2>1. writes' = <<u, v>> /\ s.type = "monitor"
    BY <1>8 DEF PutOff, v
  <2>. HIDE DEF u, t
  <2>2. \A i \in DOMAIN writes' : writes'[i] = u \/ writes'[i] = v
    BY <2>1
  <2>3. Written("schedule")' \subseteq {t}
    BY <1>v, <2>0, <2>2 DEF Written
  <2>4. Monitored(c)' => Monitored(c)
    BY <1>1, <1>v, <2>0, <2>2 DEF Monitored
  <2>5. Checks(c)' \subseteq (Checks(c) \ {s}) \cup {t}
    BY <1>1, <1>2, <1>4, <2>3 DEF Checks
  <2>6. CASE s.ch = c
    <3>1. Checks(c) = {s}
      BY <1>5, <2>1, <2>6 DEF CheckAt
    <3>2. Checks(c)' \subseteq {t}
      BY <2>5, <3>1
    <3>3. \A x, y \in Checks(c)' : x = y
      BY <3>2
    <3>4. ~Monitored(c) /\ \E e \in log : e.type = "closed" /\ e.on = c /\ Handled(e)
      BY <3>1 DEF CheckAt
    <3>. QED
      BY <1>h, <2>4, <3>3, <3>4 DEF CheckAt
  <2>7. CASE s.ch # c
    <3>1. t \notin Checks(c)'
      BY <2>0, <2>7 DEF Checks
    <3>2. Checks(c)' \subseteq Checks(c)
      BY <2>5, <3>1
    <3>. QED
      BY <2>4, <3>2, FewerChecks
  <2>. QED
    BY <2>6, <2>7
<1>9. CASE SentMonitor(s) \/ SentClaim(s)
  <2>. DEFINE a == AddWaitingTransaction(Len(txs) + 1)
  <2>1. PICK row : /\ writes' = <<a, UpsertChannel(s.ch, row), v>> /\ channel[s.ch] # NoRow
                   /\ s.type = "claim" => row.monitor_tx = channel[s.ch].monitor_tx
    <3>1. CASE SentMonitor(s)
      BY <3>1 DEF SentMonitor, Sent, v
    <3>2. CASE SentClaim(s)
      <4>1. channel[s.ch] \in ChannelRows
        BY <1>0, <3>2 DEF SentClaim, Sent, TypeOK, LoopTypeOK, DatabaseTypeOK, ScheduledEvents
      <4>. DEFINE row == [channel[s.ch] EXCEPT !.claim_tx = Len(txs) + 1]
      <4>2. row.monitor_tx = channel[s.ch].monitor_tx
        BY <4>1 DEF ChannelRows
      <4>3. writes' = <<a, UpsertChannel(s.ch, row), v>> /\ channel[s.ch] # NoRow
        BY <3>2 DEF SentClaim, Sent, v
      <4>. HIDE DEF row
      <4>. QED
        BY <4>2, <4>3
    <3>. QED
      BY <1>9, <3>1, <3>2
  <2>. DEFINE w == UpsertChannel(s.ch, row)
  <2>2. a.op = "waiting" /\ w.op = "channel" /\ w.ch = s.ch /\ w.row = row
    BY DEF AddWaitingTransaction, UpsertChannel
  <2>. HIDE DEF a, w
  <2>3. \A i \in DOMAIN writes' : writes'[i] = a \/ writes'[i] = w \/ writes'[i] = v
    BY <2>1 DEF w
  <2>4. Written("schedule")' = {}
    BY <1>v, <2>2, <2>3 DEF Written
  <2>5. Checks(c)' \subseteq Checks(c) \ {s}
    BY <1>6, <2>4
  <2>6. CASE s.type = "monitor" /\ s.ch = c
    <3>1. Checks(c) = {s}
      BY <1>5, <2>6 DEF CheckAt
    <3>2. Checks(c)' = {}
      BY <2>5, <3>1
    <3>3. \E e \in log : e.type = "closed" /\ e.on = c /\ Handled(e)
      BY <3>1 DEF CheckAt
    <3>. QED
      BY <1>h, <3>2, <3>3 DEF CheckAt
  <2>7. CASE ~(s.type = "monitor" /\ s.ch = c)
    <3>1. s.type \in {"monitor", "claim"}
      BY <1>0 DEF TypeOK, LoopTypeOK, ScheduledEvents
    <3>2. Monitored(c)' => Monitored(c)
      BY <1>1, <1>v, <2>1, <2>2, <2>3, <2>7, <3>1 DEF Monitored
    <3>. QED
      BY <2>5, <3>2, FewerChecks
  <2>. QED
    BY <2>6, <2>7
<1>. QED
  BY <1>1, <1>7, <1>8, <1>9

\* Every step keeps what holds of the scheduled checks.
LEMMA CheckStep ==
    ASSUME IInv, IInv', OrderInv, LoopInv, CheckInv, [Next]_vars
    PROVE  CheckInv'
<1>0. TypeOK
  BY DEF IInv
<1>n. crashes \in Nat
  BY <1>0, Numbers
<1>1. CASE CrashAndRestart
  BY <1>n, <1>1 DEF CrashAndRestart, CheckInv
<1>2. CASE ~CrashAndRestart
  <2>1. crashes' = crashes
    <3>1. MovesOn \/ OnChain \/ GetBlockchainEvents \/ UpdatedHeadBlock \/ UpdatedHeadBlockFails
          => crashes' = crashes
      BY DEF MovesOn, OnChain, GetBlockchainEvents, UpdatedHeadBlock, UpdatedHeadBlockFails, ProcessVars
    <3>2. ExecuteStatement => crashes' = crashes
      BY <1>0, StatementEffect DEF hvars
    <3>3. (\E s \in triggered : Acts(s)) => crashes' = crashes
      BY ActionWrites DEF SchedulerVars
    <3>4. HandleEvent \/ EventLost => crashes' = crashes
      BY HandlerWrites DEF Handle, ProcessVars
    <3>. QED
      BY <1>0, <1>2, <3>1, <3>2, <3>3, <3>4, Kinds
  <2>. SUFFICES ASSUME NEW c \in Channels, CheckAt(c)
                PROVE  CheckAt(c)'
    BY <2>1 DEF CheckInv
  <2>2. \A e : Handled(e) => Handled(e)'
    BY <1>2, HandledStays
  <2>3. CASE MovesOn \/ OnChain
    <3>1. /\ UNCHANGED <<writes, channel, scheduled_events>>
          /\ triggered' \subseteq triggered \cup scheduled_events
      BY <2>3 DEF MovesOn, OnChain, dbvars
    <3>2. Checks(c)' \subseteq Checks(c) /\ (Monitored(c)' => Monitored(c))
      BY <3>1 DEF Checks, Monitored, Written
    <3>. QED
      BY <2>2, <3>2, FewerChecks
  <2>4. CASE GetBlockchainEvents \/ UpdatedHeadBlock \/ UpdatedHeadBlockFails
    <3>1. /\ UNCHANGED <<channel, scheduled_events, triggered>>
          /\ writes = <<>> /\ \A i \in DOMAIN writes' : writes'[i].op = "head"
      BY <2>4 DEF GetBlockchainEvents, UpdatedHeadBlock, UpdatedHeadBlockFails, At, ProcessVars, dbvars,
             UpdateLatestCommittedBlock
    <3>2. /\ Written("schedule")' = {} /\ Written("unschedule")' = {} /\ Written("unschedule") = {}
      BY <3>1 DEF Written
    <3>3. Checks(c)' \subseteq Checks(c) /\ (Monitored(c)' => Monitored(c))
      BY <3>1, <3>2 DEF Checks, Monitored
    <3>. QED
      BY <2>2, <3>3, FewerChecks
  <2>5. CASE ExecuteStatement
    BY <2>2, <2>5, CheckStatement, FewerChecks
  <2>6. CASE HandleEvent \/ EventLost
    BY <2>2, <2>6, CheckHandled
  <2>7. ASSUME NEW s \in triggered, Acts(s)
        PROVE  CheckAt(c)'
    BY <2>2, <2>7, CheckActed
  <2>. QED
    BY <1>0, <1>2, <2>3, <2>4, <2>5, <2>6, <2>7, Kinds
<1>. QED
  BY <1>1, <1>2

------------------------------------------------------------------------------
(* The update status of the rows.                                          *)

\* The statements ws save no row, or one row of channel c.
NoRows(ws) == \A i \in DOMAIN ws : ws[i].op # "channel"

OneRow(ws, c, nonce, sender) ==
    /\ \E i \in DOMAIN ws : ws[i].op = "channel"
    /\ \A i \in DOMAIN ws : ws[i].op = "channel" =>
          ws[i].ch = c /\ ws[i].row.nonce = nonce /\ ws[i].row.sender = sender

\* What a handler that returns does to the update status of a channel: nothing,
\* a fresh row, the same status, or the event's.
StatusSaved(e, ws) ==
    \/ e.type \notin {"opened", "updated", "monitored"} /\ NoRows(ws)
    \/ e.type = "opened" /\ OneRow(ws, e.on, 0, None)
    \/ e.type \notin {"created", "opened"} /\ channel[e.on] = NoRow /\ NoRows(ws)
    \/ /\ e.type \in {"closed", "settled"} /\ channel[e.on] # NoRow
       /\ OneRow(ws, e.on, channel[e.on].nonce, channel[e.on].sender)
    \/ /\ e.type = "updated" /\ channel[e.on] # NoRow /\ NoRows(ws)
       /\ e.who \notin Participants \/ e.nonce <= channel[e.on].nonce
    \/ /\ e.type = "updated" /\ channel[e.on] # NoRow /\ ~(e.nonce <= channel[e.on].nonce)
       /\ OneRow(ws, e.on, e.nonce, Other(e.who))
    \/ /\ e.type = "monitored" /\ channel[e.on] # NoRow /\ e.nonce < channel[e.on].nonce
       /\ NoRows(ws)
    \/ /\ e.type = "monitored" /\ channel[e.on] # NoRow /\ ~(e.nonce < channel[e.on].nonce)
       /\ OneRow(ws, e.on, e.nonce, e.who)

\* So do the handlers of the model.
LEMMA StatusStatements ==
    ASSUME IInv, HandleEvent
    PROVE  \E e \in batch : \E ws : Handle(e, ws) /\ StatusSaved(e, ws)
<1>. PICK e \in batch :
        \/ TokenNetworkCreated(e) \/ ChannelOpened(e) \/ ChannelUnknown(e) \/ ChannelClosed(e)
        \/ NonClosingBalanceProofUpdated(e) \/ ChannelSettled(e) \/ MonitorNewBalanceProof(e)
        \/ MonitorRewardClaimed(e)
  BY DEF HandleEvent
<1>. USE DEF StatusSaved
<1>0. e.type # "created" /\ channel[e.on] # NoRow => channel[e.on] \in ChannelRows
  BY EventFacts
<1>1. NoRows(<<>>)
  BY DEF NoRows
<1>2. ASSUME NEW row
      PROVE  LET w == UpsertChannel(e.on, row)
             IN  /\ OneRow(<<w>>, e.on, row.nonce, row.sender)
                 /\ \A u : u.op # "channel" => /\ OneRow(<<u, w>>, e.on, row.nonce, row.sender)
                                               /\ OneRow(<<w, u>>, e.on, row.nonce, row.sender)
  <2>. DEFINE w == UpsertChannel(e.on, row)
  <2>1. w.op = "channel" /\ w.ch = e.on /\ w.row = row
    BY DEF UpsertChannel
  <2>. HIDE DEF w
  <2>2. OneRow(<<w>>, e.on, row.nonce, row.sender)
    BY <2>1 DEF OneRow
  <2>3. ASSUME NEW u, u.op # "channel"
        PROVE  /\ OneRow(<<u, w>>, e.on, row.nonce, row.sender)
               /\ OneRow(<<w, u>>, e.on, row.nonce, row.sender)
    <3>. DEFINE a == <<u, w>>
                b == <<w, u>>
    <3>1. 1 \in DOMAIN a /\ 2 \in DOMAIN a /\ DOMAIN a = {1, 2} /\ a[1] = u /\ a[2] = w
      OBVIOUS
    <3>2. 1 \in DOMAIN b /\ 2 \in DOMAIN b /\ DOMAIN b = {1, 2} /\ b[1] = w /\ b[2] = u
      OBVIOUS
    <3>. HIDE DEF a, b
    <3>3. OneRow(a, e.on, row.nonce, row.sender)
      BY <2>1, <2>3, <3>1 DEF OneRow
    <3>4. OneRow(b, e.on, row.nonce, row.sender)
      BY <2>1, <2>3, <3>2 DEF OneRow
    <3>. QED
      BY <3>3, <3>4 DEF a, b
  <2>. QED
    BY <2>2, <2>3 DEF w
<1>3. CASE TokenNetworkCreated(e)
  <2>. DEFINE ws == <<UpsertTokenNetwork(e.on)>>
  <2>1. NoRows(ws)
    BY DEF NoRows, UpsertTokenNetwork
  <2>2. Handle(e, ws) /\ e.type = "created"
    BY <1>3 DEF TokenNetworkCreated
  <2>. HIDE DEF ws
  <2>. QED
    BY <2>1, <2>2
<1>4. CASE ChannelOpened(e)
  <2>. DEFINE ws == <<UpsertChannel(e.on, FreshRow)>>
  <2>0. FreshRow.nonce = 0 /\ FreshRow.sender = None
    BY DEF FreshRow
  <2>1. OneRow(ws, e.on, FreshRow.nonce, FreshRow.sender)
    BY <1>2, Zenon
  <2>2. Handle(e, ws) /\ e.type = "opened"
    BY <1>4 DEF ChannelOpened
  <2>. HIDE DEF ws
  <2>3. OneRow(ws, e.on, 0, None)
    BY <2>0, <2>1
  <2>. QED
    BY <2>2, <2>3
<1>5. CASE ChannelUnknown(e) \/ MonitorRewardClaimed(e)
  BY <1>1, <1>5 DEF ChannelUnknown, MonitorRewardClaimed
<1>6. CASE ChannelClosed(e)
  <2>. DEFINE u == UpsertScheduledEvent(MonitorEvent(e))
              w == UpsertChannel(e.on, ClosedRow(e))
  <2>0. e.type = "closed" /\ channel[e.on] # NoRow /\ Handle(e, ClosedStatements(e))
    BY <1>6 DEF ChannelClosed
  <2>1. ClosedStatements(e) = <<w>> \/ ClosedStatements(e) = <<u, w>>
    <3>1. /\ ClosedStatements(e) = <<>> \o <<w>> \/ ClosedStatements(e) = <<u>> \o <<w>>
          /\ u \in {u, w} /\ w \in {u, w}
      BY DEF ClosedStatements
    <3>. HIDE DEF u, w
    <3>2. <<>> \o <<w>> = <<w>> /\ <<u>> \o <<w>> = <<u, w>>
      BY <3>1, Joined
    <3>. QED
      BY <3>1, <3>2
  <2>2. ClosedRow(e).nonce = channel[e.on].nonce /\ ClosedRow(e).sender = channel[e.on].sender
    BY <1>0, <2>0 DEF ClosedRow, ChannelRows
  <2>3. u.op # "channel"
    BY DEF UpsertScheduledEvent
  <2>4. OneRow(<<w>>, e.on, ClosedRow(e).nonce, ClosedRow(e).sender)
    BY <1>2, Zenon
  <2>5. OneRow(<<u, w>>, e.on, ClosedRow(e).nonce, ClosedRow(e).sender)
    BY <1>2, <2>3, Zenon
  <2>. HIDE DEF u, w
  <2>6. OneRow(ClosedStatements(e), e.on, channel[e.on].nonce, channel[e.on].sender)
    BY <2>1, <2>2, <2>4, <2>5
  <2>. QED
    BY <2>0, <2>6
<1>7. CASE NonClosingBalanceProofUpdated(e)
  <2>. DEFINE row == UpdatedRow(channel[e.on], e.nonce, Other(e.who))
              w == UpsertChannel(e.on, row)
  <2>0. e.type = "updated" /\ channel[e.on] # NoRow
    BY <1>7 DEF NonClosingBalanceProofUpdated
  <2>1. row.nonce = e.nonce /\ row.sender = Other(e.who)
    BY <1>0, <2>0 DEF UpdatedRow, ChannelRows
  <2>2. OneRow(<<w>>, e.on, row.nonce, row.sender)
    BY <1>2, Zenon
  <2>3. \/ (e.who \notin Participants \/ e.nonce <= channel[e.on].nonce) /\ Handle(e, <<>>)
        \/ ~(e.nonce <= channel[e.on].nonce) /\ Handle(e, <<w>>)
    BY <1>7 DEF NonClosingBalanceProofUpdated
  <2>. HIDE DEF row, w
  <2>. QED
    BY <1>1, <2>0, <2>1, <2>2, <2>3
<1>8. CASE ChannelSettled(e)
  <2>. DEFINE row == [channel[e.on] EXCEPT !.state = "SETTLED"]
              w == UpsertChannel(e.on, row)
  <2>0. e.type = "settled" /\ channel[e.on] # NoRow /\ Handle(e, <<w>>)
    BY <1>8 DEF ChannelSettled
  <2>1. row.nonce = channel[e.on].nonce /\ row.sender = channel[e.on].sender
    BY <1>0, <2>0 DEF ChannelRows
  <2>2. OneRow(<<w>>, e.on, row.nonce, row.sender)
    BY <1>2, Zenon
  <2>. HIDE DEF row, w
  <2>. QED
    BY <2>0, <2>1, <2>2
<1>9. CASE MonitorNewBalanceProof(e)
  <2>. DEFINE row == UpdatedRow(channel[e.on], e.nonce, e.who)
              u == UpsertScheduledEvent(ClaimEvent(e.on, row.closing_block))
              w == UpsertChannel(e.on, row)
  <2>0. e.type = "monitored" /\ channel[e.on] # NoRow /\ Handle(e, MonitoredStatements(e))
    BY <1>9 DEF MonitorNewBalanceProof
  <2>1. \/ e.nonce < channel[e.on].nonce /\ MonitoredStatements(e) = <<>>
        \/ ~(e.nonce < channel[e.on].nonce) /\ MonitoredStatements(e) = <<w>>
        \/ ~(e.nonce < channel[e.on].nonce) /\ MonitoredStatements(e) = <<w, u>>
    <3>1. /\ \/ e.nonce < channel[e.on].nonce /\ MonitoredStatements(e) = <<>>
             \/ ~(e.nonce < channel[e.on].nonce) /\ MonitoredStatements(e) = <<w>> \o <<>>
             \/ ~(e.nonce < channel[e.on].nonce) /\ MonitoredStatements(e) = <<w>> \o <<u>>
          /\ u \in {u, w} /\ w \in {u, w}
      BY DEF MonitoredStatements, MonitorIgnored
    <3>. HIDE DEF u, w
    <3>2. <<w>> \o <<>> = <<w>> /\ <<w>> \o <<u>> = <<w, u>>
      BY <3>1, Joined
    <3>. QED
      BY <3>1, <3>2
  <2>2. row.nonce = e.nonce /\ row.sender = e.who
    BY <1>0, <2>0 DEF UpdatedRow, ChannelRows
  <2>3. u.op # "channel"
    BY DEF UpsertScheduledEvent
  <2>4. OneRow(<<w>>, e.on, row.nonce, row.sender)
    BY <1>2, Zenon
  <2>5. OneRow(<<w, u>>, e.on, row.nonce, row.sender)
    BY <1>2, <2>3, Zenon
  <2>. HIDE DEF row, u, w
  <2>. QED
    BY <1>1, <2>0, <2>1, <2>2, <2>4, <2>5
<1>. QED
  BY <1>3, <1>4, <1>5, <1>6, <1>7, <1>8, <1>9

\* A block that was fetched gets no more updates.
LEMMA UpdatesSame ==
    ASSUME IInv, OrderInv, LoopInv, log' = log \/ OnChain, NEW c, NEW b \in Nat, b < now
    PROVE  Updates(c, b)' = Updates(c, b)
<1>1. CASE log' = log
  BY <1>1 DEF Updates
<1>2. CASE OnChain
  <2>1. log \subseteq log' /\ \A e \in log' \ log : e.block = now
    BY <1>2, OnChainGrows
  <2>2. now \in Nat
    BY Numbers DEF IInv
  <2>3. \A e \in log' : e.block <= b => e \in log
    BY <2>1, <2>2
  <2>. QED
    BY <2>1, <2>3 DEF Updates
<1>. QED
  BY <1>1, <1>2

\* What was an explanation of a row stays one.
LEMMA StaysExplained ==
    ASSUME IInv, OrderInv, LoopInv, NEW c, fetched' \in Nat, fetched <= fetched',
           log' = log \/ (OnChain /\ fetched' = fetched)
    PROVE  \A r : Explained(c, r) => Explained(c, r)'
<1>n. fetched \in Nat /\ \A e \in log : e.block \in Nat
  BY Numbers DEF IInv
<1>1. Updates(c, fetched) \subseteq {e \in log' : /\ e.on = c /\ e.block <= fetched'
                                                  /\ e.type \in {"updated", "monitored"}}
  <2>1. log \subseteq log'
    BY OnChainGrows
  <2>. QED
    BY <1>n, <2>1 DEF Updates
<1>. QED
  BY <1>1 DEF Explained, Updates

\* Everything up to the last committed block was handled.
LEMMA LatestHandled ==
    ASSUME IInv, LoopInv, NEW c
    PROVE  /\ Updates(c, latest) \subseteq HandledUpdates(c)
           /\ pc # "handle" => HandledUpdates(c) = Updates(c, latest)
<1>n. latest \in Nat /\ head \in Nat /\ \A e \in log : e.block \in Nat
  BY Numbers DEF IInv
<1>1. CASE pc = "handle"
  <2>1. latest < head /\ \A e \in batch : latest < e.block
    BY <1>1 DEF LoopInv
  <2>. QED
    BY <1>n, <1>1, <2>1 DEF HandledUpdates, Updates, Reached
<1>2. CASE pc # "handle"
  BY <1>2 DEF HandledUpdates, Updates, Reached, LoopInv
<1>. QED
  BY <1>1, <1>2

\* The handler of an event keeps the status of a channel.
LEMMA StatusHandled ==
    ASSUME IInv, OrderInv, LoopInv, PassInv, faults = 0, NEW c \in Channels, StatusAt(c), HandleEvent
    PROVE  StatusAt(c)'
<1>0. TypeOK /\ batch \subseteq log
  BY DEF IInv, NonceInv
<1>1. PICK e \in batch : \E ws : Handle(e, ws) /\ StatusSaved(e, ws)
  BY StatusStatements
<1>2. PICK ws : Handle(e, ws) /\ StatusSaved(e, ws)
  BY <1>1
<1>3. /\ pc = "handle" /\ pc' = "handle" /\ writes = <<>> /\ writes' = ws /\ batch' = batch \ {e}
      /\ UNCHANGED <<log, channel, latest, head, fetched>>
      /\ \A f \in batch : ~Precedes(f, e)
  BY <1>2 DEF Handle, At, ProcessVars, cvars, dbvars
<1>n. /\ latest \in Nat /\ head \in Nat /\ fetched \in Nat /\ head <= fetched
      /\ \A f \in log : f.block \in Nat /\ f.nonce \in Nat /\ f.pos \in Nat
      /\ channel[c] # NoRow => channel[c].nonce \in Nat
  BY <1>0, Numbers DEF LoopInv, TypeOK, DatabaseTypeOK, ChannelRows
<1>e. e \in log /\ latest < e.block /\ e.block <= head
  BY <1>0, <1>3 DEF LoopInv
\* What is handled now is what was handled before, and e.
<1>4. /\ HandledUpdates(c)' \subseteq HandledUpdates(c) \cup {e}
      /\ e.on # c \/ e.type \notin {"updated", "monitored"} => HandledUpdates(c)' \subseteq HandledUpdates(c)
  BY <1>3 DEF HandledUpdates, Updates, Reached
<1>5. /\ channel[c] # NoRow => Explained(c, channel[c]) /\ Complete(channel[c], HandledUpdates(c))
  <2>1. Settled(c)
    BY <1>3 DEF Settled
  <2>. QED
    BY <2>1 DEF StatusAt
<1>6. \A r : Explained(c, r)' <=> Explained(c, r)
  BY <1>3 DEF Explained, Updates
<1>7. channel[c] # NoRow => (Explained(c, channel[c]) /\ Complete(channel[c], Updates(c, latest)))'
  <2>1. channel[c] # NoRow => Explained(c, channel[c]) /\ Complete(channel[c], Updates(c, latest))
    BY DEF StatusAt
  <2>. QED
    BY <1>3, <2>1 DEF Explained, Complete, Updates
\* It is enough to look at the row that is left, or at the one that is saved.
<1>8. ASSUME NoRows(ws), channel[c] # NoRow => Complete(channel[c], HandledUpdates(c)')
      PROVE  StatusAt(c)'
  BY <1>3, <1>7, <1>8 DEF StatusAt, NoRows, Complete
<1>9. ASSUME NEW nonce, NEW sender, OneRow(ws, c, nonce, sender),
             LET r == [nonce |-> nonce, sender |-> sender]
             IN  Explained(c, r) /\ Complete(r, HandledUpdates(c)')
      PROVE  StatusAt(c)'
  <2>1. ~Settled(c)'
    BY <1>3, <1>9 DEF Settled, OneRow
  <2>2. ASSUME NEW i \in DOMAIN writes', writes'[i].op = "channel", writes'[i].ch = c
        PROVE  (Explained(c, writes[i].row) /\ Complete(writes[i].row, HandledUpdates(c)))'
    <3>1. PICK row : row = writes'[i].row /\ row.nonce = nonce /\ row.sender = sender
      BY <1>3, <1>9, <2>2 DEF OneRow
    <3>2. Explained(c, row) /\ Complete(row, HandledUpdates(c)')
      BY <1>9, <3>1 DEF Explained, Complete
    <3>3. Explained(c, row)'
      BY <1>6, <3>2
    <3>. QED
      BY <3>1, <3>2, <3>3 DEF Explained, Complete
  <2>. QED
    BY <1>3, <1>7, <2>1, <2>2 DEF StatusAt
\* Another channel.
<1>10. ASSUME e.on # c \/ NoRows(ws),
              e.on # c \/ e.type \notin {"updated", "monitored"}
       PROVE  StatusAt(c)'
  <2>1. channel[c] # NoRow => Complete(channel[c], HandledUpdates(c)')
    BY <1>4, <1>5, <1>10 DEF Complete
  <2>2. CASE NoRows(ws)
    BY <1>8, <2>1, <2>2
  <2>3. CASE ~NoRows(ws)
    <3>1. \A i \in DOMAIN ws : ws[i].op = "channel" => ws[i].ch = e.on
      BY <1>2, <2>3 DEF StatusSaved, OneRow
    <3>. QED
      BY <1>3, <1>7, <1>10, <2>1, <2>3, <3>1 DEF StatusAt, Complete
  <2>. QED
    BY <2>2, <2>3
<1>11. CASE e.on = c /\ e.type = "opened"
  <2>1. OneRow(ws, c, 0, None)
    BY <1>2, <1>11 DEF StatusSaved
  <2>2. ASSUME NEW f \in HandledUpdates(c)'
        PROVE  FALSE
    <3>1. /\ f \in log /\ f.on = c /\ f.block <= head /\ f.type \in {"updated", "monitored"}
          /\ f \notin batch' /\ f # e
      BY <1>3, <1>11, <2>2 DEF HandledUpdates, Updates, Reached
    <3>2. e.pos < f.pos /\ e.block <= f.block
      BY <1>11, <1>e, <3>1 DEF OrderInv
    <3>3. Precedes(e, f)
      BY <1>11, <3>1, <3>2 DEF Precedes, Contract, TokenNetworkEvents
    <3>4. latest < f.block
      BY <1>n, <1>e, <3>1, <3>2
    <3>5. f \in batch
      BY <1>3, <3>1, <3>3, <3>4 DEF PassInv
    <3>. QED
      BY <1>3, <3>1, <3>5
  <2>3. LET r == [nonce |-> 0, sender |-> None]
        IN  Explained(c, r) /\ Complete(r, HandledUpdates(c)')
    BY <2>2 DEF Explained, Complete
  <2>. QED
    BY <1>9, <2>1, <2>3
<1>12. CASE e.on = c /\ e.type \in {"closed", "settled"}
  <2>1. CASE NoRows(ws)
    BY <1>10, <1>12, <2>1
  <2>2. CASE ~NoRows(ws)
    <3>1. channel[c] # NoRow /\ OneRow(ws, c, channel[c].nonce, channel[c].sender)
      BY <1>2, <1>12, <2>2 DEF StatusSaved
    <3>2. HandledUpdates(c)' \subseteq HandledUpdates(c)
      BY <1>4, <1>12
    <3>3. LET r == [nonce |-> channel[c].nonce, sender |-> channel[c].sender]
          IN  Explained(c, r) /\ Complete(r, HandledUpdates(c)')
      BY <1>5, <3>1, <3>2 DEF Explained, Complete
    <3>. QED
      BY <1>9, <3>1, <3>3
  <2>. QED
    BY <2>1, <2>2
<1>u. ASSUME e.on = c, e.type \in {"updated", "monitored"}
      PROVE  e \in Updates(c, fetched)
  BY <1>n, <1>e, <1>u DEF Updates
<1>13. CASE e.on = c /\ e.type = "updated"
  <2>1. e.who \in Participants
    BY <1>13, <1>e DEF OrderInv
  <2>2. CASE channel[c] = NoRow /\ NoRows(ws)
    BY <1>8, <2>2
  <2>3. CASE channel[c] # NoRow /\ NoRows(ws) /\ e.nonce <= channel[c].nonce
    BY <1>4, <1>5, <1>8, <1>13, <2>3 DEF Complete
  <2>4. CASE channel[c] # NoRow /\ ~(e.nonce <= channel[c].nonce) /\ OneRow(ws, c, e.nonce, Other(e.who))
    <3>. DEFINE r == [nonce |-> e.nonce, sender |-> Other(e.who)]
    <3>1. Explained(c, r)
      BY <1>13, <1>u DEF Explained
    <3>2. Complete(r, HandledUpdates(c)')
      <4>. SUFFICES ASSUME NEW f \in HandledUpdates(c)'
                    PROVE  f.nonce <= e.nonce /\ (f.type = "monitored" /\ f.nonce = e.nonce => Other(e.who) = f.who)
        BY DEF Complete
      <4>1. CASE f = e
        BY <1>n, <1>e, <1>13, <4>1
      <4>2. CASE f \in HandledUpdates(c)
        <5>1. f.nonce <= channel[c].nonce /\ f.nonce \in Nat
          BY <1>5, <1>n, <2>4, <4>2 DEF Complete, HandledUpdates, Updates
        <5>. QED
          BY <1>n, <1>e, <2>4, <5>1
      <4>. QED
        BY <1>4, <4>1, <4>2
    <3>. QED
      BY <1>9, <2>4, <3>1, <3>2
  <2>. QED
    BY <1>2, <1>13, <2>1, <2>2, <2>3, <2>4 DEF StatusSaved
<1>14. CASE e.on = c /\ e.type = "monitored"
  <2>2. CASE channel[c] = NoRow /\ NoRows(ws)
    BY <1>8, <2>2
  <2>3. CASE channel[c] # NoRow /\ NoRows(ws) /\ e.nonce < channel[c].nonce
    <3>1. e.nonce <= channel[c].nonce /\ e.nonce # channel[c].nonce
      BY <1>n, <1>e, <2>3
    <3>. QED
      BY <1>4, <1>5, <1>8, <2>3, <3>1 DEF Complete
  <2>4. CASE channel[c] # NoRow /\ ~(e.nonce < channel[c].nonce) /\ OneRow(ws, c, e.nonce, e.who)
    <3>. DEFINE r == [nonce |-> e.nonce, sender |-> e.who]
    <3>1. Explained(c, r)
      BY <1>14, <1>u DEF Explained
    <3>2. Complete(r, HandledUpdates(c)')
      <4>. SUFFICES ASSUME NEW f \in HandledUpdates(c)'
                    PROVE  f.nonce <= e.nonce /\ (f.type = "monitored" /\ f.nonce = e.nonce => e.who = f.who)
        BY DEF Complete
      <4>1. CASE f = e
        BY <1>n, <1>e, <4>1
      <4>2. CASE f \in HandledUpdates(c)
        <5>1. f.nonce <= channel[c].nonce /\ f.nonce \in Nat /\ f \in log /\ f.on = c
          BY <1>5, <1>n, <2>4, <4>2 DEF Complete, HandledUpdates, Updates
        <5>2. f.nonce <= e.nonce
          BY <1>n, <1>e, <2>4, <5>1
        <5>3. f.type = "monitored" /\ f.nonce = e.nonce => e.who = f.who
          BY <1>14, <1>e, <5>1 DEF OrderInv
        <5>. QED
          BY <5>2, <5>3
      <4>. QED
        BY <1>4, <4>1, <4>2
    <3>. QED
      BY <1>9, <2>4, <3>1, <3>2
  <2>. QED
    BY <1>2, <1>14, <2>2, <2>3, <2>4 DEF StatusSaved
<1>15. CASE e.on # c
  BY <1>10, <1>15
<1>16. CASE e.type \in {"created", "claimed"}
  <2>1. NoRows(ws)
    BY <1>2, <1>16 DEF StatusSaved
  <2>. QED
    BY <1>10, <1>16, <2>1
<1>17. e.type \in {"created", "opened", "closed", "updated", "settled", "monitored", "claimed"}
  BY <1>0, <1>e DEF TypeOK, ChainTypeOK, Events, TokenNetworkEvents, MSCEvents
<1>. QED
  BY <1>11, <1>12, <1>13, <1>14, <1>15, <1>16, <1>17

\* Every step keeps what holds of the stored channels' states.
LEMMA StatusStep ==
    ASSUME IInv, IInv', OrderInv, LoopInv, PassInv, StatusInv, [Next]_vars
    PROVE  StatusInv'
<1>. SUFFICES ASSUME faults' = 0, NEW c \in Channels
              PROVE  StatusAt(c)'
  BY DEF StatusInv
<1>0. TypeOK /\ TypeOK' /\ faults = 0 /\ ~EventLost /\ ~UpdatedHeadBlockFails
  BY FaultsStay DEF IInv
<1>s. StatusAt(c)
  BY <1>0 DEF StatusInv
<1>n. /\ now \in Nat /\ latest \in Nat /\ head \in Nat /\ fetched \in Nat /\ committed \in Nat
      /\ committed <= latest /\ latest <= fetched /\ fetched < now /\ head <= fetched
      /\ \A e \in log : e.block \in Nat
  BY <1>0, Numbers DEF LoopInv
<1>f. fetched' \in Nat
  BY <1>0 DEF TypeOK, HistoryTypeOK
\* The steps that handle no event.
<1>same. ASSUME channel' = channel, writes' = writes, fetched' = fetched, latest' = latest,
                \A b \in Nat : b < now => Updates(c, b)' = Updates(c, b),
                HandledUpdates(c)' = HandledUpdates(c),
                \A r : Explained(c, r) => Explained(c, r)'
         PROVE  StatusAt(c)'
  <2>1. Updates(c, latest)' = Updates(c, latest)
    <3>1. PICK b \in Nat : b = latest
      BY <1>n
    <3>2. Updates(c, b)' = Updates(c, b)
      BY <1>n, <1>same, <3>1
    <3>. QED
      BY <1>same, <3>1, <3>2 DEF Updates
  <2>2. Settled(c)' = Settled(c)
    BY <1>same DEF Settled
  <2>3. channel[c] # NoRow => (Explained(c, channel[c]))'
    <3>1. PICK row : row = channel[c]
      OBVIOUS
    <3>2. channel[c] # NoRow => Explained(c, row)'
      BY <1>s, <1>same, <3>1 DEF StatusAt
    <3>. QED
      BY <1>same, <3>1, <3>2 DEF Explained
  <2>4. ASSUME NEW i \in DOMAIN writes, writes[i].op = "channel", writes[i].ch = c
        PROVE  Explained(c, writes[i].row)'
    <3>1. PICK row : row = writes[i].row
      OBVIOUS
    <3>2. Explained(c, row)'
      BY <1>s, <1>same, <2>4, <3>1 DEF StatusAt
    <3>. QED
      BY <1>same, <3>1, <3>2 DEF Explained
  <2>. QED
    BY <1>s, <1>same, <2>1, <2>2, <2>3, <2>4 DEF StatusAt, Complete
<1>1. CASE MovesOn
  <2>1. /\ UNCHANGED <<log, channel, writes, fetched, latest, head, batch>>
        /\ pc' = pc \/ (pc # "handle" /\ pc' # "handle")
    BY <1>1 DEF MovesOn, cvars
  <2>2. /\ \A b \in Nat : Updates(c, b)' = Updates(c, b)
        /\ HandledUpdates(c)' = HandledUpdates(c)
        /\ \A r : Explained(c, r) => Explained(c, r)'
    BY <2>1 DEF Updates, HandledUpdates, Reached, Explained
  <2>. QED
    BY <1>same, <2>1, <2>2
<1>2. CASE OnChain
  <2>1. UNCHANGED <<channel, writes, fetched, latest, head, batch, pc>> /\ pc # "handle"
    BY <1>2 DEF OnChain, dbvars, LooksAtChain
  <2>2. \A b \in Nat : b < now => Updates(c, b)' = Updates(c, b)
    BY <1>2, UpdatesSame
  <2>3. \A r : Explained(c, r) => Explained(c, r)'
    BY <1>2, <1>f, <1>n, <2>1, StaysExplained
  <2>4. HandledUpdates(c)' = HandledUpdates(c)
    <3>1. PICK b \in Nat : b = latest
      BY <1>n
    <3>2. Updates(c, b)' = Updates(c, b)
      BY <1>n, <2>2, <3>1
    <3>. QED
      BY <2>1, <3>1, <3>2 DEF HandledUpdates, Updates, Reached
  <2>. QED
    BY <1>same, <2>1, <2>2, <2>3, <2>4
<1>3. CASE ExecuteStatement
  <2>1. /\ 1 \in DOMAIN writes /\ UNCHANGED <<log, fetched, latest, head, batch, pc>>
        /\ writes[1].op # "channel" => UNCHANGED channel
        /\ writes[1].op = "channel" => channel' = [channel EXCEPT ![writes[1].ch] = writes[1].row]
        /\ \A i \in DOMAIN writes' : i + 1 \in DOMAIN writes /\ writes'[i] = writes[i + 1]
        /\ \A i \in DOMAIN writes \ {1} : i - 1 \in DOMAIN writes' /\ writes'[i - 1] = writes[i]
    BY <1>0, <1>3, StatementEffect DEF cvars, hvars
  <2>2. /\ Updates(c, latest)' = Updates(c, latest)
        /\ HandledUpdates(c)' = HandledUpdates(c)
        /\ \A r : Explained(c, r) => Explained(c, r)'
    BY <2>1 DEF Updates, HandledUpdates, Reached, Explained
  <2>3. ASSUME NEW i \in DOMAIN writes', writes'[i].op = "channel", writes'[i].ch = c
        PROVE  (Explained(c, writes[i].row) /\ Complete(writes[i].row, HandledUpdates(c)))'
    <3>1. PICK row : row = writes'[i].row
      OBVIOUS
    <3>2. Explained(c, row) /\ Complete(row, HandledUpdates(c))
      BY <1>s, <2>1, <2>3, <3>1 DEF StatusAt
    <3>3. Explained(c, row)'
      BY <2>2, <3>2
    <3>. QED
      BY <2>2, <3>1, <3>2, <3>3 DEF Explained, Complete
  <2>4. ASSUME channel'[c] # NoRow
        PROVE  /\ (Explained(c, channel[c]) /\ Complete(channel[c], Updates(c, latest)))'
               /\ Settled(c)' => Complete(channel[c], HandledUpdates(c))'
    <3>1. PICK row : row = channel'[c]
      OBVIOUS
    <3>2. /\ Explained(c, row) /\ Complete(row, Updates(c, latest))
          /\ Settled(c)' => Complete(row, HandledUpdates(c))
      <4>1. CASE writes[1].op = "channel" /\ writes[1].ch = c
        <5>1. row = writes[1].row
          BY <1>0, <2>1, <3>1, <4>1 DEF TypeOK, DatabaseTypeOK
        <5>2. Explained(c, row) /\ Complete(row, HandledUpdates(c))
          BY <1>s, <2>1, <4>1, <5>1 DEF StatusAt
        <5>3. Updates(c, latest) \subseteq HandledUpdates(c)
          BY LatestHandled
        <5>. QED
          BY <5>2, <5>3 DEF Complete
      <4>2. CASE ~(writes[1].op = "channel" /\ writes[1].ch = c)
        <5>1. row = channel[c]
          BY <1>0, <2>1, <3>1, <4>2 DEF TypeOK, DatabaseTypeOK
        <5>2. Settled(c)' => Settled(c)
          BY <2>1, <4>2 DEF Settled
        <5>. QED
          BY <1>s, <2>4, <3>1, <5>1, <5>2 DEF StatusAt
      <4>. QED
        BY <4>1, <4>2
    <3>3. Explained(c, row)'
      BY <2>2, <3>2
    <3>. QED
      BY <2>2, <3>1, <3>2, <3>3 DEF Explained, Complete
  <2>. QED
    BY <2>3, <2>4 DEF StatusAt
<1>4. CASE GetBlockchainEvents
  <2>1. /\ pc = "blocks" /\ pc' = "handle" /\ writes' = <<>> /\ UNCHANGED <<log, channel, latest>>
    BY <1>4 DEF GetBlockchainEvents, At, ProcessVars, cvars, dbvars
  <2>2. head' \in Nat /\ \A f \in log : latest < f.block /\ f.block <= head' => f \in batch'
    BY <1>0, <1>4, FetchedAll
  <2>3. fetched <= fetched'
    <3>1. PICK b \in (latest + 1) .. (now - Confirmations) : fetched' = IF b > fetched THEN b ELSE fetched
      BY <1>4 DEF GetBlockchainEvents
    <3>2. b \in Nat
      BY <1>n, ServiceConstants
    <3>. QED
      BY <1>n, <3>1, <3>2
  <2>4. HandledUpdates(c)' \subseteq Updates(c, latest)
    BY <1>n, <2>1, <2>2 DEF HandledUpdates, Updates, Reached
  <2>5. \A r : Explained(c, r) => Explained(c, r)'
    BY <1>f, <2>1, <2>3, StaysExplained
  <2>6. ASSUME channel[c] # NoRow
        PROVE  (/\ Explained(c, channel[c]) /\ Complete(channel[c], Updates(c, latest))
                /\ Complete(channel[c], HandledUpdates(c)))'
    <3>1. PICK row : row = channel[c]
      OBVIOUS
    <3>2. Explained(c, row)' /\ Complete(row, Updates(c, latest)) /\ Complete(row, HandledUpdates(c)')
      BY <1>s, <2>4, <2>5, <2>6, <3>1 DEF StatusAt, Complete
    <3>. QED
      BY <2>1, <3>1, <3>2 DEF Explained, Complete, Updates
  <2>. QED
    BY <2>1, <2>6 DEF StatusAt
<1>5. CASE HandleEvent
  BY <1>0, <1>5, <1>s, StatusHandled
<1>6. CASE UpdatedHeadBlock
  <2>1. /\ writes' = <<UpdateLatestCommittedBlock(head)>> /\ pc' = "trigger" /\ latest' = head
        /\ UNCHANGED <<log, channel, head, fetched, batch>> /\ pc = "handle" /\ batch = {} /\ writes = <<>>
    BY <1>6 DEF UpdatedHeadBlock, At, ProcessVars, cvars, dbvars
  <2>2. \A i \in DOMAIN writes' : writes'[i].op # "channel"
    BY <2>1 DEF UpdateLatestCommittedBlock
  <2>3. /\ HandledUpdates(c) = Updates(c, head) /\ HandledUpdates(c)' = Updates(c, head)
        /\ Updates(c, latest)' = Updates(c, head)
    BY <2>1 DEF HandledUpdates, Updates, Reached
  <2>4. channel[c] # NoRow => Explained(c, channel[c]) /\ Complete(channel[c], Updates(c, head))
    BY <1>s, <2>1, <2>3 DEF StatusAt, Settled
  <2>5. channel[c] # NoRow => (/\ Explained(c, channel[c]) /\ Complete(channel[c], Updates(c, latest))
                               /\ Complete(channel[c], HandledUpdates(c)))'
    BY <2>1, <2>3, <2>4 DEF Explained, Complete, Updates
  <2>. QED
    BY <2>1, <2>2, <2>5 DEF StatusAt
<1>7. ASSUME NEW s \in triggered, Acts(s)
      PROVE  StatusAt(c)'
  <2>1. /\ writes = <<>> /\ UNCHANGED <<log, channel, latest, head, fetched, batch, pc>>
        /\ Nothing(s) \/ PutOff(s) \/ SentMonitor(s) \/ SentClaim(s) \/ SentOnly(s)
    BY <1>7, ActionWrites DEF At, SchedulerVars, dbvars
  <2>2. ASSUME NEW i \in DOMAIN writes', writes'[i].op = "channel", writes'[i].ch = c
        PROVE  /\ channel[c] # NoRow /\ writes'[i].row.nonce = channel[c].nonce
               /\ writes'[i].row.sender = channel[c].sender
    <3>1. CASE Nothing(s) \/ PutOff(s) \/ SentOnly(s)
      <4>1. \A j \in DOMAIN writes' : writes'[j].op # "channel"
        BY <3>1 DEF Nothing, PutOff, SentOnly, Removal, RemoveScheduledEvent, UpsertScheduledEvent,
               AddWaitingTransaction
      <4>. QED
        BY <2>2, <4>1
    <3>2. CASE SentMonitor(s) \/ SentClaim(s)
      <4>0. channel[s.ch] \in ChannelRows
        BY <1>0, <3>2 DEF SentMonitor, SentClaim, Sent, TypeOK, LoopTypeOK, DatabaseTypeOK, ScheduledEvents
      <4>. DEFINE a == AddWaitingTransaction(Len(txs) + 1)
                  v == RemoveScheduledEvent(s)
                  r1 == [channel[s.ch] EXCEPT !.monitor_tx = Len(txs) + 1]
                  r2 == [channel[s.ch] EXCEPT !.claim_tx = Len(txs) + 1]
      <4>1. /\ r1.nonce = channel[s.ch].nonce /\ r1.sender = channel[s.ch].sender
            /\ r2.nonce = channel[s.ch].nonce /\ r2.sender = channel[s.ch].sender
        BY <4>0 DEF ChannelRows
      <4>2. writes' = <<a, UpsertChannel(s.ch, r1), v>> \/ writes' = <<a, UpsertChannel(s.ch, r2), v>>
        BY <3>2 DEF SentMonitor, SentClaim, Sent
      <4>3. channel[s.ch] # NoRow
        BY <3>2 DEF SentMonitor, SentClaim, Sent
      <4>4. a.op # "channel" /\ v.op # "channel"
        BY DEF AddWaitingTransaction, RemoveScheduledEvent
      <4>. HIDE DEF a, v, r1, r2
      <4>5. PICK row : writes'[i] = UpsertChannel(s.ch, row) /\ row \in {r1, r2}
        BY <2>2, <4>2, <4>4
      <4>6. s.ch = c /\ writes'[i].row = row
        BY <2>2, <4>5 DEF UpsertChannel
      <4>. QED
        BY <4>1, <4>3, <4>5, <4>6
    <3>. QED
      BY <2>1, <3>1, <3>2
  <2>3. /\ Updates(c, latest)' = Updates(c, latest)
        /\ HandledUpdates(c)' = HandledUpdates(c)
        /\ Updates(c, fetched)' = Updates(c, fetched)
    BY <2>1 DEF Updates, HandledUpdates, Reached
  <2>4. channel[c] # NoRow => /\ Explained(c, channel[c]) /\ Complete(channel[c], Updates(c, latest))
                              /\ Complete(channel[c], HandledUpdates(c))
    BY <1>s, <2>1 DEF StatusAt, Settled
  <2>5. channel[c] # NoRow => (/\ Explained(c, channel[c]) /\ Complete(channel[c], Updates(c, latest))
                               /\ Complete(channel[c], HandledUpdates(c)))'
    BY <2>1, <2>3, <2>4 DEF Explained, Complete
  <2>6. ASSUME NEW i \in DOMAIN writes', writes'[i].op = "channel", writes'[i].ch = c
        PROVE  (Explained(c, writes[i].row) /\ Complete(writes[i].row, HandledUpdates(c)))'
    BY <2>2, <2>3, <2>4, <2>6 DEF Explained, Complete
  <2>. QED
    BY <2>1, <2>5, <2>6 DEF StatusAt
<1>8. CASE CrashAndRestart
  <2>1. /\ writes' = <<>> /\ pc' = "blocks" /\ latest' = committed /\ batch' = {}
        /\ UNCHANGED <<log, channel, fetched>>
    BY <1>8 DEF CrashAndRestart, cvars, dbvars
  <2>2. /\ Updates(c, latest)' \subseteq Updates(c, latest) /\ HandledUpdates(c)' \subseteq Updates(c, latest)
        /\ Updates(c, fetched)' = Updates(c, fetched)
    BY <1>n, <2>1 DEF Updates, HandledUpdates, Reached
  <2>3. channel[c] # NoRow => Explained(c, channel[c]) /\ Complete(channel[c], Updates(c, latest))
    BY <1>s DEF StatusAt
  <2>4. channel[c] # NoRow => (/\ Explained(c, channel[c]) /\ Complete(channel[c], Updates(c, latest))
                               /\ Complete(channel[c], HandledUpdates(c)))'
    BY <2>1, <2>2, <2>3 DEF Explained, Complete
  <2>. QED
    BY <2>1, <2>4 DEF StatusAt
<1>. QED
  BY <1>0, <1>1, <1>2, <1>3, <1>4, <1>5, <1>6, <1>7, <1>8, Kinds

------------------------------------------------------------------------------
(* The invariant of the service, and what follows from it.                 *)

\* The inductive invariant.
MInv ==
    /\ IInv /\ OrderInv /\ LoopInv /\ PassInv
    /\ StatusInv /\ HashInv /\ OpeningsInv /\ CheckInv

\* The invariant holds initially.
LEMMA MInit == Init => MInv
<1>. SUFFICES ASSUME Init
              PROVE  MInv
  OBVIOUS
<1>1. IInv
  BY InitEstablishes
<1>2. /\ now = 1 /\ pc = "blocks" /\ latest = 0 /\ head = 0 /\ batch = {} /\ writes = <<>> /\ txs = <<>>
      /\ committed = 0 /\ fetched = 0 /\ openings = [c \in Channels |-> 0] /\ crashes = 0 /\ lost = 0
      /\ faults = 0 /\ scheduled_events = {} /\ triggered = {} /\ channel = [c \in Channels |-> NoRow]
      /\ token_network = {}
  BY DEF Init, ChainInit
<1>3. OrderInv
  <2>0. log = {[pos |-> 0, block |-> 1, type |-> "created", on |-> n, who |-> None, nonce |-> 0] :
               n \in Networks}
    BY DEF Init, ChainInit
  <2>1. \A e \in log : e.pos = 0 /\ e.block = 1 /\ e.type = "created"
    BY <2>0
  <2>2. ASSUME NEW n \in Networks
        PROVE  \E e \in log : e.type = "created" /\ e.on = n
    <3>. DEFINE e == [pos |-> 0, block |-> 1, type |-> "created", on |-> n, who |-> None, nonce |-> 0]
    <3>1. e \in log
      BY <2>0
    <3>2. e.type = "created" /\ e.on = n
      OBVIOUS
    <3>. HIDE DEF e
    <3>. QED
      BY <3>1, <3>2
  <2>3. \A c \in Channels : chain[c].state = "absent"
    BY DEF Init, ChainInit
  <2>4. Cardinality(log) \in Nat
    BY <1>1, FS_CardinalityType DEF IInv, TypeOK, ChainTypeOK
  <2>. HIDE <2>0
  <2>. QED
    BY <1>2, <2>1, <2>2, <2>3, <2>4 DEF OrderInv
<1>4. LoopInv
  BY <1>2 DEF LoopInv
<1>5. PassInv
  BY <1>2 DEF PassInv
<1>6. StatusInv
  BY <1>2 DEF StatusInv, StatusAt
<1>7. OpeningsInv
  BY <1>2 DEF OpeningsInv
<1>8. HashInv
  <2>1. \A c \in Channels : MonitorTxs(c) = {} /\ ClaimTxs(c) = {}
    BY <1>2 DEF MonitorTxs, ClaimTxs
  <2>2. \A c \in Channels : Cardinality(MonitorTxs(c)) = 0 /\ Cardinality(ClaimTxs(c)) = 0
    BY <2>1, FS_EmptySet
  <2>3. \A c \in Channels : Budget(c) = 0
    BY <1>2 DEF Budget
  <2>. QED
    BY <1>2, <2>2, <2>3 DEF HashInv
<1>9. CheckInv
  <2>1. \A c \in Channels : Checks(c) = {} /\ ~Monitored(c)
    BY <1>2 DEF Checks, Written, Monitored
  <2>. QED
    BY <2>1 DEF CheckInv, CheckAt
<1>. QED
  BY <1>1, <1>3, <1>4, <1>5, <1>6, <1>7, <1>8, <1>9 DEF MInv

\* Every step keeps the invariant.
LEMMA MStep == MInv /\ [Next]_vars => MInv'
<1>. SUFFICES ASSUME MInv, [Next]_vars
              PROVE  MInv'
  OBVIOUS
<1>0. IInv /\ OrderInv /\ LoopInv /\ PassInv /\ StatusInv /\ HashInv /\ OpeningsInv /\ CheckInv
  BY DEF MInv
<1>1. IInv'
  BY <1>0, StepPreserves
<1>2. OrderInv'
  <2>0. TypeOK /\ TypeOK' /\ LogInv
    BY <1>0, <1>1, InvParts DEF IInv
  <2>1. now >= 1
    <3>1. now \in Nat /\ fetched \in Nat /\ fetched < now
      BY <1>0, <2>0, Numbers DEF LoopInv
    <3>. QED
      BY <3>1
  <2>2. ChainTransaction \/ MineTx \/ NewBlock \/ UNCHANGED <<now, chain, log>>
    <3>1. MovesOn \/ GetBlockchainEvents \/ UpdatedHeadBlock \/ UpdatedHeadBlockFails \/ CrashAndRestart
          => UNCHANGED <<now, chain, log>>
      BY DEF MovesOn, GetBlockchainEvents, UpdatedHeadBlock, UpdatedHeadBlockFails, CrashAndRestart,
             ProcessVars, cvars
    <3>2. ExecuteStatement => UNCHANGED <<now, chain, log>>
      BY <2>0, StatementEffect DEF cvars
    <3>3. HandleEvent \/ EventLost => UNCHANGED <<now, chain, log>>
      BY <1>0, HandlerWrites DEF Handle, ProcessVars, cvars
    <3>4. (\E s \in triggered : Acts(s)) => UNCHANGED <<now, chain, log>>
      BY <1>0, ActionWrites DEF SchedulerVars
    <3>. QED
      BY <2>0, <3>1, <3>2, <3>3, <3>4, Kinds DEF OnChain
  <2>. QED
    BY <1>0, <2>0, <2>1, <2>2, OrderStep DEF TypeOK
<1>3. LoopInv'
  BY <1>0, <1>1, LoopStep
<1>4. PassInv'
  BY <1>0, <1>1, PassStep
<1>5. StatusInv'
  BY <1>0, <1>1, StatusStep
<1>6. HashInv'
  BY <1>0, <1>1, HashStep
<1>7. OpeningsInv'
  BY <1>0, OpeningsStep
<1>8. CheckInv'
  BY <1>0, <1>1, CheckStep
<1>. QED
  BY <1>1, <1>2, <1>3, <1>4, <1>5, <1>6, <1>7, <1>8 DEF MInv

\* The rows, the hashes and the checks are always what MInv says.
THEOREM MInvariance == Spec => []MInv
<1>. QED
  BY MInit, MStep, PTL DEF Spec

\* The update status that handlers.py keeps for a channel is the chain's last
\* update whenever the service has caught up and lost no event: for any number
\* of channels, batches cut anywhere, any crash and replay, although a batch
\* holds all of the token networks' events before those of the MSC.
THEOREM StatusIsChains == Spec => []StatusExact
<1>1. MInv => StatusExact
  <2>. SUFFICES ASSUME MInv, CaughtUp, faults = 0, NEW c \in Channels, channel[c] # NoRow
                PROVE  IF Updates(c, committed) = {}
                       THEN channel[c].nonce = 0 /\ channel[c].sender = None
                       ELSE /\ \A e \in LastUpdates(c, committed) : channel[c].nonce = e.nonce
                            /\ channel[c].sender = LastSender(c, committed)
    BY DEF StatusExact
  <2>. DEFINE U == Updates(c, committed)
              row == channel[c]
  <2>0. IInv /\ TypeOK /\ OrderInv /\ LoopInv /\ StatusInv
    BY DEF MInv, IInv
  <2>1. committed = latest /\ committed = fetched
    <3>1. committed \in Nat /\ latest \in Nat /\ fetched \in Nat
      BY <2>0, Numbers
    <3>. QED
      BY <2>0, <3>1 DEF LoopInv, CaughtUp
  <2>2. Explained(c, row) /\ Complete(row, U)
    BY <2>0, <2>1 DEF StatusInv, StatusAt
  <2>3. /\ row.nonce \in Nat
        /\ \A e \in U : /\ e \in log /\ e.on = c /\ e.nonce \in Nat /\ e.nonce > 0
                        /\ e.type = "updated" => e.who = chain[c].closer
                        /\ e.type \in {"updated", "monitored"}
    <3>1. row.nonce \in Nat /\ \A e \in log : e.nonce \in Nat
      BY <2>0, Numbers DEF TypeOK, DatabaseTypeOK, ChannelRows
    <3>2. \A e \in U : e \in log /\ e.on = c /\ e.type \in {"updated", "monitored"}
      BY DEF Updates
    <3>3. \A e \in U : e.nonce > 0 /\ (e.type = "updated" => e.who = chain[c].closer)
      BY <2>0, <3>2 DEF OrderInv
    <3>. QED
      BY <3>1, <3>2, <3>3
  <2>4. CASE U = {}
    BY <2>1, <2>2, <2>4 DEF Explained
  <2>5. CASE U # {}
    <3>1. PICK f \in U : TRUE
      BY <2>5
    <3>2. row.nonce # 0
      BY <2>2, <2>3, <3>1 DEF Complete
    <3>3. PICK e \in U : /\ row.nonce = e.nonce
                         /\ row.sender = IF e.type = "updated" THEN Other(e.who) ELSE e.who
      BY <2>1, <2>2, <3>2 DEF Explained
    <3>4. \A g \in U : g.nonce <= e.nonce
      BY <2>2, <3>3 DEF Complete
    <3>5. e \in LastUpdates(c, committed)
      BY <3>4 DEF LastUpdates
    <3>6. \A g \in LastUpdates(c, committed) : g \in U /\ g.nonce = row.nonce
      <4>. SUFFICES ASSUME NEW g \in LastUpdates(c, committed)
                    PROVE  g \in U /\ g.nonce = row.nonce
        OBVIOUS
      <4>1. g \in U /\ e.nonce <= g.nonce
        BY DEF LastUpdates
      <4>. QED
        BY <2>3, <3>3, <3>4, <4>1
    <3>7. row.sender = LastSender(c, committed)
      <4>1. CASE \E g \in LastUpdates(c, committed) : g.type = "monitored"
        <5>. DEFINE m == CHOOSE g \in LastUpdates(c, committed) : g.type = "monitored"
        <5>1. m \in LastUpdates(c, committed) /\ m.type = "monitored"
          BY <4>1
        <5>2. LastSender(c, committed) = m.who
          BY <4>1 DEF LastSender
        <5>. HIDE DEF m
        <5>3. m \in U /\ m.nonce = row.nonce
          BY <3>6, <5>1
        <5>. QED
          BY <2>2, <5>1, <5>2, <5>3 DEF Complete
      <4>2. CASE ~ \E g \in LastUpdates(c, committed) : g.type = "monitored"
        <5>1. e.type = "updated" /\ e.who = chain[c].closer
          BY <2>3, <3>5, <4>2
        <5>2. LastSender(c, committed) = Other(chain[c].closer)
          BY <4>2 DEF LastSender
        <5>. QED
          BY <3>3, <5>1, <5>2
      <4>. QED
        BY <4>1, <4>2
    <3>. QED
      BY <2>5, <3>6, <3>7
  <2>. QED
    BY <2>4, <2>5
<1>. QED
  BY <1>1, MInvariance, PTL

\* Gas is not wasted: the hashes in a channel's row keep the handlers of
\* scheduled events from sending a second transaction of a type, unless the
\* channel's opening is handled again after a crash, the hash was lost in a
\* crash, or a fault came between.
THEOREM GasNotWasted == Spec => []OneTransaction
<1>1. MInv => OneTransaction
  BY DEF MInv, HashInv, OpeningsInv, OneTransaction, Budget
<1>. QED
  BY <1>1, MInvariance, PTL

\* "This MS already monitored this channel. Should be impossible.": without a
\* crash no second check for a channel is due once the first one was sent,
\* whatever faults and reschedulings happen.
THEOREM MonitoredOnce == Spec => []NeverMonitoredTwice
<1>1. MInv => NeverMonitoredTwice
  <2>. SUFFICES ASSUME MInv, crashes = 0, NEW s \in triggered, Due(s), WorthMonitoring(s)
                PROVE  channel[s.ch].monitor_tx = 0
    BY DEF NeverMonitoredTwice
  <2>1. s.type = "monitor" /\ channel[s.ch] # NoRow /\ writes = <<>>
    BY DEF Due, At, WorthMonitoring
  <2>2. s.ch \in Channels
    BY DEF MInv, IInv, TypeOK, LoopTypeOK, ScheduledEvents
  <2>3. s \in Checks(s.ch)
    BY <2>1 DEF Checks, Written
  <2>4. ~Monitored(s.ch)
    BY <2>2, <2>3 DEF MInv, CheckInv, CheckAt
  <2>. QED
    BY <2>1, <2>4 DEF Monitored
<1>. QED
  BY <1>1, MInvariance, PTL

------------------------------------------------------------------------------
(* The claims: what is known of the chain, the requests and the scheduled  *)
(* events that keeps a claim in the database until it is sent.             *)

\* The settlement period of the channel has begun, or is over.
IsClosed(c) == chain[c].state \in {"closed", "settled"}

\* The closing of a channel is in the log, after its opening and before its
\* updates.
CloseInv ==
    /\ \A e \in log : e.type = "closed" => e.block = chain[e.on].closedAt /\ e.who = chain[e.on].closer
    /\ \A c \in Channels : IsClosed(c) => \E e \in log : e.type = "closed" /\ e.on = c
    /\ \A e, f \in log : e.on = f.on /\ e.type = "closed" /\ f.type \in {"updated", "monitored"} =>
          e.block <= f.block
    /\ \A e, f \in log : e.on = f.on /\ e.type = "opened" /\ f.type = "closed" =>
          e.pos < f.pos /\ e.block <= f.block

\* Stored requests are clients' requests, deposits are what they may be, and
\* the service monitors only for a request of the participant who did not close.
Requested(c) == IsClosed(c) /\ monitor_request[<<c, Other(chain[c].closer)>>] # NoRequest

\* Of the requests, the deposits and our transactions and their events.
RequestInv ==
    /\ \A c \in Channels, p \in Participants : monitor_request[<<c, p>>] # NoRequest =>
          \E mr \in Requests : mr.who = p /\ mr.reward = monitor_request[<<c, p>>].reward
    /\ \A p \in Participants : udc[p].confirmed \in Balances[p] /\ udc[p].latest \in Balances[p]
    /\ \A i \in DOMAIN txs : txs[i].type = "monitor" => Requested(txs[i].ch)
    /\ \A e \in log : e.type = "monitored" /\ e.who = Us => Requested(e.on)

\* The scheduled events are about closed channels, for the other participant,
\* a claim for the end of the settlement period.  As long as the deposits
\* suffice, a check keeps its time.
KnownEvents ==
    scheduled_events \cup triggered \cup Written("schedule") \cup Written("unschedule")

WellTimed(s) ==
    /\ IsClosed(s.ch) /\ s.who = Other(chain[s.ch].closer)
    /\ s.type = "claim" => s.at = SettleableAfter(s.ch) /\ Requested(s.ch)
    /\ RewardsCovered /\ s.type = "monitor" => s.at = FirstAllowedToMonitor(s.ch)

\* So it is for every event the database or the loop knows of.
EventsInv == \A s \in KnownEvents : WellTimed(s)

\* The closing block of a row is the chain's.
RowClosed(c, r) == r.closing_block # 0 => IsClosed(c) /\ r.closing_block = chain[c].closedAt

\* It is saved once the closing was handled.
ClosingAt(c) ==
    /\ channel[c] # NoRow => RowClosed(c, channel[c])
    /\ \A i \in DOMAIN writes : writes[i].op = "channel" /\ writes[i].ch = c => RowClosed(c, writes[i].row)
    /\ faults = 0 => \A e \in log : e.type = "closed" /\ e.on = c =>
          /\ channel[c] # NoRow /\ e.block <= latest => channel[c].closing_block # 0
          /\ channel[c] # NoRow /\ Settled(c) /\ Handled(e) => channel[c].closing_block # 0
          /\ \A i \in DOMAIN writes : writes[i].op = "channel" /\ writes[i].ch = c /\ Handled(e) =>
                writes[i].row.closing_block # 0

\* So it is for every channel.
ClosingInv == \A c \in Channels : ClosingAt(c)

\* The claim of the reward for monitoring a channel.
Claim(c) == ClaimEvent(c, chain[c].closedAt)

\* Our monitoring with a row's nonce that is not handled, or is and its claim
\* about to be scheduled, and that a restart fetches again.
ToClaim(e, c, r) ==
    /\ e.type = "monitored" /\ e.on = c /\ e.who = Us /\ e.nonce = r.nonce
    /\ committed < e.block /\ e.block <= fetched
    /\ Handled(e) => Claim(c) \in Written("schedule")

\* We updated the channel last, and have not claimed the reward; unless the
\* chain does not owe it any more, the claim is scheduled.
Owed(c, r) ==
    /\ r.sender = Us /\ r.claim_tx = 0
    /\ chain[c].state = "settled" => chain[c].rewardTo = Us

Kept(c, r) == Owed(c, r) => Claim(c) \in scheduled_events \/ \E e \in log : ToClaim(e, c, r)

\* A claim that is about to be removed is not owed, or a row with its hash is
\* about to be saved.
Droppable(c) ==
    /\ \A i \in DOMAIN writes : writes[i].op = "channel" /\ writes[i].ch = c => writes[i].row.claim_tx # 0
    /\ Settled(c) /\ channel[c] # NoRow => ~Owed(c, channel[c])

KeptAt(c) ==
    /\ channel[c] # NoRow => Kept(c, channel[c])
    /\ \A i \in DOMAIN writes : writes[i].op = "channel" /\ writes[i].ch = c => Kept(c, writes[i].row)
    /\ Claim(c) \in Written("unschedule") => Droppable(c)

\* So it is for every channel, as long as no handler failed.
KeptInv == RewardsCovered /\ MonitorDelay # SettleTimeout /\ faults = 0 => \A c \in Channels : KeptAt(c)

\* What a step of the chain does to a channel: one event and a change that
\* goes with it, or the two events of a monitoring.
EventIs(e, c, k, type) ==
    e.on = c /\ e.block = now /\ e.pos = Cardinality(log) + k /\ e.type = type

\* What a closed channel keeps for ever.
Lasting(c) == chain'[c].closer = chain[c].closer /\ chain'[c].closedAt = chain[c].closedAt

\* The steps of the chain with one event.
ByOneEvent(c, e) ==
    /\ log' = log \cup {e}
    /\ \/ EventIs(e, c, 1, "opened") /\ chain[c].state = "absent" /\ chain'[c].state = "opened"
       \/ /\ EventIs(e, c, 1, "closed") /\ chain[c].state = "opened" /\ chain'[c].state = "closed"
          /\ chain'[c].closer = e.who /\ chain'[c].closedAt = now
       \/ /\ EventIs(e, c, 1, "updated") /\ chain[c].state = "closed" /\ chain'[c].state = "closed"
          /\ Lasting(c)
       \/ /\ EventIs(e, c, 1, "settled") /\ chain[c].state = "closed" /\ chain'[c].state = "settled"
          /\ Lasting(c) /\ chain'[c].rewardTo = chain[c].rewardTo /\ now > SettleableAfter(c)
       \/ /\ EventIs(e, c, 1, "claimed") /\ chain[c].state = "settled" /\ chain'[c].state = "settled"
          /\ Lasting(c) /\ chain[c].rewardTo = Us

\* A monitoring, by us with a transaction of ours.
ByMonitoring(c, e, f) ==
    /\ log' = log \cup {e, f}
    /\ EventIs(e, c, 1, "updated") /\ EventIs(f, c, 2, "monitored")
    /\ chain[c].state = "closed" /\ chain'[c].state = "closed" /\ Lasting(c)
    /\ f.who = Us => \E i \in DOMAIN txs : txs[i].type = "monitor" /\ txs[i].ch = c

\* What happens to one channel.
ChannelMoves(c) ==
    /\ now' = now /\ \A d \in Channels \ {c} : chain'[d] = chain[d]
    /\ (\E e : ByOneEvent(c, e)) \/ (\E e, f : ByMonitoring(c, e, f))

\* What happens on the chain happens to one channel, or changes no channel.
LEMMA ChainEffect ==
    ASSUME ChainTypeOK, OnChain
    PROVE  UNCHANGED <<chain, log>> \/ \E c \in Channels : ChannelMoves(c)
<1>types. /\ chain \in [Channels -> ChannelOnChain]
          /\ \A c \in Channels : chain[c] \in ChannelOnChain
  BY DEF ChainTypeOK
<1>txs. \A i \in DOMAIN txs : txs[i].ch \in Channels
  <2>1. txs \in [1 .. Len(txs) -> Transactions]
    BY LenProperties DEF ChainTypeOK
  <2>. QED
    BY <2>1 DEF Transactions
<1>e. \A k, type, on, who, nonce :
        LET e == Event(k, type, on, who, nonce) IN EventIs(e, on, k, type) /\ e.who = who
  BY DEF Event, EventIs
<1>m. ASSUME NEW c \in Channels, NEW n, NEW ms, MonitorEffect(c, n, ms), now' = now,
             chain[c].state = "closed",
             ms = Us => \E i \in DOMAIN txs : txs[i].type = "monitor" /\ txs[i].ch = c
      PROVE  ChannelMoves(c)
  <2>. DEFINE e == Event(1, "updated", c, chain[c].closer, n)
              f == Event(2, "monitored", c, ms, n)
  <2>1. log' = log \cup {e, f} /\ chain' = [chain EXCEPT ![c].nonce = n, ![c].rewardTo = ms]
    BY <1>m DEF MonitorEffect
  <2>2. EventIs(e, c, 1, "updated") /\ EventIs(f, c, 2, "monitored") /\ f.who = ms
    BY <1>e
  <2>3. chain'[c].state = "closed" /\ Lasting(c) /\ \A d \in Channels \ {c} : chain'[d] = chain[d]
    BY <1>types, <1>m, <2>1 DEF Lasting, ChannelOnChain
  <2>. HIDE DEF e, f
  <2>4. ByMonitoring(c, e, f)
    BY <1>m, <2>1, <2>2, <2>3 DEF ByMonitoring
  <2>. QED
    BY <1>m, <2>3, <2>4 DEF ChannelMoves
<1>1. ASSUME NEW c \in Channels, OpenChannel(c)
      PROVE  ChannelMoves(c)
  <2>. DEFINE e == Event(1, "opened", c, None, 0)
  <2>1. log' = log \cup {e} /\ chain' = [chain EXCEPT ![c].state = "opened"] /\ now' = now
        /\ chain[c].state = "absent"
    BY <1>1 DEF OpenChannel
  <2>2. EventIs(e, c, 1, "opened")
    BY <1>e
  <2>3. chain'[c].state = "opened" /\ \A d \in Channels \ {c} : chain'[d] = chain[d]
    BY <1>types, <2>1 DEF ChannelOnChain
  <2>. HIDE DEF e
  <2>. QED
    BY <2>1, <2>2, <2>3 DEF ByOneEvent, ChannelMoves
<1>2. ASSUME NEW c \in Channels, NEW p \in Closers, CloseChannel(c, p)
      PROVE  ChannelMoves(c)
  <2>. DEFINE e == Event(1, "closed", c, p, 0)
  <2>1. /\ log' = log \cup {e} /\ now' = now /\ chain[c].state = "opened"
        /\ chain' = [chain EXCEPT ![c].state = "closed", ![c].closer = p, ![c].closedAt = now]
    BY <1>2 DEF CloseChannel
  <2>2. EventIs(e, c, 1, "closed") /\ e.who = p
    BY <1>e
  <2>3. /\ chain'[c].state = "closed" /\ chain'[c].closer = p /\ chain'[c].closedAt = now
        /\ \A d \in Channels \ {c} : chain'[d] = chain[d]
    BY <1>types, <2>1 DEF ChannelOnChain
  <2>. HIDE DEF e
  <2>. QED
    BY <2>1, <2>2, <2>3 DEF ByOneEvent, ChannelMoves
<1>3. ASSUME NEW c \in Channels, NEW n \in Nonces, UpdateNonClosing(c, n)
      PROVE  ChannelMoves(c)
  <2>. DEFINE e == Event(1, "updated", c, chain[c].closer, n)
  <2>1. /\ log' = log \cup {e} /\ now' = now /\ chain[c].state = "closed"
        /\ chain' = [chain EXCEPT ![c].nonce = n]
    BY <1>3 DEF UpdateNonClosing, CanUpdate
  <2>2. EventIs(e, c, 1, "updated")
    BY <1>e
  <2>3. chain'[c].state = "closed" /\ Lasting(c) /\ \A d \in Channels \ {c} : chain'[d] = chain[d]
    BY <1>types, <2>1 DEF Lasting, ChannelOnChain
  <2>. HIDE DEF e
  <2>. QED
    BY <2>1, <2>2, <2>3 DEF ByOneEvent, ChannelMoves
<1>4. ASSUME NEW c \in Channels, NEW n \in Nonces, NEW ms \in OtherServices, MonitorByOther(c, n, ms)
      PROVE  ChannelMoves(c)
  <2>1. ms # Us
    BY ChainConstants
  <2>. QED
    BY <1>4, <1>m, <2>1 DEF MonitorByOther, CanMonitor, CanUpdate
<1>5. ASSUME NEW c \in Channels, SettleChannel(c)
      PROVE  ChannelMoves(c)
  <2>. DEFINE e == Event(1, "settled", c, None, 0)
  <2>1. /\ log' = log \cup {e} /\ now' = now /\ chain[c].state = "closed" /\ now > SettleableAfter(c)
        /\ chain' = [chain EXCEPT ![c].state = "settled"]
    BY <1>5 DEF SettleChannel
  <2>2. EventIs(e, c, 1, "settled")
    BY <1>e
  <2>3. /\ chain'[c].state = "settled" /\ Lasting(c) /\ chain'[c].rewardTo = chain[c].rewardTo
        /\ \A d \in Channels \ {c} : chain'[d] = chain[d]
    BY <1>types, <2>1 DEF Lasting, ChannelOnChain
  <2>. HIDE DEF e
  <2>. QED
    BY <2>1, <2>2, <2>3 DEF ByOneEvent, ChannelMoves
<1>6. ASSUME NEW i \in DOMAIN txs, MineMonitor(i)
      PROVE  ChannelMoves(txs[i].ch)
  BY <1>6, <1>m, <1>txs DEF MineMonitor, CanMonitor, CanUpdate
<1>7. ASSUME NEW i \in DOMAIN txs, MineClaim(i)
      PROVE  ChannelMoves(txs[i].ch)
  <2>. DEFINE c == txs[i].ch
              e == Event(1, "claimed", c, Us, 0)
  <2>1. /\ log' = log \cup {e} /\ now' = now /\ chain[c].state = "settled" /\ chain[c].rewardTo = Us
        /\ chain' = [chain EXCEPT ![c].rewardTo = None] /\ c \in Channels
    BY <1>7, <1>txs DEF MineClaim, CanClaim
  <2>2. EventIs(e, c, 1, "claimed")
    BY <1>e
  <2>3. /\ chain'[c].state = "settled" /\ Lasting(c) /\ \A d \in Channels \ {c} : chain'[d] = chain[d]
    BY <1>types, <2>1 DEF Lasting, ChannelOnChain
  <2>. HIDE DEF e, c
  <2>4. ChannelMoves(c)
    BY <2>1, <2>2, <2>3 DEF ByOneEvent, ChannelMoves
  <2>. QED
    BY <2>4 DEF c
<1>8. ASSUME NEW i \in DOMAIN txs, MineReverted(i)
      PROVE  UNCHANGED <<chain, log>>
  BY <1>8 DEF MineReverted
<1>9. ASSUME NEW p \in Participants, (\E b \in Balances[p] : ChangeBalance(p, b)) \/ ConfirmBalance(p)
      PROVE  UNCHANGED <<chain, log>>
  BY <1>9 DEF ChangeBalance, ConfirmBalance
<1>10. CASE NewBlock
  BY <1>10 DEF NewBlock
<1>11. CASE ChainTransaction
  BY <1>1, <1>2, <1>3, <1>4, <1>5, <1>9, <1>11 DEF ChainTransaction
<1>12. CASE MineTx
  BY <1>6, <1>7, <1>8, <1>txs, <1>12 DEF MineTx
<1>. QED
  BY <1>10, <1>11, <1>12 DEF OnChain

\* The other steps leave the chain alone.
LEMMA OffChain ==
    ASSUME IInv, [Next]_vars, ~OnChain
    PROVE  UNCHANGED <<now, chain, log, udc>>
<1>0. TypeOK
  BY DEF IInv
<1>1. MovesOn \/ GetBlockchainEvents \/ UpdatedHeadBlock \/ UpdatedHeadBlockFails \/ CrashAndRestart
      => UNCHANGED <<now, chain, log, udc>>
  BY DEF MovesOn, GetBlockchainEvents, UpdatedHeadBlock, UpdatedHeadBlockFails, CrashAndRestart,
         ProcessVars, cvars
<1>2. ExecuteStatement => UNCHANGED <<now, chain, log, udc>>
  BY <1>0, StatementEffect DEF cvars
<1>3. HandleEvent \/ EventLost => UNCHANGED <<now, chain, log, udc>>
  BY HandlerWrites DEF Handle, ProcessVars, cvars
<1>4. (\E s \in triggered : Acts(s)) => UNCHANGED <<now, chain, log, udc>>
  BY ActionWrites DEF SchedulerVars
<1>. QED
  BY <1>0, <1>1, <1>2, <1>3, <1>4, Kinds

\* What is settled or closed stays so, with its closer and its closing block;
\* a reward that is not ours once a channel is settled never will be.
LEMMA ClosedForEver ==
    ASSUME IInv, [Next]_vars, NEW c \in Channels, IsClosed(c)
    PROVE  /\ IsClosed(c)' /\ Lasting(c)
           /\ chain[c].state = "settled" => chain'[c].state = "settled"
           /\ chain[c].state = "settled" /\ chain[c].rewardTo # Us => chain'[c].rewardTo # Us
<1>0. TypeOK /\ ChainTypeOK
  BY DEF IInv, TypeOK
<1>1. CASE chain' = chain
  BY <1>1 DEF IsClosed, Lasting
<1>2. ASSUME NEW d \in Channels, ChannelMoves(d), d # c
      PROVE  chain'[c] = chain[c]
  BY <1>2 DEF ChannelMoves
<1>3. CASE ChannelMoves(c)
  <2>1. ASSUME NEW e, ByOneEvent(c, e)
        PROVE  /\ IsClosed(c)' /\ Lasting(c)
               /\ chain[c].state = "settled" => chain'[c].state = "settled" /\ chain[c].rewardTo = Us
    BY <2>1 DEF ByOneEvent, EventIs, IsClosed
  <2>2. ASSUME NEW e, NEW f, ByMonitoring(c, e, f)
        PROVE  IsClosed(c)' /\ Lasting(c) /\ chain[c].state # "settled"
    BY <2>2 DEF ByMonitoring, IsClosed
  <2>. QED
    BY <1>3, <2>1, <2>2 DEF ChannelMoves
<1>4. OnChain => chain' = chain \/ \E d \in Channels : ChannelMoves(d)
  BY <1>0, ChainEffect
<1>5. ~OnChain => chain' = chain
  BY OffChain
<1>6. CASE OnChain /\ chain' # chain
  <2>1. PICK d \in Channels : ChannelMoves(d)
    BY <1>4, <1>6
  <2>2. CASE d # c
    <3>1. chain'[c] = chain[c]
      BY <1>2, <2>1, <2>2
    <3>. QED
      BY <3>1 DEF IsClosed, Lasting
  <2>3. CASE d = c
    BY <1>3, <2>1, <2>3
  <2>. QED
    BY <2>2, <2>3
<1>. QED
  BY <1>1, <1>5, <1>6

\* Every step keeps the closings in order.
LEMMA CloseStep ==
    ASSUME IInv, IInv', OrderInv, CloseInv, [Next]_vars
    PROVE  CloseInv'
<1>0. TypeOK /\ ChainTypeOK /\ ChainTypeOK' /\ now \in Nat /\ Cardinality(log) \in Nat
  BY FS_CardinalityType DEF IInv, TypeOK, ChainTypeOK
<1>t. /\ \A e \in log : e.type # "created" => e.on \in Channels
      /\ \A e \in log : e.pos \in Nat /\ e.block \in Nat
      /\ \A e \in log : e.pos <= Cardinality(log) /\ e.block <= now
  BY <1>0 DEF ChainTypeOK, Events, OrderInv
<1>1. CASE UNCHANGED <<chain, log>>
  BY <1>1 DEF CloseInv, IsClosed
<1>2. ASSUME NEW c \in Channels, ChannelMoves(c)
      PROVE  CloseInv'
  <2>1. \A d \in Channels \ {c} : chain'[d] = chain[d]
    BY <1>2 DEF ChannelMoves
  <2>a. CASE \E e : ByOneEvent(c, e)
    <3>. PICK e : ByOneEvent(c, e)
      BY <2>a
    <3>1. /\ log' = log \cup {e} /\ e.on = c /\ e.block = now /\ e.pos = Cardinality(log) + 1
          /\ e.type \in {"opened", "closed", "updated", "settled", "claimed"}
          /\ e.type = "opened" => chain[c].state = "absent" /\ chain'[c].state = "opened"
          /\ e.type = "closed" => /\ chain[c].state = "opened" /\ chain'[c].state = "closed"
                                  /\ chain'[c].closer = e.who /\ chain'[c].closedAt = now
          /\ e.type \notin {"opened", "closed"} => IsClosed(c) /\ Lasting(c)
      BY DEF ByOneEvent, EventIs, IsClosed
    <3>2. \A f \in log : f.type = "closed" => IsClosed(f.on) /\ f.on \in Channels
      BY <1>t DEF OrderInv, IsClosed
    <3>3. \A f \in log : f.type # "created" => chain[f.on].state # "absent"
      BY DEF OrderInv
    <3>4. \A f \in log' : f.type = "closed" => f.block = chain'[f.on].closedAt /\ f.who = chain'[f.on].closer
      BY <2>1, <3>1, <3>2 DEF CloseInv, Lasting, IsClosed
    <3>5. \A d \in Channels : IsClosed(d)' => \E f \in log' : f.type = "closed" /\ f.on = d
      BY <2>1, <3>1 DEF CloseInv, IsClosed
    <3>6. \A f, g \in log' : f.on = g.on /\ f.type = "closed" /\ g.type \in {"updated", "monitored"} =>
              f.block <= g.block
      <4>1. \A g \in log : g.type \in {"updated", "monitored"} => IsClosed(g.on)
        BY DEF OrderInv, IsClosed
      <4>. QED
        BY <1>0, <1>t, <3>1, <3>2, <4>1 DEF CloseInv, IsClosed
    <3>7. \A f, g \in log' : f.on = g.on /\ f.type = "opened" /\ g.type = "closed" =>
              f.pos < g.pos /\ f.block <= g.block
      BY <1>0, <1>t, <3>1, <3>3 DEF CloseInv
    <3>. QED
      BY <3>4, <3>5, <3>6, <3>7 DEF CloseInv
  <2>b. CASE \E e, f : ByMonitoring(c, e, f)
    <3>. PICK e, f : ByMonitoring(c, e, f)
      BY <2>b
    <3>1. /\ log' = log \cup {e, f} /\ e.type = "updated" /\ f.type = "monitored" /\ e.on = c /\ f.on = c
          /\ e.block = now /\ f.block = now /\ IsClosed(c) /\ IsClosed(c)' /\ Lasting(c)
      BY DEF ByMonitoring, EventIs, IsClosed
    <3>2. \A d \in Channels : Lasting(d) /\ (IsClosed(d)' => IsClosed(d))
      BY <2>1, <3>1 DEF Lasting, IsClosed
    <3>4. \A g \in log' : g.type = "closed" => g.block = chain'[g.on].closedAt /\ g.who = chain'[g.on].closer
      BY <1>t, <3>1, <3>2 DEF CloseInv, Lasting
    <3>5. \A d \in Channels : IsClosed(d)' => \E g \in log' : g.type = "closed" /\ g.on = d
      BY <3>1, <3>2 DEF CloseInv
    <3>6. \A h, g \in log' : h.on = g.on /\ h.type = "closed" /\ g.type \in {"updated", "monitored"} =>
              h.block <= g.block
      BY <1>t, <3>1 DEF CloseInv
    <3>7. \A h, g \in log' : h.on = g.on /\ h.type = "opened" /\ g.type = "closed" =>
              h.pos < g.pos /\ h.block <= g.block
      BY <3>1 DEF CloseInv
    <3>. QED
      BY <3>4, <3>5, <3>6, <3>7 DEF CloseInv
  <2>. QED
    BY <1>2, <2>a, <2>b DEF ChannelMoves
<1>3. OnChain => UNCHANGED <<chain, log>> \/ \E c \in Channels : ChannelMoves(c)
  BY <1>0, ChainEffect
<1>4. ~OnChain => UNCHANGED <<chain, log>>
  BY OffChain
<1>. QED
  BY <1>1, <1>2, <1>3, <1>4

\* Requests are stored by the request collector alone, and never removed.
LEMMA RequestsStay ==
    ASSUME TypeOK, [Next]_vars
    PROVE  \/ UNCHANGED monitor_request
           \/ /\ \E mr \in Requests : OnMonitorRequest(mr)
              /\ UNCHANGED <<cvars, dbvars, pc, latest, head, batch, triggered, writes, try_after, hvars>>
<1>1. UNCHANGED vars => UNCHANGED monitor_request
  BY DEF vars
<1>2. ChainStep \/ Mine \/ Tick => UNCHANGED monitor_request
  BY DEF ChainStep, Mine, Tick
<1>3. ASSUME NEW mr \in Requests, OnMonitorRequest(mr)
      PROVE  UNCHANGED <<cvars, dbvars, pc, latest, head, batch, triggered, writes, try_after, hvars>>
  BY <1>3 DEF OnMonitorRequest
<1>4. ExecuteStatement => UNCHANGED monitor_request
  BY StatementEffect
<1>5. NoNewBlocks \/ GetBlockchainEvents \/ UpdatedHeadBlock \/ GetBlockchainEventsTimeout
      \/ UpdatedHeadBlockFails => UNCHANGED monitor_request
  BY DEF NoNewBlocks, GetBlockchainEvents, UpdatedHeadBlock, GetBlockchainEventsTimeout,
         UpdatedHeadBlockFails, ProcessVars
<1>6. \A e, ws : Handle(e, ws) => UNCHANGED monitor_request
  BY DEF Handle, ProcessVars
<1>7. HandleEvent \/ EventLost => UNCHANGED monitor_request
  BY <1>6 DEF HandleEvent, EventLost, HandlerFails, TokenNetworkCreated, ChannelOpened, ChannelUnknown,
         ChannelClosed, NonClosingBalanceProofUpdated, ChannelSettled, MonitorNewBalanceProof,
         MonitorRewardClaimed
<1>8. \A s, ws : Done(s, ws) => UNCHANGED monitor_request
  BY DEF Done, SchedulerVars
<1>9. HandleScheduledEvent \/ ActionLost => UNCHANGED monitor_request
  <2>1. \A s : TooEarly(s) => UNCHANGED monitor_request
    BY DEF TooEarly, SchedulerVars
  <2>. QED
    BY <1>8, <2>1 DEF HandleScheduledEvent, ActionLost, MonitorDropped, MonitorRescheduled, MonitorSent,
           ClaimDropped, ClaimSent, HandleTooEarly, ActionFails, Send
<1>10. TriggerNotYet \/ TriggerScheduledEvents \/ TriggeredEventsDone \/ CheckPendingTransactions
       \/ CrashAndRestart => UNCHANGED monitor_request
  BY DEF TriggerNotYet, TriggerScheduledEvents, TriggeredEventsDone, CheckPendingTransactions,
         CrashAndRestart, SchedulerVars
<1>11. CASE \E mr \in Requests : OnMonitorRequest(mr)
  BY <1>3, <1>11, Zenon
<1>12. CASE ~\E mr \in Requests : OnMonitorRequest(mr)
  BY <1>1, <1>2, <1>4, <1>5, <1>7, <1>9, <1>10, <1>12 DEF Next, Loop
<1>. QED
  BY <1>11, <1>12

\* What is requested stays requested.
LEMMA RequestedStays ==
    ASSUME IInv, OrderInv, [Next]_vars, NEW c \in Channels, Requested(c)
    PROVE  Requested(c)'
<1>0. TypeOK
  BY DEF IInv
<1>1. IsClosed(c)' /\ Lasting(c)
  BY ClosedForEver DEF Requested
<1>. DEFINE k == <<c, Other(chain[c].closer)>>
<1>2. k \in Channels \X Participants /\ monitor_request[k] # NoRequest
  BY DEF Requested, Other, Participants
<1>3. monitor_request'[k] # NoRequest
  <2>1. CASE UNCHANGED monitor_request
    BY <1>2, <2>1
  <2>2. ASSUME NEW mr \in Requests, OnMonitorRequest(mr)
        PROVE  monitor_request'[k] # NoRequest
    <3>. DEFINE r == [nonce |-> mr.nonce, signer |-> mr.signer, reward |-> mr.reward, saved_at |-> Clock]
    <3>1. mr.nonce # 0 /\ mr.ch \in Channels /\ mr.who \in Participants
      BY ServiceConstants DEF MonitorRequests
    <3>2. r # NoRequest
      <4>1. r.nonce = mr.nonce /\ NoRequest.nonce = 0
        BY DEF NoRequest
      <4>. QED
        BY <3>1, <4>1
    <3>3. monitor_request' = [monitor_request EXCEPT ![<<mr.ch, mr.who>>] = r]
      BY <2>2 DEF OnMonitorRequest
    <3>4. monitor_request \in [Channels \X Participants -> StoredRequests \cup {NoRequest}]
      BY <1>0 DEF TypeOK, DatabaseTypeOK
    <3>. HIDE DEF r, k
    <3>5. monitor_request'[k] = r \/ monitor_request'[k] = monitor_request[k]
      BY <1>2, <3>3, <3>4
    <3>. QED
      BY <1>2, <3>2, <3>5
  <2>. QED
    BY <1>0, <2>1, <2>2, RequestsStay
<1>. QED
  BY <1>1, <1>3 DEF Requested, Lasting

\* The statements of an event's handler in full: the rows, what is scheduled,
\* and what a handler that returns does not leave out.
SavedRow(e, r) ==
    \/ e.type = "opened" /\ r = FreshRow
    \/ /\ e.type \in {"closed", "updated", "settled", "monitored"} /\ channel[e.on] # NoRow
       /\ r.monitor_tx = channel[e.on].monitor_tx /\ r.claim_tx = channel[e.on].claim_tx
       /\ r.closing_block = IF e.type = "closed" THEN e.block ELSE channel[e.on].closing_block
       /\ e.type \in {"closed", "settled"} => r.nonce = channel[e.on].nonce /\ r.sender = channel[e.on].sender
       /\ e.type = "updated" => r.sender = Other(e.who)
       /\ e.type = "monitored" => r.nonce = e.nonce /\ r.sender = e.who /\ ~MonitorIgnored(e)

\* The event is our own monitoring, and the handler schedules the claim.
OurClaim(e) ==
    /\ e.type = "monitored" /\ e.who = Us /\ channel[e.on] # NoRow /\ ~MonitorIgnored(e)
    /\ channel[e.on].closing_block # 0

\* The handler of e schedules s.
NewlyScheduled(e, s) ==
    \/ e.type = "closed" /\ channel[e.on] # NoRow /\ s = MonitorEvent(e)
    \/ OurClaim(e) /\ s = ClaimEvent(e.on, channel[e.on].closing_block)

\* The statements of the handler of e.
SavedBy(e, w) ==
    \/ w.op = "token_network"
    \/ w.op = "channel" /\ w.ch = e.on /\ SavedRow(e, w.row)
    \/ w.op = "schedule" /\ NewlyScheduled(e, w.ev)

\* What the handler of e does unless it fails.
Finishes(e, ws) ==
    /\ e.type = "opened" => \E i \in DOMAIN ws : ws[i].op = "channel"
    /\ e.type = "closed" /\ channel[e.on] # NoRow =>
          /\ \E i \in DOMAIN ws : ws[i].op = "channel"
          /\ Clock <= e.block + SettleTimeout => \E i \in DOMAIN ws : ws[i] = UpsertScheduledEvent(MonitorEvent(e))
    /\ OurClaim(e) =>
          \E i \in DOMAIN ws : ws[i] = UpsertScheduledEvent(ClaimEvent(e.on, channel[e.on].closing_block))

\* A handler saves only what SavedBy allows, and all of what Finishes demands
\* unless it fails.
LEMMA HandlerSaves ==
    ASSUME IInv, HandleEvent \/ EventLost
    PROVE  \E e \in batch : \E ws :
              /\ Handle(e, ws)
              /\ \A i \in DOMAIN ws : SavedBy(e, ws[i])
              /\ faults' = faults => Finishes(e, ws)
<1>. DEFINE Fine(e, ws) == /\ Handle(e, ws)
                           /\ \A i \in DOMAIN ws : SavedBy(e, ws[i])
                           /\ faults' = faults => Finishes(e, ws)
<1>. SUFFICES \E e \in batch : \E ws : Fine(e, ws)
  OBVIOUS
<1>. PICK e \in batch :
        \/ TokenNetworkCreated(e) \/ ChannelOpened(e) \/ ChannelUnknown(e) \/ ChannelClosed(e)
        \/ NonClosingBalanceProofUpdated(e) \/ ChannelSettled(e) \/ MonitorNewBalanceProof(e)
        \/ MonitorRewardClaimed(e) \/ HandlerFails(e)
  BY DEF HandleEvent, EventLost
<1>0. /\ e.type # "created" /\ channel[e.on] # NoRow => channel[e.on] \in ChannelRows
      /\ faults \in Nat /\ now \in Nat /\ e.block \in Nat
  BY EventFacts, Numbers DEF IInv
<1>w. ASSUME NEW row
      PROVE  /\ UpsertChannel(e.on, row).op = "channel" /\ UpsertChannel(e.on, row).ch = e.on
             /\ UpsertChannel(e.on, row).row = row
  BY DEF UpsertChannel
<1>u. ASSUME NEW s
      PROVE  UpsertScheduledEvent(s).op = "schedule" /\ UpsertScheduledEvent(s).ev = s
  BY DEF UpsertScheduledEvent
<1>1. ASSUME NEW w, SavedBy(e, w), Handle(e, <<w>>), faults' = faults => Finishes(e, <<w>>)
      PROVE  \E ws : Fine(e, ws)
  BY <1>1
<1>2. ASSUME Handle(e, <<>>), faults' = faults => Finishes(e, <<>>)
      PROVE  \E ws : Fine(e, ws)
  BY <1>2
<1>3. CASE TokenNetworkCreated(e)
  <2>. DEFINE w == UpsertTokenNetwork(e.on)
  <2>1. SavedBy(e, w)
    BY DEF SavedBy, UpsertTokenNetwork
  <2>2. Handle(e, <<w>>) /\ e.type = "created"
    BY <1>3 DEF TokenNetworkCreated
  <2>3. Finishes(e, <<w>>)
    BY <2>2 DEF Finishes, OurClaim
  <2>. HIDE DEF w
  <2>. QED
    BY <1>1, <2>1, <2>2, <2>3
<1>4. CASE ChannelOpened(e)
  <2>. DEFINE w == UpsertChannel(e.on, FreshRow)
  <2>1. Handle(e, <<w>>) /\ e.type = "opened"
    BY <1>4 DEF ChannelOpened
  <2>2. SavedBy(e, w) /\ w.op = "channel"
    BY <1>w, <2>1 DEF SavedBy, SavedRow
  <2>. HIDE DEF w
  <2>3. Finishes(e, <<w>>)
    BY <2>1, <2>2 DEF Finishes, OurClaim
  <2>. QED
    BY <1>1, <2>1, <2>2, <2>3
<1>5. CASE ChannelUnknown(e) \/ MonitorRewardClaimed(e)
  BY <1>2, <1>5 DEF ChannelUnknown, MonitorRewardClaimed, Finishes, OurClaim
<1>c. ASSUME e.type = "closed", channel[e.on] # NoRow
      PROVE  /\ SavedBy(e, UpsertScheduledEvent(MonitorEvent(e)))
             /\ SavedBy(e, UpsertChannel(e.on, ClosedRow(e)))
             /\ \/ /\ ClosedStatements(e) = <<UpsertChannel(e.on, ClosedRow(e))>>
                   /\ ~(Clock <= e.block + SettleTimeout)
                \/ ClosedStatements(e) = <<UpsertScheduledEvent(MonitorEvent(e)), UpsertChannel(e.on, ClosedRow(e))>>
  <2>. DEFINE u == UpsertScheduledEvent(MonitorEvent(e))
              w == UpsertChannel(e.on, ClosedRow(e))
  <2>1. SavedBy(e, u)
    BY <1>u, <1>c DEF SavedBy, NewlyScheduled
  <2>2. SavedBy(e, w)
    <3>1. SavedRow(e, ClosedRow(e))
      BY <1>0, <1>c DEF SavedRow, ClosedRow, ChannelRows
    <3>. QED
      BY <1>w, <3>1 DEF SavedBy
  <2>3. /\ \/ ClosedStatements(e) = <<>> \o <<w>> /\ e.block + SettleTimeout < Clock
           \/ ClosedStatements(e) = <<u>> \o <<w>>
        /\ u \in {u, w} /\ w \in {u, w}
    BY DEF ClosedStatements
  <2>4. e.block + SettleTimeout < Clock => ~(Clock <= e.block + SettleTimeout)
    BY <1>0, ChainConstants, ServiceConstants DEF Clock
  <2>. HIDE DEF u, w
  <2>5. <<>> \o <<w>> = <<w>> /\ <<u>> \o <<w>> = <<u, w>>
    BY <2>3, Joined
  <2>6. \/ ClosedStatements(e) = <<w>> /\ ~(Clock <= e.block + SettleTimeout)
        \/ ClosedStatements(e) = <<u, w>>
    BY <2>3, <2>4, <2>5
  <2>. QED
    BY <2>1, <2>2, <2>6 DEF u, w
<1>6. CASE ChannelClosed(e)
  <2>. DEFINE u == UpsertScheduledEvent(MonitorEvent(e))
              w == UpsertChannel(e.on, ClosedRow(e))
              ws == ClosedStatements(e)
  <2>1. e.type = "closed" /\ channel[e.on] # NoRow /\ Handle(e, ws)
    BY <1>6 DEF ChannelClosed
  <2>2. SavedBy(e, u) /\ SavedBy(e, w) /\ w.op = "channel"
    BY <1>c, <1>w, <2>1
  <2>3. (ws = <<w>> /\ ~(Clock <= e.block + SettleTimeout)) \/ ws = <<u, w>>
    BY <1>c, <2>1
  <2>. HIDE DEF ws
  <2>5. ~OurClaim(e)
    BY <2>1 DEF OurClaim
  <2>6. ASSUME NEW v, v = u
        PROVE  /\ \A i \in DOMAIN ws : SavedBy(e, ws[i])
               /\ \E i \in DOMAIN ws : ws[i].op = "channel"
               /\ Clock <= e.block + SettleTimeout => \E i \in DOMAIN ws : ws[i] = v
    <3>. HIDE DEF u, w
    <3>. QED
      BY <2>2, <2>3, <2>6
  <2>7. Finishes(e, ws)
    <3>1. \E i \in DOMAIN ws : ws[i].op = "channel"
      BY <2>6
    <3>2. Clock <= e.block + SettleTimeout => \E i \in DOMAIN ws : ws[i] = UpsertScheduledEvent(MonitorEvent(e))
      BY <2>6
    <3>. QED
      BY <2>1, <2>5, <3>1, <3>2 DEF Finishes
  <2>. HIDE DEF u, w
  <2>. QED
    BY <2>1, <2>6, <2>7
<1>7. CASE NonClosingBalanceProofUpdated(e)
  <2>. DEFINE row == UpdatedRow(channel[e.on], e.nonce, Other(e.who))
              w == UpsertChannel(e.on, row)
  <2>1. e.type = "updated" /\ channel[e.on] # NoRow /\ (Handle(e, <<>>) \/ Handle(e, <<w>>))
    BY <1>7 DEF NonClosingBalanceProofUpdated
  <2>2. SavedRow(e, row)
    BY <1>0, <2>1 DEF SavedRow, UpdatedRow, ChannelRows
  <2>3. SavedBy(e, w)
    BY <1>w, <2>2 DEF SavedBy
  <2>4. \A ws : Finishes(e, ws)
    BY <2>1 DEF Finishes, OurClaim
  <2>. HIDE DEF w
  <2>. QED
    BY <1>1, <1>2, <2>1, <2>3, <2>4
<1>8. CASE ChannelSettled(e)
  <2>. DEFINE row == [channel[e.on] EXCEPT !.state = "SETTLED"]
              w == UpsertChannel(e.on, row)
  <2>1. e.type = "settled" /\ channel[e.on] # NoRow /\ Handle(e, <<w>>)
    BY <1>8 DEF ChannelSettled
  <2>2. SavedRow(e, row)
    BY <1>0, <2>1 DEF SavedRow, ChannelRows
  <2>3. SavedBy(e, w)
    BY <1>w, <2>2 DEF SavedBy
  <2>4. \A ws : Finishes(e, ws)
    BY <2>1 DEF Finishes, OurClaim
  <2>. HIDE DEF w
  <2>. QED
    BY <1>1, <2>1, <2>3, <2>4
<1>m. ASSUME e.type = "monitored", channel[e.on] # NoRow, ~MonitorIgnored(e)
      PROVE  LET w == UpsertChannel(e.on, UpdatedRow(channel[e.on], e.nonce, e.who))
                 u == UpsertScheduledEvent(ClaimEvent(e.on, channel[e.on].closing_block))
             IN  /\ SavedBy(e, w)
                 /\ ~OurClaim(e) => MonitoredStatements(e) = <<w>>
                 /\ OurClaim(e) => MonitoredStatements(e) = <<w, u>> /\ SavedBy(e, u)
  <2>. DEFINE row == UpdatedRow(channel[e.on], e.nonce, e.who)
              u == UpsertScheduledEvent(ClaimEvent(e.on, channel[e.on].closing_block))
              w == UpsertChannel(e.on, row)
  <2>1. SavedRow(e, row) /\ row.closing_block = channel[e.on].closing_block
    BY <1>0, <1>m DEF SavedRow, UpdatedRow, ChannelRows
  <2>2. SavedBy(e, w)
    BY <1>w, <2>1 DEF SavedBy
  <2>3. OurClaim(e) => SavedBy(e, u)
    BY <1>u DEF SavedBy, NewlyScheduled
  <2>4. /\ ~OurClaim(e) => MonitoredStatements(e) = <<w>> \o <<>>
        /\ OurClaim(e) => MonitoredStatements(e) = <<w>> \o <<u>>
        /\ u \in {u, w} /\ w \in {u, w}
    BY <1>m, <2>1 DEF MonitoredStatements, OurClaim
  <2>. HIDE DEF u, w
  <2>5. <<w>> \o <<>> = <<w>> /\ <<w>> \o <<u>> = <<w, u>>
    BY <2>4, Joined
  <2>6. /\ ~OurClaim(e) => MonitoredStatements(e) = <<w>>
        /\ OurClaim(e) => MonitoredStatements(e) = <<w, u>>
    BY <2>4, <2>5
  <2>. QED
    BY <2>2, <2>3, <2>6 DEF u, w
<1>9. CASE MonitorNewBalanceProof(e)
  <2>1. e.type = "monitored" /\ channel[e.on] # NoRow /\ Handle(e, MonitoredStatements(e))
    BY <1>9 DEF MonitorNewBalanceProof
  <2>2. CASE MonitorIgnored(e)
    <3>1. MonitoredStatements(e) = <<>>
      BY <2>2 DEF MonitoredStatements
    <3>2. Finishes(e, <<>>)
      BY <2>1, <2>2 DEF Finishes, OurClaim
    <3>. QED
      BY <1>2, <2>1, <3>1, <3>2
  <2>3. CASE ~MonitorIgnored(e)
    <3>. DEFINE w == UpsertChannel(e.on, UpdatedRow(channel[e.on], e.nonce, e.who))
                u == UpsertScheduledEvent(ClaimEvent(e.on, channel[e.on].closing_block))
                ws == MonitoredStatements(e)
    <3>1. /\ SavedBy(e, w)
          /\ ~OurClaim(e) => ws = <<w>>
          /\ OurClaim(e) => ws = <<w, u>> /\ SavedBy(e, u)
      BY <1>m, <2>1, <2>3
    <3>. HIDE DEF ws
    <3>2. ASSUME NEW v, v = u
          PROVE  /\ \A i \in DOMAIN ws : SavedBy(e, ws[i])
                 /\ OurClaim(e) => \E i \in DOMAIN ws : ws[i] = v
      <4>. HIDE DEF u, w
      <4>. QED
        BY <3>1, <3>2
    <3>3. Finishes(e, ws)
      BY <2>1, <3>2 DEF Finishes
    <3>. HIDE DEF u, w
    <3>. QED
      BY <2>1, <3>2, <3>3 DEF ws
  <2>. QED
    BY <2>2, <2>3
<1>10. CASE HandlerFails(e)
  <2>1. faults' # faults
    BY <1>0, <1>10 DEF HandlerFails
  <2>2. CASE Handle(e, <<>>)
    BY <1>2, <2>1, <2>2
  <2>3. CASE /\ e.type = "closed" /\ channel[e.on] # NoRow
             /\ Handle(e, <<Head(ClosedStatements(e))>>)
    <3>. DEFINE u == UpsertScheduledEvent(MonitorEvent(e))
                w == UpsertChannel(e.on, ClosedRow(e))
    <3>1. /\ SavedBy(e, u) /\ SavedBy(e, w)
          /\ ClosedStatements(e) = <<w>> \/ ClosedStatements(e) = <<u, w>>
      BY <1>c, <2>3
    <3>. HIDE DEF u, w
    <3>2. Head(ClosedStatements(e)) \in {u, w}
      BY <3>1
    <3>. QED
      BY <1>1, <2>1, <2>3, <3>1, <3>2
  <2>4. CASE /\ e.type = "monitored" /\ channel[e.on] # NoRow
             /\ Len(MonitoredStatements(e)) = 2
             /\ Handle(e, <<Head(MonitoredStatements(e))>>)
    <3>. DEFINE w == UpsertChannel(e.on, UpdatedRow(channel[e.on], e.nonce, e.who))
                u == UpsertScheduledEvent(ClaimEvent(e.on, channel[e.on].closing_block))
    <3>1. ~MonitorIgnored(e)
      BY <2>4 DEF MonitoredStatements
    <3>2. /\ SavedBy(e, w)
          /\ MonitoredStatements(e) = <<w>> \/ MonitoredStatements(e) = <<w, u>>
      BY <1>m, <2>4, <3>1
    <3>. HIDE DEF u, w
    <3>3. Head(MonitoredStatements(e)) = w
      BY <3>2
    <3>. QED
      BY <1>1, <2>1, <2>4, <3>2, <3>3
  <2>. QED
    BY <1>10, <2>2, <2>3, <2>4 DEF HandlerFails
<1>. HIDE DEF Fine
<1>. QED
  BY <1>3, <1>4, <1>5, <1>6, <1>7, <1>8, <1>9, <1>10

\* The chain changes no transaction but for its block, and a deposit to one of
\* those the participant may have.
LEMMA TxsAndDeposits ==
    ASSUME ChainTypeOK, OnChain
    PROVE  /\ DOMAIN txs' = DOMAIN txs
           /\ \A i \in DOMAIN txs : /\ txs'[i].type = txs[i].type /\ txs'[i].ch = txs[i].ch
                                    /\ txs'[i].nonce = txs[i].nonce
           /\ \A p \in Participants :
                 /\ udc'[p].confirmed \in {udc[p].confirmed, udc[p].latest}
                 /\ udc'[p].latest \in {udc[p].latest} \cup Balances[p]
<1>t. /\ txs \in [1 .. Len(txs) -> Transactions] /\ DOMAIN txs = 1 .. Len(txs)
      /\ udc \in [Participants -> [confirmed : Nat, latest : Nat]]
  BY LenProperties DEF ChainTypeOK
<1>1. txs' = txs \/ \E i \in DOMAIN txs : Mined(i)
  BY DEF OnChain, ChainTransaction, MineTx, NewBlock, OpenChannel, CloseChannel, UpdateNonClosing,
         MonitorByOther, SettleChannel, ChangeBalance, ConfirmBalance, MineMonitor, MineClaim,
         MineReverted
<1>2. /\ DOMAIN txs' = DOMAIN txs
      /\ \A i \in DOMAIN txs : /\ txs'[i].type = txs[i].type /\ txs'[i].ch = txs[i].ch
                               /\ txs'[i].nonce = txs[i].nonce
  <2>1. ASSUME NEW i \in DOMAIN txs, Mined(i)
        PROVE  /\ DOMAIN txs' = DOMAIN txs
               /\ \A j \in DOMAIN txs : /\ txs'[j].type = txs[j].type /\ txs'[j].ch = txs[j].ch
                                        /\ txs'[j].nonce = txs[j].nonce
    BY <1>t, <2>1 DEF Mined, Transactions
  <2>. QED
    BY <1>1, <2>1
<1>3. \/ udc' = udc
      \/ \E p \in Participants : (\E b \in Balances[p] : ChangeBalance(p, b)) \/ ConfirmBalance(p)
  BY DEF OnChain, ChainTransaction, MineTx, NewBlock, OpenChannel, CloseChannel, UpdateNonClosing,
         MonitorByOther, SettleChannel, MineMonitor, MineClaim, MineReverted
<1>4. ASSUME NEW q \in Participants, (\E b \in Balances[q] : ChangeBalance(q, b)) \/ ConfirmBalance(q),
             NEW p \in Participants
      PROVE  /\ udc'[p].confirmed \in {udc[p].confirmed, udc[p].latest}
             /\ udc'[p].latest \in {udc[p].latest} \cup Balances[p]
  BY <1>t, <1>4 DEF ChangeBalance, ConfirmBalance
<1>. QED
  BY <1>2, <1>3, <1>4

\* A transaction is sent for a triggered event, and to monitor only for a
\* request.
LEMMA ActionSends ==
    ASSUME IInv, NEW s \in triggered, Acts(s)
    PROVE  \/ txs' = txs
           \/ \E tx : /\ txs' = Append(txs, tx) /\ tx.ch = s.ch
                      /\ tx.type = "monitor" => s.type = "monitor" /\ Request(s) # NoRequest
<1>. DEFINE Goal == \E tx : /\ txs' = Append(txs, tx) /\ tx.ch = s.ch
                            /\ tx.type = "monitor" => s.type = "monitor" /\ Request(s) # NoRequest
<1>1. ASSUME MayMonitor(s), txs' = Append(txs, MonitorTx(s))
      PROVE  Goal
  <2>1. MonitorTx(s).ch = s.ch /\ s.type = "monitor" /\ Request(s) # NoRequest
    BY <1>1 DEF MonitorTx, MayMonitor, WorthMonitoring
  <2>. QED
    BY <1>1, <2>1
<1>2. ASSUME txs' = Append(txs, ClaimTx(s))
      PROVE  Goal
  <2>1. ClaimTx(s).ch = s.ch /\ ClaimTx(s).type = "claim"
    BY DEF ClaimTx
  <2>. QED
    BY <1>2, <2>1
<1>3. MonitorDropped(s) \/ MonitorRescheduled(s) \/ ClaimDropped(s) => txs' = txs
  BY DEF MonitorDropped, MonitorRescheduled, ClaimDropped
<1>4. MonitorSent(s) => MayMonitor(s) /\ txs' = Append(txs, MonitorTx(s))
  BY DEF MonitorSent, Send
<1>5. ClaimSent(s) => txs' = Append(txs, ClaimTx(s))
  BY DEF ClaimSent, Send
<1>6. ActionFails(s) => \/ txs' = txs
                        \/ MayMonitor(s) /\ txs' = Append(txs, MonitorTx(s))
                        \/ txs' = Append(txs, ClaimTx(s))
  BY DEF ActionFails
<1>. HIDE DEF Goal
<1>7. txs' = txs \/ Goal
  BY <1>1, <1>2, <1>3, <1>4, <1>5, <1>6 DEF Acts
<1>. QED
  BY <1>7 DEF Goal

\* The transactions only change when one is sent or mined.
LEMMA TxsElsewhere ==
    ASSUME IInv, [Next]_vars, ~OnChain, ~\E s \in triggered : Acts(s)
    PROVE  UNCHANGED txs
<1>0. TypeOK
  BY DEF IInv
<1>1. MovesOn \/ GetBlockchainEvents \/ UpdatedHeadBlock \/ UpdatedHeadBlockFails \/ CrashAndRestart
      => UNCHANGED txs
  BY DEF MovesOn, GetBlockchainEvents, UpdatedHeadBlock, UpdatedHeadBlockFails, CrashAndRestart,
         ProcessVars, cvars
<1>2. ExecuteStatement => UNCHANGED txs
  BY <1>0, StatementEffect DEF cvars
<1>3. HandleEvent \/ EventLost => UNCHANGED txs
  BY HandlerWrites DEF Handle, ProcessVars, cvars
<1>. QED
  BY <1>0, <1>1, <1>2, <1>3, Kinds

\* Every step keeps what holds of the requests.
LEMMA RequestStep ==
    ASSUME IInv, IInv', OrderInv, RequestInv, EventsInv, [Next]_vars
    PROVE  RequestInv'
<1>0. TypeOK /\ ChainTypeOK
  BY DEF IInv, TypeOK
<1>t. /\ txs \in Seq(Transactions) /\ \A i \in DOMAIN txs : txs[i].ch \in Channels
      /\ \A e \in log : e.type = "monitored" => e.on \in Channels
      /\ \A s \in triggered : s.ch \in Channels /\ s.who \in Participants
  <2>1. txs \in [1 .. Len(txs) -> Transactions]
    BY <1>0, LenProperties DEF ChainTypeOK
  <2>. QED
    BY <1>0, <2>1 DEF ChainTypeOK, Transactions, Events, MSCEvents, TokenNetworkEvents, TypeOK,
           LoopTypeOK, ScheduledEvents
<1>1. ASSUME NEW c \in Channels, NEW p \in Participants, monitor_request'[<<c, p>>] # NoRequest
      PROVE  \E mr \in Requests : mr.who = p /\ mr.reward = monitor_request'[<<c, p>>].reward
  <2>1. CASE UNCHANGED monitor_request
    BY <1>1, <2>1 DEF RequestInv
  <2>2. ASSUME NEW mr \in Requests, OnMonitorRequest(mr)
        PROVE  \E q \in Requests : q.who = p /\ q.reward = monitor_request'[<<c, p>>].reward
    <3>. DEFINE r == [nonce |-> mr.nonce, signer |-> mr.signer, reward |-> mr.reward, saved_at |-> Clock]
                k == <<c, p>>
    <3>1. r.reward = mr.reward
      OBVIOUS
    <3>2. monitor_request' = [monitor_request EXCEPT ![<<mr.ch, mr.who>>] = r]
      BY <2>2 DEF OnMonitorRequest
    <3>3. /\ monitor_request \in [Channels \X Participants -> StoredRequests \cup {NoRequest}]
          /\ k \in Channels \X Participants
      BY <1>0 DEF TypeOK, DatabaseTypeOK
    <3>. HIDE DEF r
    <3>4. CASE k = <<mr.ch, mr.who>>
      BY <3>1, <3>2, <3>3, <3>4
    <3>5. CASE k # <<mr.ch, mr.who>>
      <4>1. monitor_request'[k] = monitor_request[k]
        BY <3>2, <3>3, <3>5
      <4>. QED
        BY <1>1, <4>1 DEF RequestInv
    <3>. QED
      BY <3>4, <3>5
  <2>. QED
    BY <1>0, <2>1, <2>2, RequestsStay
<1>2. ASSUME NEW p \in Participants
      PROVE  udc'[p].confirmed \in Balances[p] /\ udc'[p].latest \in Balances[p]
  <2>1. CASE OnChain
    BY <1>0, <2>1, TxsAndDeposits DEF RequestInv
  <2>2. CASE ~OnChain
    BY <2>2, OffChain DEF RequestInv
  <2>. QED
    BY <2>1, <2>2
<1>3. ASSUME NEW i \in DOMAIN txs', txs'[i].type = "monitor", NEW d, d = txs'[i].ch
      PROVE  Requested(d)'
  <2>1. CASE i \in DOMAIN txs /\ txs'[i].type = txs[i].type /\ txs'[i].ch = txs[i].ch
    <3>1. Requested(d) /\ d \in Channels
      BY <1>3, <1>t, <2>1 DEF RequestInv
    <3>. QED
      BY <3>1, RequestedStays
  <2>2. CASE OnChain \/ txs' = txs
    BY <1>0, <1>3, <2>1, <2>2, TxsAndDeposits
  <2>3. ASSUME NEW s \in triggered, Acts(s)
        PROVE  Requested(d)'
    <3>1. CASE txs' = txs
      BY <2>2, <3>1
    <3>2. ASSUME NEW tx, txs' = Append(txs, tx), tx.ch = s.ch,
                 tx.type = "monitor" => s.type = "monitor" /\ Request(s) # NoRequest
          PROVE  Requested(d)'
      <4>1. /\ Len(txs) \in Nat /\ DOMAIN txs = 1 .. Len(txs) /\ DOMAIN txs' = 1 .. Len(txs) + 1
            /\ \A j \in DOMAIN txs : txs'[j] = txs[j]
            /\ txs'[Len(txs) + 1] = tx
        <5>1. Len(txs) \in Nat /\ DOMAIN txs = 1 .. Len(txs) /\ \A j \in 1 .. Len(txs) : Append(txs, tx)[j] = txs[j]
              /\ Append(txs, tx)[Len(txs) + 1] = tx /\ DOMAIN Append(txs, tx) = 1 .. Len(txs) + 1
          BY <1>t, LenProperties, AppendProperties
        <5>. QED
          BY <3>2, <5>1
      <4>2. CASE i \in DOMAIN txs
        BY <2>1, <4>1, <4>2
      <4>3. CASE i = Len(txs) + 1
        <5>1. txs'[i] = tx /\ Request(s) # NoRequest
          BY <1>3, <3>2, <4>1, <4>3
        <5>2. WellTimed(s)
          BY DEF EventsInv, KnownEvents
        <5>3. Requested(s.ch)
          BY <5>1, <5>2 DEF WellTimed, Requested, Request
        <5>4. s.ch = d /\ d \in Channels
          BY <1>t, <1>3, <3>2, <5>1
        <5>. QED
          BY <5>3, <5>4, RequestedStays
      <4>. QED
        BY <4>1, <4>2, <4>3
    <3>. QED
      BY <2>3, <3>1, <3>2, ActionSends
  <2>. QED
    BY <2>2, <2>3, TxsElsewhere
<1>4. ASSUME NEW e \in log', e.type = "monitored", e.who = Us
      PROVE  Requested(e.on)'
  <2>1. CASE e \in log
    <3>1. Requested(e.on) /\ e.on \in Channels
      BY <1>t, <1>4, <2>1 DEF RequestInv
    <3>. QED
      BY <3>1, RequestedStays
  <2>2. CASE e \notin log
    <3>1. OnChain
      BY <2>2, OffChain
    <3>2. PICK c \in Channels : ChannelMoves(c)
      BY <1>0, <2>2, <3>1, ChainEffect
    <3>3. ASSUME NEW f, ByOneEvent(c, f)
          PROVE  FALSE
      BY <1>4, <2>2, <3>3 DEF ByOneEvent, EventIs
    <3>4. PICK f, g : ByMonitoring(c, f, g)
      BY <3>2, <3>3 DEF ChannelMoves
    <3>5. e = g /\ e.on = c
      BY <1>4, <2>2, <3>4 DEF ByMonitoring, EventIs
    <3>6. \E i \in DOMAIN txs : txs[i].type = "monitor" /\ txs[i].ch = c
      BY <1>4, <3>4, <3>5 DEF ByMonitoring
    <3>7. Requested(c)
      BY <3>6 DEF RequestInv
    <3>8. Requested(c)'
      BY <3>7, RequestedStays
    <3>. QED
      BY <3>5, <3>8
  <2>. QED
    BY <2>1, <2>2
<1>5. (\A i \in DOMAIN txs : txs[i].type = "monitor" => Requested(txs[i].ch))'
  BY <1>3 DEF Requested, IsClosed
<1>6. (\A e \in log : e.type = "monitored" /\ e.who = Us => Requested(e.on))'
  BY <1>4
<1>7. (\A c \in Channels, p \in Participants : monitor_request[<<c, p>>] # NoRequest =>
          \E mr \in Requests : mr.who = p /\ mr.reward = monitor_request[<<c, p>>].reward)'
  BY <1>1
<1>8. (\A p \in Participants : udc[p].confirmed \in Balances[p] /\ udc[p].latest \in Balances[p])'
  BY <1>2
<1>. QED
  BY <1>5, <1>6, <1>7, <1>8 DEF RequestInv

\* Acting on a triggered event removes it, and schedules it again only when
\* the deposit is too low.
LEMMA ActionEvents ==
    ASSUME IInv, NEW s \in triggered, Acts(s)
    PROVE  /\ Written("unschedule")' = {s}
           /\ ~MonitorRescheduled(s) => Written("schedule")' = {}
           /\ Written("schedule")' \subseteq {[s EXCEPT !.at = Clock]}
<1>. DEFINE v == RemoveScheduledEvent(s)
            a == AddWaitingTransaction(Len(txs) + 1)
            t == [s EXCEPT !.at = Clock]
            u == UpsertScheduledEvent(t)
<1>v. /\ v.op = "unschedule" /\ v.ev = s /\ a.op = "waiting" /\ u.op = "schedule" /\ u.ev = t
      /\ \A ch, row : UpsertChannel(ch, row).op = "channel"
  BY DEF RemoveScheduledEvent, AddWaitingTransaction, UpsertScheduledEvent, UpsertChannel
<1>1. Nothing(s) \/ PutOff(s) \/ SentMonitor(s) \/ SentClaim(s) \/ SentOnly(s)
  BY ActionWrites
<1>2. CASE Nothing(s) \/ SentMonitor(s) \/ SentClaim(s) \/ SentOnly(s)
  <2>1. \/ writes' = <<v>> \/ writes' = <<a, v>>
        \/ \E ch, row : writes' = <<a, UpsertChannel(ch, row), v>>
    BY <1>2 DEF Nothing, SentMonitor, SentClaim, SentOnly, Sent, Removal
  <2>2. \E w : /\ w.op = "channel"
               /\ writes' = <<v>> \/ writes' = <<a, v>> \/ writes' = <<a, w, v>>
    <3>1. CASE \E ch, row : writes' = <<a, UpsertChannel(ch, row), v>>
      BY <1>v, <3>1
    <3>2. CASE writes' = <<v>> \/ writes' = <<a, v>>
      <4>1. UpsertChannel(0, 0).op = "channel"
        BY <1>v
      <4>. QED
        BY <3>2, <4>1
    <3>. QED
      BY <2>1, <3>1, <3>2
  <2>. HIDE DEF v, a, u, t
  <2>3. PICK w : /\ w.op = "channel"
                 /\ writes' = <<v>> \/ writes' = <<a, v>> \/ writes' = <<a, w, v>>
    BY <2>2
  <2>4. /\ \A i \in DOMAIN writes' : writes'[i] \in {a, w, v}
        /\ \E i \in DOMAIN writes' : writes'[i] = v
    BY <2>3
  <2>. QED
    BY <1>v, <2>3, <2>4 DEF Written
<1>3. CASE PutOff(s)
  <2>1. writes' = <<u, v>> /\ s.type = "monitor"
    BY <1>3 DEF PutOff
  <2>2. MonitorRescheduled(s) \/ Written("schedule")' = {}
    <3>1. MonitorDropped(s) \/ ClaimDropped(s) \/ ActionFails(s) \/ MonitorSent(s) \/ ClaimSent(s)
          => writes'[1] # u \/ Len(writes') # 2
      <4>1. ASSUME NEW ws, Done(s, ws)
            PROVE  writes' = ws \o <<v>>
        BY <4>1 DEF Done
      <4>. HIDE DEF v, u, t
      <4>2. <<>> \o <<v>> = <<v>> /\ <<a>> \o <<v>> = <<a, v>>
            /\ \A w : <<a, w>> \o <<v>> = <<a, w, v>>
        <5>1. ASSUME NEW w
              PROVE  /\ <<>> \o <<v>> = <<v>> /\ <<a>> \o <<v>> = <<a, v>>
                     /\ <<a, w>> \o <<v>> = <<a, w, v>>
          <6>1. a \in {a, w, v} /\ w \in {a, w, v} /\ v \in {a, w, v}
            OBVIOUS
          <6>. QED
            BY <6>1, Joined
        <5>. QED
          BY <5>1
      <4>3. ASSUME Done(s, <<>>)
            PROVE  Len(writes') # 2
        BY <4>1, <4>2, <4>3
      <4>4. ASSUME NEW w, Done(s, <<a, w>>)
            PROVE  Len(writes') # 2
        BY <4>1, <4>2, <4>4
      <4>5. ASSUME Done(s, <<a>>)
            PROVE  writes'[1] # u
        BY <1>v, <4>1, <4>2, <4>5
      <4>6. MonitorDropped(s) \/ ClaimDropped(s) => Done(s, <<>>)
        BY DEF MonitorDropped, ClaimDropped
      <4>7. ActionFails(s) => Done(s, <<>>) \/ Done(s, <<a>>)
        BY DEF ActionFails
      <4>8. MonitorSent(s) \/ ClaimSent(s) => \E w : Done(s, <<a, w>>)
        BY DEF MonitorSent, ClaimSent, Send
      <4>. QED
        BY <4>3, <4>4, <4>5, <4>6, <4>7, <4>8
    <3>. HIDE DEF v, u
    <3>2. writes'[1] = u /\ Len(writes') = 2
      BY <2>1
    <3>. QED
      BY <3>1, <3>2 DEF Acts
  <2>. HIDE DEF v, u, t
  <2>3. /\ \A i \in DOMAIN writes' : writes'[i] \in {u, v}
        /\ \E i \in DOMAIN writes' : writes'[i] = v
        /\ \E i \in DOMAIN writes' : writes'[i] = u
    BY <2>1
  <2>4. Written("unschedule")' = {s} /\ Written("schedule")' = {t}
    BY <1>v, <2>3 DEF Written
  <2>. QED
    BY <2>2, <2>4 DEF t
<1>. QED
  BY <1>1, <1>2, <1>3

\* When the deposits cover the rewards, no check is put off.
LEMMA NeverPutOff ==
    ASSUME IInv, RequestInv, RewardsCovered, NEW s \in triggered
    PROVE  ~MonitorRescheduled(s)
<1>. SUFFICES ASSUME MonitorRescheduled(s)
              PROVE  FALSE
  OBVIOUS
<1>1. s.ch \in Channels /\ s.who \in Participants
  BY DEF IInv, TypeOK, LoopTypeOK, ScheduledEvents
<1>2. Request(s) # NoRequest /\ ~DepositSuffices(s)
  BY DEF MonitorRescheduled, WorthMonitoring
<1>3. PICK mr \in Requests : mr.who = s.who /\ mr.reward = Request(s).reward
  BY <1>1, <1>2 DEF RequestInv, Request
<1>4. \A b \in Balances[s.who] : b * 10 >= Request(s).reward * 11
  BY <1>3 DEF RewardsCovered
<1>5. udc[s.who].confirmed \in Balances[s.who] /\ udc[s.who].latest \in Balances[s.who]
  BY <1>1 DEF RequestInv
<1>. QED
  BY <1>2, <1>4, <1>5 DEF DepositSuffices

\* What is scheduled stays as it should.
LEMMA WellTimedStays ==
    ASSUME IInv, OrderInv, [Next]_vars, NEW s \in ScheduledEvents, WellTimed(s)
    PROVE  WellTimed(s)'
<1>1. s.ch \in Channels /\ IsClosed(s.ch)
  BY DEF ScheduledEvents, WellTimed
<1>2. IsClosed(s.ch)' /\ Lasting(s.ch)
  BY <1>1, ClosedForEver
<1>3. Requested(s.ch) => Requested(s.ch)'
  BY <1>1, RequestedStays
<1>. QED
  BY <1>2, <1>3 DEF WellTimed, Lasting, SettleableAfter, FirstAllowedToMonitor

\* The events a handler schedules are well-timed.
LEMMA NewWellTimed ==
    ASSUME IInv, OrderInv, CloseInv, RequestInv, ClosingInv, NEW e \in batch, NEW s, NewlyScheduled(e, s)
    PROVE  s \in ScheduledEvents /\ WellTimed(s)
<1>0. /\ TypeOK /\ e \in log /\ e.type \in {"closed", "monitored"} /\ e.on \in Channels
      /\ chain \in [Channels -> ChannelOnChain] /\ channel[e.on] # NoRow
      /\ e.type # "created"
  BY EventFacts DEF NewlyScheduled, OurClaim, IInv, NonceInv, TypeOK, ChainTypeOK
<1>1. IsClosed(e.on) /\ chain[e.on].closer \in Participants /\ chain[e.on].closedAt \in Nat
  BY <1>0 DEF OrderInv, IsClosed, ChannelOnChain
<1>2. CASE e.type = "closed" /\ s = MonitorEvent(e)
  <2>1. e.who = chain[e.on].closer
    BY <1>0, <1>2 DEF CloseInv
  <2>2. s.type = "monitor" /\ s.ch = e.on /\ s.who = Other(e.who) /\ s.at = FirstAllowedToMonitor(e.on)
    BY <1>2 DEF MonitorEvent
  <2>3. s \in ScheduledEvents
    BY <1>0, <1>1, <1>2, ChainConstants DEF ScheduledEvents, MonitorEvent, Other, Participants, FirstAllowedToMonitor
  <2>. QED
    BY <1>1, <2>1, <2>2, <2>3 DEF WellTimed
<1>3. CASE OurClaim(e) /\ s = ClaimEvent(e.on, channel[e.on].closing_block)
  <2>1. channel[e.on].closing_block = chain[e.on].closedAt
    BY <1>0, <1>3 DEF ClosingInv, ClosingAt, RowClosed, OurClaim
  <2>2. s.type = "claim" /\ s.ch = e.on /\ s.who = Other(chain[e.on].closer) /\ s.at = SettleableAfter(e.on)
    BY <1>3, <2>1 DEF ClaimEvent, SettleableAfter
  <2>3. s \in ScheduledEvents
    BY <1>0, <1>1, <1>3, <2>1, ChainConstants DEF ScheduledEvents, ClaimEvent, Other, Participants
  <2>4. Requested(e.on)
    BY <1>0, <1>3 DEF RequestInv, OurClaim
  <2>. QED
    BY <1>1, <2>2, <2>3, <2>4 DEF WellTimed
<1>. QED
  BY <1>2, <1>3 DEF NewlyScheduled

\* The events known are well-formed.
LEMMA KnownTypes ==
    ASSUME TypeOK
    PROVE  KnownEvents \subseteq ScheduledEvents
<1>1. \A i \in DOMAIN writes : writes[i] \in Writes
  BY Numbers
<1>2. Written("schedule") \cup Written("unschedule") \subseteq ScheduledEvents
  BY <1>1 DEF Written, Writes
<1>. QED
  BY <1>2 DEF KnownEvents, TypeOK, DatabaseTypeOK, LoopTypeOK

\* An event becomes known only when a handler schedules it, or schedules it
\* again.
LEMMA KnownAfter ==
    ASSUME IInv, [Next]_vars, NEW s \in KnownEvents'
    PROVE  \/ s \in KnownEvents
           \/ \E e \in batch : NewlyScheduled(e, s)
           \/ \E a \in triggered : MonitorRescheduled(a) /\ s = [a EXCEPT !.at = Clock]
<1>0. TypeOK
  BY DEF IInv
<1>1. CASE MovesOn \/ OnChain
  <2>1. /\ UNCHANGED <<writes, scheduled_events>> /\ triggered' \subseteq triggered \cup scheduled_events
    BY <1>1 DEF MovesOn, OnChain, dbvars
  <2>. QED
    BY <2>1 DEF KnownEvents, Written
<1>2. CASE GetBlockchainEvents \/ UpdatedHeadBlock \/ UpdatedHeadBlockFails \/ CrashAndRestart
  <2>1. /\ scheduled_events' = scheduled_events /\ triggered' \subseteq triggered
        /\ \A i \in DOMAIN writes' : writes'[i].op = "head"
    BY <1>2 DEF GetBlockchainEvents, UpdatedHeadBlock, UpdatedHeadBlockFails, At, ProcessVars, dbvars,
           UpdateLatestCommittedBlock, CrashAndRestart
  <2>. QED
    BY <2>1 DEF KnownEvents, Written
<1>3. CASE ExecuteStatement
  <2>1. /\ 1 \in DOMAIN writes /\ UNCHANGED triggered
        /\ writes[1].op \notin {"schedule", "unschedule"} => UNCHANGED scheduled_events
        /\ writes[1].op = "schedule" => scheduled_events' = scheduled_events \cup {writes[1].ev}
        /\ writes[1].op = "unschedule" => scheduled_events' \subseteq scheduled_events
        /\ \A i \in DOMAIN writes' : i + 1 \in DOMAIN writes /\ writes'[i] = writes[i + 1]
    BY <1>0, <1>3, StatementEffect
  <2>2. Written("schedule")' \subseteq Written("schedule") /\ Written("unschedule")' \subseteq Written("unschedule")
    BY <2>1 DEF Written
  <2>3. writes[1].op = "schedule" => writes[1].ev \in Written("schedule")
    BY <2>1 DEF Written
  <2>. QED
    BY <2>1, <2>2, <2>3 DEF KnownEvents
<1>4. CASE HandleEvent \/ EventLost
  <2>1. PICK e \in batch : \E ws : Handle(e, ws) /\ \A i \in DOMAIN ws : SavedBy(e, ws[i])
    BY <1>4, HandlerSaves
  <2>2. /\ UNCHANGED <<scheduled_events, triggered>>
        /\ \A i \in DOMAIN writes' : SavedBy(e, writes'[i])
    BY <2>1 DEF Handle, ProcessVars, dbvars
  <2>3. Written("unschedule")' = {} /\ \A x \in Written("schedule")' : NewlyScheduled(e, x)
    BY <2>2 DEF Written, SavedBy
  <2>. QED
    BY <2>2, <2>3 DEF KnownEvents
<1>5. ASSUME NEW a \in triggered, Acts(a)
      PROVE  s \in KnownEvents \/ (MonitorRescheduled(a) /\ s = [a EXCEPT !.at = Clock])
  <2>1. triggered' \subseteq triggered /\ UNCHANGED <<scheduled_events, now>>
    BY <1>5, ActionWrites DEF SchedulerVars, dbvars
  <2>2. /\ Written("unschedule")' = {a}
        /\ ~MonitorRescheduled(a) => Written("schedule")' = {}
        /\ Written("schedule")' \subseteq {[a EXCEPT !.at = Clock]}
    BY <1>5, ActionEvents
  <2>. QED
    BY <1>5, <2>1, <2>2 DEF KnownEvents
<1>. QED
  BY <1>0, <1>1, <1>2, <1>3, <1>4, <1>5, Kinds

\* An event that is scheduled again keeps all but its time.
LEMMA ScheduledAgain ==
    ASSUME TypeOK, NEW a \in triggered, MonitorRescheduled(a), NEW s, s = [a EXCEPT !.at = Clock]
    PROVE  /\ s \in ScheduledEvents /\ s.ch = a.ch /\ s.who = a.who /\ s.type = a.type /\ s.at = Clock
           /\ a.type = "monitor" /\ a \in ScheduledEvents /\ Clock \in Nat
<1>1. a \in ScheduledEvents
  BY DEF TypeOK, LoopTypeOK
<1>2. Clock \in Nat
  BY Numbers, ServiceConstants DEF Clock
<1>3. a.type = "monitor"
  BY DEF MonitorRescheduled, WorthMonitoring
<1>. QED
  BY <1>1, <1>2, <1>3 DEF ScheduledEvents

\* Every step keeps what holds of the scheduled events.
LEMMA EventsStep ==
    ASSUME IInv, IInv', OrderInv, CloseInv, RequestInv, EventsInv, ClosingInv, [Next]_vars
    PROVE  EventsInv'
<1>0. TypeOK /\ KnownEvents \subseteq ScheduledEvents
  BY KnownTypes DEF IInv
<1>. SUFFICES ASSUME NEW s \in KnownEvents'
              PROVE  s \in ScheduledEvents /\ WellTimed(s)
  BY WellTimedStays DEF EventsInv
<1>1. CASE s \in KnownEvents
  BY <1>0, <1>1 DEF EventsInv
<1>2. ASSUME NEW e \in batch, NewlyScheduled(e, s)
      PROVE  s \in ScheduledEvents /\ WellTimed(s)
  BY <1>2, NewWellTimed
<1>3. ASSUME NEW a \in triggered, MonitorRescheduled(a), s = [a EXCEPT !.at = Clock]
      PROVE  s \in ScheduledEvents /\ WellTimed(s)
  <2>1. ~RewardsCovered
    BY <1>3, NeverPutOff
  <2>2. WellTimed(a)
    BY DEF KnownEvents, EventsInv
  <2>3. s \in ScheduledEvents /\ s.ch = a.ch /\ s.who = a.who /\ s.type = "monitor"
    BY <1>0, <1>3, ScheduledAgain
  <2>. QED
    BY <2>1, <2>2, <2>3 DEF WellTimed
<1>. QED
  BY <1>1, <1>2, <1>3, KnownAfter

\* The row that is saved for a transaction differs from the old one in the
\* hash alone.
LEMMA ActionRows ==
    ASSUME IInv, NEW s \in triggered, Acts(s), NEW i \in DOMAIN writes', writes'[i].op = "channel"
    PROVE  /\ writes'[i].ch = s.ch /\ channel[s.ch] # NoRow
           /\ writes'[i].row.closing_block = channel[s.ch].closing_block
           /\ writes'[i].row.nonce = channel[s.ch].nonce /\ writes'[i].row.sender = channel[s.ch].sender
           /\ s.type = "monitor" => /\ writes'[i].row.claim_tx = channel[s.ch].claim_tx
                                    /\ writes'[i].row.monitor_tx # 0
           /\ s.type = "claim" => /\ writes'[i].row.claim_tx # 0
                                  /\ writes'[i].row.monitor_tx = channel[s.ch].monitor_tx
<1>0. TypeOK /\ Len(txs) + 1 # 0
  BY LenProperties DEF IInv, TypeOK, ChainTypeOK
<1>. DEFINE v == RemoveScheduledEvent(s)
            a == AddWaitingTransaction(Len(txs) + 1)
            u == UpsertScheduledEvent([s EXCEPT !.at = Clock])
<1>v. v.op # "channel" /\ a.op # "channel" /\ u.op # "channel"
  BY DEF RemoveScheduledEvent, AddWaitingTransaction, UpsertScheduledEvent
<1>1. Nothing(s) \/ PutOff(s) \/ SentMonitor(s) \/ SentClaim(s) \/ SentOnly(s)
  BY ActionWrites
<1>2. ~Nothing(s) /\ ~PutOff(s) /\ ~SentOnly(s)
  <2>1. Nothing(s) \/ PutOff(s) \/ SentOnly(s) => writes' = <<v>> \/ writes' = <<a, v>> \/ writes' = <<u, v>>
    BY DEF Nothing, PutOff, SentOnly, Removal
  <2>. HIDE DEF v, a, u
  <2>2. writes' # <<v>> /\ writes' # <<a, v>> /\ writes' # <<u, v>>
    BY <1>v
  <2>. QED
    BY <2>1, <2>2
<1>3. ASSUME NEW row, Sent(s, MonitorTx(s), row) \/ Sent(s, ClaimTx(s), row)
      PROVE  writes'[i] = UpsertChannel(s.ch, row) /\ channel[s.ch] # NoRow
  <2>. DEFINE w == UpsertChannel(s.ch, row)
  <2>1. writes' = <<a, w, v>> /\ channel[s.ch] # NoRow
    BY <1>3 DEF Sent
  <2>. HIDE DEF v, a, w
  <2>2. writes'[i] = w
    BY <1>v, <2>1
  <2>. QED
    BY <2>1, <2>2 DEF w
<1>4. channel[s.ch] # NoRow => channel[s.ch] \in ChannelRows
  BY <1>0 DEF TypeOK, LoopTypeOK, DatabaseTypeOK, ScheduledEvents
<1>5. CASE SentMonitor(s)
  <2>. DEFINE row == [channel[s.ch] EXCEPT !.monitor_tx = Len(txs) + 1]
  <2>1. writes'[i] = UpsertChannel(s.ch, row) /\ channel[s.ch] # NoRow /\ s.type = "monitor"
    BY <1>3, <1>5 DEF SentMonitor
  <2>2. /\ row.closing_block = channel[s.ch].closing_block /\ row.claim_tx = channel[s.ch].claim_tx
        /\ row.nonce = channel[s.ch].nonce /\ row.sender = channel[s.ch].sender
        /\ row.monitor_tx = Len(txs) + 1
    BY <1>4, <2>1 DEF ChannelRows
  <2>. HIDE DEF row
  <2>. QED
    BY <1>0, <2>1, <2>2 DEF UpsertChannel
<1>6. CASE SentClaim(s)
  <2>. DEFINE row == [channel[s.ch] EXCEPT !.claim_tx = Len(txs) + 1]
  <2>1. writes'[i] = UpsertChannel(s.ch, row) /\ channel[s.ch] # NoRow /\ s.type = "claim"
    BY <1>3, <1>6 DEF SentClaim
  <2>2. /\ row.closing_block = channel[s.ch].closing_block /\ row.monitor_tx = channel[s.ch].monitor_tx
        /\ row.nonce = channel[s.ch].nonce /\ row.sender = channel[s.ch].sender
        /\ row.claim_tx = Len(txs) + 1
    BY <1>4, <2>1 DEF ChannelRows
  <2>. HIDE DEF row
  <2>. QED
    BY <1>0, <2>1, <2>2 DEF UpsertChannel
<1>. QED
  BY <1>1, <1>2, <1>5, <1>6

\* What has been committed was handled.
LEMMA OldHandled ==
    ASSUME IInv, LoopInv, NEW e \in log, e.block <= latest
    PROVE  Handled(e)
<1>1. latest \in Nat /\ head \in Nat /\ e.block \in Nat /\ \A f \in batch : f.block \in Nat
  BY Numbers DEF IInv
<1>2. e \notin batch
  BY <1>1 DEF LoopInv
<1>. QED
  BY <1>1, <1>2 DEF Handled, Reached, LoopInv

\* Which events count as handled after a step: those that did before; one
\* more where a handler runs; fewer after a crash.
LEMMA HandledBefore ==
    ASSUME IInv, OrderInv, LoopInv, PassInv, [Next]_vars, faults' = 0, NEW e, Handled(e)'
    PROVE  /\ e \in log
           /\ Handled(e) \/ (HandleEvent /\ batch' = batch \ {e} /\ e \in batch)
           /\ CrashAndRestart => e.block <= latest /\ e.block <= committed
<1>0. TypeOK /\ faults = 0 /\ ~EventLost /\ ~UpdatedHeadBlockFails
  BY FaultsStay DEF IInv
<1>n. /\ latest \in Nat /\ head \in Nat /\ committed \in Nat /\ fetched \in Nat /\ now \in Nat
      /\ \A f \in log : f.block \in Nat
  BY <1>0, Numbers
<1>. USE DEF Handled, Reached
<1>1. CASE MovesOn
  <2>1. ~CrashAndRestart
    BY <1>0, <1>1, Numbers DEF MovesOn, CrashAndRestart
  <2>. QED
    BY <1>1, <2>1 DEF MovesOn, cvars
<1>2. CASE OnChain
  <2>1. UNCHANGED <<pc, head, latest, batch>> /\ \A f \in log' \ log : f.block = now
    BY <1>2, OnChainGrows DEF OnChain
  <2>. QED
    BY <1>n, <2>1, <1>2 DEF LoopInv, CrashAndRestart, cvars
<1>3. CASE ExecuteStatement
  <2>1. UNCHANGED <<log, latest, head, pc, batch, crashes>>
    BY <1>0, <1>3, StatementEffect DEF cvars, hvars
  <2>2. ~CrashAndRestart
    BY <1>0, <2>1, Numbers DEF CrashAndRestart
  <2>. QED
    BY <2>1, <2>2
<1>4. CASE GetBlockchainEvents
  <2>1. /\ pc = "blocks" /\ pc' = "handle" /\ UNCHANGED <<log, latest, crashes>>
    BY <1>4 DEF GetBlockchainEvents, At, ProcessVars, cvars
  <2>2. /\ head' \in Nat /\ latest < head'
        /\ \A f \in log : latest < f.block /\ f.block <= head' => f \in batch'
    BY <1>0, <1>4, FetchedAll
  <2>3. e \in log /\ e.block <= latest
    BY <1>n, <2>1, <2>2
  <2>4. ~CrashAndRestart
    BY <2>1 DEF CrashAndRestart
  <2>. QED
    BY <2>3, <2>4, OldHandled
<1>5. CASE HandleEvent
  <2>1. PICK f \in batch : \E ws : Handle(f, ws)
    BY <1>5, HandlerWrites
  <2>2. /\ batch' = batch \ {f} /\ UNCHANGED <<log, latest, head, pc, crashes>> /\ pc = "handle"
    BY <2>1 DEF Handle, At, ProcessVars, cvars
  <2>3. ~CrashAndRestart
    BY <1>0, <2>2, Numbers DEF CrashAndRestart
  <2>. QED
    BY <1>5, <2>2, <2>3
<1>6. CASE UpdatedHeadBlock
  BY <1>0, <1>6, Numbers DEF UpdatedHeadBlock, At, ProcessVars, cvars, CrashAndRestart
<1>7. ASSUME NEW s \in triggered, Acts(s)
      PROVE  e \in log /\ Handled(e) /\ ~CrashAndRestart
  BY <1>0, <1>7, ActionWrites, Numbers DEF SchedulerVars, CrashAndRestart, At
<1>8. CASE CrashAndRestart
  <2>1. pc' = "blocks" /\ latest' = committed /\ UNCHANGED log
    BY <1>8 DEF CrashAndRestart, cvars
  <2>2. e \in log /\ e.block <= committed /\ committed <= latest
    BY <2>1 DEF LoopInv
  <2>3. e.block <= latest
    BY <1>n, <2>2
  <2>. QED
    BY <2>2, <2>3, OldHandled
<1>. QED
  BY <1>0, <1>1, <1>2, <1>3, <1>4, <1>5, <1>6, <1>7, <1>8, Kinds

\* A closing block stays what it is.
LEMMA RowClosedStays ==
    ASSUME IInv, [Next]_vars, NEW c \in Channels, NEW r, RowClosed(c, r)
    PROVE  RowClosed(c, r)'
<1>1. CASE r.closing_block = 0
  BY <1>1 DEF RowClosed
<1>2. CASE r.closing_block # 0
  <2>1. IsClosed(c) /\ r.closing_block = chain[c].closedAt
    BY <1>2 DEF RowClosed
  <2>2. IsClosed(c)' /\ Lasting(c)
    BY <2>1, ClosedForEver
  <2>. QED
    BY <2>1, <2>2 DEF RowClosed, Lasting
<1>. QED
  BY <1>1, <1>2

\* The rows after a step: the old ones, and those of the statements.
LEMMA RowsAfter ==
    ASSUME IInv, [Next]_vars, NEW c \in Channels
    PROVE  /\ channel'[c] = channel[c] \/ \E i \in DOMAIN writes :
                 writes[i].op = "channel" /\ writes[i].ch = c /\ channel'[c] = writes[i].row
           /\ ~ExecuteStatement => channel' = channel
<1>0. TypeOK
  BY DEF IInv
<1>1. MovesOn \/ OnChain \/ GetBlockchainEvents \/ UpdatedHeadBlock \/ UpdatedHeadBlockFails \/ CrashAndRestart
      => UNCHANGED channel
  BY DEF MovesOn, OnChain, GetBlockchainEvents, UpdatedHeadBlock, UpdatedHeadBlockFails, CrashAndRestart,
         ProcessVars, dbvars
<1>2. HandleEvent \/ EventLost => UNCHANGED channel
  BY HandlerWrites DEF Handle, ProcessVars, dbvars
<1>3. (\E s \in triggered : Acts(s)) => UNCHANGED channel
  BY ActionWrites DEF SchedulerVars, dbvars
<1>4. CASE ExecuteStatement
  <2>1. /\ 1 \in DOMAIN writes
        /\ writes[1].op # "channel" => UNCHANGED channel
        /\ writes[1].op = "channel" => channel' = [channel EXCEPT ![writes[1].ch] = writes[1].row]
    BY <1>0, <1>4, StatementEffect
  <2>2. channel \in [Channels -> ChannelRows \cup {NoRow}]
    BY <1>0 DEF TypeOK, DatabaseTypeOK
  <2>. QED
    BY <1>4, <2>1, <2>2
<1>. QED
  BY <1>0, <1>1, <1>2, <1>3, <1>4, Kinds

\* An opening is handled before the closing of its channel is.
LEMMA OpenedFirst ==
    ASSUME IInv, OrderInv, LoopInv, PassInv, CloseInv, faults = 0, pc = "handle",
           NEW e \in batch, e.type = "opened", NEW f \in log, f.type = "closed", f.on = e.on
    PROVE  ~Handled(f)
<1>0. e \in log /\ e.block \in Nat /\ f.block \in Nat /\ latest \in Nat /\ head \in Nat
  BY Numbers DEF IInv, NonceInv
<1>1. e.pos < f.pos /\ e.block <= f.block
  BY <1>0 DEF CloseInv
<1>2. latest < e.block
  BY DEF LoopInv
<1>3. Precedes(e, f)
  BY <1>1 DEF Precedes, Contract, TokenNetworkEvents
<1>4. f.block <= head => f \in batch
  BY <1>0, <1>1, <1>2, <1>3 DEF PassInv
<1>. QED
  BY <1>4 DEF Handled, Reached

\* Every step keeps what holds of the closing blocks.
LEMMA ClosingStep ==
    ASSUME IInv, IInv', OrderInv, LoopInv, PassInv, CloseInv, ClosingInv, [Next]_vars
    PROVE  ClosingInv'
<1>0. TypeOK /\ batch \subseteq log
  BY DEF IInv, NonceInv
<1>. SUFFICES ASSUME NEW c \in Channels
              PROVE  ClosingAt(c)'
  BY DEF ClosingInv
<1>c. ClosingAt(c)
  BY DEF ClosingInv
<1>ops. /\ MovesOn \/ OnChain => UNCHANGED <<writes, channel, latest>>
        /\ GetBlockchainEvents \/ UpdatedHeadBlock \/ UpdatedHeadBlockFails \/ CrashAndRestart =>
              /\ \A i \in DOMAIN writes' : writes'[i].op = "head"
              /\ UNCHANGED channel
        /\ GetBlockchainEvents => UNCHANGED latest /\ writes = <<>>
  BY DEF MovesOn, OnChain, dbvars, GetBlockchainEvents, UpdatedHeadBlock, UpdatedHeadBlockFails,
         CrashAndRestart, UpdateLatestCommittedBlock, ProcessVars, At
<1>h. ASSUME HandleEvent \/ EventLost
      PROVE  \E e \in batch : /\ \A i \in DOMAIN writes' : SavedBy(e, writes'[i])
                              /\ faults' = faults => Finishes(e, writes')
                              /\ writes = <<>> /\ pc = "handle" /\ UNCHANGED <<channel, latest>>
                              /\ batch' = batch \ {e}
  <2>e0. PICK e \in batch : \E ws : /\ Handle(e, ws) /\ \A i \in DOMAIN ws : SavedBy(e, ws[i])
                                    /\ faults' = faults => Finishes(e, ws)
    BY <1>h, HandlerSaves
  <2>1. PICK ws : /\ Handle(e, ws) /\ \A i \in DOMAIN ws : SavedBy(e, ws[i])
                  /\ faults' = faults => Finishes(e, ws)
    BY <2>e0
  <2>2. writes' = ws /\ writes = <<>> /\ pc = "handle" /\ UNCHANGED <<channel, latest>> /\ batch' = batch \ {e}
    BY <2>1 DEF Handle, At, ProcessVars, dbvars
  <2>. QED
    BY <2>1, <2>2
<1>x. ASSUME ExecuteStatement
      PROVE  /\ \A i \in DOMAIN writes' : i + 1 \in DOMAIN writes /\ writes'[i] = writes[i + 1]
             /\ UNCHANGED latest /\ 1 \in DOMAIN writes
             /\ \A i \in DOMAIN writes \ {1} : i - 1 \in DOMAIN writes' /\ writes'[i - 1] = writes[i]
             /\ writes[1].op = "channel" /\ writes[1].ch = c => channel'[c] = writes[1].row
             /\ ~(writes[1].op = "channel" /\ writes[1].ch = c) => channel'[c] = channel[c]
  <2>1. channel \in [Channels -> ChannelRows \cup {NoRow}]
    BY <1>0 DEF TypeOK, DatabaseTypeOK
  <2>. QED
    BY <1>0, <1>x, <2>1, StatementEffect
<1>a. ASSUME NEW s \in triggered, Acts(s)
      PROVE  writes = <<>> /\ UNCHANGED <<channel, latest>>
  BY <1>a, ActionWrites DEF At, SchedulerVars, dbvars
<1>1. channel'[c] # NoRow => RowClosed(c, channel[c])'
  <2>1. channel'[c] # NoRow => RowClosed(c, channel'[c])
    BY <1>c, RowsAfter DEF ClosingAt
  <2>2. ASSUME NEW r, r = channel'[c], channel'[c] # NoRow
        PROVE  RowClosed(c, r)'
    BY <2>1, <2>2, RowClosedStays
  <2>. QED
    BY <2>2 DEF RowClosed
<1>2. ASSUME NEW i \in DOMAIN writes', writes'[i].op = "channel", writes'[i].ch = c, NEW r, r = writes'[i].row
      PROVE  RowClosed(c, r)'
  <2>. SUFFICES RowClosed(c, r)
    BY RowClosedStays
  <2>1. CASE MovesOn \/ OnChain
    BY <1>c, <1>ops, <1>2, <2>1 DEF ClosingAt
  <2>2. CASE GetBlockchainEvents \/ UpdatedHeadBlock \/ UpdatedHeadBlockFails \/ CrashAndRestart
    BY <1>ops, <1>2, <2>2
  <2>3. CASE ExecuteStatement
    BY <1>c, <1>x, <1>2, <2>3 DEF ClosingAt
  <2>4. CASE HandleEvent \/ EventLost
    <3>1. PICK e \in batch : SavedBy(e, writes'[i])
      BY <1>h, <2>4
    <3>2. e.on = c /\ SavedRow(e, r) /\ e \in log
      BY <1>0, <1>2, <3>1 DEF SavedBy
    <3>3. CASE e.type = "opened" /\ r = FreshRow
      BY <3>3 DEF RowClosed, FreshRow
    <3>4. CASE e.type = "closed" /\ r.closing_block = e.block
      BY <3>2, <3>4 DEF RowClosed, CloseInv, OrderInv, IsClosed
    <3>5. CASE channel[c] # NoRow /\ r.closing_block = channel[c].closing_block
      BY <1>c, <3>5 DEF RowClosed, ClosingAt
    <3>. QED
      BY <3>2, <3>3, <3>4, <3>5 DEF SavedRow
  <2>5. ASSUME NEW s \in triggered, Acts(s)
        PROVE  RowClosed(c, r)
    <3>1. s.ch = c /\ channel[c] # NoRow /\ r.closing_block = channel[c].closing_block
      BY <1>2, <2>5, ActionRows
    <3>. QED
      BY <1>c, <3>1 DEF ClosingAt, RowClosed
  <2>. QED
    BY <1>0, <2>1, <2>2, <2>3, <2>4, <2>5, Kinds
<1>3. ASSUME faults' = 0, NEW e \in log', e.type = "closed", e.on = c
      PROVE  /\ channel'[c] # NoRow /\ e.block <= latest' => channel'[c].closing_block # 0
             /\ channel'[c] # NoRow /\ Settled(c)' /\ Handled(e)' => channel'[c].closing_block # 0
             /\ \A i \in DOMAIN writes' : writes'[i].op = "channel" /\ writes'[i].ch = c /\ Handled(e)' =>
                   writes'[i].row.closing_block # 0
  <2>0. faults = 0 /\ faults' = faults /\ ~EventLost /\ ~UpdatedHeadBlockFails
    BY <1>3, FaultsStay
  <2>n. latest \in Nat /\ e.block \in Nat /\ head \in Nat
    BY <1>0, <1>3, Numbers DEF IInv, TypeOK, ChainTypeOK, Events
  <2>1. (channel'[c] # NoRow /\ e.block <= latest' => channel'[c].closing_block # 0)
        /\ (channel'[c] # NoRow /\ Settled(c)' /\ Handled(e)' => channel'[c].closing_block # 0)
        /\ (\A i \in DOMAIN writes' : writes'[i].op = "channel" /\ writes'[i].ch = c /\ Handled(e)' =>
              writes'[i].row.closing_block # 0)
    <3>1. CASE MovesOn \/ OnChain
      <4>1. UNCHANGED <<writes, channel, latest>> /\ (Settled(c)' => Settled(c))
        BY <1>ops, <3>1 DEF Settled
      <4>2. CASE e \in log
        <5>1. Handled(e)' => Handled(e) \/ HandleEvent
          BY <1>3, HandledBefore
        <5>2. Handled(e)' => Handled(e)
          <6>1. CASE MovesOn
            BY <6>1 DEF MovesOn, Handled, Reached, cvars
          <6>2. CASE OnChain
            BY <4>2, <6>2 DEF OnChain, Handled, Reached
          <6>. QED
            BY <3>1, <6>1, <6>2
        <5>. QED
          BY <1>c, <1>3, <2>0, <4>1, <4>2, <5>2 DEF ClosingAt
      <4>3. CASE e \notin log
        <5>1. OnChain /\ e.block = now /\ latest < now /\ now \in Nat
          BY <1>0, <1>3, <3>1, <4>3, OnChainGrows, Numbers DEF MovesOn, cvars, LoopInv
        <5>2. ~Handled(e)'
          BY <1>3, <4>3, HandledBefore
        <5>. QED
          BY <2>n, <4>1, <5>1, <5>2
      <4>. QED
        BY <4>2, <4>3
    <3>2. CASE GetBlockchainEvents
      <4>1. /\ UNCHANGED <<channel, latest, log>> /\ Settled(c) /\ ~HandleEvent
            /\ \A i \in DOMAIN writes' : writes'[i].op = "head"
        BY <1>ops, <3>2 DEF Settled, GetBlockchainEvents, HandleEvent, At, ProcessVars, cvars,
           TokenNetworkCreated, ChannelOpened, ChannelUnknown, ChannelClosed, NonClosingBalanceProofUpdated,
           ChannelSettled, MonitorNewBalanceProof, MonitorRewardClaimed, Handle
      <4>2. Handled(e)' => Handled(e)
        BY <1>3, <4>1, HandledBefore
      <4>. QED
        BY <1>c, <1>3, <2>0, <4>1, <4>2 DEF ClosingAt
    <3>3. CASE UpdatedHeadBlock
      <4>1. /\ UNCHANGED <<channel, log>> /\ Settled(c) /\ writes = <<>> /\ latest' = head /\ pc = "handle"
            /\ \A i \in DOMAIN writes' : writes'[i].op = "head"
            /\ batch = {} /\ pc' = "trigger" /\ batch' = {}
        BY <1>ops, <3>3 DEF Settled, UpdatedHeadBlock, At, ProcessVars, cvars
      <4>2. (Handled(e)' => Handled(e)) /\ (e.block <= latest' => Handled(e))
        BY <1>3, <4>1 DEF Handled, Reached
      <4>. QED
        BY <1>c, <1>3, <2>0, <4>1, <4>2 DEF ClosingAt
    <3>4. CASE CrashAndRestart
      <4>1. /\ UNCHANGED <<channel, log>> /\ writes' = <<>> /\ latest' = committed /\ committed <= latest
            /\ committed \in Nat
        BY <1>0, <3>4, Numbers DEF CrashAndRestart, cvars, dbvars, LoopInv
      <4>2. Handled(e)' => e.block <= latest
        BY <1>3, <3>4, HandledBefore
      <4>3. e.block <= latest' => e.block <= latest
        BY <2>n, <4>1
      <4>. QED
        BY <1>c, <1>3, <2>0, <4>1, <4>2, <4>3 DEF ClosingAt
    <3>5. CASE ExecuteStatement
      <4>1. UNCHANGED <<log, pc, head, latest, batch>>
        BY <1>0, <3>5, StatementEffect DEF cvars
      <4>2. e \in log /\ (Handled(e)' => Handled(e)) /\ (e.block <= latest => Handled(e))
        BY <1>3, <4>1, OldHandled DEF Handled, Reached
      <4>3. CASE writes[1].op = "channel" /\ writes[1].ch = c
        BY <1>c, <1>x, <1>3, <2>0, <3>5, <4>1, <4>2, <4>3 DEF ClosingAt
      <4>4. CASE ~(writes[1].op = "channel" /\ writes[1].ch = c)
        <5>1. Settled(c)' => Settled(c)
          BY <1>x, <3>5, <4>4 DEF Settled
        <5>. QED
          BY <1>c, <1>x, <1>3, <2>0, <3>5, <4>1, <4>2, <4>4, <5>1 DEF ClosingAt
      <4>. QED
        BY <4>3, <4>4
    <3>6. CASE HandleEvent
      <4>1. PICK f \in batch : /\ \A i \in DOMAIN writes' : SavedBy(f, writes'[i])
                               /\ Finishes(f, writes')
                               /\ writes = <<>> /\ pc = "handle" /\ UNCHANGED <<channel, latest>>
                               /\ batch' = batch \ {f}
        BY <1>h, <2>0, <3>6
      <4>2. UNCHANGED log /\ e \in log
        BY <1>3, <3>6, HandlerWrites DEF Handle, ProcessVars, cvars
      <4>3. Settled(c)
        BY <4>1 DEF Settled
      <4>4. Handled(e)' => Handled(e) \/ e = f
        BY <1>3, <4>1, HandledBefore
      <4>5. channel[c] # NoRow /\ Handled(e) => channel[c].closing_block # 0
        BY <1>c, <1>3, <2>0, <4>2, <4>3 DEF ClosingAt
      <4>6. ASSUME channel'[c] # NoRow, Settled(c)', Handled(e)'
            PROVE  channel'[c].closing_block # 0
        <5>1. CASE e = f
          <6>1. \E i \in DOMAIN writes' : writes'[i].op = "channel"
            BY <1>3, <4>1, <4>6, <5>1 DEF Finishes
          <6>2. \A i \in DOMAIN writes' : writes'[i].op = "channel" => writes'[i].ch = c
            BY <1>3, <4>1, <5>1 DEF SavedBy
          <6>. QED
            BY <4>6, <6>1, <6>2 DEF Settled
        <5>2. CASE e # f
          BY <4>1, <4>4, <4>5, <4>6, <5>2
        <5>. QED
          BY <5>1, <5>2
      <4>7. ASSUME NEW i \in DOMAIN writes', writes'[i].op = "channel", writes'[i].ch = c, Handled(e)'
            PROVE  writes'[i].row.closing_block # 0
        <5>1. SavedRow(f, writes'[i].row) /\ f.on = c /\ f \in log /\ 1 <= f.block
          BY <1>0, <4>1, <4>7 DEF SavedBy, OrderInv
        <5>2. CASE f.type = "opened"
          <6>1. ~Handled(e)
            BY <1>3, <2>0, <4>1, <4>2, <5>1, <5>2, OpenedFirst
          <6>. QED
            BY <1>3, <4>4, <4>7, <5>2, <6>1
        <5>3. CASE f.type = "closed"
          BY <5>1, <5>3 DEF SavedRow
        <5>4. CASE f.type \notin {"opened", "closed"}
          BY <1>3, <4>4, <4>5, <4>7, <5>1, <5>4 DEF SavedRow
        <5>. QED
          BY <5>2, <5>3, <5>4
      <4>. QED
        BY <1>c, <1>3, <2>0, <4>1, <4>2, <4>6, <4>7 DEF ClosingAt
    <3>7. ASSUME NEW s \in triggered, Acts(s)
          PROVE  (channel'[c] # NoRow /\ e.block <= latest' => channel'[c].closing_block # 0)
             /\ (channel'[c] # NoRow /\ Settled(c)' /\ Handled(e)' => channel'[c].closing_block # 0)
             /\ (\A i \in DOMAIN writes' : writes'[i].op = "channel" /\ writes'[i].ch = c /\ Handled(e)' =>
                   writes'[i].row.closing_block # 0)
      <4>1. writes = <<>> /\ UNCHANGED <<channel, latest, log, pc, head, batch>>
        BY <1>a, <3>7, ActionWrites DEF SchedulerVars
      <4>2. Settled(c) /\ (Handled(e)' => Handled(e)) /\ e \in log
        BY <1>3, <4>1 DEF Settled, Handled, Reached
      <4>3. channel[c] # NoRow /\ Handled(e) => channel[c].closing_block # 0
        BY <1>c, <1>3, <2>0, <4>2 DEF ClosingAt
      <4>4. \A i \in DOMAIN writes' : writes'[i].op = "channel" /\ writes'[i].ch = c =>
              channel[c] # NoRow /\ writes'[i].row.closing_block = channel[c].closing_block
        BY <3>7, ActionRows
      <4>. QED
        BY <1>c, <1>3, <2>0, <4>1, <4>2, <4>3, <4>4 DEF ClosingAt
    <3>. QED
      BY <1>0, <2>0, <3>1, <3>2, <3>3, <3>4, <3>5, <3>6, <3>7, Kinds
  <2>. QED
    BY <2>1
<1>4. (\A i \in DOMAIN writes : writes[i].op = "channel" /\ writes[i].ch = c => RowClosed(c, writes[i].row))'
  BY <1>2 DEF RowClosed
<1>. QED
  BY <1>1, <1>3, <1>4 DEF ClosingAt

\* What is owed after a step was owed before, and its claim is the same.
LEMMA OwedBefore ==
    ASSUME IInv, OrderInv, [Next]_vars, NEW c \in Channels
    PROVE  /\ \A r : Owed(c, r)' => Owed(c, r)
           /\ IsClosed(c) => Claim(c)' = Claim(c)
<1>1. ASSUME NEW r, Owed(c, r)'
      PROVE  Owed(c, r)
  <2>1. chain[c].state = "settled" => chain[c].rewardTo = Us
    BY <1>1, ClosedForEver DEF Owed, IsClosed
  <2>. QED
    BY <1>1, <2>1 DEF Owed
<1>2. IsClosed(c) => Claim(c)' = Claim(c)
  BY ClosedForEver DEF Claim, ClaimEvent, Lasting
<1>. QED
  BY <1>1, <1>2

\* A row stays kept unless its claim is removed or its event handled.
LEMMA KeptStays ==
    ASSUME IInv, OrderInv, EventsInv, [Next]_vars, NEW c \in Channels, NEW r, Kept(c, r), log \subseteq log',
           Claim(c) \in scheduled_events /\ IsClosed(c) => Claim(c) \in scheduled_events' \/ ~Owed(c, r),
           \A e \in log : ToClaim(e, c, r) /\ IsClosed(c) => ToClaim(e, c, r)' \/ Claim(c) \in scheduled_events'
    PROVE  Kept(c, r)'
<1>. SUFFICES ASSUME Owed(c, r)'
              PROVE  Claim(c)' \in scheduled_events' \/ \E e \in log' : ToClaim(e, c, r)'
  BY DEF Kept
<1>1. Owed(c, r) /\ (IsClosed(c) => Claim(c)' = Claim(c))
  BY OwedBefore
<1>2. CASE Claim(c) \in scheduled_events
  <2>1. WellTimed(Claim(c)) /\ Claim(c).ch = c
    BY <1>2 DEF EventsInv, KnownEvents, Claim, ClaimEvent
  <2>2. IsClosed(c)
    BY <2>1 DEF WellTimed
  <2>. QED
    BY <1>1, <1>2, <2>2
<1>3. ASSUME NEW e \in log, ToClaim(e, c, r)
      PROVE  Claim(c)' \in scheduled_events' \/ \E f \in log' : ToClaim(f, c, r)'
  <2>1. IsClosed(c)
    BY <1>3 DEF ToClaim, OrderInv, IsClosed
  <2>2. ToClaim(e, c, r)' \/ Claim(c)' \in scheduled_events'
    BY <1>1, <1>3, <2>1
  <2>. QED
    BY <1>3, <2>2
<1>. QED
  BY <1>1, <1>2, <1>3 DEF Kept

\* When our monitoring is handled, the closing block is known.
LEMMA ClosedFirst ==
    ASSUME IInv, OrderInv, LoopInv, CloseInv, ClosingInv, faults = 0, writes = <<>>, pc = "handle",
           NEW e \in batch, e.type = "monitored", channel[e.on] # NoRow, \A f \in batch : ~Precedes(f, e)
    PROVE  channel[e.on].closing_block = chain[e.on].closedAt /\ channel[e.on].closing_block # 0
<1>0. e \in log /\ e.on \in Channels /\ e.block \in Nat /\ head \in Nat /\ \A f \in log : f.block \in Nat
  BY EventFacts, Numbers DEF IInv, NonceInv
<1>1. IsClosed(e.on)
  BY <1>0 DEF OrderInv, IsClosed
<1>2. PICK g \in log : g.type = "closed" /\ g.on = e.on
  BY <1>0, <1>1 DEF CloseInv
<1>3. g.block <= e.block /\ e.block <= head
  BY <1>0, <1>2 DEF CloseInv, LoopInv
<1>4. Precedes(g, e)
  BY <1>2 DEF Precedes, Contract, TokenNetworkEvents
<1>5. Handled(g)
  BY <1>0, <1>2, <1>3, <1>4 DEF Handled, Reached
<1>6. Settled(e.on) /\ ClosingAt(e.on)
  BY <1>0 DEF Settled, ClosingInv
<1>. QED
  BY <1>2, <1>5, <1>6 DEF ClosingAt, RowClosed

\* The statements about claims that a step of a handler adds.
LEMMA KeptHandled ==
    ASSUME IInv, IInv', OrderInv, LoopInv, PassInv, CloseInv, EventsInv, ClosingInv, [Next]_vars, faults = 0,
           faults' = 0, HandleEvent, NEW c \in Channels, KeptAt(c)
    PROVE  KeptAt(c)'
<1>0. TypeOK /\ batch \subseteq log
  BY DEF IInv, NonceInv
<1>e0. PICK e \in batch : \E ws : /\ Handle(e, ws) /\ \A i \in DOMAIN ws : SavedBy(e, ws[i])
                                  /\ faults' = faults => Finishes(e, ws)
  BY HandlerSaves
<1>1. PICK ws : /\ Handle(e, ws) /\ \A i \in DOMAIN ws : SavedBy(e, ws[i])
                /\ faults' = faults => Finishes(e, ws)
  BY <1>e0
<1>2. /\ \A i \in DOMAIN writes' : SavedBy(e, writes'[i])
      /\ Finishes(e, writes') /\ writes = <<>> /\ pc = "handle" /\ pc' = "handle"
      /\ UNCHANGED <<channel, latest, head, committed, fetched, scheduled_events, log, chain>>
      /\ batch' = batch \ {e} /\ \A f \in batch : ~Precedes(f, e)
  BY <1>1 DEF Handle, At, ProcessVars, dbvars, cvars
<1>n. committed \in Nat /\ latest \in Nat /\ head \in Nat /\ fetched \in Nat /\ e.block \in Nat /\ e \in log
  BY <1>0, Numbers
<1>3. committed < e.block /\ e.block <= fetched
  BY <1>2, <1>n DEF LoopInv
<1>4. Written("schedule") = {} /\ Written("unschedule") = {} /\ Written("unschedule")' = {}
  BY <1>2 DEF Written, SavedBy
<1>5. \A f : Handled(f)' => Handled(f) \/ f = e
  BY <1>2 DEF Handled, Reached
<1>6. ASSUME OurClaim(e), e.on = c
      PROVE  Claim(c) \in Written("schedule")' /\ Claim(c)' = Claim(c)
  <2>1. channel[c].closing_block = chain[c].closedAt
    BY <1>2, <1>6, ClosedFirst DEF OurClaim
  <2>2. \E i \in DOMAIN writes' : writes'[i] = UpsertScheduledEvent(Claim(c))
    BY <1>2, <1>6, <2>1 DEF Finishes, Claim
  <2>3. Claim(c) \in Written("schedule")'
    BY <2>2 DEF Written, UpsertScheduledEvent
  <2>. QED
    BY <1>2, <2>3 DEF Claim, ClaimEvent
<1>7. channel[c] # NoRow => Kept(c, channel[c])'
  <2>. SUFFICES ASSUME channel[c] # NoRow, NEW r, r = channel[c]
                PROVE  Kept(c, r)'
    BY <1>2 DEF Kept, Owed, ToClaim
  <2>1. Kept(c, r)
    BY DEF KeptAt
  <2>2. ASSUME NEW f \in log, ToClaim(f, c, r), IsClosed(c)
        PROVE  ToClaim(f, c, r)'
    <3>1. ~Handled(f) /\ committed < f.block /\ f.block <= fetched
      BY <1>4, <2>2 DEF ToClaim
    <3>2. CASE f # e
      BY <1>2, <1>5, <2>2, <3>1, <3>2 DEF ToClaim
    <3>3. CASE f = e
      <4>1. e.type = "monitored" /\ e.on = c /\ e.who = Us /\ e.nonce = channel[c].nonce
        BY <2>2, <3>3 DEF ToClaim
      <4>2. ~MonitorIgnored(e) /\ channel[c].closing_block # 0
        <5>1. channel[c].closing_block # 0
          BY <1>2, <4>1, ClosedFirst
        <5>2. e.nonce \in Nat
          BY <1>0, <1>n, Numbers
        <5>. QED
          BY <4>1, <5>1, <5>2 DEF MonitorIgnored
      <4>3. OurClaim(e)
        BY <4>1, <4>2 DEF OurClaim
      <4>. QED
        BY <1>2, <1>6, <2>2, <3>1, <3>3, <4>1, <4>3 DEF ToClaim
    <3>. QED
      BY <3>2, <3>3
  <2>3. Claim(c) \in scheduled_events => Claim(c) \in scheduled_events'
    BY <1>2
  <2>. QED
    BY <1>2, <2>1, <2>2, <2>3, KeptStays
<1>8. ASSUME NEW i \in DOMAIN writes', writes'[i].op = "channel", writes'[i].ch = c, NEW r, r = writes'[i].row
      PROVE  Kept(c, r)'
  <2>1. SavedRow(e, r) /\ e.on = c
    BY <1>2, <1>8 DEF SavedBy
  <2>2. CASE r.sender # Us
    BY <2>2 DEF Kept, Owed
  <2>3. CASE r.sender = Us /\ e.type = "monitored"
    <3>1. r.nonce = e.nonce /\ e.who = Us /\ ~MonitorIgnored(e) /\ channel[c] # NoRow
      BY <2>1, <2>3 DEF SavedRow
    <3>2. channel[c].closing_block # 0
      BY <1>2, <2>1, <2>3, <3>1, ClosedFirst
    <3>3. OurClaim(e)
      BY <2>1, <2>3, <3>1, <3>2 DEF OurClaim
    <3>4. ToClaim(e, c, r)'
      BY <1>2, <1>3, <1>6, <2>1, <2>3, <3>1, <3>3 DEF ToClaim
    <3>. QED
      BY <1>2, <1>n, <3>4 DEF Kept
  <2>4. CASE r.sender = Us /\ e.type # "monitored"
    <3>1. Us # None /\ \A p : Other(p) # Us
      BY DEF Us, None, Other
    <3>2. channel[c] # NoRow /\ r.claim_tx = channel[c].claim_tx /\ r.nonce = channel[c].nonce
          /\ r.sender = channel[c].sender
      BY <2>1, <2>4, <3>1 DEF SavedRow, FreshRow
    <3>. QED
      BY <1>2, <1>7, <3>2 DEF Kept, Owed, ToClaim
  <2>. QED
    BY <2>2, <2>3, <2>4
<1>9. (channel[c] # NoRow => Kept(c, channel[c]))'
  BY <1>2, <1>7
<1>10. (\A i \in DOMAIN writes : writes[i].op = "channel" /\ writes[i].ch = c => Kept(c, writes[i].row))'
  BY <1>8 DEF Kept, Owed, ToClaim
<1>. QED
  BY <1>4, <1>9, <1>10 DEF KeptAt

\* A claim is dropped only when nothing is owed.
LEMMA KeptActed ==
    ASSUME IInv, IInv', OrderInv, LoopInv, PassInv, RequestInv, EventsInv, RewardsCovered, [Next]_vars,
           faults = 0, faults' = 0, NEW s \in triggered, Acts(s), NEW c \in Channels, KeptAt(c)
    PROVE  KeptAt(c)'
<1>0. TypeOK
  BY DEF IInv
<1>1. /\ writes = <<>> /\ pc = "scheduled"
      /\ UNCHANGED <<pc, channel, latest, head, committed, fetched, scheduled_events, log, chain, batch>>
  BY ActionWrites DEF At, SchedulerVars, dbvars
<1>2. Written("schedule") = {} /\ Written("unschedule")' = {s}
  <2>1. Written("schedule") = {}
    BY <1>1 DEF Written
  <2>2. Written("unschedule")' = {s}
    BY ActionEvents
  <2>. QED
    BY <2>1, <2>2
<1>3. \A f : Handled(f)' => Handled(f)
  BY <1>1 DEF Handled, Reached
<1>4. ASSUME NEW r, Kept(c, r)
      PROVE  Kept(c, r)'
  <2>1. ASSUME NEW f \in log, ToClaim(f, c, r)
        PROVE  ToClaim(f, c, r)'
    <3>1. ~Handled(f)
      BY <1>2, <2>1 DEF ToClaim
    <3>. QED
      BY <1>1, <1>3, <2>1, <3>1 DEF ToClaim
  <2>. QED
    BY <1>1, <1>4, <2>1, KeptStays
<1>5. (channel[c] # NoRow => Kept(c, channel[c]))'
  <2>. SUFFICES ASSUME channel[c] # NoRow, NEW r, r = channel[c]
                PROVE  Kept(c, r)'
    BY <1>1 DEF Kept, Owed, ToClaim
  <2>. QED
    BY <1>4 DEF KeptAt
<1>6. ASSUME NEW i \in DOMAIN writes', writes'[i].op = "channel", writes'[i].ch = c, NEW r, r = writes'[i].row
      PROVE  Kept(c, r)'
  <2>1. /\ s.ch = c /\ channel[c] # NoRow /\ r.nonce = channel[c].nonce /\ r.sender = channel[c].sender
        /\ s.type = "monitor" => r.claim_tx = channel[c].claim_tx
        /\ s.type = "claim" => r.claim_tx # 0
    BY <1>6, ActionRows
  <2>2. s.type \in {"monitor", "claim"}
    BY <1>0 DEF TypeOK, LoopTypeOK, ScheduledEvents
  <2>3. CASE s.type = "claim"
    BY <2>1, <2>3 DEF Kept, Owed
  <2>4. CASE s.type = "monitor"
    BY <1>1, <1>5, <2>1, <2>4 DEF Kept, Owed, ToClaim
  <2>. QED
    BY <2>2, <2>3, <2>4
<1>7. (\A i \in DOMAIN writes : writes[i].op = "channel" /\ writes[i].ch = c => Kept(c, writes[i].row))'
  BY <1>6 DEF Kept, Owed, ToClaim
<1>8. ASSUME Claim(c)' \in Written("unschedule")'
      PROVE  Droppable(c)'
  <2>1. s = Claim(c)
    BY <1>1, <1>2, <1>8 DEF Claim, ClaimEvent
  <2>2. s.type = "claim" /\ s.ch = c /\ WellTimed(s)
    BY <2>1 DEF Claim, ClaimEvent, EventsInv, KnownEvents
  <2>3. \A i \in DOMAIN writes' : writes'[i].op = "channel" /\ writes'[i].ch = c => writes'[i].row.claim_tx # 0
    BY <2>2, ActionRows
  <2>4. ASSUME Settled(c)', channel[c] # NoRow
        PROVE  ~Owed(c, channel[c])
    <3>1. ~ClaimSent(s)
      <4>. SUFFICES ASSUME ClaimSent(s)
                    PROVE  FALSE
        OBVIOUS
      <4>. DEFINE a == AddWaitingTransaction(Len(txs) + 1)
                  w == UpsertChannel(s.ch, [channel[s.ch] EXCEPT !.claim_tx = Len(txs) + 1])
                  v == RemoveScheduledEvent(s)
      <4>1. writes' = <<a, w>> \o <<v>> /\ w.op = "channel" /\ w.ch = c
        BY <2>2 DEF ClaimSent, Send, Done, UpsertChannel
      <4>. HIDE DEF a, w, v
      <4>2. a \in {a, w, v} /\ w \in {a, w, v} /\ v \in {a, w, v}
        OBVIOUS
      <4>3. writes' = <<a, w, v>>
        BY <4>1, <4>2, Joined
      <4>4. 2 \in DOMAIN writes' /\ writes'[2] = w
        BY <4>3
      <4>. QED
        BY <2>4, <4>1, <4>4 DEF Settled
    <3>2. ~ActionFails(s)
      BY DEF ActionFails
    <3>3. ClaimDropped(s)
      BY <2>2, <3>1, <3>2 DEF Acts, MonitorDropped, MonitorRescheduled, MonitorSent, MayMonitor, WorthMonitoring
    <3>4. s.who = Other(chain[c].closer) /\ Request(s) # NoRequest /\ s.who \in Participants
      BY <1>0, <2>2 DEF WellTimed, Requested, Request, TypeOK, LoopTypeOK, ScheduledEvents
    <3>5. Request(s).reward > 0
      <4>1. PICK mr \in Requests : mr.who = s.who /\ mr.reward = Request(s).reward
        BY <2>2, <3>4 DEF RequestInv, Request
      <4>. QED
        BY <4>1 DEF RewardsCovered
    <3>6. CASE ~WorthClaiming(s)
      BY <2>2, <2>4, <3>4, <3>5, <3>6 DEF WorthClaiming, Owed
    <3>7. CASE WorthClaiming(s) /\ ~ClaimTooEarly(s) /\ ~CanClaim(s.ch)
      BY <2>2, <3>7 DEF ClaimTooEarly, CanClaim, Owed
    <3>. QED
      BY <3>3, <3>6, <3>7 DEF ClaimDropped
  <2>5. (Settled(c) /\ channel[c] # NoRow => ~Owed(c, channel[c]))'
    BY <1>1, <2>4 DEF Owed
  <2>. QED
    BY <2>3, <2>5 DEF Droppable
<1>. QED
  BY <1>5, <1>7, <1>8 DEF KeptAt

\* A statement that is executed loses no claim.
LEMMA KeptStatement ==
    ASSUME IInv, IInv', OrderInv, LoopInv, PassInv, EventsInv, RewardsCovered, MonitorDelay # SettleTimeout,
           [Next]_vars, faults = 0, faults' = 0, ExecuteStatement, NEW c \in Channels, KeptAt(c)
    PROVE  KeptAt(c)'
<1>0. TypeOK
  BY DEF IInv
<1>1. /\ \A i \in DOMAIN writes' : i + 1 \in DOMAIN writes /\ writes'[i] = writes[i + 1]
      /\ UNCHANGED <<pc, latest, head, fetched, log, chain, batch>> /\ 1 \in DOMAIN writes
      /\ Head(writes) = writes[1]
      /\ \A i \in DOMAIN writes \ {1} : i - 1 \in DOMAIN writes' /\ writes'[i - 1] = writes[i]
      /\ writes[1].op # "head" => UNCHANGED committed
      /\ writes[1].op = "head" => committed' = writes[1].block
      /\ writes[1].op \notin {"schedule", "unschedule"} => UNCHANGED scheduled_events
      /\ writes[1].op = "schedule" => scheduled_events' = scheduled_events \cup {writes[1].ev}
  BY <1>0, StatementEffect DEF cvars, hvars
<1>2. /\ writes[1].op = "channel" /\ writes[1].ch = c => channel'[c] = writes[1].row
      /\ ~(writes[1].op = "channel" /\ writes[1].ch = c) => channel'[c] = channel[c]
  <2>1. channel \in [Channels -> ChannelRows \cup {NoRow}]
    BY <1>0 DEF TypeOK, DatabaseTypeOK
  <2>. QED
    BY <1>0, <2>1, StatementEffect
<1>n. /\ committed \in Nat /\ latest \in Nat /\ \A e \in log : e.block \in Nat
      /\ Len(writes) \in Nat /\ DOMAIN writes = 1 .. Len(writes) /\ \A i \in DOMAIN writes : writes[i] \in Writes
  BY <1>0, Numbers
<1>3. \A e : Handled(e)' <=> Handled(e)
  BY <1>1 DEF Handled, Reached
<1>4. Claim(c)' = Claim(c) /\ \A r : Owed(c, r)' <=> Owed(c, r)
  BY <1>1 DEF Claim, ClaimEvent, Owed
<1>5. ASSUME NEW r, NEW e \in log, ToClaim(e, c, r)
      PROVE  ToClaim(e, c, r)' \/ Claim(c) \in scheduled_events'
  <2>1. committed' < e.block
    <3>1. CASE writes[1].op = "head"
      <4>1. pc = "trigger" /\ committed' = latest
        BY <1>1, <3>1 DEF LoopInv, StatementsAt
      <4>2. \A i \in DOMAIN writes : writes[i].op # "schedule"
        BY <4>1 DEF LoopInv, StatementsAt
      <4>3. ~Handled(e)
        BY <1>5, <4>2 DEF ToClaim, Written
      <4>4. ~(e.block <= latest)
        BY <4>3, OldHandled
      <4>. QED
        BY <1>n, <4>1, <4>4
    <3>2. CASE writes[1].op # "head"
      BY <1>1, <1>5, <3>2 DEF ToClaim
    <3>. QED
      BY <3>1, <3>2
  <2>2. CASE ~Handled(e)
    BY <1>1, <1>3, <1>5, <2>1, <2>2 DEF ToClaim
  <2>3. CASE Handled(e)
    <3>1. PICK i \in DOMAIN writes : writes[i].op = "schedule" /\ writes[i].ev = Claim(c)
      BY <1>5, <2>3 DEF ToClaim, Written
    <3>2. CASE i = 1
      BY <1>1, <3>1, <3>2
    <3>3. CASE i # 1
      <4>1. i - 1 \in DOMAIN writes' /\ writes'[i - 1] = writes[i]
        BY <1>1, <3>1, <3>3
      <4>2. Claim(c) \in Written("schedule")'
        BY <3>1, <4>1 DEF Written
      <4>. QED
        BY <1>1, <1>4, <1>5, <2>1, <4>2 DEF ToClaim
    <3>. QED
      BY <3>2, <3>3
  <2>. QED
    BY <2>2, <2>3
<1>6. CASE writes[1].op # "unschedule"
  <2>1. scheduled_events \subseteq scheduled_events'
    <3>1. writes[1].op = "schedule" \/ writes[1].op \notin {"schedule", "unschedule"}
      BY <1>6
    <3>. QED
      BY <1>1, <3>1
  <2>2. ASSUME NEW r, Kept(c, r)
        PROVE  Kept(c, r)'
    BY <1>1, <1>5, <2>1, <2>2, KeptStays
  <2>3. ASSUME NEW r, r = channel'[c], r # NoRow
        PROVE  Kept(c, r)
    BY <1>1, <1>2, <2>3 DEF KeptAt
  <2>4. (channel[c] # NoRow => Kept(c, channel[c]))'
    <3>1. ASSUME NEW r, r = channel'[c], r # NoRow
          PROVE  Kept(c, r)'
      BY <2>2, <2>3, <3>1
    <3>. QED
      BY <3>1 DEF Kept, Owed, ToClaim
  <2>5. (\A i \in DOMAIN writes : writes[i].op = "channel" /\ writes[i].ch = c => Kept(c, writes[i].row))'
    <3>1. ASSUME NEW i \in DOMAIN writes', writes'[i].op = "channel", writes'[i].ch = c, NEW r, r = writes'[i].row
          PROVE  Kept(c, r)'
      <4>1. Kept(c, r)
        BY <1>1, <3>1 DEF KeptAt
      <4>. QED
        BY <2>2, <4>1
    <3>. QED
      BY <3>1 DEF Kept, Owed, ToClaim
  <2>6. ASSUME Claim(c)' \in Written("unschedule")'
        PROVE  Droppable(c)'
    <3>1. Claim(c) \in Written("unschedule")
      BY <1>1, <1>4, <2>6 DEF Written
    <3>2. Droppable(c)
      BY <3>1 DEF KeptAt
    <3>3. \A i \in DOMAIN writes' : writes'[i].op = "channel" /\ writes'[i].ch = c => writes'[i].row.claim_tx # 0
      BY <1>1, <3>2 DEF Droppable
    <3>4. CASE writes[1].op = "channel" /\ writes[1].ch = c
      <4>1. channel'[c].claim_tx # 0
        BY <1>1, <1>2, <3>2, <3>4 DEF Droppable
      <4>. QED
        BY <3>3, <4>1 DEF Droppable, Owed
    <3>5. CASE ~(writes[1].op = "channel" /\ writes[1].ch = c)
      <4>1. Settled(c)' => Settled(c)
        BY <1>1, <3>5 DEF Settled
      <4>. QED
        BY <1>1, <1>2, <1>4, <3>2, <3>3, <3>5, <4>1 DEF Droppable, Owed
    <3>. QED
      BY <3>4, <3>5
  <2>. QED
    BY <2>4, <2>5, <2>6 DEF KeptAt
<1>7. CASE writes[1].op = "unschedule"
  <2>. DEFINE ev == writes[1].ev
  <2>1. Len(writes) = 1
    BY <1>1, <1>7 DEF LoopInv
  <2>2. \A i \in DOMAIN writes' : FALSE
    <3>. SUFFICES ASSUME NEW i \in DOMAIN writes'
                  PROVE  FALSE
      OBVIOUS
    <3>1. DOMAIN writes' = 1 .. Len(writes') /\ Len(writes') \in Nat
      BY LenProperties DEF IInv, TypeOK, LoopTypeOK
    <3>2. i \in Nat /\ i >= 1 /\ i + 1 \in DOMAIN writes
      BY <1>1, <3>1
    <3>. QED
      BY <1>n, <2>1, <3>2
  <2>3. channel'[c] = channel[c] /\ committed' = committed
    BY <1>1, <1>2, <1>7
  <2>4. scheduled_events' = {s \in scheduled_events : ~(s.at = ev.at /\ s.ch = ev.ch /\ s.who = ev.who)}
    BY <1>1, <1>7 DEF ExecuteStatement, DeleteScheduledEvent, SaveTokenNetwork, SaveChannel,
       SaveScheduledEvent, SaveWaitingTransaction, SaveCommittedBlock, Statement
  <2>5. ev \in Written("unschedule") /\ WellTimed(ev) /\ ev \in ScheduledEvents
    BY <1>1, <1>n, <1>7 DEF Written, EventsInv, KnownEvents, Writes
  <2>. HIDE DEF ev
  <2>6. ASSUME Claim(c) \in scheduled_events, Claim(c) \notin scheduled_events', channel[c] # NoRow
        PROVE  ~Owed(c, channel[c])
    <3>1. Claim(c).at = ev.at /\ ev.ch = c /\ Claim(c).who = ev.who
      BY <2>4, <2>6 DEF Claim, ClaimEvent
    <3>2. Claim(c).at = chain[c].closedAt + SettleTimeout
      BY DEF Claim, ClaimEvent
    <3>3. ev.type = "claim"
      <4>1. ev.type \in {"monitor", "claim"} /\ chain[c].closedAt \in Nat
        BY <1>0, <2>5 DEF ScheduledEvents, TypeOK, ChainTypeOK, ChannelOnChain
      <4>2. ev.type = "monitor" => ev.at = chain[c].closedAt + MonitorDelay
        BY <2>5, <3>1 DEF WellTimed, FirstAllowedToMonitor
      <4>. QED
        BY <3>1, <3>2, <4>1, <4>2, ChainConstants
    <3>4. ev = Claim(c)
      BY <2>5, <3>1, <3>2, <3>3 DEF Claim, ClaimEvent, ScheduledEvents
    <3>5. Droppable(c)
      BY <2>5, <3>4 DEF KeptAt
    <3>6. Settled(c)
      <4>1. \A i \in DOMAIN writes : i = 1
        BY <1>n, <2>1
      <4>. QED
        BY <1>7, <4>1 DEF Settled
    <3>. QED
      BY <2>6, <3>5, <3>6 DEF Droppable
  <2>7. (channel[c] # NoRow => Kept(c, channel[c]))'
    <3>1. ASSUME NEW r, r = channel[c], r # NoRow
          PROVE  Kept(c, r)'
      <4>1. Kept(c, r)
        BY <3>1 DEF KeptAt
      <4>2. Claim(c) \in scheduled_events => Claim(c) \in scheduled_events' \/ ~Owed(c, r)
        BY <2>6, <3>1
      <4>. QED
        BY <1>1, <1>5, <4>1, <4>2, KeptStays
    <3>. QED
      BY <2>3, <3>1 DEF Kept, Owed, ToClaim
  <2>. QED
    BY <2>2, <2>7 DEF KeptAt, Written
<1>. QED
  BY <1>6, <1>7

\* A step that neither changes the database nor adds a statement about rows or
\* claims loses no claim, if what it handles was handled before or is committed.
LEMMA KeptQuiet ==
    ASSUME IInv, OrderInv, EventsInv, [Next]_vars, NEW c \in Channels, KeptAt(c),
           UNCHANGED <<channel, scheduled_events, committed>>, log \subseteq log',
           \A f \in log : f.block <= fetched => f.block <= fetched',
           \A f \in log : committed < f.block /\ Handled(f)' => Handled(f),
           writes' # writes => \A i \in DOMAIN writes' : writes'[i].op \notin {"channel", "unschedule"},
           writes' # writes => writes = <<>> \/ \A f \in log : committed < f.block => ~Handled(f)'
    PROVE  KeptAt(c)'
<1>1. ASSUME NEW r, NEW f \in log, ToClaim(f, c, r), IsClosed(c)
      PROVE  ToClaim(f, c, r)'
  <2>1. Claim(c)' = Claim(c)
    BY <1>1, OwedBefore
  <2>2. ASSUME Handled(f)'
        PROVE  Claim(c)' \in Written("schedule")'
    <3>1. Handled(f) /\ Claim(c) \in Written("schedule")
      BY <1>1, <2>2 DEF ToClaim
    <3>2. writes # <<>>
      BY <3>1 DEF Written
    <3>3. writes' = writes
      BY <1>1, <2>2, <3>2 DEF ToClaim
    <3>. QED
      BY <2>1, <3>1, <3>3 DEF Written
  <2>. QED
    BY <1>1, <2>2 DEF ToClaim
<1>2. ASSUME NEW r, Kept(c, r)
      PROVE  Kept(c, r)'
  BY <1>1, <1>2, KeptStays
<1>3. (channel[c] # NoRow => Kept(c, channel[c]))'
  <2>1. ASSUME NEW r, r = channel[c], r # NoRow
        PROVE  Kept(c, r)'
    BY <1>2, <2>1 DEF KeptAt
  <2>. QED
    BY <2>1 DEF Kept, Owed, ToClaim
<1>4. (\A i \in DOMAIN writes : writes[i].op = "channel" /\ writes[i].ch = c => Kept(c, writes[i].row))'
  <2>1. ASSUME NEW i \in DOMAIN writes', writes'[i].op = "channel", writes'[i].ch = c, NEW r, r = writes'[i].row
        PROVE  Kept(c, r)'
    BY <1>2, <2>1 DEF KeptAt
  <2>. QED
    BY <2>1 DEF Kept, Owed, ToClaim
<1>5. ASSUME Claim(c)' \in Written("unschedule")'
      PROVE  Droppable(c)'
  <2>1. writes' = writes
    BY <1>5 DEF Written
  <2>2. Claim(c)' \in Written("unschedule") /\ Claim(c)'.ch = c
    BY <1>5, <2>1 DEF Written, Claim, ClaimEvent
  <2>3. IsClosed(c)
    BY <2>2 DEF EventsInv, KnownEvents, WellTimed
  <2>4. Droppable(c)
    BY <2>2, <2>3, OwedBefore DEF KeptAt
  <2>5. Settled(c)' <=> Settled(c)
    BY <2>1 DEF Settled
  <2>6. ASSUME Settled(c)', channel[c] # NoRow, NEW r, r = channel[c]
        PROVE  ~Owed(c, r)'
    BY <2>4, <2>5, <2>6, OwedBefore DEF Droppable
  <2>7. (Settled(c) /\ channel[c] # NoRow => ~Owed(c, channel[c]))'
    BY <2>6 DEF Owed
  <2>8. (\A i \in DOMAIN writes : writes[i].op = "channel" /\ writes[i].ch = c => writes[i].row.claim_tx # 0)'
    BY <2>1, <2>4 DEF Droppable
  <2>. QED
    BY <2>7, <2>8 DEF Droppable
<1>. QED
  BY <1>3, <1>4, <1>5 DEF KeptAt

\* Every step keeps the claims.
LEMMA KeptStep ==
    ASSUME IInv, IInv', OrderInv, LoopInv, PassInv, CloseInv, RequestInv, EventsInv, ClosingInv, KeptInv,
           [Next]_vars
    PROVE  KeptInv'
<1>0. TypeOK
  BY DEF IInv
<1>. SUFFICES ASSUME RewardsCovered, MonitorDelay # SettleTimeout, faults' = 0, NEW c \in Channels
              PROVE  KeptAt(c)'
  BY DEF KeptInv, RewardsCovered
<1>1. faults = 0 /\ ~EventLost /\ ~UpdatedHeadBlockFails
  BY FaultsStay
<1>2. KeptAt(c)
  BY <1>1 DEF KeptInv
<1>n. /\ committed \in Nat /\ fetched \in Nat /\ now \in Nat /\ \A e \in log : e.block \in Nat
  BY <1>0, Numbers
<1>3. ~HandleEvent /\ ~CrashAndRestart => \A f : Handled(f)' => Handled(f)
  BY HandledBefore
<1>4. CASE MovesOn
  <2>1. UNCHANGED <<channel, scheduled_events, committed, log, fetched, writes, pc, latest, head, batch>>
           \/ (UNCHANGED <<channel, scheduled_events, committed, log, fetched, writes, latest, head, batch>>
               /\ pc # "handle" /\ pc' # "handle")
    BY <1>4 DEF MovesOn, cvars
  <2>2. \A f : Handled(f)' => Handled(f)
    BY <2>1 DEF Handled, Reached
  <2>. QED
    BY <1>2, <2>1, <2>2, KeptQuiet
<1>5. CASE OnChain
  <2>1. UNCHANGED <<channel, scheduled_events, committed, fetched, writes, pc, latest, head, batch>>
    BY <1>5 DEF OnChain, dbvars
  <2>2. log \subseteq log'
    BY <1>5, OnChainGrows
  <2>3. \A f \in log : Handled(f)' => Handled(f)
    BY <2>1 DEF Handled, Reached
  <2>. QED
    BY <1>2, <2>1, <2>2, <2>3, KeptQuiet
<1>6. CASE GetBlockchainEvents
  <2>1. /\ UNCHANGED <<channel, scheduled_events, committed, writes, log>>
        /\ pc = "blocks" /\ pc' = "handle"
        /\ \E b : fetched' = IF b > fetched THEN b ELSE fetched
    BY <1>6 DEF GetBlockchainEvents, At, ProcessVars, dbvars, cvars
  <2>2. \A f \in log : f.block <= fetched => f.block <= fetched'
    <3>1. fetched' \in Nat
      BY <1>0 DEF IInv, TypeOK, HistoryTypeOK
    <3>2. fetched <= fetched'
      <4>1. PICK b \in (latest + 1) .. (now - Confirmations) : fetched' = IF b > fetched THEN b ELSE fetched
        BY <1>6 DEF GetBlockchainEvents
      <4>. QED
        BY <1>n, <3>1, <4>1, ServiceConstants, Numbers, <1>0
    <3>. QED
      BY <1>n, <3>1, <3>2
  <2>3. ~HandleEvent /\ ~CrashAndRestart
    BY <2>1, HandlerWrites DEF Handle, At, CrashAndRestart
  <2>. QED
    BY <1>2, <1>3, <2>1, <2>2, <2>3, KeptQuiet
<1>7. CASE UpdatedHeadBlock
  <2>1. /\ UNCHANGED <<channel, scheduled_events, committed, log, fetched>> /\ writes = <<>>
        /\ writes' = <<UpdateLatestCommittedBlock(head)>> /\ pc = "handle" /\ pc' = "trigger"
    BY <1>7 DEF UpdatedHeadBlock, At, ProcessVars, dbvars, cvars
  <2>2. \A i \in DOMAIN writes' : writes'[i].op = "head"
    BY <2>1 DEF UpdateLatestCommittedBlock
  <2>3. ~HandleEvent /\ ~CrashAndRestart
    BY <2>1, HandlerWrites DEF Handle, At, CrashAndRestart
  <2>. QED
    BY <1>2, <1>3, <2>1, <2>2, <2>3, KeptQuiet
<1>8. CASE CrashAndRestart
  <2>1. UNCHANGED <<channel, scheduled_events, committed, log, fetched>> /\ writes' = <<>>
    BY <1>8 DEF CrashAndRestart, dbvars, cvars, hvars
  <2>2. \A f \in log : committed < f.block => ~Handled(f)'
    BY <1>n, <1>8, HandledBefore
  <2>. QED
    BY <1>2, <2>1, <2>2, KeptQuiet
<1>9. CASE ExecuteStatement
  BY <1>1, <1>2, <1>9, KeptStatement
<1>10. CASE HandleEvent
  BY <1>1, <1>2, <1>10, KeptHandled
<1>11. ASSUME NEW s \in triggered, Acts(s)
       PROVE  KeptAt(c)'
  BY <1>1, <1>2, <1>11, KeptActed
<1>. QED
  BY <1>0, <1>1, <1>4, <1>5, <1>6, <1>7, <1>8, <1>9, <1>10, <1>11, Kinds

\* What the claims need of the chain, the requests, the events and the rows.
RInv == CloseInv /\ RequestInv /\ EventsInv /\ ClosingInv /\ KeptInv

\* It holds initially.
LEMMA RInit == Init => RInv
<1>. SUFFICES ASSUME Init
              PROVE  RInv
  OBVIOUS
<1>1. /\ batch = {} /\ writes = <<>> /\ txs = <<>> /\ scheduled_events = {} /\ triggered = {}
      /\ channel = [c \in Channels |-> NoRow]
      /\ monitor_request = [k \in Channels \X Participants |-> NoRequest]
  BY DEF Init, ChainInit
<1>2. /\ \A e \in log : e.type = "created"
      /\ \A c \in Channels : chain[c].state = "absent"
  <2>1. log = {[pos |-> 0, block |-> 1, type |-> "created", on |-> n, who |-> None, nonce |-> 0] :
               n \in Networks}
    BY DEF Init, ChainInit
  <2>2. \A c \in Channels : chain[c].state = "absent"
    BY DEF Init, ChainInit
  <2>. QED
    BY <2>1, <2>2
<1>3. \A c \in Channels : ~IsClosed(c) /\ channel[c] = NoRow
  BY <1>1, <1>2 DEF IsClosed
<1>4. CloseInv
  BY <1>2, <1>3 DEF CloseInv
<1>5. RequestInv
  <2>1. \A p \in Participants : udc[p].confirmed \in Balances[p] /\ udc[p].latest \in Balances[p]
    BY DEF Init, ChainInit
  <2>. QED
    BY <1>1, <1>2, <2>1 DEF RequestInv
<1>6. EventsInv
  BY <1>1 DEF EventsInv, KnownEvents, Written
<1>7. ClosingInv
  BY <1>1, <1>2, <1>3 DEF ClosingInv, ClosingAt
<1>8. KeptInv
  <2>1. Written("unschedule") = {}
    BY <1>1 DEF Written
  <2>. QED
    BY <1>1, <1>3, <2>1 DEF KeptInv, KeptAt
<1>. QED
  BY <1>4, <1>5, <1>6, <1>7, <1>8 DEF RInv

\* Every step keeps it.
LEMMA RStep == MInv /\ MInv' /\ RInv /\ [Next]_vars => RInv'
<1>. SUFFICES ASSUME MInv, MInv', RInv, [Next]_vars
              PROVE  RInv'
  OBVIOUS
<1>1. IInv /\ IInv' /\ OrderInv /\ LoopInv /\ PassInv
  BY DEF MInv
<1>2. CloseInv /\ RequestInv /\ EventsInv /\ ClosingInv /\ KeptInv
  BY DEF RInv
<1>3. CloseInv'
  BY <1>1, <1>2, CloseStep
<1>4. RequestInv'
  BY <1>1, <1>2, RequestStep
<1>5. EventsInv'
  BY <1>1, <1>2, EventsStep
<1>6. ClosingInv'
  BY <1>1, <1>2, ClosingStep
<1>7. KeptInv'
  BY <1>1, <1>2, KeptStep
<1>. QED
  BY <1>3, <1>4, <1>5, <1>6, <1>7 DEF RInv

\* The requests, the scheduled events, the closing blocks and the claims are
\* always what RInv says.
THEOREM RInvariance == Spec => []RInv
<1>. QED
  BY RInit, RStep, MInvariance, PTL DEF Spec

\* The reward is not forgotten: while the chain owes it to us and no claim was
\* sent, the claim that handlers.py scheduled is in the database, whatever
\* batches, crashes, replays, early attempts and removals of other events
\* there were.
THEOREM RewardKept == Spec => []RewardNotForgotten
<1>1. MInv /\ RInv => RewardNotForgotten
  <2>. SUFFICES ASSUME MInv, RInv, RewardsCovered, MonitorDelay # SettleTimeout, CaughtUp, faults = 0,
                       NEW c \in Channels, channel[c] # NoRow, channel[c].sender = Us,
                       channel[c].claim_tx = 0, chain[c].rewardTo = Us
                PROVE  \E s \in scheduled_events : s.type = "claim" /\ s.ch = c
    BY DEF RewardNotForgotten
  <2>0. TypeOK
    BY DEF MInv, IInv
  <2>1. Kept(c, channel[c]) /\ Owed(c, channel[c])
    BY DEF RInv, KeptInv, KeptAt, Owed
  <2>2. ASSUME NEW e \in log, ToClaim(e, c, channel[c])
        PROVE  FALSE
    <3>1. committed < e.block /\ e.block <= fetched /\ committed = fetched
      BY <2>2 DEF ToClaim, CaughtUp
    <3>2. committed \in Nat /\ e.block \in Nat
      BY <2>0, Numbers
    <3>. QED
      BY <3>1, <3>2
  <2>3. Claim(c) \in scheduled_events
    BY <2>1, <2>2 DEF Kept
  <2>4. Claim(c).type = "claim" /\ Claim(c).ch = c
    BY DEF Claim, ClaimEvent
  <2>. QED
    BY <2>3, <2>4
<1>. QED
  BY <1>1, MInvariance, RInvariance, PTL

------------------------------------------------------------------------------
(* In time: what is known of the time, the rows and the transactions that  *)
(* brings the check of a closed channel about before its settlement.       *)

\* With one iteration per block, the service is at most so many blocks behind.
Behind == IF pc \in {"blocks", "handle"} THEN latest ELSE latest - 1

\* The committed block is one block further behind until an iteration has ended.
LagInv ==
    Punctual /\ faults = 0 =>
        /\ now <= committed + Confirmations + (IF polled THEN 1 ELSE 2)
        /\ now <= Behind + Confirmations + (IF polled THEN 1 ELSE 2)

\* Once its opening was handled a channel has a row.
OpenedInv ==
    /\ \A c \in Channels : chain[c].state # "absent" => \E e \in log : e.type = "opened" /\ e.on = c
    /\ faults = 0 => \A e \in log : e.type = "opened" =>
          /\ e.block <= latest => channel[e.on] # NoRow
          /\ Handled(e) /\ Settled(e.on) => channel[e.on] # NoRow

\* The events known are about channels with rows, a check is not due before
\* the MSC allows to monitor, and there is no claim without our monitoring.
Founded(s) ==
    /\ channel[s.ch] # NoRow
    /\ s.type = "monitor" => FirstAllowedToMonitor(s.ch) <= s.at
    /\ s.type = "claim" => \E e \in log : e.type = "monitored" /\ e.who = Us /\ e.on = s.ch

\* So it is for every event known, and what is triggered is due; an attempt
\* that was too early puts the scheduler off by RetryDelay.
FoundedInv ==
    /\ \A s \in KnownEvents : Founded(s)
    /\ \A s \in triggered : s.at <= Clock
    /\ try_after <= Clock + RetryDelay

\* A row has the hash of a monitoring transaction only if one was sent.
SentInv ==
    \A c \in Channels :
        /\ channel[c] # NoRow /\ channel[c].monitor_tx # 0 => MonitorTxs(c) # {}
        /\ \A i \in DOMAIN writes : writes[i].op = "channel" /\ writes[i].ch = c
                                    /\ writes[i].row.monitor_tx # 0 => MonitorTxs(c) # {}

\* The MSC accepts a monitoring now.
OpenToMonitor(c) ==
    chain[c].state = "closed" /\ FirstAllowedToMonitor(c) <= now /\ now <= SettleableAfter(c)

\* What is sent is mined in the same block, in which the MSC accepts it.
FlightInv ==
    Punctual => \A i \in DOMAIN txs : txs[i].type = "monitor" /\ txs[i].block = 0 => OpenToMonitor(txs[i].ch)

\* The participant for whom the service acts once the channel is closed.
Client(c) == Other(chain[c].closer)

\* There is a request the service has to act upon: it is neither on the chain
\* nor on its way.
Waiting(c) ==
    LET mr == monitor_request[<<c, Client(c)>>] IN
    /\ mr # NoRequest /\ mr.signer = chain[c].closer /\ mr.reward >= MinReward
    /\ \A b \in Balances[Client(c)] : b * 10 >= mr.reward * 11
    /\ mr.saved_at < FirstAllowedToMonitor(c)
    /\ chain[c].nonce < mr.nonce
    /\ \A i \in MonitorTxs(c) : txs[i].block = 0 => txs[i].nonce < mr.nonce

\* The check of a closed channel has not done its work: it is not due yet, or
\* there is a request that waits for it.
Awaited(c) ==
    /\ IsClosed(c) /\ NotBlocked(c)
    /\ Clock < FirstAllowedToMonitor(c) \/ Waiting(c)

\* The check for a request that is scheduled when the closing is handled.
Check(c) ==
    [at |-> FirstAllowedToMonitor(c), type |-> "monitor", ch |-> c, who |-> Client(c)]

\* It is scheduled, or will be when the closing is handled, again after a crash.
ToCheck(e, c) ==
    /\ e.type = "closed" /\ e.on = c /\ committed < e.block
    /\ Handled(e) => Check(c) \in Written("schedule")

\* The check of a channel is still to come, at its time, and not removed.
CheckKept(c) ==
    /\ MonitorTxs(c) = {}
    /\ \A s \in KnownEvents : s.type = "monitor" /\ s.ch = c => s = Check(c)
    /\ Check(c) \notin Written("unschedule")
    /\ Check(c) \in scheduled_events \/ \E e \in log : ToCheck(e, c)

\* The last time the check may be put off, and the time by which it is made.
LastPutOff(c) == chain[c].closedAt + CheckWait
Latest(c) == chain[c].closedAt + CheckDelay

\* What is triggered with the check or after it, is so together with the check
\* or before the closing was handled.
Together(c) ==
    pc = "scheduled" /\ (\E s \in triggered : FirstAllowedToMonitor(c) <= s.at) =>
        Check(c) \in triggered \/ latest < chain[c].closedAt

\* No attempt is put off so far that the check would be late, and the loop does
\* not end an iteration at the last moment without it.
OnTime(c) ==
    /\ try_after <= Clock \/ try_after <= LastPutOff(c) + ClockAhead + RetryDelay
    /\ now <= Latest(c) + 1
    /\ now >= Latest(c) /\ polled /\ pc = "scheduled" => Check(c) \in triggered
    /\ now = Latest(c) + 1 => /\ ~polled /\ pc # "pending"
                              /\ pc = "scheduled" => Check(c) \in triggered

\* So it is for every awaited check, with time enough and without faults.
AwaitInv ==
    Punctual /\ EnoughTime /\ faults = 0 =>
        \A c \in Channels : Awaited(c) => CheckKept(c) /\ Together(c) /\ OnTime(c)

\* The steps, by what they do to the time and to the place in the loop.
Still == UNCHANGED <<now, polled, pc, latest, try_after, triggered>>

LEMMA Paces ==
    ASSUME IInv, [Next]_vars, faults' = 0
    PROVE  \/ Still \/ Tick \/ NoNewBlocks \/ GetBlockchainEvents \/ UpdatedHeadBlock
           \/ TriggerNotYet \/ TriggerScheduledEvents \/ TriggeredEventsDone
           \/ \E s \in triggered : HandleTooEarly(s)
           \/ CheckPendingTransactions \/ CrashAndRestart
           \/ \E s \in triggered : Acts(s)
<1>0. TypeOK
  BY DEF IInv
<1>1. CASE UNCHANGED vars
  BY <1>1 DEF vars, cvars, hvars, Still
<1>2. CASE ChainStep \/ Mine
  <2>1. UNCHANGED now
    <3>1. ChainTransaction => UNCHANGED now
      BY DEF ChainTransaction, OpenChannel, CloseChannel, UpdateNonClosing, MonitorByOther, SettleChannel,
             ChangeBalance, ConfirmBalance
    <3>2. MineTx => UNCHANGED now
      BY DEF MineTx, MineMonitor, MineClaim, MineReverted
    <3>. QED
      BY <1>2, <3>1, <3>2 DEF ChainStep, Mine
  <2>. QED
    BY <1>2, <2>1 DEF ChainStep, Mine, hvars, Still
<1>3. ASSUME NEW mr \in Requests, OnMonitorRequest(mr)
      PROVE  Still
  BY <1>3 DEF OnMonitorRequest, cvars, dbvars, hvars, Still
<1>4. CASE ExecuteStatement
  BY <1>0, <1>4, StatementEffect DEF cvars, hvars, Still
<1>5. CASE HandleEvent
  BY <1>5, HandlerWrites DEF Handle, ProcessVars, cvars, Still
<1>6. GetBlockchainEventsTimeout => faults' = faults + 1
  BY DEF GetBlockchainEventsTimeout
<1>7. ~EventLost /\ ~UpdatedHeadBlockFails /\ ~GetBlockchainEventsTimeout
  <2>1. faults \in Nat /\ ~EventLost /\ ~UpdatedHeadBlockFails
    BY <1>0, FaultsStay, Numbers
  <2>. QED
    BY <1>6, <2>1
<1>8. HandleScheduledEvent \/ ActionLost =>
        (\E s \in triggered : HandleTooEarly(s)) \/ \E s \in triggered : Acts(s)
  BY DEF HandleScheduledEvent, ActionLost, Acts
<1>. QED
  BY <1>1, <1>2, <1>3, <1>4, <1>5, <1>7, <1>8 DEF Next, Loop

\* With one iteration per block the service keeps up.
LEMMA LagStep ==
    ASSUME IInv, IInv', LoopInv, PassInv, LagInv, [Next]_vars
    PROVE  LagInv'
<1>0. TypeOK
  BY DEF IInv
<1>. SUFFICES ASSUME Punctual, faults' = 0
              PROVE  /\ now' <= committed' + Confirmations + (IF polled' THEN 1 ELSE 2)
                     /\ now' <= Behind' + Confirmations + (IF polled' THEN 1 ELSE 2)
  BY DEF LagInv
<1>1. faults = 0
  BY FaultsStay
<1>n. /\ now \in Nat /\ committed \in Nat /\ latest \in Nat /\ head \in Nat /\ Confirmations \in Nat \ {0}
      /\ polled \in BOOLEAN /\ pc \in {"blocks", "handle", "trigger", "scheduled", "pending"}
  BY <1>0, Numbers, ServiceConstants DEF TypeOK, HistoryTypeOK, LoopTypeOK
<1>2. /\ now <= committed + Confirmations + (IF polled THEN 1 ELSE 2)
      /\ pc \in {"blocks", "handle"} => now <= latest + Confirmations + (IF polled THEN 1 ELSE 2)
      /\ pc \notin {"blocks", "handle"} => now <= latest - 1 + Confirmations + (IF polled THEN 1 ELSE 2)
  BY <1>1 DEF LagInv, Behind
<1>3. committed <= latest
  BY DEF LoopInv
<1>4. committed' \in {committed, latest} /\ (committed' # committed => ExecuteStatement /\ pc = "trigger")
  <2>1. CASE ExecuteStatement
    <3>1. /\ 1 \in DOMAIN writes
          /\ writes[1].op # "head" => UNCHANGED committed
          /\ writes[1].op = "head" => committed' = writes[1].block
      BY <1>0, <2>1, StatementEffect
    <3>2. writes[1].op = "head" => writes[1].block = latest /\ pc = "trigger"
      BY <3>1 DEF LoopInv, StatementsAt
    <3>. QED
      BY <2>1, <3>1, <3>2
  <2>2. MovesOn \/ OnChain \/ GetBlockchainEvents \/ UpdatedHeadBlock \/ UpdatedHeadBlockFails \/ CrashAndRestart
        => UNCHANGED committed
    BY DEF MovesOn, OnChain, GetBlockchainEvents, UpdatedHeadBlock, UpdatedHeadBlockFails, CrashAndRestart,
           ProcessVars, dbvars
  <2>3. HandleEvent \/ EventLost => UNCHANGED committed
    BY HandlerWrites DEF Handle, ProcessVars, dbvars
  <2>4. (\E s \in triggered : Acts(s)) => UNCHANGED committed
    BY ActionWrites DEF SchedulerVars, dbvars
  <2>. QED
    BY <1>0, <2>1, <2>2, <2>3, <2>4, Kinds
<1>s. ASSUME UNCHANGED <<now, polled, latest>>, pc' = pc \/ (pc \notin {"blocks", "handle"} /\ pc' \notin {"blocks", "handle"})
      PROVE  /\ now' <= committed' + Confirmations + (IF polled' THEN 1 ELSE 2)
             /\ now' <= Behind' + Confirmations + (IF polled' THEN 1 ELSE 2)
  <2>1. committed' = committed \/ (committed' = latest /\ pc = "trigger")
    BY <1>4
  <2>. QED
    BY <1>s, <1>n, <1>2, <2>1 DEF Behind
<1>5. CASE Still
  BY <1>5, <1>s DEF Still
<1>6. CASE Tick
  <2>1. now' = now + 1 /\ polled /\ polled' = FALSE /\ UNCHANGED <<pc, latest>> /\ committed' = committed
    BY <1>6 DEF Tick, NewBlock, dbvars
  <2>. QED
    BY <1>n, <1>2, <2>1 DEF Behind
<1>7. CASE NoNewBlocks
  <2>1. UNCHANGED <<now, polled, latest, committed>> /\ pc' = "trigger" /\ latest + 1 > now - Confirmations
    BY <1>7 DEF NoNewBlocks, ProcessVars, cvars, dbvars
  <2>. QED
    BY <1>n, <1>2, <2>1 DEF Behind
<1>8. CASE GetBlockchainEvents
  <2>1. UNCHANGED <<now, polled, latest, committed>> /\ pc = "blocks" /\ pc' = "handle"
    BY <1>8 DEF GetBlockchainEvents, At, ProcessVars, cvars, dbvars
  <2>. QED
    BY <1>n, <1>2, <2>1 DEF Behind
<1>9. CASE UpdatedHeadBlock
  <2>1. UNCHANGED <<now, polled, committed>> /\ pc = "handle" /\ pc' = "trigger" /\ latest' = head
    BY <1>9 DEF UpdatedHeadBlock, At, ProcessVars, cvars, dbvars
  <2>2. latest < head
    BY <2>1 DEF LoopInv
  <2>. QED
    BY <1>n, <1>2, <2>1, <2>2 DEF Behind
<1>10. CASE TriggerNotYet \/ TriggerScheduledEvents \/ TriggeredEventsDone
  BY <1>10, <1>s DEF TriggerNotYet, TriggerScheduledEvents, TriggeredEventsDone, At, SchedulerVars
<1>11. CASE \E s \in triggered : HandleTooEarly(s)
  BY <1>11, <1>s DEF HandleTooEarly, TooEarly, Due, At, SchedulerVars
<1>12. CASE CheckPendingTransactions
  <2>1. UNCHANGED <<now, latest, committed>> /\ pc = "pending" /\ pc' = "blocks" /\ polled' = TRUE
        /\ writes = <<>>
    BY <1>12 DEF CheckPendingTransactions, At, cvars
  <2>2. committed = latest
    BY <1>1, <2>1 DEF PassInv
  <2>. QED
    BY <1>n, <1>2, <2>1, <2>2 DEF Behind
<1>13. CASE CrashAndRestart
  <2>1. UNCHANGED <<now, polled, committed>> /\ pc' = "blocks" /\ latest' = committed
    BY <1>13 DEF CrashAndRestart, cvars, dbvars
  <2>. QED
    BY <1>n, <1>2, <2>1 DEF Behind
<1>14. CASE \E s \in triggered : Acts(s)
  BY <1>14, <1>s, ActionWrites DEF SchedulerVars
<1>. QED
  BY <1>5, <1>6, <1>7, <1>8, <1>9, <1>10, <1>11, <1>12, <1>13, <1>14, Paces

\* A row is never removed.
LEMMA RowsStay ==
    ASSUME IInv, [Next]_vars, NEW c \in Channels, channel[c] # NoRow
    PROVE  channel'[c] # NoRow
<1>1. \A i \in DOMAIN writes : writes[i].op = "channel" => writes[i].row # NoRow
  <2>1. \A i \in DOMAIN writes : writes[i] \in Writes
    BY Numbers DEF IInv
  <2>2. \A i \in DOMAIN writes : writes[i].op = "channel" => writes[i].row \in ChannelRows
    BY <2>1 DEF Writes
  <2>. QED
    BY <2>2 DEF ChannelRows, NoRow
<1>. QED
  BY <1>1, RowsAfter

\* Every step keeps what holds of the openings and the rows.
LEMMA OpenedStep ==
    ASSUME IInv, IInv', OrderInv, LoopInv, PassInv, OpenedInv, [Next]_vars
    PROVE  OpenedInv'
<1>0. TypeOK /\ ChainTypeOK /\ log \in SUBSET Events /\ ChainTypeOK'
  BY DEF IInv, TypeOK, ChainTypeOK
<1>g. log \subseteq log'
  BY <1>0, OffChain, OnChainGrows
<1>1. ASSUME NEW c \in Channels, chain'[c].state # "absent"
      PROVE  \E e \in log' : e.type = "opened" /\ e.on = c
  <2>1. CASE chain[c].state # "absent"
    BY <1>g, <2>1 DEF OpenedInv
  <2>2. CASE chain[c].state = "absent"
    <3>1. OnChain /\ ~UNCHANGED <<chain, log>>
      BY <1>1, <2>2, OffChain
    <3>2. PICK d \in Channels : ChannelMoves(d)
      BY <1>0, <3>1, ChainEffect
    <3>3. d = c
      BY <1>1, <2>2, <3>2 DEF ChannelMoves
    <3>4. PICK e : ByOneEvent(c, e)
      BY <2>2, <3>2, <3>3 DEF ChannelMoves, ByMonitoring
    <3>. QED
      BY <2>2, <3>4 DEF ByOneEvent, EventIs
  <2>. QED
    BY <2>1, <2>2
<1>2. ASSUME faults' = 0, NEW e \in log', e.type = "opened"
      PROVE  /\ e.block <= latest' => channel'[e.on] # NoRow
             /\ Handled(e)' /\ Settled(e.on)' => channel'[e.on] # NoRow
  <2>0. faults = 0 /\ faults' = faults /\ ~EventLost /\ ~UpdatedHeadBlockFails
    BY <1>2, FaultsStay
  <2>n. /\ latest \in Nat /\ e.block \in Nat /\ head \in Nat /\ e.on \in Channels /\ now \in Nat
        /\ committed \in Nat /\ committed <= latest /\ latest < now /\ fetched \in Nat
    <3>1. e.block \in Nat /\ e.on \in Channels
      BY <1>0, <1>2 DEF ChainTypeOK, Events, MSCEvents
    <3>2. committed <= latest /\ latest <= fetched /\ fetched < now
      BY DEF LoopInv
    <3>. QED
      BY <1>0, <3>1, <3>2, Numbers
  <2>r. channel[e.on] # NoRow => channel'[e.on] # NoRow
    BY <2>n, RowsStay
  <2>1. CASE e \notin log
    <3>1. OnChain /\ e.block = now /\ UNCHANGED latest
      BY <1>2, <2>1, OffChain, OnChainGrows DEF OnChain
    <3>2. ~Handled(e)'
      BY <1>2, <2>1, HandledBefore
    <3>. QED
      BY <2>n, <3>1, <3>2
  <2>2. CASE e \in log
    <3>0. /\ e.block <= latest => channel[e.on] # NoRow
          /\ Handled(e) /\ Settled(e.on) => channel[e.on] # NoRow
      BY <1>2, <2>0, <2>2 DEF OpenedInv
    <3>1. CASE MovesOn \/ OnChain
      <4>1. UNCHANGED <<writes, latest>> /\ (Settled(e.on)' => Settled(e.on))
        BY <3>1 DEF MovesOn, OnChain, Settled
      <4>2. Handled(e)' => Handled(e)
        <5>1. CASE MovesOn
          BY <5>1 DEF MovesOn, Handled, Reached, cvars
        <5>2. CASE OnChain
          BY <2>2, <5>2 DEF OnChain, Handled, Reached
        <5>. QED
          BY <3>1, <5>1, <5>2
      <4>. QED
        BY <2>r, <3>0, <4>1, <4>2
    <3>2. CASE GetBlockchainEvents
      <4>1. UNCHANGED latest /\ Settled(e.on) /\ ~HandleEvent
        <5>1. UNCHANGED latest /\ writes = <<>> /\ pc = "blocks"
          BY <3>2 DEF GetBlockchainEvents, At
        <5>. QED
          BY <5>1, HandlerWrites DEF Settled, Handle, At
      <4>2. Handled(e)' => Handled(e)
        BY <1>2, <4>1, HandledBefore
      <4>. QED
        BY <2>r, <3>0, <4>1, <4>2
    <3>3. CASE UpdatedHeadBlock
      <4>1. /\ UNCHANGED log /\ writes = <<>> /\ latest' = head /\ pc = "handle" /\ batch = {}
            /\ pc' = "trigger" /\ batch' = {}
        BY <3>3 DEF UpdatedHeadBlock, At, ProcessVars, cvars
      <4>2. Settled(e.on) /\ (Handled(e)' => Handled(e)) /\ (e.block <= latest' => Handled(e))
        BY <2>2, <4>1 DEF Handled, Reached, Settled
      <4>. QED
        BY <2>r, <3>0, <4>2
    <3>4. CASE CrashAndRestart
      <4>1. latest' = committed
        BY <3>4 DEF CrashAndRestart
      <4>2. Handled(e)' => e.block <= latest
        BY <1>2, <3>4, HandledBefore
      <4>. QED
        BY <2>n, <2>r, <3>0, <4>1, <4>2
    <3>5. CASE ExecuteStatement
      <4>1. UNCHANGED <<log, pc, head, latest, batch>>
        BY <1>0, <3>5, StatementEffect DEF cvars
      <4>2. Handled(e)' => Handled(e)
        BY <4>1 DEF Handled, Reached
      <4>3. /\ 1 \in DOMAIN writes
            /\ \A i \in DOMAIN writes \ {1} : i - 1 \in DOMAIN writes' /\ writes'[i - 1] = writes[i]
            /\ writes[1].op = "channel" => channel' = [channel EXCEPT ![writes[1].ch] = writes[1].row]
        BY <1>0, <3>5, StatementEffect
      <4>4. CASE writes[1].op = "channel" /\ writes[1].ch = e.on
        <5>1. writes[1] \in Writes
          BY <1>0, <4>3, Numbers
        <5>2. writes[1].row \in ChannelRows
          BY <4>4, <5>1 DEF Writes
        <5>3. channel'[e.on] = writes[1].row
          BY <1>0, <2>n, <4>3, <4>4 DEF TypeOK, DatabaseTypeOK
        <5>. QED
          BY <5>2, <5>3 DEF ChannelRows, NoRow
      <4>5. CASE ~(writes[1].op = "channel" /\ writes[1].ch = e.on)
        <5>1. Settled(e.on)' => Settled(e.on)
          BY <4>3, <4>5 DEF Settled
        <5>. QED
          BY <2>r, <3>0, <4>1, <4>2, <5>1
      <4>. QED
        BY <4>4, <4>5
    <3>6. CASE HandleEvent
      <4>e0. PICK f \in batch : \E ws : /\ Handle(f, ws) /\ \A i \in DOMAIN ws : SavedBy(f, ws[i])
                                        /\ faults' = faults => Finishes(f, ws)
        BY <3>6, HandlerSaves
      <4>1. PICK ws : /\ Handle(f, ws) /\ \A i \in DOMAIN ws : SavedBy(f, ws[i])
                      /\ faults' = faults => Finishes(f, ws)
        BY <4>e0
      <4>2. writes' = ws /\ writes = <<>> /\ pc = "handle" /\ UNCHANGED latest /\ batch' = batch \ {f}
        BY <4>1 DEF Handle, At, ProcessVars
      <4>3. Settled(e.on) /\ (Handled(e)' => Handled(e) \/ e = f)
        <5>1. Handled(e)' => Handled(e) \/ (batch' = batch \ {e} /\ e \in batch)
          BY <1>2, HandledBefore
        <5>. QED
          BY <4>1, <4>2, <5>1 DEF Settled
      <4>4. CASE e = f
        <5>1. \E i \in DOMAIN writes' : writes'[i].op = "channel" /\ writes'[i].ch = e.on
          BY <1>2, <2>0, <4>1, <4>2, <4>4 DEF Finishes, SavedBy
        <5>2. ~Settled(e.on)'
          BY <5>1 DEF Settled
        <5>. QED
          BY <2>r, <3>0, <4>2, <5>2
      <4>5. CASE e # f
        BY <2>r, <3>0, <4>2, <4>3, <4>5
      <4>. QED
        BY <4>4, <4>5
    <3>7. ASSUME NEW s \in triggered, Acts(s)
          PROVE  /\ e.block <= latest' => channel'[e.on] # NoRow
                 /\ Handled(e)' /\ Settled(e.on)' => channel'[e.on] # NoRow
      <4>1. writes = <<>> /\ UNCHANGED <<latest, log, pc, head, batch>>
        BY <3>7, ActionWrites DEF SchedulerVars, At
      <4>2. Settled(e.on) /\ (Handled(e)' => Handled(e))
        BY <4>1 DEF Settled, Handled, Reached
      <4>. QED
        BY <2>r, <3>0, <4>1, <4>2
    <3>. QED
      BY <1>0, <2>0, <3>1, <3>2, <3>3, <3>4, <3>5, <3>6, <3>7, Kinds
  <2>. QED
    BY <2>1, <2>2
<1>. QED
  BY <1>1, <1>2 DEF OpenedInv

\* Time does not go back, events are triggered when they are due, and an
\* attempt is put off from now.
LEMMA Attempts ==
    ASSUME IInv, OrderInv, [Next]_vars
    PROVE  /\ now \in Nat /\ now' \in Nat /\ now <= now'
           /\ triggered' \subseteq triggered \/ (now' = now /\ \A s \in triggered' : s.at <= Clock)
           /\ try_after' = try_after \/ try_after' = Clock \/ try_after' = Clock + RetryDelay
<1>0. TypeOK /\ now \in Nat
  BY Numbers DEF IInv
<1>1. now' \in Nat /\ now <= now'
  <2>1. CASE OnChain
    BY <1>0, <2>1, OnChainGrows
  <2>2. CASE ~OnChain
    BY <1>0, <2>2, OffChain
  <2>. QED
    BY <2>1, <2>2
<1>2. (triggered' = triggered /\ try_after' = try_after)
      \/ TriggerScheduledEvents \/ CrashAndRestart
      \/ (\E s \in triggered : HandleTooEarly(s)) \/ (\E s \in triggered : Acts(s))
  <2>1. CASE UNCHANGED vars \/ ChainStep \/ Mine \/ Tick
    BY <2>1 DEF vars, ChainStep, Mine, Tick
  <2>2. ASSUME NEW mr \in Requests, OnMonitorRequest(mr)
        PROVE  triggered' = triggered /\ try_after' = try_after
    BY <2>2 DEF OnMonitorRequest
  <2>3. CASE ExecuteStatement
    BY <1>0, <2>3, StatementEffect
  <2>4. CASE HandleEvent \/ EventLost
    BY <2>4, HandlerWrites DEF Handle
  <2>5. CASE NoNewBlocks \/ GetBlockchainEvents \/ UpdatedHeadBlock \/ TriggerNotYet \/ TriggeredEventsDone
             \/ CheckPendingTransactions \/ GetBlockchainEventsTimeout \/ UpdatedHeadBlockFails
    BY <2>5 DEF NoNewBlocks, GetBlockchainEvents, UpdatedHeadBlock, TriggerNotYet, TriggeredEventsDone,
       CheckPendingTransactions, GetBlockchainEventsTimeout, UpdatedHeadBlockFails
  <2>6. HandleScheduledEvent \/ ActionLost =>
          (\E s \in triggered : HandleTooEarly(s)) \/ \E s \in triggered : Acts(s)
    BY DEF HandleScheduledEvent, ActionLost, Acts
  <2>. QED
    BY <2>1, <2>2, <2>3, <2>4, <2>5, <2>6 DEF Next, Loop
<1>3. TriggerScheduledEvents => /\ now' = now /\ \A s \in triggered' : s.at <= Clock
                                /\ try_after' = try_after
  BY DEF TriggerScheduledEvents, SchedulerVars
<1>4. CrashAndRestart => triggered' = {} /\ try_after' = Clock
  BY DEF CrashAndRestart
<1>5. (\E s \in triggered : HandleTooEarly(s)) => triggered' = {} /\ try_after' = Clock + RetryDelay
  BY DEF HandleTooEarly, TooEarly
<1>6. (\E s \in triggered : Acts(s)) => triggered' \subseteq triggered /\ try_after' = try_after
  BY DEF Acts, MonitorDropped, MonitorRescheduled, MonitorSent, ClaimDropped, ClaimSent, ActionFails, Send, Done
<1>. QED
  BY <1>0, <1>1, <1>2, <1>3, <1>4, <1>5, <1>6

\* Every step keeps the grounds of the known events.
LEMMA FoundedStep ==
    ASSUME IInv, IInv', OrderInv, CloseInv, RequestInv, EventsInv, ClosingInv, FoundedInv, [Next]_vars
    PROVE  FoundedInv'
<1>0. TypeOK /\ KnownEvents \subseteq ScheduledEvents /\ batch \subseteq log
  BY KnownTypes DEF IInv, NonceInv
<1>g. log \subseteq log'
  BY <1>0, OffChain, OnChainGrows
<1>n. /\ now \in Nat /\ now' \in Nat /\ now <= now' /\ ClockAhead \in Nat /\ RetryDelay \in Nat
      /\ try_after \in Nat /\ \A s \in ScheduledEvents : s.at \in Nat
  BY <1>0, Attempts, ServiceConstants DEF TypeOK, LoopTypeOK, ScheduledEvents
<1>1. ASSUME NEW s \in ScheduledEvents, Founded(s), s.type = "monitor" => IsClosed(s.ch)
      PROVE  Founded(s)'
  <2>1. s.ch \in Channels
    BY DEF ScheduledEvents
  <2>2. channel'[s.ch] # NoRow
    BY <1>1, <2>1, RowsStay DEF Founded
  <2>3. s.type = "monitor" => FirstAllowedToMonitor(s.ch)' = FirstAllowedToMonitor(s.ch)
    BY <1>1, <2>1, ClosedForEver DEF FirstAllowedToMonitor, Lasting
  <2>. QED
    BY <1>g, <1>1, <2>2, <2>3 DEF Founded
<1>2. ASSUME NEW s \in KnownEvents
      PROVE  s \in ScheduledEvents /\ Founded(s) /\ (s.type = "monitor" => IsClosed(s.ch))
  BY <1>0, <1>2 DEF FoundedInv, EventsInv, WellTimed
<1>3. ASSUME NEW e \in batch, NEW s, NewlyScheduled(e, s)
      PROVE  s \in ScheduledEvents /\ Founded(s) /\ (s.type = "monitor" => IsClosed(s.ch))
  <2>0. e \in log /\ e.on \in Channels /\ e.type # "created"
    BY <1>0, <1>3, EventFacts DEF NewlyScheduled, OurClaim
  <2>t. s \in ScheduledEvents
    BY <1>3, NewWellTimed
  <2>1. CASE e.type = "closed" /\ channel[e.on] # NoRow /\ s = MonitorEvent(e)
    <3>1. s.type = "monitor" /\ s.ch = e.on /\ s.at = FirstAllowedToMonitor(e.on)
      BY <2>1 DEF MonitorEvent
    <3>2. IsClosed(e.on)
      BY <2>0, <2>1 DEF OrderInv, IsClosed
    <3>3. FirstAllowedToMonitor(e.on) <= s.at
      BY <1>n, <2>t, <3>1
    <3>. QED
      BY <2>1, <2>t, <3>1, <3>2, <3>3 DEF Founded
  <2>2. CASE OurClaim(e) /\ s = ClaimEvent(e.on, channel[e.on].closing_block)
    <3>1. s.type = "claim" /\ s.ch = e.on
      BY <2>2 DEF ClaimEvent
    <3>. QED
      BY <2>0, <2>2, <2>t, <3>1 DEF Founded, OurClaim
  <2>. QED
    BY <1>3, <2>1, <2>2 DEF NewlyScheduled
<1>4. ASSUME NEW a \in triggered, MonitorRescheduled(a), NEW s, s = [a EXCEPT !.at = Clock]
      PROVE  s \in ScheduledEvents /\ Founded(s) /\ (s.type = "monitor" => IsClosed(s.ch))
  <2>1. /\ s \in ScheduledEvents /\ s.ch = a.ch /\ s.type = "monitor" /\ a.type = "monitor"
        /\ s.at = Clock /\ a \in ScheduledEvents
    BY <1>0, <1>4, ScheduledAgain
  <2>2. a \in KnownEvents /\ a.at <= Clock
    BY DEF KnownEvents, FoundedInv
  <2>3. Founded(a) /\ IsClosed(a.ch)
    BY <1>2, <2>1, <2>2
  <2>4. FirstAllowedToMonitor(a.ch) <= Clock
    <3>1. FirstAllowedToMonitor(a.ch) <= a.at
      BY <2>1, <2>3 DEF Founded
    <3>2. chain[a.ch].closedAt \in Nat
      BY <1>0, <2>1 DEF TypeOK, ChainTypeOK, ChannelOnChain, ScheduledEvents
    <3>. QED
      BY <1>n, <2>1, <2>2, <3>1, <3>2, ChainConstants DEF FirstAllowedToMonitor, Clock
  <2>5. FirstAllowedToMonitor(s.ch) <= s.at /\ channel[s.ch] # NoRow /\ IsClosed(s.ch)
    BY <2>1, <2>3, <2>4 DEF Founded
  <2>. QED
    BY <2>1, <2>5 DEF Founded
<1>5. ASSUME NEW s \in KnownEvents'
      PROVE  Founded(s)'
  BY <1>1, <1>2, <1>3, <1>4, KnownAfter
<1>6. ASSUME NEW s \in triggered'
      PROVE  s.at <= Clock'
  <2>1. s.at \in Nat
    BY <1>n DEF IInv, TypeOK, LoopTypeOK
  <2>2. s.at <= Clock
    BY Attempts DEF FoundedInv
  <2>. QED
    BY <1>n, <2>1, <2>2 DEF Clock
<1>7. try_after' <= Clock' + RetryDelay
  <2>1. try_after <= Clock + RetryDelay
    BY DEF FoundedInv
  <2>. QED
    BY <1>n, <2>1, Attempts DEF Clock
<1>. QED
  BY <1>5, <1>6, <1>7 DEF FoundedInv

\* Time passes in a step of its own.
LEMMA TimePasses ==
    ASSUME IInv, [Next]_vars
    PROVE  now' = now \/ Tick
<1>0. TypeOK
  BY DEF IInv
<1>1. UNCHANGED vars => now' = now
  BY DEF vars, cvars
<1>2. ChainStep \/ Mine => now' = now
  <2>1. ChainTransaction => UNCHANGED now
    BY DEF ChainTransaction, OpenChannel, CloseChannel, UpdateNonClosing, MonitorByOther, SettleChannel,
           ChangeBalance, ConfirmBalance
  <2>2. MineTx => UNCHANGED now
    BY DEF MineTx, MineMonitor, MineClaim, MineReverted
  <2>. QED
    BY <2>1, <2>2 DEF ChainStep, Mine
<1>3. ASSUME NEW mr \in Requests, OnMonitorRequest(mr)
      PROVE  now' = now
  BY <1>3 DEF OnMonitorRequest, cvars
<1>4. ExecuteStatement => now' = now
  BY <1>0, StatementEffect DEF cvars
<1>5. HandleEvent \/ EventLost => now' = now
  BY HandlerWrites DEF Handle, ProcessVars, cvars
<1>6. NoNewBlocks \/ GetBlockchainEvents \/ UpdatedHeadBlock \/ GetBlockchainEventsTimeout
      \/ UpdatedHeadBlockFails \/ CheckPendingTransactions \/ CrashAndRestart => now' = now
  BY DEF NoNewBlocks, GetBlockchainEvents, UpdatedHeadBlock, GetBlockchainEventsTimeout,
         UpdatedHeadBlockFails, CheckPendingTransactions, CrashAndRestart, ProcessVars, cvars
<1>7. TriggerNotYet \/ TriggerScheduledEvents \/ TriggeredEventsDone => now' = now
  BY DEF TriggerNotYet, TriggerScheduledEvents, TriggeredEventsDone, SchedulerVars
<1>8. HandleScheduledEvent \/ ActionLost => now' = now
  <2>1. \A s \in triggered : HandleTooEarly(s) => now' = now
    BY DEF HandleTooEarly, TooEarly, SchedulerVars
  <2>2. \A s \in triggered : Acts(s) => now' = now
    BY ActionWrites DEF SchedulerVars
  <2>. QED
    BY <2>1, <2>2 DEF HandleScheduledEvent, ActionLost, Acts
<1>. QED
  BY <1>1, <1>2, <1>3, <1>4, <1>5, <1>6, <1>7, <1>8 DEF Next, Loop

\* The transactions that may be sent for a triggered event.
LEMMA ActionTx ==
    ASSUME NEW s \in triggered, Acts(s)
    PROVE  \/ txs' = txs
           \/ txs' = Append(txs, MonitorTx(s)) /\ MayMonitor(s)
           \/ txs' = Append(txs, ClaimTx(s))
<1>1. MonitorDropped(s) \/ MonitorRescheduled(s) \/ ClaimDropped(s) => txs' = txs
  BY DEF MonitorDropped, MonitorRescheduled, ClaimDropped
<1>2. MonitorSent(s) => MayMonitor(s) /\ txs' = Append(txs, MonitorTx(s))
  BY DEF MonitorSent, Send
<1>3. ClaimSent(s) => txs' = Append(txs, ClaimTx(s))
  BY DEF ClaimSent, Send
<1>4. ActionFails(s) => \/ txs' = txs
                        \/ MayMonitor(s) /\ txs' = Append(txs, MonitorTx(s))
                        \/ txs' = Append(txs, ClaimTx(s))
  BY DEF ActionFails
<1>. QED
  BY <1>1, <1>2, <1>3, <1>4 DEF Acts

\* The transactions only become more, and once mined stay so.  A new one that
\* monitors was sent for a triggered event that allows it.
LEMMA TxsGrow ==
    ASSUME IInv, LoopInv, [Next]_vars
    PROVE  /\ DOMAIN txs \subseteq DOMAIN txs'
           /\ \A i \in DOMAIN txs : /\ txs'[i].type = txs[i].type /\ txs'[i].ch = txs[i].ch
                                    /\ txs'[i].nonce = txs[i].nonce
                                    /\ txs'[i].block = 0 => txs[i].block = 0
           /\ \A i \in DOMAIN txs' \ DOMAIN txs : txs'[i].type = "monitor" =>
                 \E s \in triggered : Acts(s) /\ MayMonitor(s) /\ txs'[i] = MonitorTx(s)
<1>0. TypeOK /\ ChainTypeOK /\ txs \in Seq(Transactions)
  BY DEF IInv, TypeOK, ChainTypeOK
<1>n. now \in Nat /\ now # 0
  <2>1. now \in Nat /\ fetched \in Nat /\ fetched < now
    BY <1>0, Numbers DEF LoopInv
  <2>. QED
    BY <2>1
<1>1. ASSUME NEW tx, txs' = Append(txs, tx)
      PROVE  /\ DOMAIN txs' = DOMAIN txs \cup {Len(txs) + 1} /\ Len(txs) + 1 \notin DOMAIN txs
             /\ txs'[Len(txs) + 1] = tx /\ \A i \in DOMAIN txs : txs'[i] = txs[i]
  BY <1>0, <1>1, AppendProperties, LenProperties
<1>2. CASE txs' = txs
  BY <1>2
<1>3. CASE OnChain
  <2>1. /\ DOMAIN txs' = DOMAIN txs
        /\ \A i \in DOMAIN txs : /\ txs'[i].type = txs[i].type /\ txs'[i].ch = txs[i].ch
                                 /\ txs'[i].nonce = txs[i].nonce
    BY <1>0, <1>3, TxsAndDeposits
  <2>2. txs' = txs \/ \E i \in DOMAIN txs : Mined(i)
    BY <1>3 DEF OnChain, ChainTransaction, MineTx, NewBlock, OpenChannel, CloseChannel, UpdateNonClosing,
         MonitorByOther, SettleChannel, ChangeBalance, ConfirmBalance, MineMonitor, MineClaim, MineReverted
  <2>t. txs \in [1 .. Len(txs) -> Transactions] /\ DOMAIN txs = 1 .. Len(txs)
    BY <1>0, LenProperties
  <2>3. ASSUME NEW i \in DOMAIN txs, Mined(i), NEW j \in DOMAIN txs, txs'[j].block = 0
        PROVE  txs[j].block = 0
    BY <1>n, <2>t, <2>3 DEF Mined, Transactions
  <2>. QED
    BY <2>1, <2>2, <2>3
<1>4. ASSUME NEW s \in triggered, Acts(s)
      PROVE  /\ DOMAIN txs \subseteq DOMAIN txs'
             /\ \A i \in DOMAIN txs : txs'[i] = txs[i]
             /\ \A i \in DOMAIN txs' \ DOMAIN txs : txs'[i].type = "monitor" =>
                   MayMonitor(s) /\ txs'[i] = MonitorTx(s)
  <2>1. ClaimTx(s).type = "claim"
    BY DEF ClaimTx
  <2>. QED
    BY <1>1, <1>4, <2>1, ActionTx
<1>5. CASE ~OnChain /\ ~\E s \in triggered : Acts(s)
  BY <1>2, <1>5, TxsElsewhere
<1>6. CASE \E s \in triggered : Acts(s)
  BY <1>4, <1>6
<1>. QED
  BY <1>3, <1>5, <1>6

\* The monitoring transactions of a channel stay.
LEMMA MonitorTxsStay ==
    ASSUME IInv, LoopInv, [Next]_vars, NEW c
    PROVE  MonitorTxs(c) \subseteq MonitorTxs(c)'
BY TxsGrow DEF MonitorTxs

\* Every step keeps the hashes of the rows founded on transactions.
LEMMA SentStep ==
    ASSUME IInv, IInv', LoopInv, SentInv, [Next]_vars
    PROVE  SentInv'
<1>0. TypeOK /\ batch \subseteq log /\ txs \in Seq(Transactions)
  BY DEF IInv, NonceInv, TypeOK, ChainTypeOK
<1>. SUFFICES ASSUME NEW c \in Channels
              PROVE  /\ channel'[c] # NoRow /\ channel'[c].monitor_tx # 0 => MonitorTxs(c)' # {}
                     /\ \A i \in DOMAIN writes' : writes'[i].op = "channel" /\ writes'[i].ch = c
                                    /\ writes'[i].row.monitor_tx # 0 => MonitorTxs(c)' # {}
  BY DEF SentInv, MonitorTxs
<1>1. MonitorTxs(c) # {} => MonitorTxs(c)' # {}
  BY MonitorTxsStay
<1>2. /\ channel[c] # NoRow /\ channel[c].monitor_tx # 0 => MonitorTxs(c) # {}
      /\ \A i \in DOMAIN writes : writes[i].op = "channel" /\ writes[i].ch = c
                                  /\ writes[i].row.monitor_tx # 0 => MonitorTxs(c) # {}
  BY DEF SentInv
<1>3. channel'[c] # NoRow /\ channel'[c].monitor_tx # 0 => MonitorTxs(c)' # {}
  BY <1>1, <1>2, RowsAfter
<1>4. ASSUME NEW i \in DOMAIN writes', writes'[i].op = "channel", writes'[i].ch = c,
             writes'[i].row.monitor_tx # 0
      PROVE  MonitorTxs(c)' # {}
  <2>1. CASE MovesOn \/ OnChain
    BY <1>1, <1>2, <1>4, <2>1 DEF MovesOn, OnChain
  <2>2. CASE GetBlockchainEvents \/ UpdatedHeadBlock \/ UpdatedHeadBlockFails \/ CrashAndRestart
    BY <1>4, <2>2 DEF GetBlockchainEvents, UpdatedHeadBlock, UpdatedHeadBlockFails, CrashAndRestart,
       UpdateLatestCommittedBlock, At
  <2>3. CASE ExecuteStatement
    <3>1. i + 1 \in DOMAIN writes /\ writes'[i] = writes[i + 1]
      BY <1>0, <1>4, <2>3, StatementEffect
    <3>. QED
      BY <1>1, <1>2, <1>4, <3>1
  <2>4. CASE HandleEvent \/ EventLost
    <3>e0. PICK e \in batch : \E ws : Handle(e, ws) /\ \A k \in DOMAIN ws : SavedBy(e, ws[k])
      BY <2>4, HandlerSaves
    <3>1. PICK ws : Handle(e, ws) /\ \A k \in DOMAIN ws : SavedBy(e, ws[k])
      BY <3>e0
    <3>2. SavedBy(e, writes'[i])
      BY <3>1 DEF Handle
    <3>3. e.on = c /\ SavedRow(e, writes'[i].row)
      BY <1>4, <3>2 DEF SavedBy
    <3>4. channel[c] # NoRow /\ channel[c].monitor_tx # 0
      BY <1>4, <3>3 DEF SavedRow, FreshRow
    <3>. QED
      BY <1>1, <1>2, <3>4
  <2>5. ASSUME NEW s \in triggered, Acts(s)
        PROVE  MonitorTxs(c)' # {}
    <3>1. /\ s.ch = c /\ channel[c] # NoRow
          /\ s.type = "claim" => writes'[i].row.monitor_tx = channel[c].monitor_tx
      BY <1>4, <2>5, ActionRows
    <3>2. s.type \in {"monitor", "claim"}
      BY <1>0 DEF TypeOK, LoopTypeOK, ScheduledEvents
    <3>3. CASE s.type = "claim"
      BY <1>1, <1>2, <1>4, <3>1, <3>3
    <3>4. CASE s.type = "monitor"
      <4>1. Nothing(s) \/ PutOff(s) \/ SentMonitor(s) \/ SentOnly(s)
        BY <2>5, <3>4, ActionWrites DEF SentClaim
      <4>2. ~(Nothing(s) \/ PutOff(s) \/ SentOnly(s))
        BY <1>4 DEF Nothing, PutOff, SentOnly, Removal, RemoveScheduledEvent, UpsertScheduledEvent,
           AddWaitingTransaction
      <4>3. txs' = Append(txs, MonitorTx(s))
        BY <4>1, <4>2 DEF SentMonitor, Sent
      <4>4. Len(txs) + 1 \in DOMAIN txs' /\ txs'[Len(txs) + 1] = MonitorTx(s)
        BY <1>0, <4>3, AppendProperties, LenProperties
      <4>5. MonitorTx(s).type = "monitor" /\ MonitorTx(s).ch = c
        BY <3>1 DEF MonitorTx
      <4>. QED
        BY <4>4, <4>5 DEF MonitorTxs
    <3>. QED
      BY <3>2, <3>3, <3>4
  <2>. QED
    BY <1>0, <2>1, <2>2, <2>3, <2>4, <2>5, Kinds
<1>. QED
  BY <1>3, <1>4

\* What is closed stays so until the settlement period is over.
LEMMA ClosedOrOver ==
    ASSUME IInv, [Next]_vars, NEW c \in Channels, chain[c].state = "closed"
    PROVE  chain'[c].state = "closed" \/ now > SettleableAfter(c)
<1>0. ChainTypeOK
  BY DEF IInv, TypeOK
<1>1. CASE ~OnChain \/ UNCHANGED <<chain, log>>
  BY <1>1, OffChain
<1>2. ASSUME NEW d \in Channels, ChannelMoves(d)
      PROVE  chain'[c].state = "closed" \/ now > SettleableAfter(c)
  <2>1. CASE d # c
    BY <1>2, <2>1 DEF ChannelMoves
  <2>2. CASE d = c
    <3>1. \A e : ByOneEvent(c, e) => chain'[c].state = "closed" \/ now > SettleableAfter(c)
      BY DEF ByOneEvent, EventIs
    <3>2. \A e, f : ByMonitoring(c, e, f) => chain'[c].state = "closed"
      BY DEF ByMonitoring
    <3>. QED
      BY <1>2, <2>2, <3>1, <3>2 DEF ChannelMoves
  <2>. QED
    BY <2>1, <2>2
<1>. QED
  BY <1>0, <1>1, <1>2, ChainEffect

\* Every step keeps what holds of the transactions that are on their way.
LEMMA FlightStep ==
    ASSUME IInv, IInv', LoopInv, FlightInv, [Next]_vars
    PROVE  FlightInv'
<1>0. TypeOK /\ txs \in Seq(Transactions) /\ chain \in [Channels -> ChannelOnChain]
  BY DEF IInv, TypeOK, ChainTypeOK
<1>. SUFFICES ASSUME Punctual, NEW i \in DOMAIN txs', txs'[i].type = "monitor", txs'[i].block = 0,
                     NEW c, c = txs'[i].ch
              PROVE  OpenToMonitor(c)'
  BY DEF FlightInv, OpenToMonitor, FirstAllowedToMonitor, SettleableAfter
<1>1. CASE i \in DOMAIN txs
  <2>1. txs[i].type = "monitor" /\ txs[i].block = 0 /\ txs[i].ch = c
    BY <1>1, TxsGrow
  <2>2. c \in Channels
    <3>1. txs \in [1 .. Len(txs) -> Transactions]
      BY <1>0, LenProperties
    <3>. QED
      BY <1>1, <2>1, <3>1 DEF Transactions
  <2>3. OpenToMonitor(c)
    BY <1>1, <2>1 DEF FlightInv
  <2>4. now' = now
    <3>1. i \in Unmined
      BY <1>1, <2>1 DEF Unmined
    <3>2. ~Tick
      BY <3>1 DEF Tick
    <3>. QED
      BY <3>2, TimePasses
  <2>5. Lasting(c)
    BY <2>2, <2>3, ClosedForEver DEF OpenToMonitor, IsClosed
  <2>6. ~(now > SettleableAfter(c))
    <3>1. now \in Nat /\ SettleableAfter(c) \in Nat
      BY <1>0, <2>2, Numbers, ChainConstants DEF SettleableAfter, ChannelOnChain
    <3>. QED
      BY <2>3, <3>1 DEF OpenToMonitor
  <2>7. chain'[c].state = "closed"
    BY <2>2, <2>3, <2>6, ClosedOrOver DEF OpenToMonitor
  <2>. QED
    BY <2>3, <2>4, <2>5, <2>7 DEF OpenToMonitor, Lasting, FirstAllowedToMonitor, SettleableAfter
<1>2. CASE i \notin DOMAIN txs
  <2>1. PICK s \in triggered : Acts(s) /\ MayMonitor(s) /\ txs'[i] = MonitorTx(s)
    BY <1>2, TxsGrow
  <2>2. c = s.ch
    BY <2>1 DEF MonitorTx
  <2>3. UNCHANGED <<now, chain>>
    BY <2>1, ActionWrites DEF SchedulerVars
  <2>4. now >= FirstAllowedToMonitor(c) => FirstAllowedToMonitor(c) <= now
    <3>1. c \in Channels
      BY <1>0, <2>2 DEF TypeOK, LoopTypeOK, ScheduledEvents
    <3>2. now \in Nat /\ FirstAllowedToMonitor(c) \in Nat
      BY <1>0, <3>1, Numbers, ChainConstants DEF FirstAllowedToMonitor, ChannelOnChain
    <3>. QED
      BY <3>2
  <2>. QED
    BY <2>1, <2>2, <2>3, <2>4 DEF MayMonitor, CanMonitor, CanUpdate, OpenToMonitor, FirstAllowedToMonitor,
       SettleableAfter
<1>. QED
  BY <1>1, <1>2

\* The nonce of a stored request, 0 for none, is a number.
LEMMA ClientRequest ==
    ASSUME IInv, NEW c \in Channels
    PROVE  monitor_request[<<c, Client(c)>>].nonce \in Nat
<1>1. <<c, Client(c)>> \in Channels \X Participants
  BY DEF Client, Other, Participants
<1>2. monitor_request[<<c, Client(c)>>] \in StoredRequests \cup {NoRequest}
  BY <1>1 DEF IInv, TypeOK, DatabaseTypeOK
<1>. QED
  BY <1>2 DEF StoredRequests, NoRequest

\* No step lowers a nonce.
LEMMA NoncesGrow ==
    ASSUME IInv, [Next]_vars, NEW c \in Channels
    PROVE  chain[c].nonce \in Nat /\ chain'[c].nonce >= chain[c].nonce
<1>0. ChainTypeOK /\ LogInv /\ chain[c].nonce \in Nat
  BY InvParts DEF TypeOK, ChainTypeOK, ChannelOnChain
<1>1. CASE OnChain /\ ~NewBlock
  BY <1>0, <1>1, ChainSteps DEF OnChain
<1>2. CASE OnChain /\ NewBlock
  BY <1>0, <1>2 DEF NewBlock
<1>3. CASE ~OnChain
  BY <1>0, <1>3, OffChain
<1>. QED
  BY <1>0, <1>1, <1>2, <1>3

\* A transaction that gets mined succeeds or reverts.
LEMMA MinedOnce ==
    ASSUME IInv, [Next]_vars, NEW i \in DOMAIN txs, txs[i].block = 0, txs'[i].block # 0
    PROVE  MineMonitor(i) \/ MineClaim(i) \/ MineReverted(i)
<1>0. txs \in [1 .. Len(txs) -> Transactions] /\ DOMAIN txs = 1 .. Len(txs) /\ txs \in Seq(Transactions)
  BY LenProperties DEF IInv, TypeOK, ChainTypeOK
<1>1. OnChain
  <2>1. ASSUME NEW s \in triggered, Acts(s)
        PROVE  txs'[i] = txs[i]
    <3>1. ASSUME NEW tx, txs' = Append(txs, tx)
          PROVE  txs'[i] = txs[i]
      BY <1>0, <3>1, AppendProperties
    <3>. QED
      BY <2>1, <3>1, ActionTx
  <2>. QED
    BY <2>1, TxsElsewhere
<1>2. txs' # txs
  OBVIOUS
<1>3. MineTx
  BY <1>1, <1>2 DEF OnChain, ChainTransaction, NewBlock, OpenChannel, CloseChannel, UpdateNonClosing,
         MonitorByOther, SettleChannel, ChangeBalance, ConfirmBalance
<1>4. PICK j \in DOMAIN txs : MineMonitor(j) \/ MineClaim(j) \/ MineReverted(j)
  BY <1>3 DEF MineTx
<1>5. Mined(j)
  BY <1>4 DEF MineMonitor, MineClaim, MineReverted
<1>6. i = j
  BY <1>0, <1>5 DEF Mined
<1>. QED
  BY <1>4, <1>6

\* No claim in front of a check after a step was none before.
LEMMA NotBlockedBefore ==
    ASSUME IInv, OrderInv, [Next]_vars, NEW c \in Channels, IsClosed(c), NotBlocked(c)'
    PROVE  NotBlocked(c)
<1>1. log \subseteq log'
  BY OffChain, OnChainGrows
<1>2. FirstAllowedToMonitor(c)' = FirstAllowedToMonitor(c)
  BY ClosedForEver DEF Lasting, FirstAllowedToMonitor
<1>3. ASSUME NEW e \in log, e.type = "monitored", e.who = Us
      PROVE  FirstAllowedToMonitor(c) < SettleableAfter(e.on)
  <2>1. e.on \in Channels
    BY <1>3 DEF IInv, TypeOK, ChainTypeOK, Events, TokenNetworkEvents
  <2>2. IsClosed(e.on)
    BY <1>3 DEF OrderInv, IsClosed
  <2>3. SettleableAfter(e.on)' = SettleableAfter(e.on)
    BY <2>1, <2>2, ClosedForEver DEF Lasting, SettleableAfter
  <2>. QED
    BY <1>1, <1>2, <1>3, <2>3 DEF NotBlocked
<1>. QED
  BY <1>3 DEF NotBlocked

\* A request that is stored when the check is due already has waited before.
LEMMA SameRequest ==
    ASSUME IInv, [Next]_vars, NEW c \in Channels, IsClosed(c), chain[c].closer \in Participants,
           Waiting(c)', ~(Clock < FirstAllowedToMonitor(c))
    PROVE  monitor_request'[<<c, Client(c)>>] = monitor_request[<<c, Client(c)>>]
<1>0. TypeOK
  BY DEF IInv
<1>1. Lasting(c) /\ Client(c)' = Client(c) /\ FirstAllowedToMonitor(c)' = FirstAllowedToMonitor(c)
  BY ClosedForEver DEF Lasting, Client, FirstAllowedToMonitor
<1>. DEFINE k == <<c, Client(c)>>
<1>2. k \in Channels \X Participants
  BY DEF Client, Other, Participants
<1>3. ASSUME NEW mr \in Requests, OnMonitorRequest(mr)
      PROVE  monitor_request'[k] = monitor_request[k]
  <2>1. CASE <<mr.ch, mr.who>> = k
    <3>1. monitor_request'[k].saved_at = Clock
      BY <1>0, <1>2, <1>3, <2>1 DEF OnMonitorRequest, TypeOK, DatabaseTypeOK
    <3>2. monitor_request'[k].saved_at < FirstAllowedToMonitor(c)
      BY <1>1 DEF Waiting
    <3>. QED
      BY <3>1, <3>2
  <2>2. CASE <<mr.ch, mr.who>> # k
    BY <1>0, <1>2, <1>3, <2>2 DEF OnMonitorRequest, TypeOK, DatabaseTypeOK
  <2>. QED
    BY <2>1, <2>2
<1>. QED
  BY <1>0, <1>3, RequestsStay

\* A transaction that is on its way carries an older balance proof than the
\* request that waits after the step.
LEMMA OlderInFlight ==
    ASSUME IInv, IInv', LoopInv, FlightInv, Punctual, [Next]_vars, NEW c \in Channels, NEW n \in Nat,
           chain'[c].nonce < n, \A i \in MonitorTxs(c)' : txs'[i].block = 0 => txs'[i].nonce < n,
           NEW i \in MonitorTxs(c), txs[i].block = 0
    PROVE  txs[i].nonce < n
<1>0. i \in DOMAIN txs /\ txs[i].type = "monitor" /\ txs[i].ch = c
  BY DEF MonitorTxs
<1>1. i \in MonitorTxs(c)' /\ txs'[i].nonce = txs[i].nonce
  BY <1>0, TxsGrow, MonitorTxsStay
<1>2. CASE txs'[i].block = 0
  BY <1>1, <1>2
<1>t. /\ chain[c].nonce \in Nat /\ chain'[c].nonce >= chain[c].nonce /\ txs[i].nonce \in Nat
      /\ chain'[c].nonce \in Nat /\ chain \in [Channels -> ChannelOnChain]
      /\ now \in Nat /\ FirstAllowedToMonitor(c) \in Nat
  <2>1. txs \in [1 .. Len(txs) -> Transactions] /\ now \in Nat /\ chain \in [Channels -> ChannelOnChain]
        /\ chain' \in [Channels -> ChannelOnChain]
    BY LenProperties DEF IInv, TypeOK, ChainTypeOK
  <2>2. FirstAllowedToMonitor(c) \in Nat
    BY <2>1, ChainConstants DEF FirstAllowedToMonitor, ChannelOnChain
  <2>. QED
    BY <1>0, <2>1, <2>2, NoncesGrow DEF Transactions, ChannelOnChain
<1>3. CASE txs'[i].block # 0
  <2>1. MineMonitor(i) \/ MineReverted(i)
    BY <1>0, <1>3, MinedOnce DEF MineClaim
  <2>2. CASE MineMonitor(i)
    <3>1. chain'[c].nonce = txs[i].nonce
      BY <1>0, <1>t, <2>2 DEF MineMonitor, MonitorEffect, ChannelOnChain
    <3>. QED
      BY <3>1
  <2>3. CASE MineReverted(i)
    <3>1. ~CanMonitor(c, txs[i].nonce)
      BY <1>0, <2>3 DEF MineReverted
    <3>2. OpenToMonitor(c)
      BY <1>0 DEF FlightInv
    <3>3. ~(txs[i].nonce > chain[c].nonce)
      BY <1>t, <3>1, <3>2 DEF CanMonitor, CanUpdate, OpenToMonitor
    <3>. QED
      BY <1>t, <3>3
  <2>. QED
    BY <2>1, <2>2, <2>3
<1>. QED
  BY <1>2, <1>3

\* What waits after a step, with the check due before it, has waited before.
LEMMA WaitingBefore ==
    ASSUME IInv, IInv', LoopInv, FlightInv, Punctual, [Next]_vars, NEW c \in Channels, IsClosed(c),
           chain[c].closer \in Participants, Waiting(c)', ~(Clock < FirstAllowedToMonitor(c))
    PROVE  Waiting(c)
<1>. DEFINE mr == monitor_request[<<c, Client(c)>>]
<1>1. /\ Client(c)' = Client(c) /\ FirstAllowedToMonitor(c)' = FirstAllowedToMonitor(c)
      /\ chain'[c].closer = chain[c].closer
  BY ClosedForEver DEF Lasting, Client, FirstAllowedToMonitor
<1>2. monitor_request'[<<c, Client(c)>>] = mr
  BY SameRequest
<1>3. /\ mr # NoRequest /\ mr.signer = chain[c].closer /\ mr.reward >= MinReward
      /\ \A b \in Balances[Client(c)] : b * 10 >= mr.reward * 11
      /\ mr.saved_at < FirstAllowedToMonitor(c) /\ chain'[c].nonce < mr.nonce
      /\ \A i \in MonitorTxs(c)' : txs'[i].block = 0 => txs'[i].nonce < mr.nonce
  BY <1>1, <1>2 DEF Waiting
<1>4. mr.nonce \in Nat
  BY ClientRequest
<1>5. chain[c].nonce < mr.nonce
  <2>1. chain'[c].nonce \in Nat
    BY DEF IInv, TypeOK, ChainTypeOK, ChannelOnChain
  <2>. QED
    BY <1>3, <1>4, <2>1, NoncesGrow
<1>6. \A i \in MonitorTxs(c) : txs[i].block = 0 => txs[i].nonce < mr.nonce
  BY <1>3, <1>4, OlderInFlight
<1>. QED
  BY <1>3, <1>5, <1>6 DEF Waiting

\* The check of a closed channel that is awaited after a step was awaited
\* before, and is the same.
LEMMA AwaitedBefore ==
    ASSUME IInv, IInv', OrderInv, LoopInv, FlightInv, Punctual, [Next]_vars, NEW c \in Channels,
           IsClosed(c), Awaited(c)'
    PROVE  /\ Awaited(c) /\ Check(c)' = Check(c) /\ Lasting(c)
           /\ FirstAllowedToMonitor(c)' = FirstAllowedToMonitor(c)
<1>1. /\ Lasting(c) /\ Check(c)' = Check(c) /\ FirstAllowedToMonitor(c)' = FirstAllowedToMonitor(c)
  BY ClosedForEver DEF Lasting, Check, Client, FirstAllowedToMonitor
<1>2. NotBlocked(c)
  BY NotBlockedBefore DEF Awaited
<1>3. chain[c].closer \in Participants
  BY DEF OrderInv, IsClosed
<1>4. ASSUME ~(Clock < FirstAllowedToMonitor(c))
      PROVE  Waiting(c)
  <2>1. /\ now \in Nat /\ now' \in Nat /\ now <= now' /\ ClockAhead \in Nat
        /\ FirstAllowedToMonitor(c) \in Nat
    <3>1. FirstAllowedToMonitor(c) \in Nat
      BY ChainConstants DEF FirstAllowedToMonitor, IInv, TypeOK, ChainTypeOK, ChannelOnChain
    <3>. QED
      BY <3>1, Attempts, ServiceConstants
  <2>2. ~(Clock' < FirstAllowedToMonitor(c))
    BY <1>4, <2>1 DEF Clock
  <2>3. Waiting(c)'
    BY <1>1, <2>2 DEF Awaited
  <2>. QED
    BY <1>3, <1>4, <2>3, WaitingBefore
<1>. QED
  BY <1>1, <1>2, <1>4 DEF Awaited

\* A channel is settled when its settlement period is over.
OverInv == \A c \in Channels : chain[c].state = "settled" => now > SettleableAfter(c)

\* Every step keeps that.
LEMMA OverStep ==
    ASSUME IInv, OrderInv, OverInv, [Next]_vars
    PROVE  OverInv'
<1>. SUFFICES ASSUME NEW c \in Channels, chain'[c].state = "settled"
              PROVE  now' > SettleableAfter(c)'
  BY DEF OverInv
<1>n. now \in Nat /\ now' \in Nat /\ now <= now' /\ SettleableAfter(c) \in Nat
  <2>1. SettleableAfter(c) \in Nat
    BY ChainConstants DEF SettleableAfter, IInv, TypeOK, ChainTypeOK, ChannelOnChain
  <2>. QED
    BY <2>1, Attempts
<1>0. ChainTypeOK
  BY DEF IInv, TypeOK
<1>1. IsClosed(c)
  <2>1. CASE ~OnChain \/ UNCHANGED <<chain, log>>
    BY <2>1, OffChain DEF IsClosed
  <2>2. ASSUME NEW d \in Channels, ChannelMoves(d)
        PROVE  IsClosed(c)
    <3>1. CASE d # c
      BY <2>2, <3>1 DEF ChannelMoves, IsClosed
    <3>2. CASE d = c
      <4>1. \A e : ByOneEvent(c, e) => IsClosed(c)
        BY DEF ByOneEvent, EventIs, IsClosed
      <4>2. \A e, f : ByMonitoring(c, e, f) => IsClosed(c)
        BY DEF ByMonitoring, IsClosed
      <4>. QED
        BY <2>2, <3>2, <4>1, <4>2 DEF ChannelMoves
    <3>. QED
      BY <3>1, <3>2
  <2>. QED
    BY <1>0, <2>1, <2>2, ChainEffect
<1>2. SettleableAfter(c)' = SettleableAfter(c)
  BY <1>1, ClosedForEver DEF Lasting, SettleableAfter
<1>3. now > SettleableAfter(c)
  BY <1>1, ClosedOrOver DEF OverInv, IsClosed
<1>. QED
  BY <1>n, <1>2, <1>3

\* How the delays compare.
LEMMA Delays ==
    /\ CheckWait \in Nat /\ CheckDelay \in Nat /\ Confirmations <= CheckWait /\ MonitorDelay <= CheckWait + 1
    /\ CheckWait + 1 <= CheckDelay /\ CheckWait + RetryDelay <= CheckDelay
    /\ MonitorDelay \in Nat /\ SettleTimeout \in Nat /\ Confirmations \in Nat /\ RetryDelay \in Nat
    /\ ClockAhead \in Nat
BY ChainConstants, ServiceConstants DEF CheckWait, CheckDelay

\* The times of a channel are numbers.
LEMMA Times ==
    ASSUME IInv, NEW c \in Channels
    PROVE  /\ now \in Nat /\ Clock \in Nat /\ chain[c].closedAt \in Nat /\ FirstAllowedToMonitor(c) \in Nat
           /\ try_after \in Nat /\ latest \in Nat /\ committed \in Nat
           /\ Check(c).at = FirstAllowedToMonitor(c) /\ Check(c).ch = c /\ Check(c).type = "monitor"
           /\ Check(c).who = Client(c)
<1>1. now \in Nat /\ chain[c].closedAt \in Nat /\ try_after \in Nat /\ latest \in Nat /\ committed \in Nat
  BY DEF IInv, TypeOK, ChainTypeOK, ChannelOnChain, LoopTypeOK, DatabaseTypeOK
<1>2. Clock \in Nat /\ FirstAllowedToMonitor(c) \in Nat
  BY <1>1, Delays DEF Clock, FirstAllowedToMonitor
<1>. QED
  BY <1>1, <1>2 DEF Check

\* What a check that is due has to do while its request waits: everything that
\* the handler checks is in order.
LEMMA CheckWorks ==
    ASSUME IInv, OrderInv, RequestInv, FoundedInv, SentInv, NEW c \in Channels, IsClosed(c), Waiting(c),
           MonitorTxs(c) = {}, Check(c) \in triggered
    PROVE  WorthMonitoring(Check(c)) /\ DepositSuffices(Check(c)) /\ channel[c].monitor_tx = 0
<1>. DEFINE mr == monitor_request[<<c, Client(c)>>]
<1>1. Request(Check(c)) = mr /\ Check(c).type = "monitor" /\ Check(c).ch = c /\ Check(c).who = Client(c)
  BY DEF Request, Check
<1>2. chain[c].closer \in Participants /\ Client(c) \in Participants /\ Client(c) # chain[c].closer
  BY DEF OrderInv, IsClosed, Client, Other, Participants
<1>3. /\ mr # NoRequest /\ mr.signer = chain[c].closer /\ mr.reward >= MinReward
      /\ \A b \in Balances[Client(c)] : b * 10 >= mr.reward * 11
      /\ chain[c].nonce < mr.nonce
  BY DEF Waiting
<1>4. channel[c] # NoRow
  BY <1>1 DEF FoundedInv, KnownEvents, Founded
<1>5. mr.nonce > channel[c].nonce
  <2>1. channel[c].nonce <= chain[c].nonce
    BY <1>4 DEF IInv, NonceInv, NonceNotAhead
  <2>2. channel[c].nonce \in Nat /\ chain[c].nonce \in Nat
    BY <1>4 DEF IInv, TypeOK, DatabaseTypeOK, ChannelRows, ChainTypeOK, ChannelOnChain
  <2>3. mr.nonce \in Nat
    BY ClientRequest
  <2>. QED
    BY <1>3, <2>1, <2>2, <2>3
<1>6. IsMrValid(Check(c))
  BY <1>1, <1>2, <1>3 DEF IsMrValid
<1>7. WorthMonitoring(Check(c))
  BY <1>1, <1>3, <1>4, <1>5, <1>6 DEF WorthMonitoring
<1>8. DepositSuffices(Check(c))
  BY <1>1, <1>2, <1>3 DEF DepositSuffices, RequestInv
<1>9. channel[c].monitor_tx = 0
  BY <1>4 DEF SentInv
<1>. QED
  BY <1>7, <1>8, <1>9

\* What is known of an awaited check before a step.
OnCall(c) ==
    /\ MonitorTxs(c) = {} /\ now <= Latest(c) + 1
    /\ \A s \in KnownEvents : s.type = "monitor" /\ s.ch = c => s = Check(c)

\* Handling the check ends the waiting.
LEMMA CheckDone ==
    ASSUME IInv, IInv', OrderInv, LoopInv, RequestInv, FoundedInv, SentInv, FlightInv, OverInv, Punctual,
           EnoughTime, faults = 0, faults' = 0, [Next]_vars, NEW c \in Channels, IsClosed(c), OnCall(c),
           Check(c) \in triggered, Acts(Check(c))
    PROVE  ~Awaited(c)'
<1>. SUFFICES ASSUME Awaited(c)'
              PROVE  FALSE
  OBVIOUS
<1>. DEFINE s == Check(c)
            mr == monitor_request[<<c, Client(c)>>]
<1>1. Awaited(c)
  BY AwaitedBefore
<1>2. FirstAllowedToMonitor(c) <= Clock
  BY Times DEF FoundedInv
<1>3. Waiting(c)
  BY <1>1, <1>2, Times DEF Awaited
<1>4. WorthMonitoring(s) /\ DepositSuffices(s) /\ channel[c].monitor_tx = 0
  BY <1>3, CheckWorks DEF OnCall
<1>5. s.type = "monitor" /\ s.ch = c /\ Request(s) = mr
  BY DEF Check, Request
<1>6. UNCHANGED <<now, chain, monitor_request>>
  BY ActionWrites DEF SchedulerVars
<1>7. CASE MonitorDropped(s)
  <2>1. ~MonitorTooEarly(s) /\ ~CanMonitor(c, mr.nonce)
    BY <1>4, <1>5, <1>7 DEF MonitorDropped
  <2>2. ~(now < FirstAllowedToMonitor(c))
    BY <1>4, <1>5, <2>1 DEF MonitorTooEarly
  <2>3. now <= SettleableAfter(c) /\ ~(now > SettleableAfter(c))
    <3>1. now <= chain[c].closedAt + CheckDelay + 1 /\ CheckDelay < SettleTimeout
      BY DEF OnCall, Latest, EnoughTime
    <3>. QED
      BY <3>1, Times, Delays DEF SettleableAfter
  <2>4. chain[c].state = "closed"
    BY <2>3 DEF OverInv, IsClosed
  <2>5. mr.nonce > chain[c].nonce
    <3>1. chain[c].nonce < mr.nonce
      BY <1>3 DEF Waiting
    <3>2. chain[c].nonce \in Nat
      BY NoncesGrow
    <3>3. mr.nonce \in Nat
      BY ClientRequest
    <3>. QED
      BY <3>1, <3>2, <3>3
  <2>6. now >= FirstAllowedToMonitor(c)
    BY <2>2, Times
  <2>. QED
    BY <2>1, <2>3, <2>4, <2>5, <2>6 DEF CanMonitor, CanUpdate
<1>8. CASE MonitorRescheduled(s)
  BY <1>4, <1>8 DEF MonitorRescheduled
<1>9. CASE MonitorSent(s)
  <2>1. txs' = Append(txs, MonitorTx(s))
    BY <1>9 DEF MonitorSent, Send
  <2>2. Len(txs) + 1 \in DOMAIN txs' /\ txs'[Len(txs) + 1] = MonitorTx(s)
    <3>1. txs \in Seq(Transactions)
      BY DEF IInv, TypeOK, ChainTypeOK
    <3>. QED
      BY <2>1, <3>1, AppendProperties, LenProperties
  <2>3. /\ Len(txs) + 1 \in MonitorTxs(c)' /\ txs'[Len(txs) + 1].block = 0
        /\ txs'[Len(txs) + 1].nonce = mr.nonce
    BY <1>5, <2>2 DEF MonitorTxs, MonitorTx
  <2>4. Waiting(c)'
    <3>1. FirstAllowedToMonitor(c)' = FirstAllowedToMonitor(c) /\ Clock' = Clock
      BY <1>6 DEF FirstAllowedToMonitor, Clock
    <3>. QED
      BY <1>2, <3>1, Times DEF Awaited
  <2>5. monitor_request'[<<c, Client(c)>>] = mr /\ Client(c)' = Client(c)
    BY <1>6 DEF Client
  <2>6. mr.nonce < mr.nonce
    BY <2>3, <2>4, <2>5 DEF Waiting
  <2>7. mr.nonce \in Nat
    BY ClientRequest
  <2>. QED
    BY <2>6, <2>7
<1>10. ~ClaimDropped(s) /\ ~ClaimSent(s)
  BY <1>5 DEF ClaimDropped, ClaimSent, MayClaim, WorthClaiming
<1>11. ~ActionFails(s)
  BY DEF ActionFails
<1>. QED
  BY <1>7, <1>8, <1>9, <1>10, <1>11 DEF Acts

\* Statements that remove an event come from handling it.
LEMMA UnscheduledAfter ==
    ASSUME IInv, [Next]_vars, NEW s \in Written("unschedule")'
    PROVE  s \in Written("unschedule") \/ (s \in triggered /\ Acts(s))
<1>0. TypeOK
  BY DEF IInv
<1>1. CASE MovesOn \/ OnChain
  BY <1>1 DEF MovesOn, OnChain, Written
<1>2. CASE GetBlockchainEvents \/ UpdatedHeadBlock \/ UpdatedHeadBlockFails \/ CrashAndRestart
  <2>1. \A i \in DOMAIN writes' : writes'[i].op = "head"
    BY <1>2 DEF GetBlockchainEvents, UpdatedHeadBlock, UpdatedHeadBlockFails, At,
           UpdateLatestCommittedBlock, CrashAndRestart
  <2>. QED
    BY <2>1 DEF Written
<1>3. CASE ExecuteStatement
  <2>1. \A i \in DOMAIN writes' : i + 1 \in DOMAIN writes /\ writes'[i] = writes[i + 1]
    BY <1>0, <1>3, StatementEffect
  <2>. QED
    BY <2>1 DEF Written
<1>4. CASE HandleEvent \/ EventLost
  <2>e0. PICK e \in batch : \E ws : Handle(e, ws) /\ \A i \in DOMAIN ws : SavedBy(e, ws[i])
    BY <1>4, HandlerSaves
  <2>1. PICK ws : Handle(e, ws) /\ \A i \in DOMAIN ws : SavedBy(e, ws[i])
    BY <2>e0
  <2>2. \A i \in DOMAIN writes' : SavedBy(e, writes'[i])
    BY <2>1 DEF Handle
  <2>. QED
    BY <2>2 DEF Written, SavedBy
<1>5. ASSUME NEW a \in triggered, Acts(a)
      PROVE  s \in triggered /\ Acts(s)
  <2>1. s = a
    BY <1>5, ActionEvents
  <2>. QED
    BY <1>5, <2>1
<1>. QED
  BY <1>0, <1>1, <1>2, <1>3, <1>4, <1>5, Kinds

\* While a check is awaited, no monitoring is sent for its channel, and it is
\* neither scheduled for another time nor about to be removed.
LEMMA CheckUndone ==
    ASSUME IInv, IInv', OrderInv, LoopInv, CloseInv, RequestInv, FoundedInv, SentInv, FlightInv, OverInv,
           Punctual, EnoughTime, faults = 0, faults' = 0, [Next]_vars, NEW c \in Channels, IsClosed(c),
           Awaited(c)', CheckKept(c), now <= Latest(c) + 1
    PROVE  /\ ~(Check(c) \in triggered /\ Acts(Check(c)))
           /\ MonitorTxs(c)' = {}
           /\ \A s \in KnownEvents' : s.type = "monitor" /\ s.ch = c => s = Check(c)
           /\ Check(c) \notin Written("unschedule")'
<1>0. TypeOK /\ batch \subseteq log
  BY DEF IInv, NonceInv
<1>1. OnCall(c)
  BY DEF OnCall, CheckKept
<1>2. ~(Check(c) \in triggered /\ Acts(Check(c)))
  BY <1>1, CheckDone
<1>3. ASSUME NEW s \in triggered, Acts(s), s.type = "monitor", s.ch = c
      PROVE  FALSE
  <2>1. s = Check(c)
    BY <1>3 DEF CheckKept, KnownEvents
  <2>. QED
    BY <1>2, <1>3, <2>1
<1>4. MonitorTxs(c)' = {}
  <2>1. ASSUME NEW i \in MonitorTxs(c)'
        PROVE  FALSE
    <3>1. i \in DOMAIN txs' /\ txs'[i].type = "monitor" /\ txs'[i].ch = c
      BY DEF MonitorTxs
    <3>2. i \notin DOMAIN txs
      BY <3>1, TxsGrow DEF CheckKept, MonitorTxs
    <3>3. PICK s \in triggered : Acts(s) /\ MayMonitor(s) /\ txs'[i] = MonitorTx(s)
      BY <3>1, <3>2, TxsGrow
    <3>4. s.type = "monitor" /\ s.ch = c
      BY <3>1, <3>3 DEF MonitorTx, MayMonitor, WorthMonitoring
    <3>. QED
      BY <1>3, <3>3, <3>4
  <2>. QED
    BY <2>1
<1>5. ASSUME NEW s \in KnownEvents', s.type = "monitor", s.ch = c
      PROVE  s = Check(c)
  <2>1. CASE s \in KnownEvents
    BY <1>5, <2>1 DEF CheckKept
  <2>2. ASSUME NEW e \in batch, NewlyScheduled(e, s)
        PROVE  s = Check(c)
    <3>1. e.type = "closed" /\ s = MonitorEvent(e)
      BY <1>5, <2>2 DEF NewlyScheduled, ClaimEvent
    <3>2. e.on = c
      BY <1>5, <3>1 DEF MonitorEvent
    <3>3. e.who = chain[c].closer
      BY <1>0, <3>1, <3>2 DEF CloseInv
    <3>. QED
      BY <3>1, <3>2, <3>3 DEF MonitorEvent, Check, Client
  <2>3. ASSUME NEW a \in triggered, MonitorRescheduled(a), s = [a EXCEPT !.at = Clock]
        PROVE  FALSE
    <3>1. a.type = "monitor" /\ a.ch = c
      BY <1>0, <1>5, <2>3, ScheduledAgain
    <3>2. Acts(a)
      BY <2>3 DEF Acts
    <3>. QED
      BY <1>3, <3>1, <3>2
  <2>. QED
    BY <2>1, <2>2, <2>3, KnownAfter
<1>6. Check(c) \notin Written("unschedule")'
  BY <1>2, UnscheduledAfter DEF CheckKept
<1>. QED
  BY <1>2, <1>4, <1>5, <1>6

\* A check that is scheduled stays so unless it is removed itself.
LEMMA CheckStays ==
    ASSUME IInv, EventsInv, EnoughTime, [Next]_vars, NEW c \in Channels, CheckKept(c),
           Check(c) \in scheduled_events
    PROVE  Check(c) \in scheduled_events'
<1>0. TypeOK
  BY DEF IInv
<1>1. MovesOn \/ OnChain \/ GetBlockchainEvents \/ UpdatedHeadBlock \/ UpdatedHeadBlockFails \/ CrashAndRestart
      => UNCHANGED scheduled_events
  BY DEF MovesOn, OnChain, GetBlockchainEvents, UpdatedHeadBlock, UpdatedHeadBlockFails, CrashAndRestart,
         ProcessVars, dbvars
<1>2. HandleEvent \/ EventLost => UNCHANGED scheduled_events
  BY HandlerWrites DEF Handle, ProcessVars, dbvars
<1>3. (\E s \in triggered : Acts(s)) => UNCHANGED scheduled_events
  BY ActionWrites DEF SchedulerVars, dbvars
<1>4. CASE ExecuteStatement
  <2>1. /\ 1 \in DOMAIN writes /\ Head(writes) = writes[1]
        /\ writes[1].op \notin {"schedule", "unschedule"} => UNCHANGED scheduled_events
        /\ writes[1].op = "schedule" => scheduled_events' = scheduled_events \cup {writes[1].ev}
    BY <1>0, <1>4, StatementEffect
  <2>2. CASE writes[1].op # "unschedule"
    BY <2>1, <2>2
  <2>3. CASE writes[1].op = "unschedule"
    <3>. DEFINE ev == writes[1].ev
    <3>1. scheduled_events' = {s \in scheduled_events : ~(s.at = ev.at /\ s.ch = ev.ch /\ s.who = ev.who)}
      BY <1>4, <2>1, <2>3 DEF ExecuteStatement, DeleteScheduledEvent, SaveTokenNetwork, SaveChannel,
         SaveScheduledEvent, SaveWaitingTransaction, SaveCommittedBlock, Statement
    <3>2. ev \in Written("unschedule") /\ WellTimed(ev) /\ ev \in ScheduledEvents /\ ev \in KnownEvents
      <4>1. ev \in Written("unschedule")
        BY <2>1, <2>3 DEF Written
      <4>2. ev \in KnownEvents
        BY <4>1 DEF KnownEvents
      <4>. QED
        BY <1>0, <4>1, <4>2, KnownTypes DEF EventsInv
    <3>. HIDE DEF ev
    <3>3. ASSUME ev.at = FirstAllowedToMonitor(c), ev.ch = c
          PROVE  FALSE
      <4>1. ev.type \in {"monitor", "claim"}
        BY <3>2 DEF ScheduledEvents
      <4>2. CASE ev.type = "monitor"
        <5>1. ev = Check(c)
          BY <3>2, <3>3, <4>2 DEF CheckKept
        <5>. QED
          BY <3>2, <5>1 DEF CheckKept
      <4>3. CASE ev.type = "claim"
        <5>1. ev.at = chain[c].closedAt + SettleTimeout
          BY <3>2, <3>3, <4>3 DEF WellTimed, SettleableAfter
        <5>2. MonitorDelay < SettleTimeout
          BY Delays DEF EnoughTime
        <5>. QED
          BY <3>3, <5>1, <5>2, Times, Delays DEF FirstAllowedToMonitor
      <4>. QED
        BY <4>1, <4>2, <4>3
    <3>. QED
      BY <3>1, <3>3, Times
  <2>. QED
    BY <2>2, <2>3
<1>. QED
  BY <1>0, <1>1, <1>2, <1>3, <1>4, Kinds

\* When the closing of a channel is handled, its row is there and the
\* settlement period is not over.
LEMMA ClosingInTime ==
    ASSUME IInv, OrderInv, LoopInv, CloseInv, LagInv, OpenedInv, Punctual, EnoughTime, faults = 0,
           pc = "handle", writes = <<>>, NEW e \in batch, e.type = "closed", \A f \in batch : ~Precedes(f, e)
    PROVE  channel[e.on] # NoRow /\ Clock <= e.block + SettleTimeout
<1>0. /\ e \in log /\ e.block \in Nat /\ now \in Nat /\ latest \in Nat /\ head \in Nat
      /\ \A f \in log : f.block \in Nat
  BY Numbers DEF IInv, NonceInv
<1>1. e.on \in Channels /\ IsClosed(e.on)
  BY <1>0, EventFacts DEF OrderInv, IsClosed
<1>2. PICK o \in log : o.type = "opened" /\ o.on = e.on
  BY <1>1 DEF OpenedInv, IsClosed
<1>3. o.pos < e.pos /\ o.block <= e.block
  BY <1>0, <1>2 DEF CloseInv
<1>4. Precedes(o, e)
  BY <1>2, <1>3 DEF Precedes, Contract, TokenNetworkEvents
<1>5. Handled(o)
  BY <1>0, <1>3, <1>4 DEF Handled, Reached, LoopInv
<1>6. channel[e.on] # NoRow
  <2>1. Settled(e.on)
    BY DEF Settled
  <2>. QED
    BY <1>2, <1>5, <2>1 DEF OpenedInv
<1>7. latest < e.block
  BY DEF LoopInv
<1>8. now <= latest + Confirmations + 2
  <2>1. now <= latest + Confirmations + (IF polled THEN 1 ELSE 2)
    BY DEF LagInv, Behind
  <2>. QED
    BY <1>0, <2>1, Delays
<1>9. Clock <= e.block + SettleTimeout
  BY <1>0, <1>7, <1>8, Delays DEF Clock, EnoughTime
<1>. QED
  BY <1>6, <1>9

\* The closing of a channel that will bring about its check does so after every
\* step, or has brought it about.
LEMMA ToCheckStays ==
    ASSUME IInv, IInv', OrderInv, LoopInv, PassInv, CloseInv, LagInv, OpenedInv, Punctual, EnoughTime,
           faults = 0, faults' = 0, [Next]_vars, NEW c \in Channels, IsClosed(c), NEW e \in log, ToCheck(e, c)
    PROVE  ToCheck(e, c)' \/ Check(c) \in scheduled_events'
<1>0. TypeOK /\ batch \subseteq log /\ ~EventLost /\ ~UpdatedHeadBlockFails
  BY FaultsStay DEF IInv, NonceInv
<1>n. committed \in Nat /\ latest \in Nat /\ e.block \in Nat
  BY <1>0, Numbers
<1>k. Check(c)' = Check(c)
  BY ClosedForEver DEF Lasting, Check, Client, FirstAllowedToMonitor
<1>e. e.type = "closed" /\ e.on = c /\ committed < e.block /\ (Handled(e) => Check(c) \in Written("schedule"))
  BY DEF ToCheck
<1>q. ASSUME UNCHANGED committed, Handled(e)' => Handled(e) /\ writes' = writes
      PROVE  ToCheck(e, c)'
  <2>1. Handled(e)' => Check(c)' \in Written("schedule")'
    BY <1>e, <1>k, <1>q DEF Written
  <2>. QED
    BY <1>e, <1>q, <2>1 DEF ToCheck
<1>w. writes = <<>> => ~Handled(e)
  BY <1>e DEF Written
<1>h. ~HandleEvent => (Handled(e)' => Handled(e))
  BY HandledBefore
<1>1. CASE MovesOn \/ OnChain
  <2>1. UNCHANGED <<committed, writes>>
    BY <1>1 DEF MovesOn, OnChain, dbvars
  <2>2. Handled(e)' => Handled(e)
    <3>1. CASE MovesOn
      BY <3>1 DEF MovesOn, Handled, Reached, cvars
    <3>2. CASE OnChain
      BY <3>2 DEF OnChain, Handled, Reached
    <3>. QED
      BY <1>1, <3>1, <3>2
  <2>. QED
    BY <1>q, <2>1, <2>2
<1>2. CASE GetBlockchainEvents \/ UpdatedHeadBlock
  <2>1. UNCHANGED committed /\ writes = <<>> /\ pc' # pc
    BY <1>2 DEF GetBlockchainEvents, UpdatedHeadBlock, At, ProcessVars, dbvars
  <2>2. ~HandleEvent
    BY <2>1, HandlerWrites DEF Handle, ProcessVars
  <2>. QED
    BY <1>h, <1>q, <1>w, <2>1, <2>2
<1>3. CASE CrashAndRestart
  <2>1. UNCHANGED committed
    BY <1>3 DEF CrashAndRestart, dbvars
  <2>2. ~Handled(e)'
    BY <1>3, <1>e, <1>n, HandledBefore
  <2>. QED
    BY <1>q, <2>1, <2>2
<1>4. CASE ExecuteStatement
  <2>1. /\ UNCHANGED <<log, pc, head, latest, batch>> /\ 1 \in DOMAIN writes
        /\ \A i \in DOMAIN writes \ {1} : i - 1 \in DOMAIN writes' /\ writes'[i - 1] = writes[i]
        /\ writes[1].op # "head" => UNCHANGED committed
        /\ writes[1].op = "head" => committed' = writes[1].block
        /\ writes[1].op = "schedule" => scheduled_events' = scheduled_events \cup {writes[1].ev}
    BY <1>0, <1>4, StatementEffect DEF cvars
  <2>2. Handled(e)' <=> Handled(e)
    BY <2>1 DEF Handled, Reached
  <2>3. committed' < e.block
    <3>1. CASE writes[1].op = "head"
      <4>1. pc = "trigger" /\ committed' = latest
        BY <2>1, <3>1 DEF LoopInv, StatementsAt
      <4>2. \A i \in DOMAIN writes : writes[i].op # "schedule"
        BY <4>1 DEF LoopInv, StatementsAt
      <4>3. ~Handled(e)
        BY <1>e, <4>2 DEF Written
      <4>4. ~(e.block <= latest)
        BY <4>3, OldHandled
      <4>. QED
        BY <1>n, <4>1, <4>4
    <3>2. CASE writes[1].op # "head"
      BY <1>e, <2>1, <3>2
    <3>. QED
      BY <3>1, <3>2
  <2>4. CASE ~Handled(e)
    BY <1>e, <2>2, <2>3, <2>4 DEF ToCheck
  <2>5. CASE Handled(e)
    <3>1. PICK i \in DOMAIN writes : writes[i].op = "schedule" /\ writes[i].ev = Check(c)
      BY <1>e, <2>5 DEF Written
    <3>2. CASE i = 1
      BY <2>1, <3>1, <3>2
    <3>3. CASE i # 1
      <4>1. i - 1 \in DOMAIN writes' /\ writes'[i - 1] = writes[i]
        BY <2>1, <3>3
      <4>2. Check(c)' \in Written("schedule")'
        BY <1>k, <3>1, <4>1 DEF Written
      <4>. QED
        BY <1>e, <2>3, <4>2 DEF ToCheck
    <3>. QED
      BY <3>2, <3>3
  <2>. QED
    BY <2>4, <2>5
<1>5. CASE HandleEvent
  <2>e0. PICK f \in batch : \E ws : /\ Handle(f, ws) /\ \A i \in DOMAIN ws : SavedBy(f, ws[i])
                                    /\ faults' = faults => Finishes(f, ws)
    BY <1>5, HandlerSaves
  <2>1. PICK ws : /\ Handle(f, ws) /\ \A i \in DOMAIN ws : SavedBy(f, ws[i])
                  /\ faults' = faults => Finishes(f, ws)
    BY <2>e0
  <2>2. /\ Finishes(f, writes') /\ writes = <<>> /\ pc = "handle" /\ pc' = "handle"
        /\ UNCHANGED <<committed, log, head>> /\ batch' = batch \ {f}
        /\ \A g \in batch : ~Precedes(g, f)
    BY <2>1 DEF Handle, At, ProcessVars, dbvars, cvars
  <2>3. CASE f # e
    <3>1. Handled(e)' => Handled(e)
      BY <2>2, <2>3 DEF Handled, Reached
    <3>. QED
      BY <1>q, <1>w, <2>2, <3>1
  <2>4. CASE f = e
    <3>1. channel[c] # NoRow /\ Clock <= e.block + SettleTimeout
      BY <1>e, <2>2, <2>4, ClosingInTime
    <3>2. PICK i \in DOMAIN writes' : writes'[i] = UpsertScheduledEvent(MonitorEvent(e))
      BY <1>e, <2>2, <2>4, <3>1 DEF Finishes
    <3>3. MonitorEvent(e) = Check(c)
      BY <1>e DEF MonitorEvent, Check, Client, CloseInv
    <3>4. Check(c)' \in Written("schedule")'
      BY <1>k, <3>2, <3>3 DEF Written, UpsertScheduledEvent
    <3>. QED
      BY <1>e, <2>2, <3>4 DEF ToCheck
  <2>. QED
    BY <2>3, <2>4
<1>6. ASSUME NEW s \in triggered, Acts(s)
      PROVE  ToCheck(e, c)'
  <2>1. writes = <<>> /\ UNCHANGED <<committed, log, pc, head, latest, batch>>
    BY <1>6, ActionWrites DEF SchedulerVars, At, dbvars
  <2>2. Handled(e)' => Handled(e)
    BY <2>1 DEF Handled, Reached
  <2>. QED
    BY <1>q, <1>w, <2>1, <2>2
<1>. QED
  BY <1>0, <1>1, <1>2, <1>3, <1>4, <1>5, <1>6, Kinds

\* An awaited check is not lost.
LEMMA CheckKeptStep ==
    ASSUME IInv, IInv', OrderInv, LoopInv, PassInv, CloseInv, RequestInv, EventsInv, LagInv, OpenedInv,
           FoundedInv, SentInv, FlightInv, OverInv, Punctual, EnoughTime, faults = 0, faults' = 0,
           [Next]_vars, NEW c \in Channels, IsClosed(c), Awaited(c)', CheckKept(c), now <= Latest(c) + 1
    PROVE  CheckKept(c)'
<1>1. Check(c)' = Check(c)
  BY AwaitedBefore
<1>2. /\ MonitorTxs(c)' = {}
      /\ \A s \in KnownEvents' : s.type = "monitor" /\ s.ch = c => s = Check(c)
      /\ Check(c) \notin Written("unschedule")'
  BY CheckUndone
<1>3. log \subseteq log'
  BY OffChain, OnChainGrows
<1>4. Check(c) \in scheduled_events' \/ \E e \in log' : ToCheck(e, c)'
  <2>1. CASE Check(c) \in scheduled_events
    BY <2>1, CheckStays
  <2>2. ASSUME NEW e \in log, ToCheck(e, c)
        PROVE  Check(c) \in scheduled_events' \/ \E f \in log' : ToCheck(f, c)'
    BY <1>3, <2>2, ToCheckStays
  <2>. QED
    BY <2>1, <2>2 DEF CheckKept
<1>. QED
  BY <1>1, <1>2, <1>4 DEF CheckKept

\* A channel that is closed in a step has all its time before it.
LEMMA JustClosed ==
    ASSUME IInv, IInv', OrderInv, LoopInv, PassInv, RequestInv, EventsInv, FoundedInv, faults = 0, faults' = 0,
           [Next]_vars, NEW c \in Channels, ~IsClosed(c), IsClosed(c)'
    PROVE  CheckKept(c)' /\ Together(c)' /\ OnTime(c)'
<1>0. TypeOK /\ ChainTypeOK
  BY DEF IInv, TypeOK
<1>1. OnChain /\ ~UNCHANGED <<chain, log>>
  BY OffChain DEF IsClosed
<1>2. PICK d \in Channels : ChannelMoves(d)
  BY <1>0, <1>1, ChainEffect
<1>3. d = c
  BY <1>2 DEF ChannelMoves, IsClosed
<1>4. PICK e : ByOneEvent(c, e)
  BY <1>2, <1>3 DEF ChannelMoves, ByMonitoring, IsClosed
<1>5. /\ log' = log \cup {e} /\ now' = now /\ chain'[c].closedAt = now
      /\ e.type = "closed" /\ e.on = c /\ e.block = now
  BY <1>2, <1>4 DEF ByOneEvent, EventIs, IsClosed, ChannelMoves
<1>6. UNCHANGED <<pc, latest, committed, triggered, writes, scheduled_events, try_after, polled>>
  <2>1. UNCHANGED <<pc, latest, committed, triggered, writes, scheduled_events>>
    BY <1>1 DEF OnChain, dbvars
  <2>2. Still
    <3>1. ~Tick /\ ~CrashAndRestart /\ ~CheckPendingTransactions /\ ~NoNewBlocks /\ ~GetBlockchainEvents
          /\ ~UpdatedHeadBlock
      BY <1>1 DEF Tick, NewBlock, CrashAndRestart, CheckPendingTransactions, NoNewBlocks,
         GetBlockchainEvents, UpdatedHeadBlock, ProcessVars, cvars
    <3>2. ~TriggerNotYet /\ ~TriggerScheduledEvents /\ ~TriggeredEventsDone
      BY <1>1 DEF TriggerNotYet, TriggerScheduledEvents, TriggeredEventsDone, SchedulerVars
    <3>3. \A s \in triggered : ~HandleTooEarly(s) /\ ~Acts(s)
      BY <1>1, ActionWrites DEF HandleTooEarly, TooEarly, SchedulerVars
    <3>. QED
      BY <3>1, <3>2, <3>3, Paces
  <2>. QED
    BY <1>1, <2>1, <2>2 DEF Still
<1>n. /\ now \in Nat /\ committed \in Nat /\ latest \in Nat /\ committed <= latest /\ latest < now
      /\ try_after \in Nat
  <2>1. committed <= latest /\ latest <= fetched /\ fetched < now
    BY DEF LoopInv
  <2>2. /\ now \in Nat /\ committed \in Nat /\ latest \in Nat /\ fetched \in Nat /\ try_after \in Nat
    BY <1>0, Numbers DEF TypeOK, LoopTypeOK
  <2>. QED
    BY <2>1, <2>2
<1>7. MonitorTxs(c)' = {}
  <2>1. \A i \in DOMAIN txs : txs[i].type = "monitor" => txs[i].ch # c
    BY DEF RequestInv, Requested
  <2>2. /\ DOMAIN txs' = DOMAIN txs
        /\ \A i \in DOMAIN txs : txs'[i].type = txs[i].type /\ txs'[i].ch = txs[i].ch
    BY <1>0, <1>1, TxsAndDeposits
  <2>. QED
    BY <2>1, <2>2 DEF MonitorTxs
<1>8. \A s \in KnownEvents' : s.ch # c
  <2>1. KnownEvents' = KnownEvents
    BY <1>6 DEF KnownEvents, Written
  <2>. QED
    BY <2>1 DEF EventsInv, WellTimed
<1>9. Check(c)' \notin Written("unschedule")'
  BY <1>8 DEF KnownEvents, Check
<1>10. ToCheck(e, c)'
  <2>1. e \notin log
    BY <1>5 DEF OrderInv, IsClosed
  <2>2. ~Handled(e)'
    BY <2>1, HandledBefore
  <2>. QED
    BY <1>5, <1>6, <1>n, <2>2 DEF ToCheck
<1>11. CheckKept(c)'
  BY <1>5, <1>7, <1>8, <1>9, <1>10 DEF CheckKept
<1>12. Together(c)'
  BY <1>5, <1>6, <1>n DEF Together
<1>13. OnTime(c)'
  <2>1. try_after' <= chain'[c].closedAt + CheckWait + ClockAhead + RetryDelay
    BY <1>5, <1>6, <1>n, Delays DEF FoundedInv, Clock
  <2>2. now' < chain'[c].closedAt + CheckDelay
    BY <1>5, <1>n, Delays
  <2>. QED
    BY <1>5, <1>n, <2>1, <2>2, Delays DEF OnTime, LastPutOff, Latest
<1>. QED
  BY <1>11, <1>12, <1>13

\* The clock does not go back.
LEMMA ClockForward ==
    ASSUME IInv, OrderInv, [Next]_vars
    PROVE  Clock \in Nat /\ Clock' \in Nat /\ Clock <= Clock'
<1>1. now \in Nat /\ now' \in Nat /\ now <= now' /\ ClockAhead \in Nat
  BY Attempts, Delays
<1>2. \A a, b, d \in Nat : a <= b => a + d \in Nat /\ b + d \in Nat /\ a + d <= b + d
  OBVIOUS
<1>3. /\ now + ClockAhead \in Nat /\ now' + ClockAhead \in Nat
      /\ now + ClockAhead <= now' + ClockAhead
  BY <1>1, <1>2
<1>. QED
  BY <1>3 DEF Clock

\* An attempt that is too early comes early: before the MSC allows to monitor
\* or before the closing is known.
LEMMA TooEarlySoon ==
    ASSUME IInv, EventsInv, LagInv, FoundedInv, Punctual, faults = 0, NEW c \in Channels, NotBlocked(c),
           Together(c), NEW t \in triggered, HandleTooEarly(t)
    PROVE  now <= LastPutOff(c)
<1>1. /\ pc = "scheduled" /\ (MonitorTooEarly(t) \/ ClaimTooEarly(t)) /\ \A s \in triggered : t.at <= s.at
  BY DEF HandleTooEarly, TooEarly, Due, At
<1>2. t \in KnownEvents /\ t \in ScheduledEvents /\ t.at \in Nat /\ t.ch \in Channels
  BY DEF KnownEvents, IInv, TypeOK, LoopTypeOK, ScheduledEvents
<1>3. Founded(t) /\ WellTimed(t)
  BY <1>2 DEF FoundedInv, EventsInv
<1>4. MonitorTooEarly(t) => now < t.at
  <2>1. MonitorTooEarly(t) => now < FirstAllowedToMonitor(t.ch) /\ FirstAllowedToMonitor(t.ch) <= t.at
    BY <1>3 DEF MonitorTooEarly, WorthMonitoring, Founded
  <2>. QED
    BY <1>2, <2>1, Times
<1>5. ClaimTooEarly(t) => FirstAllowedToMonitor(c) < t.at
  <2>1. ClaimTooEarly(t) => t.type = "claim"
    BY DEF ClaimTooEarly, WorthClaiming
  <2>. QED
    BY <1>3, <2>1 DEF Founded, WellTimed, NotBlocked
<1>6. CASE t.at <= FirstAllowedToMonitor(c)
  <2>1. now < FirstAllowedToMonitor(c)
    BY <1>1, <1>2, <1>4, <1>5, <1>6, Times
  <2>. QED
    BY <2>1, Times, Delays DEF FirstAllowedToMonitor, LastPutOff
<1>7. CASE ~(t.at <= FirstAllowedToMonitor(c))
  <2>1. Check(c) \notin triggered
    BY <1>1, <1>7, Times
  <2>2. latest < chain[c].closedAt
    BY <1>1, <1>2, <1>7, <2>1, Times DEF Together
  <2>3. now <= latest - 1 + Confirmations + 2
    <3>1. now <= latest - 1 + Confirmations + (IF polled THEN 1 ELSE 2)
      BY <1>1 DEF LagInv, Behind
    <3>. QED
      BY <3>1, Times, Delays
  <2>. QED
    BY <2>2, <2>3, Times, Delays DEF LastPutOff
<1>. QED
  BY <1>6, <1>7

\* When the scheduler runs, the closing is handled or too recent for the check
\* to be late.
LEMMA CheckTriggered ==
    ASSUME IInv, OrderInv, CloseInv, PassInv, LagInv, Punctual, faults = 0, NEW c \in Channels, CheckKept(c),
           TriggerScheduledEvents
    PROVE  /\ FirstAllowedToMonitor(c) <= Clock => Check(c) \in triggered' \/ latest < chain[c].closedAt
           /\ now >= Latest(c) => Check(c) \in triggered'
<1>1. /\ pc = "trigger" /\ writes = <<>> /\ triggered' = {s \in scheduled_events : s.at <= Clock}
  BY DEF TriggerScheduledEvents, At
<1>2. committed = latest
  BY <1>1 DEF PassInv
<1>3. Check(c) \in scheduled_events \/ latest < chain[c].closedAt
  <2>1. ASSUME NEW e \in log, ToCheck(e, c)
        PROVE  latest < chain[c].closedAt
    <3>1. e.type = "closed" /\ e.on = c /\ committed < e.block
      BY <2>1 DEF ToCheck
    <3>. QED
      BY <1>2, <2>1, <3>1 DEF CloseInv
  <2>. QED
    BY <2>1 DEF CheckKept
<1>4. FirstAllowedToMonitor(c) <= Clock => Check(c) \in triggered' \/ latest < chain[c].closedAt
  BY <1>1, <1>3, Times
<1>5. ASSUME now >= Latest(c)
      PROVE  Check(c) \in triggered'
  <2>1. now <= latest - 1 + Confirmations + 2
    <3>1. now <= latest - 1 + Confirmations + (IF polled THEN 1 ELSE 2)
      BY <1>1 DEF LagInv, Behind
    <3>. QED
      BY <3>1, Times, Delays
  <2>2. ~(latest < chain[c].closedAt)
    BY <1>5, <2>1, Times, Delays DEF Latest
  <2>3. FirstAllowedToMonitor(c) <= Clock
    BY <1>5, Times, Delays DEF Latest, FirstAllowedToMonitor, Clock
  <2>. QED
    BY <1>4, <2>2, <2>3
<1>. QED
  BY <1>4, <1>5

\* A check is made in time, or awaited with time left.
LEMMA OnTimeStep ==
    ASSUME IInv, IInv', OrderInv, LoopInv, PassInv, CloseInv, RequestInv, EventsInv, LagInv, FoundedInv,
           SentInv, FlightInv, OverInv, Punctual, EnoughTime, faults = 0, faults' = 0, [Next]_vars,
           NEW c \in Channels, IsClosed(c), Awaited(c)', CheckKept(c), Together(c), OnTime(c)
    PROVE  Together(c)' /\ OnTime(c)'
<1>0. TypeOK
  BY DEF IInv
<1>a. Awaited(c) /\ NotBlocked(c)
  BY AwaitedBefore DEF Awaited
<1>k. /\ Check(c)' = Check(c) /\ chain'[c].closedAt = chain[c].closedAt
      /\ FirstAllowedToMonitor(c)' = FirstAllowedToMonitor(c)
      /\ Latest(c)' = Latest(c) /\ LastPutOff(c)' = LastPutOff(c)
  BY AwaitedBefore DEF Lasting, Latest, LastPutOff
<1>n. /\ now \in Nat /\ now' \in Nat /\ now <= now' /\ try_after \in Nat /\ try_after' \in Nat /\ ClockAhead \in Nat
      /\ RetryDelay \in Nat
      /\ Latest(c) \in Nat /\ LastPutOff(c) \in Nat /\ LastPutOff(c) < Latest(c) /\ polled \in BOOLEAN
      /\ LastPutOff(c) + RetryDelay <= Latest(c)
  <2>1. try_after' \in Nat /\ polled \in BOOLEAN
    BY DEF IInv, TypeOK, LoopTypeOK, HistoryTypeOK
  <2>. QED
    BY <2>1, Attempts, Times, Delays DEF Latest, LastPutOff
<1>t. Clock \in Nat /\ Clock' \in Nat /\ Clock <= Clock'
  BY ClockForward
<1>o. /\ try_after <= Clock \/ try_after <= LastPutOff(c) + ClockAhead + RetryDelay
      /\ now <= Latest(c) + 1
      /\ now >= Latest(c) /\ polled /\ pc = "scheduled" => Check(c) \in triggered
      /\ now = Latest(c) + 1 => /\ ~polled /\ pc # "pending"
                                /\ pc = "scheduled" => Check(c) \in triggered
  BY DEF OnTime
<1>u. ~(Check(c) \in triggered /\ Acts(Check(c)))
  BY <1>o, CheckUndone
<1>. DEFINE Put == try_after' <= Clock' \/ try_after' <= LastPutOff(c) + ClockAhead + RetryDelay
            Called == pc' = "scheduled" => Check(c) \in triggered'
            Rest == /\ now >= Latest(c) /\ polled' => Called
                    /\ now = Latest(c) + 1 => ~polled' /\ pc' # "pending" /\ Called
<1>q. ASSUME now' = now, Put, Rest
      PROVE  OnTime(c)'
  BY <1>k, <1>o, <1>q DEF OnTime
<1>p. try_after' = try_after \/ try_after' = Clock => Put
  <2>1. try_after' = Clock => Put
    BY <1>t
  <2>2. try_after' = try_after => Put
    BY <1>n, <1>o, <1>t
  <2>. QED
    BY <2>1, <2>2
<1>1. CASE Still
  <2>1. Together(c)'
    BY <1>k, <1>1 DEF Still, Together
  <2>. QED
    BY <1>o, <1>p, <1>q, <1>1, <2>1 DEF Still
<1>2. CASE Tick
  <2>1. /\ now' = now + 1 /\ polled /\ polled' = FALSE /\ pc \in {"blocks", "trigger", "scheduled"}
        /\ UNCHANGED <<pc, latest, triggered, try_after>>
    BY <1>2 DEF Tick, NewBlock, LooksAtChain
  <2>2. Together(c)'
    BY <1>k, <2>1 DEF Together
  <2>3. now' <= Latest(c) + 1
    BY <1>n, <1>o, <2>1
  <2>4. ASSUME now' = Latest(c) + 1, pc = "scheduled"
        PROVE  Check(c) \in triggered
    <3>1. now >= Latest(c)
      BY <1>n, <2>1, <2>4
    <3>. QED
      BY <1>o, <2>1, <2>4, <3>1
  <2>. QED
    BY <1>k, <1>p, <2>1, <2>2, <2>3, <2>4 DEF OnTime
<1>3. CASE NoNewBlocks \/ GetBlockchainEvents \/ UpdatedHeadBlock
  <2>1. UNCHANGED <<now, polled, try_after>> /\ pc' \in {"trigger", "handle"}
    BY <1>3 DEF NoNewBlocks, GetBlockchainEvents, UpdatedHeadBlock, ProcessVars, cvars
  <2>. QED
    BY <1>o, <1>p, <1>q, <2>1 DEF Together
<1>4. CASE CrashAndRestart
  <2>1. UNCHANGED <<now, polled>> /\ pc' = "blocks" /\ try_after' = Clock
    BY <1>4 DEF CrashAndRestart, cvars
  <2>. QED
    BY <1>o, <1>p, <1>q, <2>1 DEF Together
<1>5. CASE TriggerNotYet
  <2>1. UNCHANGED <<now, polled, try_after>> /\ pc' = "pending" /\ Clock < try_after
    BY <1>5 DEF TriggerNotYet, SchedulerVars
  <2>2. now # Latest(c) + 1
    <3>1. try_after <= LastPutOff(c) + ClockAhead + RetryDelay
      BY <1>n, <1>o, <2>1 DEF Clock
    <3>. QED
      BY <1>n, <2>1, <3>1 DEF Clock
  <2>. QED
    BY <1>o, <1>p, <1>q, <2>1, <2>2 DEF Together
<1>6. CASE TriggerScheduledEvents
  <2>1. /\ UNCHANGED <<now, polled, try_after, latest>> /\ pc' = "scheduled"
        /\ triggered' = {s \in scheduled_events : s.at <= Clock}
    BY <1>6 DEF TriggerScheduledEvents, SchedulerVars
  <2>2. /\ FirstAllowedToMonitor(c) <= Clock => Check(c) \in triggered' \/ latest < chain[c].closedAt
        /\ now >= Latest(c) => Check(c) \in triggered'
    BY <1>6, CheckTriggered
  <2>3. Together(c)'
    <3>1. ASSUME NEW s \in triggered', FirstAllowedToMonitor(c) <= s.at
          PROVE  FirstAllowedToMonitor(c) <= Clock
      <4>1. s.at \in Nat /\ s.at <= Clock
        BY <1>0, <2>1, <3>1 DEF TypeOK, DatabaseTypeOK, ScheduledEvents
      <4>. QED
        BY <3>1, <4>1, Times
    <3>. QED
      BY <1>k, <2>1, <2>2, <3>1 DEF Together
  <2>4. Rest
    BY <1>n, <1>o, <2>1, <2>2
  <2>. QED
    BY <1>p, <1>q, <2>1, <2>3, <2>4
<1>7. CASE TriggeredEventsDone
  <2>1. UNCHANGED <<now, polled, try_after>> /\ pc = "scheduled" /\ pc' = "pending" /\ triggered = {}
    BY <1>7 DEF TriggeredEventsDone, At, SchedulerVars
  <2>. QED
    BY <1>o, <1>p, <1>q, <2>1 DEF Together
<1>8. ASSUME NEW t \in triggered, HandleTooEarly(t)
      PROVE  Together(c)' /\ OnTime(c)'
  <2>1. UNCHANGED <<now, polled>> /\ pc' = "pending" /\ try_after' = Clock + RetryDelay
    BY <1>8 DEF HandleTooEarly, TooEarly, SchedulerVars
  <2>2. now <= LastPutOff(c)
    BY <1>8, <1>a, TooEarlySoon
  <2>3. Put /\ now # Latest(c) + 1
    BY <1>n, <2>1, <2>2 DEF Clock
  <2>. QED
    BY <1>q, <2>1, <2>3 DEF Together
<1>9. CASE CheckPendingTransactions
  <2>1. UNCHANGED <<now, try_after>> /\ pc = "pending" /\ pc' = "blocks"
    BY <1>9 DEF CheckPendingTransactions, At, cvars
  <2>. QED
    BY <1>o, <1>p, <1>q, <2>1 DEF Together
<1>10. ASSUME NEW s \in triggered, Acts(s)
       PROVE  Together(c)' /\ OnTime(c)'
  <2>1. UNCHANGED <<now, polled, pc, latest>> /\ triggered' = triggered \ {s}
    BY <1>10, ActionWrites DEF SchedulerVars
  <2>2. try_after' = try_after
    BY <1>10 DEF Acts, MonitorDropped, MonitorRescheduled, MonitorSent, ClaimDropped, ClaimSent, ActionFails, Send,
       Done
  <2>3. Check(c) \in triggered => Check(c) \in triggered'
    BY <1>10, <1>u, <2>1
  <2>4. Together(c)'
    BY <1>k, <2>1, <2>3 DEF Together
  <2>. QED
    BY <1>o, <1>p, <1>q, <2>1, <2>2, <2>3, <2>4
<1>. QED
  BY <1>1, <1>2, <1>3, <1>4, <1>5, <1>6, <1>7, <1>8, <1>9, <1>10, Paces

\* Every step keeps the awaited checks in time.
LEMMA AwaitStep ==
    ASSUME IInv, IInv', OrderInv, LoopInv, PassInv, CloseInv, RequestInv, EventsInv, LagInv, OpenedInv,
           FoundedInv, SentInv, FlightInv, OverInv, AwaitInv, [Next]_vars
    PROVE  AwaitInv'
<1>. SUFFICES ASSUME Punctual, EnoughTime, faults' = 0, NEW c \in Channels, Awaited(c)'
              PROVE  CheckKept(c)' /\ Together(c)' /\ OnTime(c)'
  BY DEF AwaitInv, EnoughTime, CheckDelay, CheckWait
<1>1. faults = 0 /\ IsClosed(c)'
  BY FaultsStay DEF Awaited
<1>2. CASE ~IsClosed(c)
  BY <1>1, <1>2, JustClosed
<1>3. CASE IsClosed(c)
  <2>1. Awaited(c)
    BY <1>3, AwaitedBefore
  <2>2. CheckKept(c) /\ Together(c) /\ OnTime(c)
    BY <1>1, <2>1 DEF AwaitInv
  <2>3. now <= Latest(c) + 1
    BY <2>2 DEF OnTime
  <2>4. CheckKept(c)'
    BY <1>1, <1>3, <2>2, <2>3, CheckKeptStep
  <2>5. Together(c)' /\ OnTime(c)'
    BY <1>1, <1>3, <2>2, OnTimeStep
  <2>. QED
    BY <2>4, <2>5
<1>. QED
  BY <1>2, <1>3

\* What a timely monitoring needs.
TInv == LagInv /\ OpenedInv /\ FoundedInv /\ SentInv /\ FlightInv /\ OverInv /\ AwaitInv

\* It holds initially.
LEMMA TInit == Init => TInv
<1>. SUFFICES ASSUME Init
              PROVE  TInv
  OBVIOUS
<1>1. /\ now = 1 /\ txs = <<>> /\ committed = 0 /\ latest = 0 /\ pc = "blocks" /\ polled = FALSE
      /\ triggered = {} /\ scheduled_events = {} /\ writes = <<>> /\ try_after = Clock
      /\ channel = [c \in Channels |-> NoRow] /\ \A c \in Channels : chain[c].state = "absent"
      /\ \A e \in log : e.type = "created"
  BY DEF Init, ChainInit
<1>2. LagInv
  BY <1>1, ServiceConstants DEF LagInv, Behind
<1>3. OpenedInv
  BY <1>1 DEF OpenedInv
<1>4. KnownEvents = {}
  BY <1>1 DEF KnownEvents, Written
<1>5. FoundedInv
  BY <1>1, <1>4, ServiceConstants DEF FoundedInv, Clock
<1>6. SentInv
  BY <1>1 DEF SentInv
<1>7. FlightInv
  BY <1>1 DEF FlightInv
<1>8. OverInv /\ AwaitInv
  BY <1>1 DEF OverInv, AwaitInv, Awaited, IsClosed
<1>. QED
  BY <1>2, <1>3, <1>5, <1>6, <1>7, <1>8 DEF TInv

\* Every step keeps it.
LEMMA TStep == MInv /\ MInv' /\ RInv /\ TInv /\ [Next]_vars => TInv'
<1>. SUFFICES ASSUME MInv, MInv', RInv, TInv, [Next]_vars
              PROVE  TInv'
  OBVIOUS
<1>1. /\ IInv /\ IInv' /\ OrderInv /\ LoopInv /\ PassInv
      /\ CloseInv /\ RequestInv /\ EventsInv /\ ClosingInv
      /\ LagInv /\ OpenedInv /\ FoundedInv /\ SentInv /\ FlightInv /\ OverInv /\ AwaitInv
  BY DEF MInv, RInv, TInv
<1>2. LagInv'
  BY <1>1, LagStep
<1>3. OpenedInv'
  BY <1>1, OpenedStep
<1>4. FoundedInv'
  BY <1>1, FoundedStep
<1>5. SentInv'
  BY <1>1, SentStep
<1>6. FlightInv'
  BY <1>1, FlightStep
<1>7. OverInv'
  BY <1>1, OverStep
<1>8. AwaitInv'
  BY <1>1, AwaitStep
<1>. QED
  BY <1>2, <1>3, <1>4, <1>5, <1>6, <1>7, <1>8 DEF TInv

\* The service keeps up with the chain, and awaited checks are made in time.
THEOREM TInvariance == Spec => []TInv
<1>1. Init => TInv
  BY TInit
<1>2. MInv /\ MInv' /\ RInv /\ TInv /\ [Next]_vars => TInv'
  BY TStep
<1>. QED
  BY <1>1, <1>2, MInvariance, RInvariance, PTL DEF Spec

\* What the service is for: with a loop that keeps up with the chain and a
\* settlement period that has room for the delays (EnoughTime), a client's
\* request that was stored before its check was due is on the chain when the
\* settlement period of the closed channel ends, crashes or not.
THEOREM MonitoredBeforeSettlement == Spec => []MonitoredInTime
<1>1. MInv /\ TInv => MonitoredInTime
  <2>. SUFFICES ASSUME MInv, TInv, Punctual, EnoughTime, faults = 0, NEW c \in Channels, NEW mr,
                       mr = monitor_request[<<c, Other(chain[c].closer)>>],
                       chain[c].state \in {"closed", "settled"}, now > SettleableAfter(c), mr # NoRequest,
                       mr.signer = chain[c].closer, mr.reward >= MinReward,
                       \A b \in Balances[Other(chain[c].closer)] : b * 10 >= mr.reward * 11,
                       mr.saved_at < FirstAllowedToMonitor(c), NotBlocked(c)
                PROVE  chain[c].nonce >= mr.nonce
    BY DEF MonitoredInTime
  <2>0. IInv /\ FlightInv /\ AwaitInv /\ IsClosed(c) /\ mr = monitor_request[<<c, Client(c)>>]
    BY DEF MInv, TInv, IsClosed, Client
  <2>n. /\ now \in Nat /\ SettleableAfter(c) \in Nat /\ chain[c].nonce \in Nat /\ mr.nonce \in Nat
    <3>1. chain[c].nonce \in Nat
      BY <2>0 DEF IInv, TypeOK, ChainTypeOK, ChannelOnChain
    <3>2. SettleableAfter(c) \in Nat /\ now \in Nat
      BY <2>0, Times, Delays DEF SettleableAfter
    <3>. QED
      BY <2>0, <3>1, <3>2, ClientRequest
  <2>1. ASSUME chain[c].nonce < mr.nonce
        PROVE  FALSE
    <3>1. \A i \in MonitorTxs(c) : txs[i].block # 0
      <4>1. ~OpenToMonitor(c)
        BY <2>n DEF OpenToMonitor
      <4>. QED
        BY <2>0, <4>1 DEF FlightInv, MonitorTxs
    <3>2. Waiting(c)
      BY <2>0, <2>1, <3>1 DEF Waiting, Client
    <3>3. now <= chain[c].closedAt + CheckDelay + 1
      BY <2>0, <3>2 DEF AwaitInv, Awaited, OnTime, Latest
    <3>. QED
      BY <2>0, <2>n, <3>3, Times, Delays DEF EnoughTime, SettleableAfter
  <2>. QED
    BY <2>n, <2>1
<1>. QED
  BY <1>1, MInvariance, TInvariance, PTL
==============================================================================
