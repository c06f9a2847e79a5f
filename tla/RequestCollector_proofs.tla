----------------------- MODULE RequestCollector_proofs -----------------------
(***************************************************************************)
(* Proofs about RequestCollector: for any requests and channels, and any   *)
(* interleaving of the statements of its two processes.                    *)
(***************************************************************************)
EXTENDS RequestCollector, TLAPS

\* The collector's comparison is still true when it stores the request, and the
\* purge's first statement when its second one is executed.
IInv == TypeOK /\ ComparisonHolds /\ PurgeSparesChannels

\* What the collector compares and stores under is a row of the table.
LEMMA KeyType ==
    ASSUME TypeOK, rc # "idle"
    PROVE  Key \in Keys /\ msg \in RequestMonitoring /\ msg.nonce \in Nat \ {0}
<1>1. msg \in RequestMonitoring
  BY DEF TypeOK
<1>. QED
  BY <1>1 DEF RequestMonitoring, Key, Keys

\* A nonce is a number, in every row and where there is no row.
LEMMA NonceType ==
    ASSUME TypeOK, NEW k \in Keys
    PROVE  /\ monitor_request[k] \in Rows \cup {NoRequest}
           /\ monitor_request[k].nonce \in Nat
<1>1. monitor_request[k] \in Rows \cup {NoRequest}
  BY DEF TypeOK
<1>. QED
  BY <1>1 DEF Rows, NoRequest

\* What the purge makes of a row.
LEMMA PurgeKeepsRows ==
    ASSUME TypeOK, PurgeMark \/ PurgeDelete
    PROVE  /\ monitor_request' \in [Keys -> Rows \cup {NoRequest}]
           /\ \A k \in Keys : \/ monitor_request'[k].nonce = monitor_request[k].nonce
                              \/ monitor_request'[k] = NoRequest
           /\ PurgeMark => \A k \in Keys : Waiting(k)' => channel[k[1]] = Missing
<1>1. CASE PurgeMark
  <2>. DEFINE Marked(k) == [monitor_request[k] EXCEPT !.waiting = FALSE]
  <2>1. ASSUME NEW k \in Keys, Waiting(k)
        PROVE  Marked(k) \in Rows /\ Marked(k).nonce = monitor_request[k].nonce
               /\ ~Marked(k).waiting
    <3>1. monitor_request[k] \in Rows
      BY <2>1, NonceType DEF Waiting
    <3>. QED
      BY <3>1 DEF Rows
  <2>2. monitor_request' =
            [k \in Keys |-> IF Waiting(k) /\ channel[k[1]] # Missing
                            THEN Marked(k) ELSE monitor_request[k]]
    BY <1>1 DEF PurgeMark
  <2>. HIDE DEF Marked
  <2>3. \A k \in Keys : monitor_request[k] \in Rows \cup {NoRequest}
    BY NonceType
  <2>4. ASSUME NEW k \in Keys, Waiting(k)'
        PROVE  channel[k[1]] = Missing
    <3>1. CASE Waiting(k) /\ channel[k[1]] # Missing
      BY <2>1, <2>2, <2>4, <3>1 DEF Waiting
    <3>2. CASE ~(Waiting(k) /\ channel[k[1]] # Missing)
      BY <2>2, <2>4, <3>2 DEF Waiting
    <3>. QED
      BY <3>1, <3>2
  <2>. QED
    BY <2>1, <2>2, <2>3, <2>4
<1>2. CASE PurgeDelete
  <2>1. \A k \in Keys : monitor_request'[k] \in {monitor_request[k], NoRequest}
    BY <1>2 DEF PurgeDelete
  <2>2. monitor_request' = [k \in Keys |-> monitor_request'[k]]
    BY <1>2 DEF PurgeDelete
  <2>3. \A k \in Keys : monitor_request[k] \in Rows \cup {NoRequest}
    BY NonceType
  <2>4. ~PurgeMark
    BY <1>2 DEF PurgeDelete, PurgeMark
  <2>. QED
    BY <2>1, <2>2, <2>3, <2>4
<1>. QED
  BY <1>1, <1>2

\* The row the collector stores.
LEMMA StoredRow ==
    ASSUME TypeOK, UpsertMonitorRequest
    PROVE  /\ monitor_request' \in [Keys -> Rows \cup {NoRequest}]
           /\ Key \in Keys
           /\ monitor_request'[Key].nonce = msg.nonce
           /\ monitor_request'[Key].saved_at.value = now
           /\ \A k \in Keys : k # Key => monitor_request'[k] = monitor_request[k]
<1>. DEFINE row == [nonce |-> msg.nonce, saved_at |-> Text(now), waiting |-> TRUE]
<1>1. Key \in Keys /\ msg.nonce \in Nat \ {0}
  BY KeyType DEF UpsertMonitorRequest
<1>2. row \in Rows /\ row.nonce = msg.nonce /\ row.saved_at.value = now
  BY <1>1, CollectorConstants DEF Rows, Text, TypeOK
<1>4. monitor_request' = [monitor_request EXCEPT ![Key] = row]
  BY DEF UpsertMonitorRequest
<1>. HIDE DEF row
<1>. QED
  BY <1>1, <1>2, <1>4 DEF TypeOK

------------------------------------------------------------------------------
(* The invariant.                                                          *)

\* The invariant holds initially.
LEMMA InitEstablishes == Init => IInv
BY CollectorConstants DEF Init, IInv, TypeOK, ComparisonHolds, PurgeSparesChannels, Missing, Open, NoRequest

\* Every step of the collector keeps the invariant.
LEMMA CollectorKeeps ==
    ASSUME IInv
    PROVE  /\ \A m \in Messages : ReceiveRequest(m) => IInv'
           /\ CheckCloseAge \/ CheckNonce \/ UpsertMonitorRequest \/ CollectorRestart => IInv'
<1>. USE DEF IInv
<1>1. ASSUME NEW m \in Messages, ReceiveRequest(m)
      PROVE  IInv'
  <2>1. m \in RequestMonitoring
    BY CollectorConstants
  <2>2. m # NoMessage
    <3>1. m.nonce # 0
      BY <2>1 DEF RequestMonitoring
    <3>. QED
      BY <3>1 DEF NoMessage
  <2>. QED
    BY <1>1, <2>1, <2>2
       DEF ReceiveRequest, ServiceVars, TypeOK, ComparisonHolds, PurgeSparesChannels, Waiting
<1>2. ASSUME CheckCloseAge \/ CollectorRestart
      PROVE  IInv'
  BY <1>2 DEF CheckCloseAge, CollectorRestart, ServiceVars, TypeOK, ComparisonHolds,
              PurgeSparesChannels, Waiting
<1>3. ASSUME CheckNonce
      PROVE  IInv'
  <2>1. Key' = Key /\ msg' = msg /\ monitor_request' = monitor_request
    BY <1>3 DEF CheckNonce, Key
  <2>2. rc' = "store" => monitor_request[Key].nonce < msg.nonce
    BY <1>3 DEF CheckNonce, IsNewer
  <2>3. ComparisonHolds'
    BY <2>1, <2>2 DEF ComparisonHolds
  <2>4. TypeOK'
    BY <1>3 DEF CheckNonce, ServiceVars, TypeOK
  <2>5. PurgeSparesChannels'
    BY <1>3 DEF CheckNonce, ServiceVars, PurgeSparesChannels, Waiting
  <2>. QED
    BY <2>3, <2>4, <2>5
<1>4. ASSUME UpsertMonitorRequest
      PROVE  IInv'
  <2>1. TypeOK' /\ ComparisonHolds'
    BY <1>4, StoredRow DEF UpsertMonitorRequest, ServiceVars, TypeOK, ComparisonHolds
  <2>2. ASSUME ms = "delete", NEW k \in Keys, Waiting(k)', channel[k[1]] # Missing
        PROVE  monitor_request'[k].saved_at.value >= marked
    <3>1. CASE k = Key
      BY <1>4, <3>1, StoredRow, CollectorConstants DEF TypeOK
    <3>2. CASE k # Key
      BY <1>4, <2>2, <3>2, StoredRow DEF PurgeSparesChannels, Waiting
    <3>. QED
      BY <3>1, <3>2
  <2>3. PurgeSparesChannels'
    BY <1>4, <2>2 DEF UpsertMonitorRequest, ServiceVars, PurgeSparesChannels
  <2>. QED
    BY <2>1, <2>3
<1>. QED
  BY <1>1, <1>2, <1>3, <1>4

\* So does every step of the service, and of the clock.
LEMMA ServiceKeeps ==
    ASSUME IInv
    PROVE  /\ \A c \in Channels : ChannelOpened(c) => IInv'
           /\ \A c \in Channels, b \in 1 .. MaxTime : ChannelClosed(c, b) => IInv'
           /\ UpdatedHeadBlock \/ NextIteration \/ ServiceRestart \/ Tick => IInv'
           /\ PurgeMark \/ PurgeDelete => IInv'
<1>. USE DEF IInv
<1>1. ASSUME NEW c \in Channels, ChannelOpened(c)
      PROVE  IInv'
  BY <1>1 DEF ChannelOpened, CollectorVars, TypeOK, ComparisonHolds, PurgeSparesChannels, Key, Open
<1>2. ASSUME NEW c \in Channels, NEW b \in 1 .. MaxTime, ChannelClosed(c, b)
      PROVE  IInv'
  <2>1. b \in Nat
    BY CollectorConstants
  <2>. QED
    BY <1>2, <2>1
       DEF ChannelClosed, CollectorVars, TypeOK, ComparisonHolds, PurgeSparesChannels, Key
<1>3. ASSUME UpdatedHeadBlock \/ NextIteration \/ ServiceRestart \/ Tick
      PROVE  IInv'
  <2>1. TypeOK'
    BY <1>3, CollectorConstants
       DEF UpdatedHeadBlock, NextIteration, ServiceRestart, Tick, CollectorVars, TypeOK
  <2>2. UNCHANGED <<rc, msg, monitor_request>>
    BY <1>3 DEF UpdatedHeadBlock, NextIteration, ServiceRestart, Tick, CollectorVars
  <2>3. PurgeSparesChannels'
    BY <1>3, <2>2 DEF UpdatedHeadBlock, NextIteration, ServiceRestart, Tick, CollectorVars,
                      PurgeSparesChannels, Waiting
  <2>. QED
    BY <2>1, <2>2, <2>3 DEF ComparisonHolds, Key
<1>4. ASSUME PurgeMark \/ PurgeDelete
      PROVE  IInv'
  <2>1. /\ UNCHANGED <<now, channel, committed, rc, msg>> /\ ms' \in {"delete", "sleep"}
        /\ marked' \in {now, marked} /\ (ms' = "delete" => PurgeMark)
    BY <1>4 DEF PurgeMark, PurgeDelete, CollectorVars
  <2>2. TypeOK'
    BY <1>4, <2>1, PurgeKeepsRows, CollectorConstants DEF TypeOK
  <2>3. ComparisonHolds'
    <3>1. SUFFICES ASSUME rc = "store"
                   PROVE  monitor_request'[Key].nonce < msg.nonce
      BY <2>1 DEF ComparisonHolds, Key
    <3>2. Key \in Keys
      BY <3>1, KeyType
    <3>3. msg.nonce \in Nat \ {0}
      BY <3>1, KeyType
    <3>. QED
      BY <1>4, <3>1, <3>2, <3>3, PurgeKeepsRows DEF ComparisonHolds, NoRequest
  <2>4. PurgeSparesChannels'
    BY <1>4, <2>1, PurgeKeepsRows DEF PurgeSparesChannels
  <2>. QED
    BY <2>2, <2>3, <2>4
<1>. QED
  BY <1>1, <1>2, <1>3, <1>4

\* Every step keeps the invariant.
LEMMA StepPreserves == IInv /\ [Next]_vars => IInv'
<1>. SUFFICES ASSUME IInv, [Next]_vars PROVE IInv'
  OBVIOUS
<1>1. CASE UNCHANGED vars
  BY <1>1 DEF IInv, TypeOK, ComparisonHolds, PurgeSparesChannels, Waiting, Key, vars
<1>2. CASE Next
  BY <1>2, CollectorKeeps, ServiceKeeps DEF Next
<1>. QED
  BY <1>1, <1>2

\* The inductive invariant holds in every state.
THEOREM Invariance == Spec => []IInv
BY InitEstablishes, StepPreserves, PTL DEF Spec

\* Type correctness: the rows, the collector and the service's loop are
\* well-formed, and a collector at work has a message.
THEOREM TypeCorrect == Spec => []TypeOK
<1>1. IInv => TypeOK
  BY DEF IInv
<1>. QED
  BY <1>1, Invariance, PTL

------------------------------------------------------------------------------
(* What holds of the rows.                                                 *)

\* Between the two statements of a purge the waiting requests of known channels
\* are as young as the first one, for any requests and channels and whenever
\* the collector stores.
THEOREM ChannelsSpared == Spec => []PurgeSparesChannels
<1>1. IInv => PurgeSparesChannels
  BY DEF IInv
<1>. QED
  BY <1>1, Invariance, PTL

\* What a step does to a row: only the collector changes its nonce, to a
\* larger one.
LEMMA RowsGrow ==
    ASSUME IInv, [Next]_vars, NEW k \in Keys
    PROVE  \/ monitor_request'[k].nonce >= monitor_request[k].nonce
           \/ monitor_request'[k] = NoRequest
<1>1. monitor_request[k].nonce \in Nat
  BY NonceType DEF IInv
<1>2. CASE UpsertMonitorRequest
  <2>1. CASE k = Key
    <3>1. rc = "store"
      BY <1>2 DEF UpsertMonitorRequest
    <3>2. msg.nonce \in Nat /\ monitor_request[Key].nonce < msg.nonce
      BY <3>1, KeyType DEF IInv, ComparisonHolds
    <3>. QED
      BY <1>1, <1>2, <2>1, <3>2, StoredRow DEF IInv
  <2>2. CASE k # Key
    BY <1>1, <1>2, <2>2, StoredRow DEF IInv
  <2>. QED
    BY <2>1, <2>2
<1>3. CASE PurgeMark \/ PurgeDelete
  BY <1>1, <1>3, PurgeKeepsRows DEF IInv
<1>4. CASE ~UpsertMonitorRequest /\ ~PurgeMark /\ ~PurgeDelete
  <2>1. monitor_request' = monitor_request
    BY <1>4 DEF Next, Tick, ReceiveRequest, CheckCloseAge, CheckNonce, CollectorRestart,
                ChannelOpened, ChannelClosed, UpdatedHeadBlock, NextIteration, ServiceRestart, vars
  <2>. QED
    BY <1>1, <2>1
<1>. QED
  BY <1>2, <1>3, <1>4

\* A stored request is replaced by newer ones only, for any requests in any
\* order and whatever the service does between comparison and replacement.
THEOREM NoncesGrow == Spec => NonceNeverDecreases
<1>1. IInv /\ [Next]_vars =>
        [\A k \in Keys : monitor_request'[k] # NoRequest
                         => monitor_request'[k].nonce >= monitor_request[k].nonce]_vars
  BY RowsGrow
<1>. QED
  BY <1>1, Invariance, PTL DEF Spec, NonceNeverDecreases
===============================================================================
