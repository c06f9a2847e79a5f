----------------------------- MODULE RaidenChain -----------------------------
(***************************************************************************)
(* The blockchain as the monitoring service uses it: the token network     *)
(* registry, the token networks, the monitoring service contract (MSC) and *)
(* the user deposit contract (UDC).  The contracts are not part of the     *)
(* repository; this is what the service calls, queries and relies on.      *)
(*                                                                         *)
(* One block is mined per unit of time, so block b carries timestamp b.    *)
(* Block now is the latest one; at least one confirmation is required, so  *)
(* nobody reads its logs before the next block is mined.  The token        *)
(* networks are created in block 1.                                        *)
(***************************************************************************)
EXTENDS Integers, Sequences, FiniteSets

CONSTANTS Channels,       \* channel identifiers
          Networks,       \* token network addresses
          NetOf,          \* the token network of each channel
          OtherServices,  \* addresses of other monitoring services
          SettleTimeout,  \* settle_timeout of the token networks
          MonitorDelay,   \* from the close to firstTimestampAllowedToMonitor
          MaxNonce,       \* bound: balance proof nonces are 1 .. MaxNonce
          Balances,       \* the UDC balances each participant may have
          Closers,        \* participants that close channels
          CloseBy,        \* bound: channels are closed up to this time ...
          SettleBy,       \* bound: ... and settled up to this one
          MaxTime         \* bound: the clock stops here

Participants == {"A", "B"}
None == "none"
Us == "us"

ASSUME ChainConstants ==
    /\ NetOf \in [Channels -> Networks]
    /\ IsFiniteSet(Networks)
    /\ OtherServices \cap (Participants \cup {None, Us}) = {}
    /\ SettleTimeout \in Nat
    /\ MonitorDelay \in Nat
    /\ MaxNonce \in Nat
    /\ Balances \in [Participants -> SUBSET Nat]
    /\ Closers \subseteq Participants
    /\ CloseBy \in Nat
    /\ SettleBy \in Nat
    /\ MaxTime \in Nat

Services == OtherServices \cup {Us}
Other(p) == IF p = "A" THEN "B" ELSE "A"
Nonces == 1 .. MaxNonce

VARIABLES now,    \* time, and the number of the latest block
          chain,  \* state of each channel in its token network and in the MSC
          log,    \* the events emitted so far
          txs,    \* the transactions our service sent; a hash is an index
          udc     \* effectiveBalance of each participant, confirmed and latest

cvars == <<now, chain, log, txs, udc>>

ChannelOnChain ==
    [state : {"absent", "opened", "closed", "settled"},
     closer : Participants \cup {None}, closedAt : Nat,
     nonce : Nat,                       \* of the non-closing balance proof
     rewardTo : Services \cup {None}]   \* who may call claimReward

TokenNetworkEvents == {"opened", "closed", "updated", "settled"}
MSCEvents == {"monitored", "claimed"}

\* who is the closing participant of a closed or updated event, the service of
\* a monitored or claimed one.
Events ==
    [pos : Nat, block : Nat, type : {"created"}, on : Networks, who : {None}, nonce : {0}]
    \cup [pos : Nat, block : Nat, type : TokenNetworkEvents, on : Channels,
          who : Participants \cup {None}, nonce : Nat]
    \cup [pos : Nat, block : Nat, type : MSCEvents, on : Channels, who : Services, nonce : Nat]

Transactions ==
    [type : {"monitor", "claim"}, ch : Channels, nonce : Nat, block : Nat]

ChainTypeOK ==
    /\ now \in Nat
    /\ chain \in [Channels -> ChannelOnChain]
    /\ log \in SUBSET Events
    /\ IsFiniteSet(log)
    /\ txs \in Seq(Transactions)
    /\ udc \in [Participants -> [confirmed : Nat, latest : Nat]]

ChainInit ==
    /\ now = 1
    /\ chain = [c \in Channels |-> [state |-> "absent", closer |-> None, closedAt |-> 0,
                                    nonce |-> 0, rewardTo |-> None]]
    /\ log = {[pos |-> 0, block |-> 1, type |-> "created", on |-> n, who |-> None, nonce |-> 0] :
              n \in Networks}
    /\ txs = <<>>
    /\ \E b \in [Participants -> UNION {Balances[p] : p \in Participants}] :
        /\ \A p \in Participants : b[p] \in Balances[p]
        /\ udc = [p \in Participants |-> [confirmed |-> b[p], latest |-> b[p]]]

------------------------------------------------------------------------------
Event(k, type, on, who, nonce) ==
    [pos |-> Cardinality(log) + k, block |-> now, type |-> type, on |-> on, who |-> who,
     nonce |-> nonce]

OpenChannel(c) ==
    /\ now <= CloseBy
    /\ chain[c].state = "absent"
    /\ chain' = [chain EXCEPT ![c].state = "opened"]
    /\ log' = log \cup {Event(1, "opened", c, None, 0)}
    /\ UNCHANGED <<now, txs, udc>>

CloseChannel(c, p) ==
    /\ now <= CloseBy
    /\ chain[c].state = "opened"
    /\ chain' = [chain EXCEPT ![c].state = "closed", ![c].closer = p, ![c].closedAt = now]
    /\ log' = log \cup {Event(1, "closed", c, p, 0)}
    /\ UNCHANGED <<now, txs, udc>>

SettleableAfter(c) == chain[c].closedAt + SettleTimeout
FirstAllowedToMonitor(c) == chain[c].closedAt + MonitorDelay

\* updateNonClosingBalanceProof succeeds.
CanUpdate(c, n) ==
    chain[c].state = "closed" /\ now <= SettleableAfter(c) /\ n > chain[c].nonce

\* MSC.monitor succeeds.
CanMonitor(c, n) == CanUpdate(c, n) /\ now >= FirstAllowedToMonitor(c)

\* The non-closing participant updates the balance proof itself.
UpdateNonClosing(c, n) ==
    /\ CanUpdate(c, n)
    /\ chain' = [chain EXCEPT ![c].nonce = n]
    /\ log' = log \cup {Event(1, "updated", c, chain[c].closer, n)}
    /\ UNCHANGED <<now, txs, udc>>

\* A call of MSC.monitor updates the token network, which emits an event of
\* its own, and registers the caller for the reward.
MonitorEffect(c, n, ms) ==
    /\ chain' = [chain EXCEPT ![c].nonce = n, ![c].rewardTo = ms]
    /\ log' = log \cup {Event(1, "updated", c, chain[c].closer, n),
                        Event(2, "monitored", c, ms, n)}

MonitorByOther(c, n, ms) ==
    /\ CanMonitor(c, n)
    /\ MonitorEffect(c, n, ms)
    /\ UNCHANGED <<now, txs, udc>>

SettleChannel(c) ==
    /\ chain[c].state = "closed"
    /\ now > SettleableAfter(c)
    /\ now <= SettleBy
    /\ chain' = [chain EXCEPT ![c].state = "settled"]
    /\ log' = log \cup {Event(1, "settled", c, None, 0)}
    /\ UNCHANGED <<now, txs, udc>>

\* A transaction of ours enters the latest block, and succeeds or reverts.
CanClaim(c) == chain[c].state = "settled" /\ chain[c].rewardTo = Us

Mined(i) == txs' = [txs EXCEPT ![i].block = now]

MineMonitor(i) ==
    /\ txs[i].block = 0 /\ txs[i].type = "monitor"
    /\ CanMonitor(txs[i].ch, txs[i].nonce)
    /\ MonitorEffect(txs[i].ch, txs[i].nonce, Us)
    /\ Mined(i)
    /\ UNCHANGED <<now, udc>>

MineClaim(i) ==
    /\ txs[i].block = 0 /\ txs[i].type = "claim"
    /\ CanClaim(txs[i].ch)
    /\ chain' = [chain EXCEPT ![txs[i].ch].rewardTo = None]
    /\ log' = log \cup {Event(1, "claimed", txs[i].ch, Us, 0)}
    /\ Mined(i)
    /\ UNCHANGED <<now, udc>>

MineReverted(i) ==
    /\ txs[i].block = 0
    /\ IF txs[i].type = "monitor" THEN ~CanMonitor(txs[i].ch, txs[i].nonce)
                                  ELSE ~CanClaim(txs[i].ch)
    /\ Mined(i)
    /\ UNCHANGED <<now, chain, log, udc>>

\* A participant's UDC balance changes, and later the change is confirmed.
ChangeBalance(p, b) ==
    /\ udc[p].latest # b
    /\ udc' = [udc EXCEPT ![p].latest = b]
    /\ UNCHANGED <<now, chain, log, txs>>

ConfirmBalance(p) ==
    /\ udc[p].confirmed # udc[p].latest
    /\ udc' = [udc EXCEPT ![p].confirmed = udc[p].latest]
    /\ UNCHANGED <<now, chain, log, txs>>

NewBlock ==
    /\ now < MaxTime
    /\ now' = now + 1
    /\ UNCHANGED <<chain, log, txs, udc>>

MineTx == \E i \in DOMAIN txs : MineMonitor(i) \/ MineClaim(i) \/ MineReverted(i)

ChainTransaction ==
    \/ \E c \in Channels : OpenChannel(c)
    \/ \E c \in Channels, p \in Closers : CloseChannel(c, p)
    \/ \E c \in Channels, n \in Nonces : UpdateNonClosing(c, n)
    \/ \E c \in Channels, n \in Nonces, ms \in OtherServices : MonitorByOther(c, n, ms)
    \/ \E c \in Channels : SettleChannel(c)
    \/ \E p \in Participants : \E b \in Balances[p] : ChangeBalance(p, b)
    \/ \E p \in Participants : ConfirmBalance(p)
==============================================================================
