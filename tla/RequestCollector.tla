--------------------------- MODULE RequestCollector ---------------------------
(***************************************************************************)
(* The monitor_request table and its two writers.  The request collector   *)
(* receives requests over Matrix; it reads the age of the channel's close  *)
(* and the stored request before it replaces the latter.  The monitoring   *)
(* service, another process, purges the requests that wait for a channel   *)
(* too long.  Between any two statements of the one the other may act, and *)
(* each may crash: every statement is a transaction of its own.            *)
(***************************************************************************)
EXTENDS Integers

CONSTANTS Channels,
          Addresses,
          Messages,     \* the RequestMonitoring messages that may arrive
          CloseMargin,  \* CHANNEL_CLOSE_MARGIN
          KeepFor,      \* KEEP_MRS_WITHOUT_CHANNEL
          MaxTime       \* bound: the clock, and the block number, stop here

\* A message: which addresses its three signatures and its fields name, and
\* whether it is meant for this chain.
RequestMonitoring ==
    [ch : Channels, non_closing_signer : Addresses, non_closing_participant : Addresses,
     reward_proof_signer : Addresses, same_chain : BOOLEAN, nonce : Nat \ {0}]

ASSUME CollectorConstants ==
    /\ Messages \subseteq RequestMonitoring
    /\ CloseMargin \in Nat
    /\ KeepFor \in Nat
    /\ MaxTime \in Nat

VARIABLES now,
          channel,          \* the channel table: missing, open or the closing_block
          committed,        \* blockchain.latest_committed_block
          monitor_request,  \* the monitor_request table, by its primary key
          rc, msg,          \* where the collector is, and with which message
          ms,               \* where the service is in its loop
          marked            \* history: when the last purge began

vars == <<now, channel, committed, monitor_request, rc, msg, ms, marked>>

Keys == Channels \X Addresses
Missing == -2
Open == -1
NoRequest == [nonce |-> 0]
NoMessage == [nonce |-> 0]

\* SQLite compares values of different storage classes by their class.
Text(t) == [class |-> "text", value |-> t]
Integer(t) == [class |-> "integer", value |-> t]
SqlLess(a, b) == IF a.class = b.class THEN a.value < b.value ELSE a.class = "integer"

Rows == [nonce : Nat \ {0}, saved_at : [class : {"text"}, value : Nat], waiting : BOOLEAN]

TypeOK ==
    /\ now \in 0 .. MaxTime
    /\ channel \in [Channels -> {Missing, Open} \cup Nat]
    /\ committed \in 0 .. MaxTime
    /\ monitor_request \in [Keys -> Rows \cup {NoRequest}]
    /\ rc \in {"idle", "age", "nonce", "store"}
    /\ msg \in RequestMonitoring \cup {NoMessage}
    /\ rc # "idle" => msg # NoMessage
    /\ ms \in {"process", "delete", "sleep"}
    /\ marked \in 0 .. now

Init ==
    /\ now = 0
    /\ channel = [c \in Channels |-> Missing]
    /\ committed = 0
    /\ monitor_request = [k \in Keys |-> NoRequest]
    /\ rc = "idle" /\ msg = NoMessage
    /\ ms = "process" /\ marked = 0

Tick ==
    /\ now < MaxTime
    /\ now' = now + 1
    /\ UNCHANGED <<channel, committed, monitor_request, rc, msg, ms, marked>>

------------------------------------------------------------------------------
(* The collector: on_monitor_request.                                      *)

ServiceVars == <<now, channel, committed, ms, marked>>

WellSigned(m) ==
    /\ m.same_chain
    /\ m.non_closing_signer = m.non_closing_participant
    /\ m.non_closing_signer = m.reward_proof_signer

Key == <<msg.ch, msg.non_closing_signer>>

ReceiveRequest(m) ==
    /\ rc = "idle"
    /\ WellSigned(m)
    /\ rc' = "age" /\ msg' = m
    /\ UNCHANGED <<ServiceVars, monitor_request>>

LongClosed(c) == channel[c] >= 0 /\ committed - channel[c] >= CloseMargin

CheckCloseAge ==
    /\ rc = "age"
    /\ rc' = IF LongClosed(msg.ch) THEN "idle" ELSE "nonce"
    /\ UNCHANGED <<ServiceVars, monitor_request, msg>>

\* Seeded fault: the comparison is left out.
MutantIsNewer == TRUE

IsNewer == monitor_request[Key].nonce < msg.nonce

CheckNonce ==
    /\ rc = "nonce"
    /\ rc' = IF IsNewer THEN "store" ELSE "idle"
    /\ UNCHANGED <<ServiceVars, monitor_request, msg>>

\* INSERT OR REPLACE: saved_at and waiting_for_channel get their defaults, and
\* CURRENT_TIMESTAMP is a text.
UpsertMonitorRequest ==
    /\ rc = "store"
    /\ monitor_request' =
        [monitor_request EXCEPT ![Key] =
            [nonce |-> msg.nonce, saved_at |-> Text(now), waiting |-> TRUE]]
    /\ rc' = "idle"
    /\ UNCHANGED <<ServiceVars, msg>>

CollectorRestart ==
    /\ rc # "idle"
    /\ rc' = "idle"
    /\ UNCHANGED <<ServiceVars, monitor_request, msg>>

------------------------------------------------------------------------------
(* The service: its event handlers and _purge_old_monitor_requests.        *)

CollectorVars == <<now, rc, msg>>

\* A channel is opened again when the service died before it committed the
\* block in which the channel was closed, and replays its history.
ChannelOpened(c) ==
    /\ ms = "process"
    /\ channel[c] = Missing \/ channel[c] > committed
    /\ channel' = [channel EXCEPT ![c] = Open]
    /\ UNCHANGED <<CollectorVars, committed, monitor_request, ms, marked>>

\* The channel was closed in block b of the batch that is being handled.
ChannelClosed(c, b) ==
    /\ ms = "process" /\ channel[c] = Open
    /\ committed < b /\ b <= now
    /\ channel' = [channel EXCEPT ![c] = b]
    /\ UNCHANGED <<CollectorVars, committed, monitor_request, ms, marked>>

UpdatedHeadBlock ==
    /\ ms = "process" /\ committed < now
    /\ committed' = now
    /\ UNCHANGED <<CollectorVars, channel, monitor_request, ms, marked>>

Waiting(k) == monitor_request[k] # NoRequest /\ monitor_request[k].waiting

\* Seeded fault: only the requests of open channels are marked.
MutantPurgeMark ==
    /\ ms = "process"
    /\ monitor_request' =
        [k \in Keys |-> IF Waiting(k) /\ channel[k[1]] = Open
                        THEN [monitor_request[k] EXCEPT !.waiting = FALSE]
                        ELSE monitor_request[k]]
    /\ ms' = "delete" /\ marked' = now
    /\ UNCHANGED <<CollectorVars, channel, committed>>

\* The requests whose channel exists do not wait any longer.
PurgeMark ==
    /\ ms = "process"
    /\ monitor_request' =
        [k \in Keys |-> IF Waiting(k) /\ channel[k[1]] # Missing
                        THEN [monitor_request[k] EXCEPT !.waiting = FALSE]
                        ELSE monitor_request[k]]
    /\ ms' = "delete" /\ marked' = now
    /\ UNCHANGED <<CollectorVars, channel, committed>>

PurgeDelete ==
    /\ ms = "delete"
    /\ monitor_request' =
        [k \in Keys |-> IF Waiting(k) /\ SqlLess(monitor_request[k].saved_at, Integer(now - KeepFor))
                        THEN NoRequest
                        ELSE monitor_request[k]]
    /\ ms' = "sleep"
    /\ UNCHANGED <<CollectorVars, channel, committed, marked>>

NextIteration ==
    /\ ms = "sleep"
    /\ ms' = "process"
    /\ UNCHANGED <<CollectorVars, channel, committed, monitor_request, marked>>

ServiceRestart ==
    /\ ms = "delete"
    /\ ms' = "process"
    /\ UNCHANGED <<CollectorVars, channel, committed, monitor_request, marked>>

Next ==
    \/ Tick
    \/ \E m \in Messages : ReceiveRequest(m)
    \/ CheckCloseAge \/ CheckNonce \/ UpsertMonitorRequest \/ CollectorRestart
    \/ \E c \in Channels : ChannelOpened(c)
    \/ \E c \in Channels, b \in 1 .. MaxTime : ChannelClosed(c, b)
    \/ UpdatedHeadBlock \/ PurgeMark \/ PurgeDelete \/ NextIteration \/ ServiceRestart

Spec == Init /\ [][Next]_vars
------------------------------------------------------------------------------
(* Properties.                                                             *)

\* A stored request is replaced by newer ones only, although the service may
\* mark and delete requests between the comparison and the replacement.
NonceNeverDecreases ==
    [][\A k \in Keys : monitor_request'[k] # NoRequest
                       => monitor_request'[k].nonce >= monitor_request[k].nonce]_vars

\* Why: between the comparison and the replacement nobody else stores a newer
\* request, and a purge only makes the stored nonce smaller.
ComparisonHolds ==
    rc = "store" => monitor_request[Key].nonce < msg.nonce

\* What the purge relies on: when its second statement is executed, a request
\* of a known channel that waits was stored since the first one, by a collector
\* that replaced the marked request.  As long as the two statements are not
\* KeepFor apart, no request of a known channel is old enough to be deleted.
PurgeSparesChannels ==
    ms = "delete" =>
        \A k \in Keys : Waiting(k) /\ channel[k[1]] # Missing
                        => monitor_request[k].saved_at.value >= marked

\* "Delete all old MRs for which still no channel exists.": a purge leaves no
\* request behind that waits for a channel longer than KeepFor.
OldRequestsPurged ==
    [][ms = "delete" /\ ms' = "sleep" =>
          \A k \in Keys :
              /\ Waiting(k) /\ channel[k[1]] = Missing
              /\ monitor_request[k].saved_at.value < now - KeepFor
              => monitor_request'[k] = NoRequest]_vars
===============================================================================
