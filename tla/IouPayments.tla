----------------------------- MODULE IouPayments -----------------------------
(***************************************************************************)
(* How the pathfinding service (PFS) is paid.  Each API request runs in a  *)
(* greenlet of its own; process_payment compares the client's IOU with the *)
(* stored one, asks the Ethereum node for the client's deposit, during     *)
(* which other greenlets run, and then stores the IOU.  claim_fees,        *)
(* another process on the same database, claims the stored IOUs from the   *)
(* OneToN contract and marks them as claimed.                              *)
(***************************************************************************)
EXTENDS Integers, Sequences, FiniteSetsExt

CONSTANTS Senders,       \* clients
          Sessions,      \* the values of claimable_until clients use
          Workers,       \* API requests that may be under way at a time
          Fee,           \* service_fee; with a fee of 0 no IOU is looked at
          MinExpiry,     \* MIN_IOU_EXPIRY
          ExpireWithin,  \* --expire-within of claim_fees
          ClaimCost,     \* what a claim transaction costs
          MaxAmount,     \* bound: amounts of IOUs
          MaxDeposit,    \* bound: deposits in the UDC
          MaxTime,       \* bound: the clock stops here
          MaxClaims,     \* bound: claim transactions
          MaxServed      \* bound: requests served

ASSUME IouConstants ==
    /\ Sessions \subseteq Nat /\ IsFiniteSet(Sessions)
    /\ Fee \in Nat \ {0}
    /\ MinExpiry \in Nat
    /\ ExpireWithin \in Nat
    /\ ClaimCost \in Nat
    /\ MaxAmount \in Nat
    /\ MaxDeposit \in Nat
    /\ MaxTime \in Nat
    /\ MaxClaims \in Nat
    /\ MaxServed \in Nat

VARIABLES now,
          iou,      \* the iou table, by its primary key
          worker,   \* the IOU each API request waits with for the node's answer
          deposit,  \* pessimistic UDC balance of each client
          settled,  \* settled_sessions of the OneToN contract
          txs,      \* claim transactions that were sent; a hash is an index
          cpc,      \* where claim_fees is
          ious,     \* the IOUs claim_fees has yet to claim
          sent,     \* unchecked_txs: the hashes it waits for
          served,   \* history: the IOUs requests were served for
          overlap   \* history: a request overlapped another one or claim_fees

vars == <<now, iou, worker, deposit, settled, txs, cpc, ious, sent, served, overlap>>

Keys == Senders \X Sessions
NoRow == [amount |-> 0, claimed |-> TRUE]
Idle == [amount |-> 0]

Rows == [amount : Nat, claimed : BOOLEAN]

\* An IOU as a client signs it.
IOUs == [sender : Senders, until : Sessions, amount : Nat]

\* A claim transaction: pending until it is mined, then with its status.
Claims == [of : IOUs, status : {"pending", "ok", "failed"}]

TypeOK ==
    /\ now \in Nat
    /\ iou \in [Keys -> Rows]
    /\ worker \in [Workers -> [iou : IOUs, amount : Nat] \cup {Idle}]
    /\ deposit \in [Senders -> Nat]
    /\ settled \in SUBSET Keys
    /\ txs \in Seq(Claims)
    /\ cpc \in {"idle", "claim", "check"}
    /\ ious \in SUBSET IOUs
    /\ sent \in SUBSET DOMAIN txs
    /\ served \in Seq(IOUs)
    /\ overlap \in BOOLEAN

Init ==
    /\ now = 0
    /\ iou = [k \in Keys |-> NoRow]
    /\ worker = [w \in Workers |-> Idle]
    /\ deposit \in [Senders -> 0 .. MaxDeposit]
    /\ settled = {} /\ txs = <<>>
    /\ cpc = "idle" /\ ious = {} /\ sent = {}
    /\ served = <<>> /\ overlap = FALSE

------------------------------------------------------------------------------
(* The iou table.                                                          *)

\* NoRow, with no amount, stands for no row.
Exists(k) == iou[k].amount > 0

Active(s) == {t \in Sessions : Exists(<<s, t>>) /\ ~iou[<<s, t>>].claimed}

\* Seeded fault: the index one_active_session_per_sender is missing.
MutantUpsert(i, claimed) ==
    iou' = [iou EXCEPT ![<<i.sender, i.until>>] = [amount |-> i.amount, claimed |-> claimed]]

\* INSERT OR REPLACE: the row with the same primary key goes, and, if the new
\* row is unclaimed, the sender's other unclaimed row, because of the unique
\* index one_active_session_per_sender.
Upsert(i, claimed) ==
    iou' = [k \in Keys |->
        IF k = <<i.sender, i.until>> THEN [amount |-> i.amount, claimed |-> claimed]
        ELSE IF ~claimed /\ k[1] = i.sender /\ ~iou[k].claimed THEN NoRow
        ELSE iou[k]]

------------------------------------------------------------------------------
(* process_payment.                                                        *)

ExpectedAmount(i) ==
    IF Active(i.sender) # {} THEN iou[<<i.sender, i.until>>].amount + Fee ELSE Fee

\* Seeded fault: a session that was claimed may be used again.
MutantRightSession(i) ==
    IF Active(i.sender) # {} THEN i.until \in Active(i.sender) ELSE i.until >= now + MinExpiry

\* Seeded fault: an active session that has expired may be given up.
MutantGivesUpExpired(i) ==
    IF \E t \in Active(i.sender) : t >= now THEN i.until \in Active(i.sender)
    ELSE /\ ~Exists(<<i.sender, i.until>>)
         /\ i.until >= now + MinExpiry

\* The IOU continues the active session, or starts one that is not known and
\* does not expire too early.
RightSession(i) ==
    IF Active(i.sender) # {} THEN i.until \in Active(i.sender)
    ELSE /\ ~Exists(<<i.sender, i.until>>)
         /\ i.until >= now + MinExpiry

\* The checks up to the request to the node.  An IOU that fails them, and one
\* for another receiver, chain or contract or with a wrong signature, is
\* refused without a trace.
ProcessPayment(w, i) ==
    /\ worker[w] = Idle
    /\ RightSession(i)
    /\ i.amount >= ExpectedAmount(i)
    /\ worker' = [worker EXCEPT ![w] = [iou |-> i, amount |-> ExpectedAmount(i)]]
    /\ overlap' = (overlap \/ cpc # "idle" \/ \E v \in Workers : worker[v] # Idle)
    /\ UNCHANGED <<now, iou, deposit, settled, txs, cpc, ious, sent, served>>

\* round(expected_amount * UDC_SECURITY_MARGIN_FACTOR_PFS)
RequiredDeposit(w) == 2 * worker[w].amount

DepositTooLow(w) ==
    /\ worker[w] # Idle
    /\ deposit[worker[w].iou.sender] < RequiredDeposit(w)
    /\ worker' = [worker EXCEPT ![w] = Idle]
    /\ UNCHANGED <<now, iou, deposit, settled, txs, cpc, ious, sent, served, overlap>>

SaveIou(w) ==
    /\ worker[w] # Idle
    /\ LET i == worker[w].iou IN
        /\ deposit[i.sender] >= RequiredDeposit(w)
        /\ Len(served) < MaxServed
        /\ Upsert(i, FALSE)
        /\ served' = Append(served, i)
    /\ worker' = [worker EXCEPT ![w] = Idle]
    /\ UNCHANGED <<now, deposit, settled, txs, cpc, ious, sent, overlap>>

\* The PFS dies with the requests under way.
ApiRestart ==
    /\ \E w \in Workers : worker[w] # Idle
    /\ worker' = [w \in Workers |-> Idle]
    /\ UNCHANGED <<now, iou, deposit, settled, txs, cpc, ious, sent, served, overlap>>

------------------------------------------------------------------------------
(* claim_fees.                                                             *)

PfsVars == <<now, worker, deposit, settled, served, overlap>>

StoredIou(k) == [sender |-> k[1], until |-> k[2], amount |-> iou[k].amount]

\* get_claimable_ious
Claimable(k) ==
    /\ Exists(k) /\ ~iou[k].claimed
    /\ now < k[2] /\ k[2] < now + ExpireWithin
    /\ iou[k].amount >= ClaimCost

StartClaiming ==
    /\ cpc = "idle"
    /\ ious' = {StoredIou(k) : k \in {k \in Keys : Claimable(k)}}
    /\ cpc' = "claim"
    /\ overlap' = (overlap \/ \E w \in Workers : worker[w] # Idle)
    /\ UNCHANGED <<now, worker, deposit, settled, served, iou, txs, sent>>

\* What a claim would transfer, if the contract accepts it at all.
Accepted(i) == <<i.sender, i.until>> \notin settled /\ now <= i.until
Transferrable(i) == IF i.amount <= deposit[i.sender] THEN i.amount ELSE deposit[i.sender]

ClaimSkipped(i) ==
    /\ cpc = "claim" /\ i \in ious
    /\ Accepted(i) /\ Transferrable(i) < ClaimCost
    /\ ious' = ious \ {i}
    /\ UNCHANGED <<PfsVars, iou, txs, cpc, sent>>

ClaimSent(i) ==
    /\ cpc = "claim" /\ i \in ious
    /\ Accepted(i) /\ Transferrable(i) >= ClaimCost
    /\ ious' = ious \ {i}
    /\ Len(txs) < MaxClaims
    /\ txs' = Append(txs, [of |-> i, status |-> "pending"])
    /\ sent' = sent \cup {Len(txs) + 1}
    /\ UNCHANGED <<PfsVars, iou, cpc>>

\* The call fails, which ends the program: what it sent before stays unchecked.
ClaimRefused(i) ==
    /\ cpc = "claim" /\ i \in ious
    /\ ~Accepted(i)
    /\ cpc' = "idle" /\ ious' = {} /\ sent' = {}
    /\ UNCHANGED <<PfsVars, iou, txs>>

AllSent ==
    /\ cpc = "claim" /\ ious = {}
    /\ cpc' = "check"
    /\ UNCHANGED <<PfsVars, iou, txs, ious, sent>>

\* Seeded fault: the receipt's status is not looked at.
MutantRecordClaim(h) ==
    /\ cpc = "check" /\ h \in sent
    /\ txs[h].status # "pending"
    /\ sent' = sent \ {h}
    /\ Upsert(txs[h].of, TRUE)
    /\ UNCHANGED <<PfsVars, txs, cpc, ious>>

\* The copy that was read before the claim is stored as claimed.
RecordClaim(h) ==
    /\ cpc = "check" /\ h \in sent
    /\ txs[h].status = "ok"
    /\ sent' = sent \ {h}
    /\ Upsert(txs[h].of, TRUE)
    /\ UNCHANGED <<PfsVars, txs, cpc, ious>>

ClaimFailed(h) ==
    /\ cpc = "check" /\ h \in sent
    /\ txs[h].status = "failed"
    /\ sent' = sent \ {h}
    /\ UNCHANGED <<PfsVars, iou, txs, cpc, ious>>

AllChecked ==
    /\ cpc = "check" /\ sent = {}
    /\ cpc' = "idle"
    /\ UNCHANGED <<PfsVars, iou, txs, ious, sent>>

ClaimingAborted ==
    /\ cpc # "idle"
    /\ cpc' = "idle" /\ ious' = {} /\ sent' = {}
    /\ UNCHANGED <<PfsVars, iou, txs>>

------------------------------------------------------------------------------
(* The contracts and the clock (not in the repository).                    *)

MineClaim(h) ==
    /\ txs[h].status = "pending"
    /\ Accepted(txs[h].of)
    /\ LET i == txs[h].of IN
        /\ settled' = settled \cup {<<i.sender, i.until>>}
        /\ deposit' = [deposit EXCEPT ![i.sender] = @ - Transferrable(i)]
    /\ txs' = [txs EXCEPT ![h].status = "ok"]
    /\ UNCHANGED <<now, iou, worker, cpc, ious, sent, served, overlap>>

MineReverted(h) ==
    /\ txs[h].status = "pending"
    /\ ~Accepted(txs[h].of)
    /\ txs' = [txs EXCEPT ![h].status = "failed"]
    /\ UNCHANGED <<now, iou, worker, deposit, settled, cpc, ious, sent, served, overlap>>

Deposit(s) ==
    /\ deposit[s] < MaxDeposit
    /\ deposit' = [deposit EXCEPT ![s] = MaxDeposit]
    /\ UNCHANGED <<now, iou, worker, settled, txs, cpc, ious, sent, served, overlap>>

Tick ==
    /\ now < MaxTime
    /\ now' = now + 1
    /\ UNCHANGED <<iou, worker, deposit, settled, txs, cpc, ious, sent, served, overlap>>

Presented == [sender : Senders, until : Sessions, amount : 1 .. MaxAmount]

Next ==
    \/ \E w \in Workers : \E i \in Presented : ProcessPayment(w, i)
    \/ \E w \in Workers : DepositTooLow(w) \/ SaveIou(w)
    \/ ApiRestart
    \/ StartClaiming \/ AllSent \/ AllChecked \/ ClaimingAborted
    \/ \E i \in ious : ClaimSkipped(i) \/ ClaimSent(i) \/ ClaimRefused(i)
    \/ \E h \in sent : RecordClaim(h) \/ ClaimFailed(h)
    \/ \E h \in DOMAIN txs : MineClaim(h) \/ MineReverted(h)
    \/ \E s \in Senders : Deposit(s)
    \/ Tick

Spec == Init /\ [][Next]_vars
------------------------------------------------------------------------------
(* Properties.                                                             *)

\* Whatever requests and claims overlap, a client has one session to pay into.
OneActiveSession ==
    \A s \in Senders : \A t, u \in Active(s) : t = u

\* What is marked as claimed was paid: the stale copies that claim_fees writes
\* never mark a session the contract did not settle.
ClaimedWasSettled ==
    \A k \in Keys : Exists(k) /\ iou[k].claimed => k \in settled

\* Why: a claim that succeeded settled the session of its IOU.
SuccessSettles ==
    \A h \in DOMAIN txs : txs[h].status = "ok" => <<txs[h].of.sender, txs[h].of.until>> \in settled

Paid(s) == MapThenSumSet(LAMBDA t : iou[<<s, t>>].amount, Sessions)
ServedTo(s) == {n \in DOMAIN served : served[n].sender = s}

\* Every request served is paid for: as long as no request overlaps another
\* one or claim_fees, the client's stored IOUs add up to the fees, across
\* sessions that are claimed and claims that are aborted halfway or fail.
PaidForServed ==
    ~overlap => \A s \in Senders : Cardinality(ServedTo(s)) * Fee <= Paid(s)

\* A session that expires unclaimed is a dead end: it stays the client's active
\* one, so that the client can only go on paying into it, which is worthless
\* to the service, and IOUs for any other session are refused (UseThisIOU).
\* Nothing but requests already under way and claims that succeeded in time
\* ends it: expiry is compared with the clock only where a session begins.
OnlyFor(s, t) ==
    \A w \in Workers : worker[w] # Idle /\ worker[w].iou.sender = s => worker[w].iou.until = t

ExpiredSessionStays ==
    [][\A s \in Senders : \A t \in Active(s) :
          now > t /\ <<s, t>> \notin settled /\ OnlyFor(s, t) => t \in Active(s)' /\ OnlyFor(s, t)']_vars

\* "The same payment can't be reused"
PaymentNotReused ==
    \A m, n \in DOMAIN served : served[m] = served[n] => m = n
==============================================================================
