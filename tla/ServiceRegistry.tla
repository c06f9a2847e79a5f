--------------------------- MODULE ServiceRegistry ---------------------------
(***************************************************************************)
(* The command an operator registers a service with: `register', `extend'  *)
(* and `withdraw'.  A run reads prices, balances and allowances from the   *)
(* chain, asks the operator, and sends transactions one after the other,   *)
(* waiting for each; between any two of its steps the chain goes on: the   *)
(* price falls with the time and rises with every deposit of another       *)
(* service.  The run may end anywhere (the operator declines, an error, a  *)
(* timeout after ten minutes, a killed process), and a transaction it sent *)
(* may still be mined after that, during a later run.  The contracts are   *)
(* modelled by how the command uses them.                                  *)
(***************************************************************************)
EXTENDS Integers, Sequences

CONSTANTS Duration,     \* registration_duration
          MinPrice,     \* the price never falls below it
          FirstPrice,   \* the price at the beginning
          FirstBalance, \* the operator's tokens at the beginning
          Urls,         \* URLs of the service
          NoUrl,
          MaxPrice,     \* bound: price that another deposit leaves behind
          MaxTime,      \* bound: the clock
          MaxDeposits,  \* bound: deposits when a registration begins
          MaxPending    \* bound: transactions not mined yet

ASSUME RegistryConstants ==
    /\ Duration \in Nat \ {0}
    /\ MinPrice \in Nat \ {0} /\ FirstPrice \in Nat \ {0} /\ MinPrice <= FirstPrice
    /\ FirstBalance \in Nat
    /\ NoUrl \notin Urls
    /\ MaxPrice \in Nat /\ MaxTime \in Nat /\ MaxDeposits \in Nat /\ MaxPending \in Nat

VARIABLES
    \* the chain
    chain_id,    \* 1 is the main net
    now,         \* the timestamp of the latest block
    price,       \* currentPrice()
    valid_till,  \* service_valid_till of the operator
    deprecated,  \* deprecated()
    url,         \* urls of the operator
    deposits,    \* the operator's Deposit contracts, in the order of their events
    balance, allowance,  \* the operator's tokens, and what the registry may take
    pending,     \* the operator's transactions, in the order of their nonces
    status,      \* the status in the last receipt
    \* the command
    pc,
    run  \* the local variables of the run

chain == <<chain_id, now, price, valid_till, deprecated, url, deposits, balance, allowance>>
vars == <<chain, pending, status, pc, run>>

Ended == {"idle", "failed", "registered", "too_early", "withdrawn"}
Waits == {"reset", "mint", "approve", "deposit", "url", "withdraw"}
Asks == {"balance", "cost", "quote", "latest", "check_url", "found", "read"}
Kinds == {"approve", "mint", "deposit", "setURL", "withdraw"}

\* A run's local variables; `begun' and `clean' (nothing of an earlier run was
\* pending when it began) are history.
Runs == [extend : BOOLEAN, service_url : Urls \cup {NoUrl}, current_url : Urls \cup {NoUrl},
         account_balance : Nat, required_deposit : Nat, latest_deposit : Nat, target : Nat,
         deprecated : BOOLEAN, begun : Nat, clean : BOOLEAN]

\* What a run begins with, and leaves behind when it ends.
NoRun == [extend |-> FALSE, service_url |-> NoUrl, current_url |-> NoUrl,
          account_balance |-> 0, required_deposit |-> 0, latest_deposit |-> 0, target |-> 0,
          deprecated |-> FALSE, begun |-> 0, clean |-> TRUE]

\* A transaction: its argument, and of the run that sent it whether it was to
\* extend a registration and the price it had shown.
Transactions ==
    [kind : Kinds, arg : Nat, url : Urls \cup {NoUrl}, extend : BOOLEAN, quote : Nat,
     clean : BOOLEAN]

Deposits == [amount : Nat, withdrawable_after : Nat, withdrawn : BOOLEAN]

TypeOK ==
    /\ chain_id \in {1, 5}
    /\ now \in Nat /\ price \in Nat \ {0} /\ valid_till \in Nat
    /\ deprecated \in BOOLEAN
    /\ url \in Urls \cup {NoUrl}
    /\ deposits \in Seq(Deposits)
    /\ balance \in Nat /\ allowance \in Nat
    /\ pending \in Seq(Transactions)
    /\ status \in BOOLEAN
    /\ pc \in Ended \cup Waits \cup Asks
    /\ run \in Runs

\* There may be a URL from a registration that ran out long ago.
Init ==
    /\ chain_id \in {1, 5}
    /\ now = 1 /\ price = FirstPrice /\ valid_till = 0 /\ deprecated = FALSE
    /\ url \in Urls \cup {NoUrl}
    /\ deposits = <<>> /\ balance = FirstBalance /\ allowance = 0
    /\ pending = <<>> /\ status = TRUE
    /\ pc = "idle"
    /\ run = NoRun

------------------------------------------------------------------------------
(* The contracts.                                                          *)

HasValidRegistration == now < valid_till

MaxOf(a, b) == IF a >= b THEN a ELSE b

Tick ==
    /\ now < MaxTime
    /\ now' = now + 1
    /\ price' \in {price, MaxOf(MinPrice, price - 1)}
    /\ UNCHANGED <<chain_id, valid_till, deprecated, url, deposits, balance, allowance,
                   pending, status, pc, run>>

\* Another service registers, which doubles the price.
OtherDeposit ==
    /\ 2 * price <= MaxPrice /\ ~deprecated
    /\ price' = 2 * price
    /\ UNCHANGED <<chain_id, now, valid_till, deprecated, url, deposits, balance, allowance,
                   pending, status, pc, run>>

\* The operator uses tokens elsewhere (bound: from what there was at first).
Spend ==
    /\ balance = FirstBalance /\ balance > 0
    /\ balance' = balance - 1
    /\ UNCHANGED <<chain_id, now, price, valid_till, deprecated, url, deposits, allowance,
                   pending, status, pc, run>>

Deprecate ==
    /\ ~deprecated
    /\ deprecated' = TRUE
    /\ UNCHANGED <<chain_id, now, price, valid_till, url, deposits, balance, allowance,
                   pending, status, pc, run>>

Withdrawable(d) == ~d.withdrawn /\ (d.withdrawable_after <= now \/ deprecated)

\* What the contracts require of a transaction.
Accepted(tx) ==
    CASE tx.kind = "deposit" ->
            /\ ~deprecated
            /\ price <= tx.arg /\ price <= allowance /\ price <= balance
      [] tx.kind = "setURL" -> HasValidRegistration
      [] tx.kind = "withdraw" -> tx.arg \in DOMAIN deposits /\ Withdrawable(deposits[tx.arg])
      [] OTHER -> TRUE

MineDeposit ==
    LET till == MaxOf(now, valid_till) + Duration IN
    /\ valid_till' = till
    /\ deposits' = Append(deposits,
          [amount |-> price, withdrawable_after |-> till, withdrawn |-> FALSE])
    /\ balance' = balance - price
    /\ allowance' = allowance - price
    /\ price' = 2 * price
    /\ UNCHANGED url

MineApprove(tx) ==
    /\ allowance' = tx.arg
    /\ UNCHANGED <<price, valid_till, url, deposits, balance>>

MineMint(tx) ==
    /\ balance' = balance + tx.arg
    /\ UNCHANGED <<price, valid_till, url, deposits, allowance>>

MineSetUrl(tx) ==
    /\ url' = tx.url
    /\ UNCHANGED <<price, valid_till, deposits, balance, allowance>>

\* The tokens go to the operator or to the account named with `--to'.
MineWithdraw(tx) ==
    /\ deposits' = [deposits EXCEPT ![tx.arg].withdrawn = TRUE]
    /\ balance' \in {balance, balance + deposits[tx.arg].amount}
    /\ UNCHANGED <<price, valid_till, url, allowance>>

\* The operator's next transaction is mined, at any time.
Mine ==
    /\ pending # <<>>
    /\ LET tx == Head(pending) IN
       /\ status' = Accepted(tx)
       /\ IF Accepted(tx)
          THEN CASE tx.kind = "deposit" -> MineDeposit
                 [] tx.kind = "approve" -> MineApprove(tx)
                 [] tx.kind = "mint" -> MineMint(tx)
                 [] tx.kind = "setURL" -> MineSetUrl(tx)
                 [] OTHER -> MineWithdraw(tx)
          ELSE UNCHANGED <<price, valid_till, url, deposits, balance, allowance>>
    /\ pending' = Tail(pending)
    /\ UNCHANGED <<chain_id, now, deprecated, pc, run>>

------------------------------------------------------------------------------
(* checked_transact: the transaction is sent; the run goes on when its     *)
(* receipt says that it succeeded.                                         *)

Transact(kind, arg, then) ==
    /\ pending' = Append(pending,
          [kind |-> kind, arg |-> arg, url |-> IF kind = "setURL" THEN run.service_url ELSE NoUrl,
           extend |-> run.extend, quote |-> run.required_deposit, clean |-> run.clean])
    /\ pc' = then

Send(kind, arg, then) == Transact(kind, arg, then) /\ UNCHANGED <<chain, status, run>>

Succeeded(at) == pc = at /\ pending = <<>> /\ status

GoTo(then) == pc' = then /\ UNCHANGED <<chain, pending, status, run>>

EndRun(with) == pc' = with /\ run' = NoRun /\ UNCHANGED <<chain, pending, status>>

TransactionFailed ==
    /\ pc \in Waits /\ pending = <<>> /\ ~status
    /\ EndRun("failed")

\* The operator declines, an exception, a timeout, a killed process.
Aborted ==
    /\ pc \in Asks \cup Waits
    /\ EndRun("failed")

------------------------------------------------------------------------------
(* register_account                                                        *)

\* The account's balance is read and shown.
StartRegistration(extend, service_url) ==
    /\ pc \in Ended /\ Len(deposits) < MaxDeposits /\ Len(pending) < MaxPending
    /\ pc' = "balance"
    /\ run' = [NoRun EXCEPT !.extend = extend, !.service_url = service_url,
                            !.account_balance = balance, !.clean = pending = <<>>]
    /\ UNCHANGED <<chain, pending, status>>

\* Seeded fault: `register' does not look for a registration.
MutantCheckRegistered ==
    /\ pc = "balance"
    /\ run' = [run EXCEPT !.current_url = url, !.begun = now]
    /\ pc' = "cost"
    /\ UNCHANGED <<chain, pending, status>>

CheckRegistered ==
    /\ pc = "balance"
    /\ run' = [run EXCEPT !.current_url = url, !.begun = now]
    /\ pc' = IF ~HasValidRegistration \/ run.extend THEN "cost" ELSE "check_url"
    /\ UNCHANGED <<chain, pending, status>>

\* send_registration_transaction: the price is shown.
Quote ==
    /\ pc = "cost"
    /\ IF run.account_balance < price /\ chain_id = 1
       THEN EndRun("failed")
       ELSE /\ run' = [run EXCEPT !.required_deposit = price]
            /\ pc' = "quote"
            /\ UNCHANGED <<chain, pending, status>>

\* Seeded fault: what an earlier run was allowed is left as it is.
MutantCheckAllowance == pc = "quote" /\ GoTo("latest")

CheckAllowance ==
    /\ pc = "quote"
    /\ IF allowance > 0 THEN Send("approve", 0, "reset") ELSE GoTo("latest")

AllowanceReset == Succeeded("reset") /\ GoTo("latest")

\* Seeded fault: a price that rose since the operator agreed is accepted.
MutantTooExpensive == FALSE

TooExpensive == price > run.required_deposit

\* The price is read again.  Its new value bounds the approval and the deposit;
\* the balance is the one read at the beginning.
PriceIncreased == pc = "latest" /\ TooExpensive /\ EndRun("failed")

MintTokens == run.account_balance < price /\ chain_id # 1

\* On the main net nothing is minted: with too few tokens the deposit will fail.
LatestPrice ==
    /\ pc = "latest" /\ ~TooExpensive
    /\ run' = [run EXCEPT !.latest_deposit = price]
    /\ IF MintTokens
       THEN Transact("mint", price, "mint")
       ELSE Transact("approve", price, "approve")
    /\ UNCHANGED <<chain, status>>

TokensMinted == Succeeded("mint") /\ Send("approve", run.latest_deposit, "approve")

Approved == Succeeded("approve") /\ Send("deposit", run.latest_deposit, "deposit")

Deposited == Succeeded("deposit") /\ GoTo("check_url")

\* Seeded fault: a URL is registered for new services only.
MutantUrlDiffers == run.service_url # NoUrl /\ valid_till = 0

UrlDiffers == run.service_url \notin {NoUrl, run.current_url}

CheckUrl ==
    /\ pc = "check_url"
    /\ IF UrlDiffers THEN Send("setURL", 0, "url") ELSE EndRun("registered")

UrlRegistered == Succeeded("url") /\ EndRun("registered")

------------------------------------------------------------------------------
(* withdraw                                                                *)

Left == {i \in DOMAIN deposits : ~deposits[i].withdrawn}

\* Seeded fault: the newest deposit is withdrawn first.
MutantFirstLeft == CHOOSE i \in Left : \A j \in Left : j <= i

\* find_withdrawable_deposit: the oldest deposit whose contract still exists.
FirstLeft == CHOOSE i \in Left : \A j \in Left : i <= j

FindDeposit ==
    /\ pc \in Ended /\ Len(pending) < MaxPending
    /\ IF Left = {}
       THEN EndRun("failed")
       ELSE /\ run' = [NoRun EXCEPT !.target = FirstLeft, !.clean = pending = <<>>]
            /\ pc' = "found"
            /\ UNCHANGED <<chain, pending, status>>

\* withdrawable_after, which never changes, and deprecated() are read.  If a
\* withdrawal of an earlier run was mined meanwhile the contract no longer
\* exists, and the call raises an exception.
CheckDeprecated ==
    /\ pc = "found" /\ ~deposits[run.target].withdrawn
    /\ run' = [run EXCEPT !.deprecated = deprecated]
    /\ pc' = "read"
    /\ UNCHANGED <<chain, pending, status>>

\* Seeded fault: the comparison is off by one.
MutantTooEarly == now < deposits[run.target].withdrawable_after - 1 /\ ~run.deprecated

TooEarly == now < deposits[run.target].withdrawable_after /\ ~run.deprecated

\* The latest block is read.
CheckWithdrawable ==
    /\ pc = "read"
    /\ IF TooEarly THEN EndRun("too_early") ELSE Send("withdraw", run.target, "withdraw")

Withdrawn == Succeeded("withdraw") /\ EndRun("withdrawn")

------------------------------------------------------------------------------
Environment == Tick \/ OtherDeposit \/ Spend \/ Deprecate \/ Mine

Registration ==
    \/ CheckRegistered \/ Quote \/ CheckAllowance \/ AllowanceReset
    \/ PriceIncreased \/ LatestPrice \/ TokensMinted \/ Approved \/ Deposited
    \/ CheckUrl \/ UrlRegistered

Next ==
    \/ Environment
    \/ \E extend \in BOOLEAN, service_url \in Urls \cup {NoUrl} :
          StartRegistration(extend, service_url)
    \/ Registration
    \/ FindDeposit \/ CheckDeprecated \/ CheckWithdrawable \/ Withdrawn
    \/ TransactionFailed \/ Aborted

Spec == Init /\ [][Next]_vars

------------------------------------------------------------------------------
(* Properties.  `Mined' is the transaction mined in a step.                *)

IsMined(kind) == pending # <<>> /\ pending' = Tail(pending) /\ Head(pending).kind = kind
Mined == Head(pending)

\* The operator never deposits more than the price shown before the last
\* question, however the price moves until the deposit is mined, and whichever
\* run sent it.
PaysAtMostQuoted ==
    [][deposits # deposits' /\ IsMined("deposit") =>
          deposits'[Len(deposits')].amount <= Mined.quote]_vars

\* An allowance is only ever granted from zero, whatever runs that failed or
\* were killed have left behind, unless a transaction of such a run was still
\* pending when this one began (issue 769).
ApprovesFromZero ==
    [][IsMined("approve") /\ Mined.arg > 0 /\ Mined.clean => allowance = 0]_vars

\* `register' does not make a second deposit for a registration that is valid,
\* unless the first one was still pending when it began.
NotRegisteredTwice ==
    [][deposits # deposits' /\ IsMined("deposit") /\ Mined.clean /\ ~Mined.extend =>
          ~HasValidRegistration]_vars

\* When a run thanks the operator the service is registered, or was after the
\* run looked, and under the URL asked for.
ThanksMeansRegistered ==
    [][pc' = "registered" /\ pc # "registered" =>
          /\ valid_till > run.begun
          /\ run.clean /\ run.service_url # NoUrl => url = run.service_url]_vars

\* `Too early to withdraw', said of the oldest deposit, is true of all of them,
\* unless the registry was deprecated after the command looked.
TooEarlyForAll ==
    [][pc' = "too_early" /\ pc # "too_early" /\ run.deprecated = deprecated =>
          \A i \in DOMAIN deposits : ~Withdrawable(deposits[i])]_vars

\* What the command found withdrawable is when the transaction is mined.
WithdrawSucceeds ==
    [][IsMined("withdraw") /\ Mined.clean => status']_vars
==============================================================================
