----------------------- MODULE ServiceRegistry_proofs -----------------------
(***************************************************************************)
(* Proofs about ServiceRegistry: for any prices, durations and balances,   *)
(* and any number of runs that end anywhere.                               *)
(***************************************************************************)
EXTENDS ServiceRegistry, WellFoundedInduction, TLAPS

\* The transaction a run waits for, wherever it waits.
Awaited == [reset |-> "approve", mint |-> "mint", approve |-> "approve",
            deposit |-> "deposit", url |-> "setURL", withdraw |-> "withdraw"]

\* The transaction that is mined next is of a run that began with an empty
\* queue.
CleanHead(kind) == pending # <<>> /\ pending[1].clean /\ pending[1].kind = kind

\* What was agreed to bounds what is deposited.
QuoteInv ==
    /\ \A i \in DOMAIN pending :
          pending[i].kind = "deposit" => pending[i].arg <= pending[i].quote
    /\ pc \in {"mint", "approve"} => run.latest_deposit <= run.required_deposit

\* The queue: a run waits for the last transaction in it; one that began with
\* an empty queue has no other.
QueueInv ==
    /\ pc \in Waits /\ pending # <<>> => pending[Len(pending)].kind = Awaited[pc]
    /\ \A i \in DOMAIN pending : pending[i].clean => i = 1
    /\ pc \in Asks /\ run.clean => pending = <<>>
    /\ pc \in Waits /\ run.clean /\ pending # <<>> => pending[1].clean /\ Len(pending) = 1

\* From the comparison with zero until its approval is mined, a run that began
\* with an empty queue finds the allowance at zero.
AllowanceInv ==
    /\ CleanHead("approve") /\ pending[1].arg > 0 => allowance = 0
    /\ run.clean /\ pc \in {"latest", "mint"} => allowance = 0
    /\ run.clean /\ pc = "reset" =>
          IF pending = <<>> THEN status => allowance = 0 ELSE pending[1].arg = 0

\* The registration that was not there is not there until the deposit.
RegisteredInv ==
    /\ run.clean /\ ~run.extend /\ pc \in {"cost", "quote", "reset", "latest", "mint", "approve"}
          => valid_till <= now
    /\ CleanHead("deposit") /\ ~pending[1].extend => valid_till <= now

\* Deposits can be withdrawn in the order they were made.
DepositInv ==
    /\ \A i \in DOMAIN deposits : deposits[i].withdrawable_after <= valid_till
    /\ \A i, j \in DOMAIN deposits :
          i <= j => deposits[i].withdrawable_after <= deposits[j].withdrawable_after
    /\ pc = "read" /\ run.deprecated => deprecated
    /\ pc \in {"found", "read"} =>
          /\ run.target \in DOMAIN deposits
          /\ \A i \in DOMAIN deposits : i < run.target => deposits[i].withdrawn
          /\ run.clean => ~deposits[run.target].withdrawn
    /\ CleanHead("withdraw") =>
          /\ pending[1].arg \in DOMAIN deposits
          /\ Withdrawable(deposits[pending[1].arg])

\* What a run knows of the registration and of the URL.
ThanksInv ==
    /\ run.begun <= now
    /\ pc \in {"check_url", "url"} => run.begun < valid_till
    /\ pc = "deposit" /\ pending = <<>> /\ status => run.begun < valid_till
    /\ run.clean /\ pc \in {"cost", "quote", "reset", "latest", "mint", "approve", "deposit",
                            "check_url"} => url = run.current_url
    /\ run.clean /\ pc = "url" =>
          IF pending = <<>> THEN status => url = run.service_url
                            ELSE pending[1].url = run.service_url

IInv ==
    /\ TypeOK /\ QuoteInv /\ QueueInv
    /\ AllowanceInv /\ RegisteredInv /\ DepositInv /\ ThanksInv

------------------------------------------------------------------------------
(* The first deposit that is left.                                         *)

\* A set of numbers has a least one.
LEMMA LeastNatural ==
    ASSUME NEW T \in SUBSET Nat, T # {}
    PROVE  \E i \in T : \A j \in T : i <= j
<1>. DEFINE R == OpToRel(<, Nat)
<1>1. \E i \in T : \A j \in T : ~ (<<j, i>> \in R)
  BY NatLessThanWellFounded, WFMin
<1>2. \A i, j \in Nat : j < i => <<j, i>> \in R
  BY DEF OpToRel
<1>. HIDE DEF R
<1>3. PICK i \in T : \A j \in T : ~ (<<j, i>> \in R)
  BY <1>1
<1>4. \A j \in T : ~ (j < i)
  BY <1>2, <1>3
<1>. QED
  BY <1>4

\* The oldest deposit that is left.
LEMMA FirstLeftIsFirst ==
    ASSUME TypeOK, Left # {}
    PROVE  FirstLeft \in Left /\ \A j \in Left : FirstLeft <= j
<1>1. Left \in SUBSET Nat
  BY DEF Left, TypeOK
<1>2. \E i \in Left : \A j \in Left : i <= j
  BY <1>1, LeastNatural
<1>. QED
  BY <1>2 DEF FirstLeft

------------------------------------------------------------------------------
(* Types.                                                                  *)

\* The state before the first run is well-formed.
LEMMA NoRunType == NoRun \in Runs
  BY DEF NoRun, Runs

\* Sending a transaction keeps the queue well-formed.
LEMMA TransactType ==
    ASSUME TypeOK, NEW kind \in Kinds, NEW arg \in Nat, NEW then, Transact(kind, arg, then)
    PROVE  pending' \in Seq(Transactions) /\ pc' = then
<1>. DEFINE tx == [kind |-> kind, arg |-> arg,
                   url |-> IF kind = "setURL" THEN run.service_url ELSE NoUrl,
                   extend |-> run.extend, quote |-> run.required_deposit, clean |-> run.clean]
<1>1. tx \in Transactions
  BY DEF TypeOK, Runs, Transactions
<1>. QED
  BY <1>1 DEF Transact, TypeOK

\* What is mined leaves the chain well typed.
LEMMA MineType ==
    ASSUME TypeOK, Mine
    PROVE  TypeOK'
<1>. DEFINE tx == Head(pending)
<1>0. tx \in Transactions /\ pending' \in Seq(Transactions)
  BY DEF TypeOK, Mine
<1>1. status' \in BOOLEAN
  <2>1. Accepted(tx) \in BOOLEAN
    <3>1. CASE tx.kind = "deposit"
      BY <3>1, Zenon DEF Accepted
    <3>2. CASE tx.kind = "setURL"
      <4>1. Accepted(tx) = HasValidRegistration
        BY <3>2, Zenon DEF Accepted
      <4>2. (now < valid_till) \in BOOLEAN
        OBVIOUS
      <4>. QED
        BY <4>1, <4>2, Zenon DEF HasValidRegistration
    <3>3. CASE tx.kind = "withdraw"
      BY <3>3, Zenon DEF Accepted, Withdrawable
    <3>4. CASE tx.kind \notin {"deposit", "setURL", "withdraw"}
      BY <3>4 DEF Accepted
    <3>. QED
      BY <3>1, <3>2, <3>3, <3>4
  <2>. QED
    BY <2>1 DEF Mine
<1>2. CASE ~Accepted(tx)
  BY <1>0, <1>1, <1>2 DEF Mine, TypeOK
<1>3. CASE Accepted(tx) /\ tx.kind = "deposit"
  <2>1. MineDeposit /\ price <= balance /\ price <= allowance
    BY <1>3 DEF Mine, Accepted
  <2>2. MaxOf(now, valid_till) + Duration \in Nat
    BY RegistryConstants DEF TypeOK, MaxOf
  <2>3. deposits' \in Seq(Deposits) /\ valid_till' \in Nat
    BY <2>1, <2>2 DEF MineDeposit, Deposits, TypeOK
  <2>4. price' \in Nat \ {0} /\ balance' \in Nat /\ allowance' \in Nat
    BY <2>1 DEF MineDeposit, TypeOK
  <2>. QED
    BY <1>0, <1>1, <2>1, <2>3, <2>4 DEF Mine, MineDeposit, TypeOK
<1>4. CASE Accepted(tx) /\ tx.kind = "approve"
  BY <1>0, <1>1, <1>4 DEF Mine, MineApprove, TypeOK, Transactions
<1>5. CASE Accepted(tx) /\ tx.kind = "mint"
  BY <1>0, <1>1, <1>5 DEF Mine, MineMint, TypeOK, Transactions
<1>6. CASE Accepted(tx) /\ tx.kind = "setURL"
  BY <1>0, <1>1, <1>6 DEF Mine, MineSetUrl, TypeOK, Transactions
<1>7. CASE Accepted(tx) /\ tx.kind = "withdraw"
  <2>1. MineWithdraw(tx) /\ tx.arg \in DOMAIN deposits
    BY <1>7 DEF Mine, Accepted
  <2>2. deposits[tx.arg] \in Deposits
    BY <2>1 DEF TypeOK
  <2>3. deposits' \in Seq(Deposits)
    <3>1. [deposits[tx.arg] EXCEPT !.withdrawn = TRUE] \in Deposits
      BY <2>2 DEF Deposits
    <3>2. deposits' = [deposits EXCEPT ![tx.arg] = [deposits[tx.arg] EXCEPT !.withdrawn = TRUE]]
      BY <2>1 DEF MineWithdraw
    <3>. QED
      BY <2>1, <3>1, <3>2 DEF TypeOK
  <2>4. balance' \in Nat
    <3>1. deposits[tx.arg].amount \in Nat
      BY <2>2 DEF Deposits
    <3>. QED
      BY <2>1, <3>1 DEF MineWithdraw, TypeOK
  <2>. QED
    BY <1>0, <1>1, <2>1, <2>3, <2>4 DEF Mine, MineWithdraw, TypeOK
<1>. QED
  BY <1>0, <1>2, <1>3, <1>4, <1>5, <1>6, <1>7 DEF Transactions, Kinds

\* Every step keeps the types.
LEMMA TypeStep ==
    ASSUME TypeOK, [Next]_vars
    PROVE  TypeOK'
<1>. USE DEF Ended, Waits, Asks, Kinds
<1>1. CASE UNCHANGED vars
  BY <1>1 DEF TypeOK, vars, chain
<1>2. CASE Tick \/ OtherDeposit \/ Spend \/ Deprecate
  <2>1. CASE Tick
    <3>1. MaxOf(MinPrice, price - 1) \in Nat \ {0}
      BY RegistryConstants DEF TypeOK, MaxOf
    <3>. QED
      BY <2>1, <3>1 DEF TypeOK, Tick
  <2>2. CASE OtherDeposit
    BY <2>2 DEF TypeOK, OtherDeposit
  <2>3. CASE Spend
    BY <2>3 DEF TypeOK, Spend
  <2>4. CASE Deprecate
    BY <2>4 DEF TypeOK, Deprecate
  <2>. QED
    BY <1>2, <2>1, <2>2, <2>3, <2>4
<1>3. CASE Mine
  BY <1>3, MineType
<1>4. ASSUME NEW extend \in BOOLEAN, NEW service_url \in Urls \cup {NoUrl},
             StartRegistration(extend, service_url)
      PROVE  TypeOK'
  BY <1>4, NoRunType DEF StartRegistration, TypeOK, Runs, chain
<1>5. CASE CheckRegistered
  BY <1>5 DEF CheckRegistered, TypeOK, Runs, chain
<1>6. CASE Quote
  BY <1>6, NoRunType DEF Quote, EndRun, TypeOK, Runs, chain
<1>7. CASE CheckAllowance
  BY <1>7, TransactType DEF CheckAllowance, Send, GoTo, TypeOK, chain
<1>8. CASE AllowanceReset \/ Deposited
  BY <1>8 DEF AllowanceReset, Deposited, GoTo, TypeOK, chain
<1>9. CASE LatestPrice
  <2>1. pending' \in Seq(Transactions) /\ pc' \in Waits
    BY <1>9, TransactType DEF LatestPrice, TypeOK
  <2>2. run' \in Runs
    BY <1>9 DEF LatestPrice, TypeOK, Runs
  <2>. QED
    BY <1>9, <2>1, <2>2 DEF LatestPrice, TypeOK, chain
<1>10. CASE TokensMinted \/ Approved
  <2>1. run.latest_deposit \in Nat
    BY DEF TypeOK, Runs
  <2>. QED
    BY <1>10, <2>1, TransactType DEF TokensMinted, Approved, Send, TypeOK, chain
<1>11. CASE CheckUrl
  BY <1>11, TransactType, NoRunType DEF CheckUrl, Send, EndRun, TypeOK, chain
<1>12. CASE PriceIncreased \/ UrlRegistered \/ Withdrawn \/ TransactionFailed \/ Aborted
  BY <1>12, NoRunType
     DEF PriceIncreased, UrlRegistered, Withdrawn, TransactionFailed, Aborted, EndRun, TypeOK, chain
<1>13. CASE FindDeposit
  <2>1. CASE Left = {}
    BY <1>13, <2>1, NoRunType DEF FindDeposit, EndRun, TypeOK, chain
  <2>2. CASE Left # {}
    <3>1. FirstLeft \in Nat
      BY <2>2, FirstLeftIsFirst DEF Left, TypeOK
    <3>. QED
      BY <1>13, <2>2, <3>1, NoRunType DEF FindDeposit, TypeOK, Runs, chain
  <2>. QED
    BY <2>1, <2>2
<1>14. CASE CheckDeprecated
  BY <1>14 DEF CheckDeprecated, TypeOK, Runs, chain
<1>15. CASE CheckWithdrawable
  <2>1. run.target \in Nat
    BY DEF TypeOK, Runs
  <2>. QED
    BY <1>15, <2>1, TransactType, NoRunType DEF CheckWithdrawable, Send, EndRun, TypeOK, chain
<1>. QED
  BY <1>1, <1>2, <1>3, <1>4, <1>5, <1>6, <1>7, <1>8, <1>9, <1>10, <1>11, <1>12, <1>13, <1>14,
     <1>15 DEF Next, Environment, Registration

------------------------------------------------------------------------------
(* The inductive invariant: what each kind of step changes.                *)

\* Time and other people.
World ==
    /\ now <= now' /\ (deprecated => deprecated')
    /\ UNCHANGED <<valid_till, url, deposits, allowance, pending, status, pc, run>>

\* A run ends, successfully or not.
Ending == pc' \in Ended /\ run' = NoRun /\ UNCHANGED <<chain, pending, status>>

\* A run goes on without a transaction.
Thinking ==
    \/ \E extend \in BOOLEAN, service_url \in Urls \cup {NoUrl} :
          StartRegistration(extend, service_url)
    \/ CheckRegistered
    \/ Quote /\ pc' = "quote"
    \/ CheckAllowance /\ pc' = "latest"
    \/ AllowanceReset
    \/ Deposited
    \/ FindDeposit /\ pc' = "found"
    \/ CheckDeprecated

\* A run sends a transaction.
Sending ==
    \/ CheckAllowance /\ Send("approve", 0, "reset")
    \/ LatestPrice
    \/ TokensMinted
    \/ Approved
    \/ CheckUrl /\ Send("setURL", 0, "url")
    \/ CheckWithdrawable /\ Send("withdraw", run.target, "withdraw")

\* Every step is of one of these kinds.
LEMMA StepKinds ==
    ASSUME TypeOK, Next
    PROVE  World \/ Mine \/ Ending \/ Thinking \/ Sending
<1>1. Tick \/ OtherDeposit \/ Spend \/ Deprecate => World
  BY DEF TypeOK, Tick, OtherDeposit, Spend, Deprecate, World
<1>2. \A w \in Ended : EndRun(w) => Ending
  BY DEF EndRun, Ending
<1>3. PriceIncreased \/ UrlRegistered \/ Withdrawn \/ TransactionFailed \/ Aborted => Ending
  BY <1>2 DEF PriceIncreased, UrlRegistered, Withdrawn, TransactionFailed, Aborted, Ended
<1>4. Quote \/ CheckUrl \/ FindDeposit \/ CheckWithdrawable => Ending \/ Thinking \/ Sending
  BY <1>2 DEF Quote, CheckUrl, FindDeposit, CheckWithdrawable, Ended, Thinking, Sending
<1>5. CheckAllowance => Thinking \/ Sending
  BY DEF CheckAllowance, GoTo, Thinking, Sending
<1>. QED
  BY <1>1, <1>3, <1>4, <1>5 DEF Next, Environment, Registration, Thinking, Sending

\* The transaction that is sent is the last one in the queue.
LEMMA QueueGrows ==
    ASSUME TypeOK, NEW kind, NEW arg, NEW then, Transact(kind, arg, then)
    PROVE  /\ pc' = then /\ pending' # <<>>
           /\ Len(pending') = Len(pending) + 1
           /\ DOMAIN pending' = 1 .. Len(pending) + 1
           /\ DOMAIN pending = 1 .. Len(pending)
           /\ \A i \in DOMAIN pending : pending'[i] = pending[i]
           /\ pending'[Len(pending) + 1] =
                [kind |-> kind, arg |-> arg,
                 url |-> IF kind = "setURL" THEN run.service_url ELSE NoUrl,
                 extend |-> run.extend, quote |-> run.required_deposit, clean |-> run.clean]
  BY DEF Transact, TypeOK

\* The transaction that is mined was the first one in the queue.
LEMMA QueueShrinks ==
    ASSUME TypeOK, Mine
    PROVE  /\ pending # <<>> /\ Head(pending) = pending[1] /\ pending[1] \in Transactions
           /\ Len(pending) \in Nat \ {0}
           /\ Len(pending') = Len(pending) - 1
           /\ DOMAIN pending' = 1 .. Len(pending) - 1
           /\ DOMAIN pending = 1 .. Len(pending)
           /\ \A i \in DOMAIN pending' : pending'[i] = pending[i + 1]
           /\ pending' = <<>> <=> Len(pending) = 1
           /\ UNCHANGED <<chain_id, now, deprecated, pc, run>>
<1>1. pending # <<>> /\ pending' = Tail(pending) /\ pending \in Seq(Transactions)
  BY DEF Mine, TypeOK
<1>2. UNCHANGED <<chain_id, now, deprecated, pc, run>>
  BY DEF Mine
<1>3. Len(pending) \in Nat \ {0} /\ DOMAIN pending = 1 .. Len(pending)
  BY <1>1
<1>4. Head(pending) = pending[1] /\ pending[1] \in Transactions
  BY <1>1, <1>3
<1>5. /\ Len(pending') = Len(pending) - 1
      /\ DOMAIN pending' = 1 .. Len(pending) - 1
      /\ \A i \in DOMAIN pending' : pending'[i] = pending[i + 1]
  BY <1>1, <1>3
<1>6. pending' = <<>> <=> Len(pending) = 1
  <2>1. pending' \in Seq(Transactions)
    BY <1>1
  <2>2. pending' = <<>> <=> Len(pending') = 0
    BY <2>1
  <2>. QED
    BY <2>2, <1>5, <1>3
<1>. QED
  BY <1>1, <1>2, <1>3, <1>4, <1>5, <1>6

\* What others do keeps the invariant.
LEMMA WorldStep ==
    ASSUME IInv, World, TypeOK'
    PROVE  IInv'
<1>1. QuoteInv' /\ QueueInv' /\ AllowanceInv'
  BY DEF World, IInv, QuoteInv, QueueInv, AllowanceInv, CleanHead
<1>2. RegisteredInv'
  BY DEF World, IInv, RegisteredInv, CleanHead, TypeOK
<1>3. DepositInv'
  <2>1. ASSUME CleanHead("withdraw")
        PROVE  /\ pending[1].arg \in DOMAIN deposits
               /\ Withdrawable(deposits[pending[1].arg])'
    <3>1. Withdrawable(deposits[pending[1].arg]) /\ pending[1].arg \in DOMAIN deposits
      BY <2>1 DEF IInv, DepositInv
    <3>2. deposits[pending[1].arg].withdrawable_after \in Nat
      <4>1. deposits[pending[1].arg] \in Deposits
        BY <3>1 DEF IInv, TypeOK
      <4>. QED
        BY <4>1 DEF Deposits
    <3>. QED
      BY <3>1, <3>2 DEF World, Withdrawable, IInv, TypeOK
  <2>. QED
    BY <2>1 DEF World, IInv, DepositInv, CleanHead
<1>4. ThanksInv'
  BY DEF World, IInv, ThanksInv, TypeOK, Runs
<1>. QED
  BY <1>1, <1>2, <1>3, <1>4 DEF IInv

\* So does the end of a run, wherever it ends.
LEMMA EndingStep ==
    ASSUME IInv, Ending, TypeOK'
    PROVE  IInv'
<1>. USE DEF Ended, Waits, Asks, chain
<1>0. pc' \notin Waits \cup Asks
  BY DEF Ending
<1>1. QuoteInv'
  BY <1>0 DEF Ending, IInv, QuoteInv
<1>2. QueueInv' 
  BY <1>0 DEF Ending, IInv, QueueInv
<1>3. AllowanceInv' /\ RegisteredInv'
  BY <1>0 DEF Ending, IInv, AllowanceInv, RegisteredInv, CleanHead
<1>4. DepositInv'
  BY <1>0 DEF Ending, IInv, DepositInv, CleanHead, Withdrawable
<1>5. ThanksInv'
  BY <1>0 DEF Ending, IInv, ThanksInv, NoRun, TypeOK
<1>. QED
  BY <1>1, <1>2, <1>3, <1>4, <1>5 DEF IInv

\* So do the steps that only read the chain.
LEMMA ThinkingStep ==
    ASSUME IInv, Thinking, TypeOK'
    PROVE  IInv'
<1>. USE DEF Ended, Waits, Asks
<1>0. UNCHANGED <<chain, pending, status>>
  BY DEF Thinking, StartRegistration, CheckRegistered, Quote, CheckAllowance, Send, Transact,
         EndRun, AllowanceReset, Deposited, FindDeposit, CheckDeprecated, GoTo
<1>1. CASE \E extend \in BOOLEAN, service_url \in Urls \cup {NoUrl} : StartRegistration(extend, service_url)
  <2>1. QuoteInv' /\ QueueInv'
    BY <1>0, <1>1 DEF StartRegistration, NoRun, IInv, QuoteInv, QueueInv, TypeOK, Runs
  <2>2. AllowanceInv' /\ RegisteredInv'
    BY <1>0, <1>1 DEF StartRegistration, NoRun, IInv, AllowanceInv, RegisteredInv, QueueInv, CleanHead, TypeOK, Runs, chain
  <2>3. DepositInv'
    BY <1>0, <1>1 DEF StartRegistration, NoRun, IInv, DepositInv, CleanHead, Withdrawable, chain
  <2>4. ThanksInv'
    BY <1>0, <1>1 DEF StartRegistration, NoRun, IInv, ThanksInv, TypeOK, Runs, chain
  <2>. QED
    BY <2>1, <2>2, <2>3, <2>4 DEF IInv
<1>2. CASE CheckRegistered
  <2>1. QuoteInv' /\ QueueInv'
    BY <1>0, <1>2 DEF CheckRegistered, HasValidRegistration, IInv, QuoteInv, QueueInv, TypeOK, Runs
  <2>2. AllowanceInv' /\ RegisteredInv'
    BY <1>0, <1>2 DEF CheckRegistered, HasValidRegistration, IInv, AllowanceInv, RegisteredInv, QueueInv, CleanHead, TypeOK, Runs, chain
  <2>3. DepositInv'
    BY <1>0, <1>2 DEF CheckRegistered, HasValidRegistration, IInv, DepositInv, CleanHead, Withdrawable, chain
  <2>4. ThanksInv'
    BY <1>0, <1>2 DEF CheckRegistered, HasValidRegistration, IInv, ThanksInv, TypeOK, Runs, chain
  <2>. QED
    BY <2>1, <2>2, <2>3, <2>4 DEF IInv
<1>3. CASE Quote /\ pc' = "quote"
  <2>1. QuoteInv' /\ QueueInv'
    BY <1>0, <1>3 DEF Quote, EndRun, IInv, QuoteInv, QueueInv, TypeOK, Runs
  <2>2. AllowanceInv' /\ RegisteredInv'
    BY <1>0, <1>3 DEF Quote, EndRun, IInv, AllowanceInv, RegisteredInv, QueueInv, CleanHead, TypeOK, Runs, chain
  <2>3. DepositInv'
    BY <1>0, <1>3 DEF Quote, EndRun, IInv, DepositInv, CleanHead, Withdrawable, chain
  <2>4. ThanksInv'
    BY <1>0, <1>3 DEF Quote, EndRun, IInv, ThanksInv, TypeOK, Runs, chain
  <2>. QED
    BY <2>1, <2>2, <2>3, <2>4 DEF IInv
<1>4. CASE CheckAllowance /\ pc' = "latest"
  <2>1. QuoteInv' /\ QueueInv'
    BY <1>0, <1>4 DEF CheckAllowance, GoTo, Send, Transact, IInv, QuoteInv, QueueInv, TypeOK, Runs
  <2>2. AllowanceInv' /\ RegisteredInv'
    BY <1>0, <1>4 DEF CheckAllowance, GoTo, Send, Transact, IInv, AllowanceInv, RegisteredInv, QueueInv, CleanHead, TypeOK, Runs, chain
  <2>3. DepositInv'
    BY <1>0, <1>4 DEF CheckAllowance, GoTo, Send, Transact, IInv, DepositInv, CleanHead, Withdrawable, chain
  <2>4. ThanksInv'
    BY <1>0, <1>4 DEF CheckAllowance, GoTo, Send, Transact, IInv, ThanksInv, TypeOK, Runs, chain
  <2>. QED
    BY <2>1, <2>2, <2>3, <2>4 DEF IInv
<1>5. CASE AllowanceReset
  <2>1. QuoteInv' /\ QueueInv'
    BY <1>0, <1>5 DEF AllowanceReset, GoTo, Succeeded, IInv, QuoteInv, QueueInv, TypeOK, Runs
  <2>2. AllowanceInv' /\ RegisteredInv'
    BY <1>0, <1>5 DEF AllowanceReset, GoTo, Succeeded, IInv, AllowanceInv, RegisteredInv, QueueInv, CleanHead, TypeOK, Runs, chain
  <2>3. DepositInv'
    BY <1>0, <1>5 DEF AllowanceReset, GoTo, Succeeded, IInv, DepositInv, CleanHead, Withdrawable, chain
  <2>4. ThanksInv'
    BY <1>0, <1>5 DEF AllowanceReset, GoTo, Succeeded, IInv, ThanksInv, TypeOK, Runs, chain
  <2>. QED
    BY <2>1, <2>2, <2>3, <2>4 DEF IInv
<1>6. CASE Deposited
  <2>1. QuoteInv' /\ QueueInv'
    BY <1>0, <1>6 DEF Deposited, GoTo, Succeeded, IInv, QuoteInv, QueueInv, TypeOK, Runs
  <2>2. AllowanceInv' /\ RegisteredInv'
    BY <1>0, <1>6 DEF Deposited, GoTo, Succeeded, IInv, AllowanceInv, RegisteredInv, QueueInv, CleanHead, TypeOK, Runs, chain
  <2>3. DepositInv'
    BY <1>0, <1>6 DEF Deposited, GoTo, Succeeded, IInv, DepositInv, CleanHead, Withdrawable, chain
  <2>4. ThanksInv'
    BY <1>0, <1>6 DEF Deposited, GoTo, Succeeded, IInv, ThanksInv, TypeOK, Runs, chain
  <2>. QED
    BY <2>1, <2>2, <2>3, <2>4 DEF IInv
<1>7. CASE FindDeposit /\ pc' = "found"
  <2>0. /\ run' = [NoRun EXCEPT !.target = FirstLeft, !.clean = pending = <<>>]
        /\ pc' = "found" /\ Left # {}
    BY <1>7 DEF FindDeposit, EndRun
  <2>1. QuoteInv' /\ QueueInv'
    BY <1>0, <2>0 DEF IInv, QuoteInv, QueueInv, NoRun
  <2>2. AllowanceInv' /\ RegisteredInv'
    BY <1>0, <2>0 DEF IInv, AllowanceInv, RegisteredInv, CleanHead, chain
  <2>3. DepositInv'
    <3>1. FirstLeft \in Left /\ \A j \in Left : FirstLeft <= j
      BY <2>0, FirstLeftIsFirst DEF IInv
    <3>2. run'.target = FirstLeft /\ FirstLeft \in DOMAIN deposits /\ ~deposits[FirstLeft].withdrawn
      BY <2>0, <3>1 DEF NoRun, Left
    <3>3. \A i \in DOMAIN deposits : i < FirstLeft => deposits[i].withdrawn
      BY <3>1 DEF Left, IInv, TypeOK
    <3>. QED
      BY <1>0, <2>0, <3>2, <3>3 DEF IInv, DepositInv, CleanHead, Withdrawable, chain
  <2>4. ThanksInv'
    BY <1>0, <2>0 DEF IInv, ThanksInv, TypeOK, NoRun, chain
  <2>. QED
    BY <2>1, <2>2, <2>3, <2>4 DEF IInv
<1>8. CASE CheckDeprecated
  <2>0. /\ run' = [run EXCEPT !.deprecated = deprecated] /\ run \in Runs
        /\ pc = "found" /\ pc' = "read"
    BY <1>8 DEF CheckDeprecated, IInv, TypeOK
  <2>00. /\ run'.clean = run.clean /\ run'.target = run.target /\ run'.begun = run.begun
         /\ run'.deprecated = deprecated
    BY <2>0 DEF Runs
  <2>1. QuoteInv' /\ QueueInv'
    BY <1>0, <2>0, <2>00 DEF IInv, QuoteInv, QueueInv
  <2>2. AllowanceInv' /\ RegisteredInv'
    BY <1>0, <2>0, <2>00 DEF IInv, AllowanceInv, RegisteredInv, CleanHead, chain
  <2>3. DepositInv'
    BY <1>0, <2>0, <2>00 DEF IInv, DepositInv, CleanHead, Withdrawable, chain
  <2>4. ThanksInv'
    BY <1>0, <2>0, <2>00 DEF IInv, ThanksInv, chain
  <2>. QED
    BY <2>1, <2>2, <2>3, <2>4 DEF IInv
<1>. QED
  BY <1>1, <1>2, <1>3, <1>4, <1>5, <1>6, <1>7, <1>8 DEF Thinking

\* What the steps that send a transaction have in common.
Sent(kind, arg, then) ==
    /\ Transact(kind, arg, then)
    /\ UNCHANGED <<chain, status>>
    /\ run' = run \/ (pc = "latest" /\ run' = [run EXCEPT !.latest_deposit = price])
    /\ run.clean => pending = <<>>

\* The transactions a run sends, and when.
LEMMA SentKinds ==
    ASSUME IInv, Sending
    PROVE  \/ pc = "quote" /\ Sent("approve", 0, "reset") /\ run' = run
           \/ pc = "latest" /\ Sent("mint", price, "mint") /\ price <= run.required_deposit
                /\ run' = [run EXCEPT !.latest_deposit = price]
           \/ pc = "latest" /\ Sent("approve", price, "approve") /\ price <= run.required_deposit
                /\ run' = [run EXCEPT !.latest_deposit = price]
           \/ pc = "mint" /\ Sent("approve", run.latest_deposit, "approve") /\ run' = run
           \/ pc = "approve" /\ Sent("deposit", run.latest_deposit, "deposit") /\ run' = run
           \/ pc = "check_url" /\ Sent("setURL", 0, "url") /\ run' = run
           \/ pc = "read" /\ Sent("withdraw", run.target, "withdraw") /\ run' = run /\ ~TooEarly
<1>0. pc \in {"quote", "latest", "check_url", "read"} /\ run.clean => pending = <<>>
  BY DEF IInv, QueueInv, Asks
<1>1. CASE CheckAllowance /\ Send("approve", 0, "reset")
  BY <1>0, <1>1 DEF CheckAllowance, Send, Sent
<1>2. CASE LatestPrice
  BY <1>0, <1>2 DEF LatestPrice, TooExpensive, Sent, IInv, TypeOK, Runs
<1>3. CASE TokensMinted \/ Approved
  BY <1>3 DEF TokensMinted, Approved, Send, Sent, Succeeded
<1>4. CASE CheckUrl /\ Send("setURL", 0, "url")
  BY <1>0, <1>4 DEF CheckUrl, Send, Sent
<1>5. CASE CheckWithdrawable /\ Send("withdraw", run.target, "withdraw")
  <2>1. ~TooEarly
    BY <1>5 DEF CheckWithdrawable, Send, Transact, EndRun
  <2>. QED
    BY <1>0, <1>5, <2>1 DEF CheckWithdrawable, Send, Sent
<1>. QED
  BY <1>1, <1>2, <1>3, <1>4, <1>5 DEF Sending

\* The first transaction of the queue, as far as sending one matters to it.
LEMMA SentFacts ==
    ASSUME IInv, NEW kind, NEW arg, NEW then, Sent(kind, arg, then)
    PROVE  /\ pc' = then /\ pending' # <<>> /\ UNCHANGED <<chain, status>>
           /\ pending # <<>> => pending'[1] = pending[1] /\ ~run.clean
           /\ pending = <<>> =>
                /\ pending'[1].kind = kind /\ pending'[1].arg = arg
                /\ pending'[1].url = (IF kind = "setURL" THEN run.service_url ELSE NoUrl)
                /\ pending'[1].extend = run.extend
                /\ pending'[1].clean = run.clean
<1>1. pc' = then /\ UNCHANGED <<chain, status>> /\ (run.clean => pending = <<>>)
  BY DEF Sent, Transact
<1>2. CASE pending = <<>>
  <2>1. pending' # <<>> /\ Len(pending) = 0
    BY <1>2, QueueGrows DEF Sent, IInv
  <2>2. pending'[1] = [kind |-> kind, arg |-> arg,
                       url |-> IF kind = "setURL" THEN run.service_url ELSE NoUrl,
                       extend |-> run.extend, quote |-> run.required_deposit,
                       clean |-> run.clean]
    BY <2>1, QueueGrows DEF Sent, IInv
  <2>. QED
    BY <1>1, <1>2, <2>1, <2>2
<1>3. CASE pending # <<>>
  <2>1. pending' # <<>> /\ \A i \in DOMAIN pending : pending'[i] = pending[i]
    BY QueueGrows DEF Sent, IInv
  <2>2. 1 \in DOMAIN pending
    BY <1>3 DEF IInv, TypeOK
  <2>. QED
    BY <1>1, <1>3, <2>1, <2>2
<1>. QED
  BY <1>2, <1>3

\* A transaction sent in its turn keeps the queue in order.
LEMMA SentQueue ==
    ASSUME IInv, TypeOK', NEW kind, NEW arg, NEW then \in Waits, Sent(kind, arg, then),
           kind = Awaited[then], kind = "deposit" => arg <= run.required_deposit
    PROVE  /\ QueueInv'
           /\ (\A i \in DOMAIN pending :
                  pending[i].kind = "deposit" => pending[i].arg <= pending[i].quote)'
<1>. DEFINE n == Len(pending)
<1>1. /\ n \in Nat /\ Len(pending') = n + 1
      /\ DOMAIN pending' = 1 .. n + 1 /\ DOMAIN pending = 1 .. n
      /\ \A i \in 1 .. n : pending'[i] = pending[i]
  <2>1. n \in Nat
    BY DEF IInv, TypeOK
  <2>. QED
    BY <2>1, QueueGrows DEF Sent, IInv
<1>2. /\ pending'[n + 1].kind = kind /\ pending'[n + 1].arg = arg
      /\ pending'[n + 1].quote = run.required_deposit /\ pending'[n + 1].clean = run.clean
  <2>1. pending'[n + 1] =
                [kind |-> kind, arg |-> arg,
                 url |-> IF kind = "setURL" THEN run.service_url ELSE NoUrl,
                 extend |-> run.extend, quote |-> run.required_deposit, clean |-> run.clean]
    BY QueueGrows DEF Sent, IInv
  <2>. QED
    BY <2>1
<1>3. pc' = then /\ (run.clean => pending = <<>>) /\ run'.clean = run.clean
  BY DEF Sent, Transact, IInv, TypeOK, Runs
<1>4. run.clean => n = 0
  BY <1>3
<1>. HIDE DEF n
<1>5. \A i \in DOMAIN pending' : i \in 1 .. n \/ i = n + 1
  BY <1>1
<1>6. (\A i \in DOMAIN pending :
          pending[i].kind = "deposit" => pending[i].arg <= pending[i].quote)'
  BY <1>1, <1>2, <1>5 DEF IInv, QuoteInv
<1>7. (\A i \in DOMAIN pending : pending[i].clean => i = 1)'
  BY <1>1, <1>2, <1>4, <1>5 DEF IInv, QueueInv
<1>8. pending'[Len(pending')].kind = Awaited[pc']
  BY <1>1, <1>2, <1>3
<1>9. run'.clean => pending'[1].clean /\ Len(pending') = 1
  <2>1. run.clean => n + 1 = 1
    BY <1>4
  <2>. QED
    BY <1>1, <1>2, <1>3, <2>1
<1>10. pc' \notin Asks
  BY <1>3 DEF Waits, Asks
<1>. QED
  BY <1>6, <1>7, <1>8, <1>9, <1>10 DEF QueueInv

\* Sending them keeps the invariant.
LEMMA SendingStep ==
    ASSUME IInv, Sending, TypeOK'
    PROVE  IInv'
<1>1. CASE pc = "quote" /\ Sent("approve", 0, "reset") /\ run' = run
  <2>0. /\ pc' = "reset" /\ pending' # <<>> /\ UNCHANGED <<chain, status>>
        /\ pending # <<>> => pending'[1] = pending[1] /\ ~run.clean
        /\ pending = <<>> =>
             /\ pending'[1].kind = "approve" /\ pending'[1].arg = 0
             /\ pending'[1].extend = run.extend /\ pending'[1].clean = run.clean
    BY <1>1, SentFacts
  <2>1. QuoteInv' /\ QueueInv'
    <3>1. /\ QueueInv'
          /\ (\A i \in DOMAIN pending :
                 pending[i].kind = "deposit" => pending[i].arg <= pending[i].quote)'
      BY <1>1, SentQueue DEF Waits, Awaited
    <3>. QED
      BY <1>1, <2>0, <3>1 DEF IInv, QuoteInv, TypeOK, Runs
  <2>2. AllowanceInv' /\ RegisteredInv'
    BY <1>1, <2>0 DEF IInv, AllowanceInv, RegisteredInv, CleanHead, TypeOK, Runs, chain
  <2>3. DepositInv'
    BY <1>1, <2>0 DEF IInv, DepositInv, CleanHead, Withdrawable, TypeOK, Runs, chain
  <2>4. ThanksInv'
    BY <1>1, <2>0 DEF IInv, ThanksInv, TypeOK, Runs, chain
  <2>. QED
    BY <2>1, <2>2, <2>3, <2>4 DEF IInv
<1>2. CASE pc = "latest" /\ Sent("mint", price, "mint") /\ price <= run.required_deposit
             /\ run' = [run EXCEPT !.latest_deposit = price]
  <2>0. /\ pc' = "mint" /\ pending' # <<>> /\ UNCHANGED <<chain, status>>
        /\ pending # <<>> => pending'[1] = pending[1] /\ ~run.clean
        /\ pending = <<>> =>
             /\ pending'[1].kind = "mint" /\ pending'[1].arg = price
             /\ pending'[1].extend = run.extend /\ pending'[1].clean = run.clean
    BY <1>2, SentFacts
  <2>1. QuoteInv' /\ QueueInv'
    <3>1. /\ QueueInv'
          /\ (\A i \in DOMAIN pending :
                 pending[i].kind = "deposit" => pending[i].arg <= pending[i].quote)'
      BY <1>2, SentQueue DEF Waits, Awaited
    <3>. QED
      BY <1>2, <2>0, <3>1 DEF IInv, QuoteInv, TypeOK, Runs
  <2>2. AllowanceInv' /\ RegisteredInv'
    BY <1>2, <2>0 DEF IInv, AllowanceInv, RegisteredInv, CleanHead, TypeOK, Runs, chain
  <2>3. DepositInv'
    BY <1>2, <2>0 DEF IInv, DepositInv, CleanHead, Withdrawable, TypeOK, Runs, chain
  <2>4. ThanksInv'
    BY <1>2, <2>0 DEF IInv, ThanksInv, TypeOK, Runs, chain
  <2>. QED
    BY <2>1, <2>2, <2>3, <2>4 DEF IInv
<1>3. CASE pc = "latest" /\ Sent("approve", price, "approve") /\ price <= run.required_deposit
             /\ run' = [run EXCEPT !.latest_deposit = price]
  <2>0. /\ pc' = "approve" /\ pending' # <<>> /\ UNCHANGED <<chain, status>>
        /\ pending # <<>> => pending'[1] = pending[1] /\ ~run.clean
        /\ pending = <<>> =>
             /\ pending'[1].kind = "approve" /\ pending'[1].arg = price
             /\ pending'[1].extend = run.extend /\ pending'[1].clean = run.clean
    BY <1>3, SentFacts
  <2>1. QuoteInv' /\ QueueInv'
    <3>1. /\ QueueInv'
          /\ (\A i \in DOMAIN pending :
                 pending[i].kind = "deposit" => pending[i].arg <= pending[i].quote)'
      BY <1>3, SentQueue DEF Waits, Awaited
    <3>. QED
      BY <1>3, <2>0, <3>1 DEF IInv, QuoteInv, TypeOK, Runs
  <2>2. AllowanceInv' /\ RegisteredInv'
    BY <1>3, <2>0 DEF IInv, AllowanceInv, RegisteredInv, CleanHead, TypeOK, Runs, chain
  <2>3. DepositInv'
    BY <1>3, <2>0 DEF IInv, DepositInv, CleanHead, Withdrawable, TypeOK, Runs, chain
  <2>4. ThanksInv'
    BY <1>3, <2>0 DEF IInv, ThanksInv, TypeOK, Runs, chain
  <2>. QED
    BY <2>1, <2>2, <2>3, <2>4 DEF IInv
<1>4. CASE pc = "mint" /\ Sent("approve", run.latest_deposit, "approve") /\ run' = run
  <2>0. /\ pc' = "approve" /\ pending' # <<>> /\ UNCHANGED <<chain, status>>
        /\ pending # <<>> => pending'[1] = pending[1] /\ ~run.clean
        /\ pending = <<>> =>
             /\ pending'[1].kind = "approve" /\ pending'[1].arg = run.latest_deposit
             /\ pending'[1].extend = run.extend /\ pending'[1].clean = run.clean
    BY <1>4, SentFacts
  <2>1. QuoteInv' /\ QueueInv'
    <3>1. /\ QueueInv'
          /\ (\A i \in DOMAIN pending :
                 pending[i].kind = "deposit" => pending[i].arg <= pending[i].quote)'
      BY <1>4, SentQueue DEF Waits, Awaited
    <3>. QED
      BY <1>4, <2>0, <3>1 DEF IInv, QuoteInv, TypeOK, Runs
  <2>2. AllowanceInv' /\ RegisteredInv'
    BY <1>4, <2>0 DEF IInv, AllowanceInv, RegisteredInv, CleanHead, TypeOK, Runs, chain
  <2>3. DepositInv'
    BY <1>4, <2>0 DEF IInv, DepositInv, CleanHead, Withdrawable, TypeOK, Runs, chain
  <2>4. ThanksInv'
    BY <1>4, <2>0 DEF IInv, ThanksInv, TypeOK, Runs, chain
  <2>. QED
    BY <2>1, <2>2, <2>3, <2>4 DEF IInv
<1>5. CASE pc = "approve" /\ Sent("deposit", run.latest_deposit, "deposit") /\ run' = run
  <2>0. /\ pc' = "deposit" /\ pending' # <<>> /\ UNCHANGED <<chain, status>>
        /\ pending # <<>> => pending'[1] = pending[1] /\ ~run.clean
        /\ pending = <<>> =>
             /\ pending'[1].kind = "deposit" /\ pending'[1].arg = run.latest_deposit
             /\ pending'[1].extend = run.extend /\ pending'[1].clean = run.clean
    BY <1>5, SentFacts
  <2>1. QuoteInv' /\ QueueInv'
    <3>1. /\ QueueInv'
          /\ (\A i \in DOMAIN pending :
                 pending[i].kind = "deposit" => pending[i].arg <= pending[i].quote)'
      BY <1>5, SentQueue DEF IInv, QuoteInv, Waits, Awaited
    <3>. QED
      BY <1>5, <2>0, <3>1 DEF IInv, QuoteInv, TypeOK, Runs
  <2>2. AllowanceInv' /\ RegisteredInv'
    BY <1>5, <2>0 DEF IInv, AllowanceInv, RegisteredInv, CleanHead, TypeOK, Runs, chain
  <2>3. DepositInv'
    BY <1>5, <2>0 DEF IInv, DepositInv, CleanHead, Withdrawable, TypeOK, Runs, chain
  <2>4. ThanksInv'
    BY <1>5, <2>0 DEF IInv, ThanksInv, TypeOK, Runs, chain
  <2>. QED
    BY <2>1, <2>2, <2>3, <2>4 DEF IInv
<1>6. CASE pc = "check_url" /\ Sent("setURL", 0, "url") /\ run' = run
  <2>0. /\ pc' = "url" /\ pending' # <<>> /\ UNCHANGED <<chain, status>>
        /\ pending # <<>> => pending'[1] = pending[1] /\ ~run.clean
        /\ pending = <<>> =>
             /\ pending'[1].kind = "setURL" /\ pending'[1].arg = 0 /\ pending'[1].url = run.service_url
             /\ pending'[1].extend = run.extend /\ pending'[1].clean = run.clean
    BY <1>6, SentFacts
  <2>1. QuoteInv' /\ QueueInv'
    <3>1. /\ QueueInv'
          /\ (\A i \in DOMAIN pending :
                 pending[i].kind = "deposit" => pending[i].arg <= pending[i].quote)'
      BY <1>6, SentQueue DEF Waits, Awaited
    <3>. QED
      BY <1>6, <2>0, <3>1 DEF IInv, QuoteInv, TypeOK, Runs
  <2>2. AllowanceInv' /\ RegisteredInv'
    BY <1>6, <2>0 DEF IInv, AllowanceInv, RegisteredInv, CleanHead, TypeOK, Runs, chain
  <2>3. DepositInv'
    BY <1>6, <2>0 DEF IInv, DepositInv, CleanHead, Withdrawable, TypeOK, Runs, chain
  <2>4. ThanksInv'
    BY <1>6, <2>0 DEF IInv, ThanksInv, TypeOK, Runs, chain
  <2>. QED
    BY <2>1, <2>2, <2>3, <2>4 DEF IInv
<1>7. CASE pc = "read" /\ Sent("withdraw", run.target, "withdraw") /\ run' = run /\ ~TooEarly
  <2>0. /\ pc' = "withdraw" /\ pending' # <<>> /\ UNCHANGED <<chain, status>>
        /\ pending # <<>> => pending'[1] = pending[1] /\ ~run.clean
        /\ pending = <<>> =>
             /\ pending'[1].kind = "withdraw" /\ pending'[1].arg = run.target
             /\ pending'[1].extend = run.extend /\ pending'[1].clean = run.clean
    BY <1>7, SentFacts
  <2>1. QuoteInv' /\ QueueInv'
    <3>1. /\ QueueInv'
          /\ (\A i \in DOMAIN pending :
                 pending[i].kind = "deposit" => pending[i].arg <= pending[i].quote)'
      BY <1>7, SentQueue DEF Waits, Awaited
    <3>. QED
      BY <1>7, <2>0, <3>1 DEF IInv, QuoteInv, TypeOK, Runs
  <2>2. AllowanceInv' /\ RegisteredInv'
    BY <1>7, <2>0 DEF IInv, AllowanceInv, RegisteredInv, CleanHead, TypeOK, Runs, chain
  <2>3. DepositInv'
    <3>1. /\ run.target \in DOMAIN deposits /\ (run.clean => ~deposits[run.target].withdrawn)
          /\ run.deprecated => deprecated
      BY <1>7 DEF IInv, DepositInv
    <3>2. deposits[run.target] \in Deposits
      BY <3>1 DEF IInv, TypeOK
    <3>3. run.clean => Withdrawable(deposits[run.target])
      BY <1>7, <3>1, <3>2 DEF TooEarly, Withdrawable, Deposits, IInv, TypeOK
    <3>. QED
      BY <1>7, <2>0, <3>1, <3>3 DEF IInv, DepositInv, CleanHead, Withdrawable, chain
  <2>4. ThanksInv'
    BY <1>7, <2>0 DEF IInv, ThanksInv, TypeOK, Runs, chain
  <2>. QED
    BY <2>1, <2>2, <2>3, <2>4 DEF IInv
<1>. QED
  BY SentKinds, <1>1, <1>2, <1>3, <1>4, <1>5, <1>6, <1>7

\* What mining the first transaction does to the chain.
LEMMA MineEffects ==
    ASSUME TypeOK, Mine
    PROVE  /\ valid_till <= valid_till'
           /\ pending[1].kind # "deposit" => valid_till' = valid_till
           /\ pending[1].kind = "deposit" /\ status' => now < valid_till'
           /\ pending[1].kind # "setURL" => url' = url
           /\ pending[1].kind = "setURL" /\ status' => url' = pending[1].url
           /\ pending[1].kind \notin {"approve", "deposit"} => allowance' = allowance
           /\ pending[1].kind = "approve" => allowance' = pending[1].arg
           /\ status' = Accepted(pending[1])
           /\ \/ deposits' = deposits
              \/ /\ pending[1].kind = "deposit" /\ price <= pending[1].arg
                 /\ valid_till < valid_till'
                 /\ deposits' = Append(deposits, [amount |-> price,
                       withdrawable_after |-> valid_till', withdrawn |-> FALSE])
              \/ /\ pending[1].kind = "withdraw" /\ pending[1].arg \in DOMAIN deposits
                 /\ deposits' = [deposits EXCEPT ![pending[1].arg].withdrawn = TRUE]
<1>. DEFINE tx == pending[1]
<1>0. Head(pending) = tx /\ tx \in Transactions
  BY QueueShrinks
<1>. HIDE DEF tx
<1>1. status' = Accepted(tx)
  BY <1>0 DEF Mine
<1>2. CASE ~Accepted(tx)
  <2>1. tx.kind # "approve"
    BY <1>2 DEF Accepted
  <2>. QED
    BY <1>0, <1>1, <1>2, <2>1 DEF Mine, TypeOK, tx
<1>3. CASE Accepted(tx) /\ tx.kind = "deposit"
  <2>1. MineDeposit /\ price <= tx.arg
    BY <1>0, <1>3 DEF Mine, Accepted
  <2>2. now < valid_till' /\ valid_till < valid_till'
    BY <2>1, RegistryConstants DEF MineDeposit, MaxOf, TypeOK
  <2>3. url' = url /\ deposits' = Append(deposits, [amount |-> price,
                       withdrawable_after |-> valid_till', withdrawn |-> FALSE])
    BY <2>1 DEF MineDeposit
  <2>4. valid_till <= valid_till'
    BY <2>1, RegistryConstants DEF MineDeposit, MaxOf, TypeOK
  <2>. QED
    BY <1>1, <1>3, <2>1, <2>2, <2>3, <2>4 DEF tx
<1>4. CASE Accepted(tx) /\ tx.kind = "approve"
  <2>1. MineApprove(tx)
    BY <1>0, <1>4 DEF Mine
  <2>. QED
    BY <1>1, <1>4, <2>1 DEF MineApprove, TypeOK, tx
<1>5. CASE Accepted(tx) /\ tx.kind = "mint"
  <2>1. MineMint(tx)
    BY <1>0, <1>5 DEF Mine
  <2>. QED
    BY <1>1, <1>5, <2>1 DEF MineMint, TypeOK, tx
<1>6. CASE Accepted(tx) /\ tx.kind = "setURL"
  <2>1. MineSetUrl(tx)
    BY <1>0, <1>6 DEF Mine
  <2>. QED
    BY <1>1, <1>6, <2>1 DEF MineSetUrl, TypeOK, tx
<1>7. CASE Accepted(tx) /\ tx.kind = "withdraw"
  <2>1. MineWithdraw(tx) /\ tx.arg \in DOMAIN deposits
    BY <1>0, <1>7 DEF Mine, Accepted
  <2>. QED
    BY <1>1, <1>7, <2>1 DEF MineWithdraw, TypeOK, tx
<1>. QED
  BY <1>0, <1>2, <1>3, <1>4, <1>5, <1>6, <1>7 DEF Transactions, Kinds

\* Deposits that are added are withdrawable later than the others, and what is
\* withdrawn stays so.
LEMMA MineDeposits ==
    ASSUME IInv, Mine, TypeOK'
    PROVE  /\ DOMAIN deposits \subseteq DOMAIN deposits'
           /\ \A i \in DOMAIN deposits : deposits[i].withdrawn => deposits'[i].withdrawn
           /\ \A i \in DOMAIN deposits' \ DOMAIN deposits : \A j \in DOMAIN deposits : j < i
           /\ \A i \in DOMAIN deposits' :
                deposits'[i].withdrawable_after <= valid_till'
           /\ \A i, j \in DOMAIN deposits' :
                i <= j => deposits'[i].withdrawable_after <= deposits'[j].withdrawable_after
<1>. DEFINE n == Len(deposits)
            after(i) == deposits[i].withdrawable_after
<1>0. /\ n \in Nat /\ DOMAIN deposits = 1 .. n
      /\ valid_till \in Nat /\ valid_till' \in Nat /\ valid_till <= valid_till'
      /\ \A i \in 1 .. n : after(i) \in Nat /\ after(i) <= valid_till
      /\ \A i, j \in 1 .. n : i <= j => after(i) <= after(j)
  <2>1. n \in Nat /\ DOMAIN deposits = 1 .. n
    BY DEF IInv, TypeOK
  <2>2. \A i \in 1 .. n : deposits[i] \in Deposits
    BY <2>1 DEF IInv, TypeOK
  <2>3. \A i \in 1 .. n : after(i) \in Nat
    BY <2>2 DEF Deposits
  <2>4. valid_till \in Nat /\ valid_till' \in Nat /\ valid_till <= valid_till'
    BY MineEffects DEF IInv, TypeOK
  <2>. QED
    BY <2>1, <2>3, <2>4 DEF IInv, DepositInv
<1>1. CASE deposits' = deposits
  BY <1>0, <1>1
<1>2. CASE deposits' = Append(deposits, [amount |-> price,
                         withdrawable_after |-> valid_till', withdrawn |-> FALSE])
  <2>1. deposits \in Seq(Deposits)
    BY DEF IInv, TypeOK
  <2>2. /\ DOMAIN deposits' = 1 .. n + 1
        /\ \A i \in 1 .. n : deposits'[i] = deposits[i]
        /\ deposits'[n + 1].withdrawable_after = valid_till'
    BY <1>0, <1>2, <2>1
  <2>3. \A i \in 1 .. n + 1 : i \in 1 .. n \/ i = n + 1
    BY <1>0
  <2>. HIDE DEF n
  <2>. QED
    BY <1>0, <2>2, <2>3
<1>3. CASE pending[1].arg \in DOMAIN deposits
           /\ deposits' = [deposits EXCEPT ![pending[1].arg].withdrawn = TRUE]
  <2>1. DOMAIN deposits' = 1 .. n
    BY <1>0, <1>3
  <2>2. \A i \in 1 .. n : deposits[i] \in Deposits
    BY <1>0 DEF IInv, TypeOK
  <2>3. \A i \in 1 .. n : /\ deposits'[i].withdrawable_after = after(i)
                          /\ deposits[i].withdrawn => deposits'[i].withdrawn
    BY <1>0, <1>3, <2>2 DEF Deposits
  <2>. QED
    BY <1>0, <2>1, <2>3
<1>. QED
  BY <1>1, <1>2, <1>3, MineEffects DEF IInv

\* Mining a transaction keeps the invariant.
LEMMA MineStep ==
    ASSUME IInv, Mine, TypeOK'
    PROVE  IInv'
<1>. DEFINE n == Len(pending)
<1>. USE DEF Waits, Asks
<1>0. TypeOK
  BY DEF IInv
<1>1. /\ n \in Nat \ {0} /\ pending # <<>> /\ UNCHANGED <<now, deprecated, pc, run>>
      /\ Len(pending') = n - 1
      /\ DOMAIN pending' = 1 .. n - 1 /\ DOMAIN pending = 1 .. n
      /\ \A i \in 1 .. n - 1 : pending'[i] = pending[i + 1]
      /\ pending' = <<>> <=> n = 1
  BY <1>0, QueueShrinks
\* The queue of a run that began with an empty one.
<1>2. pc \in Asks => ~run.clean
  BY <1>1 DEF IInv, QueueInv
<1>3. pc \in Waits /\ run.clean => n = 1 /\ pending[1].kind = Awaited[pc]
  BY <1>1 DEF IInv, QueueInv
<1>4. pc \in Waits /\ pending' = <<>> => pending[1].kind = Awaited[pc]
  BY <1>1 DEF IInv, QueueInv
<1>. HIDE DEF n
<1>5. \A i \in DOMAIN pending' : ~pending'[i].clean
  BY <1>1 DEF IInv, QueueInv
<1>6. \A kind : ~CleanHead(kind)'
  <2>1. pending' # <<>> => 1 \in DOMAIN pending'
    BY <1>1
  <2>. QED
    BY <1>5, <2>1 DEF CleanHead
<1>7. QuoteInv'
  BY <1>1 DEF IInv, QuoteInv
<1>8. QueueInv'
  <2>1. pending' # <<>> => pending'[Len(pending')] = pending[n]
    BY <1>1
  <2>2. pc \in Waits => pending[n].kind = Awaited[pc]
    BY <1>1 DEF IInv, QueueInv, n
  <2>. QED
    BY <1>1, <1>2, <1>3, <1>5, <2>1, <2>2 DEF QueueInv
<1>9. AllowanceInv'
  BY <1>0, <1>1, <1>2, <1>3, <1>6, MineEffects DEF IInv, AllowanceInv, Awaited
<1>10. RegisteredInv'
  BY <1>0, <1>1, <1>2, <1>3, <1>6, MineEffects DEF IInv, RegisteredInv, Awaited
<1>11. DepositInv'
  <2>1. pc \in {"found", "read"} =>
          /\ run.target \in DOMAIN deposits'
          /\ \A i \in DOMAIN deposits' : i < run.target => deposits'[i].withdrawn
          /\ ~run.clean
    <3>1. pc \in {"found", "read"} =>
            /\ run.target \in DOMAIN deposits
            /\ \A i \in DOMAIN deposits : i < run.target => deposits[i].withdrawn
      BY DEF IInv, DepositInv
    <3>2. run.target \in Nat /\ DOMAIN deposits' \subseteq Nat
      BY <1>0 DEF TypeOK, Runs
    <3>. QED
      BY <1>2, <3>1, <3>2, MineDeposits
  <2>2. (pc = "read" /\ run.deprecated => deprecated)'
    BY <1>1 DEF IInv, DepositInv, Mine
  <2>. QED
    BY <1>1, <1>6, <2>1, <2>2, MineDeposits DEF DepositInv
<1>12. ThanksInv'
  <2>1. run.begun \in Nat /\ now \in Nat /\ valid_till \in Nat /\ valid_till' \in Nat
    BY <1>0 DEF TypeOK, Runs
  <2>. QED
    BY <1>0, <1>1, <1>2, <1>3, <1>4, <2>1, MineEffects DEF IInv, ThanksInv, Awaited
<1>. QED
  BY <1>7, <1>8, <1>9, <1>10, <1>11, <1>12 DEF IInv

------------------------------------------------------------------------------
(* The theorems.                                                           *)

\* The invariant holds initially.
LEMMA InitInv == Init => IInv
<1>. SUFFICES ASSUME Init PROVE IInv
  OBVIOUS
<1>1. TypeOK
  <2>1. <<>> \in Seq(Deposits) /\ <<>> \in Seq(Transactions)
    OBVIOUS
  <2>2. FirstPrice \in Nat \ {0} /\ FirstBalance \in Nat
    BY RegistryConstants
  <2>3. /\ chain_id \in {1, 5} /\ now \in Nat /\ price \in Nat \ {0}
        /\ valid_till \in Nat /\ balance \in Nat /\ allowance \in Nat
    BY <2>2 DEF Init
  <2>. QED
    BY <2>1, <2>3, NoRunType, Zenon DEF Init, TypeOK, Ended
<1>2. QuoteInv /\ QueueInv
  BY DEF Init, QuoteInv, QueueInv, Waits, Asks
<1>3. AllowanceInv /\ RegisteredInv /\ DepositInv
  BY DEF Init, AllowanceInv, RegisteredInv, DepositInv, CleanHead
<1>4. ThanksInv
  BY DEF Init, ThanksInv, NoRun
<1>. QED
  BY <1>1, <1>2, <1>3, <1>4 DEF IInv

\* One step per kind of step, one part of the invariant after the other.
LEMMA NextInv == IInv /\ [Next]_vars => IInv'
<1>. SUFFICES ASSUME IInv, [Next]_vars PROVE IInv'
  OBVIOUS
<1>1. CASE UNCHANGED vars
  BY <1>1 DEF vars, chain, IInv, TypeOK, QuoteInv, QueueInv, AllowanceInv, RegisteredInv,
              DepositInv, ThanksInv, CleanHead, Withdrawable
<1>2. CASE Next
  <2>1. TypeOK'
    BY TypeStep DEF IInv
  <2>. QED
    BY <1>2, <2>1, StepKinds, WorldStep, EndingStep, ThinkingStep, SendingStep, MineStep DEF IInv
<1>. QED
  BY <1>1, <1>2

\* The inductive invariant holds in every state: what a run knows of its allowance and
\* its deposit agrees with the chain and with the transactions still pending.
THEOREM Invariant == Spec => []IInv
  BY InitInv, NextInv, PTL DEF Spec

\* The chain, the queue and the run stay well typed; no balance, allowance or
\* amount gets negative.
THEOREM TypeCorrect == Spec => []TypeOK
<1>1. IInv => TypeOK
  BY DEF IInv
<1>. QED
  BY <1>1, Invariant, PTL

\* Only mining takes a transaction out of the queue.
LEMMA MinedByMine ==
    ASSUME IInv, Next, pending # <<>>, pending' = Tail(pending)
    PROVE  Mine /\ Mined = pending[1]
<1>1. pending \in Seq(Transactions)
  BY DEF IInv, TypeOK
<1>2. Len(pending') = Len(pending) - 1 /\ Len(pending) \in Nat /\ Mined = pending[1]
  BY <1>1 DEF Mined
<1>3. pending' # pending
  <2>1. SUFFICES ASSUME pending' = pending PROVE FALSE
    OBVIOUS
  <2>2. Len(pending') = Len(pending)
    BY <2>1, Zenon
  <2>. QED
    BY <1>2, <2>2
<1>4. ~World /\ ~Ending /\ ~Thinking
  BY <1>3 DEF World, Ending, Thinking, StartRegistration, CheckRegistered, Quote,
              CheckAllowance, Send, Transact, EndRun, AllowanceReset, Deposited, FindDeposit,
              CheckDeprecated, GoTo
<1>5. CASE Sending
  <2>1. Len(pending') = Len(pending) + 1
    BY <1>5, SentKinds, QueueGrows DEF Sent, IInv
  <2>. QED
    BY <1>2, <2>1
<1>. QED
  BY <1>2, <1>4, <1>5, StepKinds DEF IInv

\* Only mining changes the deposits.
LEMMA DepositsByMine ==
    ASSUME IInv, Next, deposits' # deposits
    PROVE  Mine
<1>1. CASE World \/ Ending
  BY <1>1 DEF World, Ending, chain
<1>2. CASE Thinking
  BY <1>2 DEF Thinking, StartRegistration, CheckRegistered, Quote, CheckAllowance, Send,
              EndRun, AllowanceReset, Deposited, FindDeposit, CheckDeprecated, GoTo, chain
<1>3. CASE Sending
  BY <1>3, SentKinds DEF Sent, chain
<1>. QED
  BY <1>1, <1>2, <1>3, StepKinds DEF IInv

\* For all prices and however they move: no deposit takes more than the price
\* the operator was shown and agreed to.
THEOREM QuoteHolds == Spec => PaysAtMostQuoted
<1>1. ASSUME IInv, Next, deposits # deposits', IsMined("deposit")
      PROVE  deposits'[Len(deposits')].amount <= Mined.quote
  <2>1. Mine /\ Mined = pending[1] /\ pending[1].kind = "deposit"
    BY <1>1, MinedByMine DEF IsMined, Mined
  <2>2. price <= pending[1].arg /\ deposits' = Append(deposits, [amount |-> price,
                       withdrawable_after |-> valid_till', withdrawn |-> FALSE])
    BY <1>1, <2>1, MineEffects DEF IInv
  <2>3. deposits'[Len(deposits')].amount = price
    <3>1. deposits \in Seq(Deposits)
      BY <1>1 DEF IInv, TypeOK
    <3>. QED
      BY <2>2, <3>1
  <2>4. pending[1].arg <= pending[1].quote /\ pending[1] \in Transactions
    BY <1>1, <2>1, QueueShrinks DEF IInv, QuoteInv
  <2>. QED
    BY <1>1, <2>1, <2>2, <2>3, <2>4 DEF Transactions, IInv, TypeOK
<1>2. IInv /\ [Next]_vars =>
        [deposits # deposits' /\ IsMined("deposit") =>
          deposits'[Len(deposits')].amount <= Mined.quote]_vars
  BY <1>1
<1>. QED
  BY <1>2, Invariant, PTL DEF Spec, PaysAtMostQuoted

\* A run that began with nothing pending grants its allowance from zero,
\* whatever earlier runs left behind.
THEOREM AllowanceFromZero == Spec => ApprovesFromZero
<1>1. ASSUME IInv, Next, IsMined("approve"), Mined.arg > 0, Mined.clean
      PROVE  allowance = 0
  BY <1>1, MinedByMine DEF IsMined, IInv, AllowanceInv, CleanHead
<1>2. IInv /\ [Next]_vars =>
        [IsMined("approve") /\ Mined.arg > 0 /\ Mined.clean => allowance = 0]_vars
  BY <1>1
<1>. QED
  BY <1>2, Invariant, PTL DEF Spec, ApprovesFromZero

\* `register' deposits for a service that is not registered when the deposit
\* is mined, not only when the command looked.
THEOREM RegistersOnce == Spec => NotRegisteredTwice
<1>1. ASSUME IInv, Next, IsMined("deposit"), Mined.clean, ~Mined.extend
      PROVE  ~HasValidRegistration
  BY <1>1, MinedByMine DEF IsMined, IInv, RegisteredInv, CleanHead, HasValidRegistration, TypeOK
<1>2. IInv /\ [Next]_vars =>
        [deposits # deposits' /\ IsMined("deposit") /\ Mined.clean /\ ~Mined.extend =>
          ~HasValidRegistration]_vars
  BY <1>1
<1>. QED
  BY <1>2, Invariant, PTL DEF Spec, NotRegisteredTwice

\* A withdrawal of a run that began with nothing pending succeeds.
THEOREM WithdrawalSucceeds == Spec => WithdrawSucceeds
<1>1. ASSUME IInv, Next, IsMined("withdraw"), Mined.clean
      PROVE  status'
  <2>1. Mine /\ CleanHead("withdraw")
    BY <1>1, MinedByMine DEF IsMined, CleanHead
  <2>2. Accepted(pending[1])
    BY <1>1, <2>1 DEF IInv, DepositInv, CleanHead, Accepted
  <2>. QED
    BY <1>1, <2>1, <2>2, MineEffects DEF IInv
<1>2. IInv /\ [Next]_vars => [IsMined("withdraw") /\ Mined.clean => status']_vars
  BY <1>1
<1>. QED
  BY <1>2, Invariant, PTL DEF Spec, WithdrawSucceeds

\* When the oldest deposit that is left cannot be withdrawn yet, none can,
\* unless the registry was deprecated while the command looked.
THEOREM TooEarlyIsForAll == Spec => TooEarlyForAll
<1>1. ASSUME IInv, Next, pc' = "too_early", pc # "too_early",
             run.deprecated = deprecated
      PROVE  \A i \in DOMAIN deposits : ~Withdrawable(deposits[i])
  <2>1. CheckWithdrawable /\ TooEarly /\ pc = "read"
    <3>1. pc' # pc /\ ~World /\ ~Mine /\ ~Thinking /\ ~Sending
      <4>1. ~World /\ ~Mine
        BY <1>1 DEF World, Mine
      <4>2. ~Thinking
        BY <1>1 DEF Thinking, StartRegistration, CheckRegistered, AllowanceReset, Deposited,
                      CheckDeprecated, GoTo
      <4>3. ~Sending
        BY <1>1, SentKinds DEF Sent, Transact
      <4>. QED
        BY <1>1, <4>1, <4>2, <4>3
    <3>2. CheckWithdrawable
      BY <1>1, <3>1 DEF Next, Environment, Registration, Tick, OtherDeposit, Spend, Deprecate,
         Thinking, Sending, PriceIncreased, CheckUrl, Quote, FindDeposit, UrlRegistered,
         Withdrawn, TransactionFailed, Aborted, EndRun, CheckAllowance, GoTo, Send
    <3>. QED
      BY <1>1, <3>2 DEF CheckWithdrawable, Send, Transact
  <2>2. run.target \in DOMAIN deposits /\ run.target \in Nat
        /\ \A i \in DOMAIN deposits : i < run.target => deposits[i].withdrawn
    BY <1>1, <2>1 DEF IInv, DepositInv, TypeOK
  <2>3. SUFFICES ASSUME NEW i \in DOMAIN deposits, ~deposits[i].withdrawn
                 PROVE  now < deposits[i].withdrawable_after
    <3>1. \A i \in DOMAIN deposits : deposits[i] \in Deposits
      BY <1>1 DEF IInv, TypeOK
    <3>. QED
      BY <1>1, <2>1, <2>3, <3>1 DEF Withdrawable, TooEarly, Deposits, IInv, TypeOK
  <2>4. run.target <= i /\ deposits[i] \in Deposits /\ deposits[run.target] \in Deposits
    BY <1>1, <2>2, <2>3 DEF IInv, TypeOK
  <2>5. deposits[run.target].withdrawable_after <= deposits[i].withdrawable_after
    BY <1>1, <2>2, <2>4 DEF IInv, DepositInv
  <2>. QED
    BY <1>1, <2>1, <2>4, <2>5 DEF TooEarly, Deposits, IInv, TypeOK
<1>2. IInv /\ [Next]_vars =>
        [pc' = "too_early" /\ pc # "too_early" /\ run.deprecated = deprecated =>
          \A i \in DOMAIN deposits : ~Withdrawable(deposits[i])]_vars
  BY <1>1
<1>. QED
  BY <1>2, Invariant, PTL DEF Spec, TooEarlyForAll

\* A run that ends with thanks leaves a registration that outlasts the moment
\* it looked, and, if it began with nothing pending, the URL asked for.
THEOREM ThanksAreDue == Spec => ThanksMeansRegistered
<1>1. ASSUME IInv, Next, pc' = "registered", pc # "registered"
      PROVE  /\ valid_till > run.begun
             /\ run.clean /\ run.service_url # NoUrl => url = run.service_url
  <2>1. \/ pc = "check_url" /\ ~UrlDiffers
        \/ Succeeded("url")
    <3>1. ~World /\ ~Mine /\ ~Thinking /\ ~Sending
      <4>1. ~World /\ ~Mine
        BY <1>1 DEF World, Mine
      <4>2. ~Thinking
        BY <1>1 DEF Thinking, StartRegistration, CheckRegistered, AllowanceReset, Deposited,
                      CheckDeprecated, GoTo
      <4>3. ~Sending
        BY <1>1, SentKinds DEF Sent, Transact
      <4>. QED
        BY <4>1, <4>2, <4>3
    <3>2. CheckUrl \/ UrlRegistered
      BY <1>1, <3>1 DEF Next, Environment, Registration, Tick, OtherDeposit, Spend, Deprecate,
         Thinking, Sending, PriceIncreased, Quote, FindDeposit, CheckWithdrawable,
         Withdrawn, TransactionFailed, Aborted, EndRun, CheckAllowance, GoTo, Send, Transact
    <3>. QED
      BY <1>1, <3>2 DEF CheckUrl, UrlRegistered, Send, Transact
  <2>2. run.begun < valid_till /\ run.begun \in Nat /\ valid_till \in Nat
    BY <1>1, <2>1 DEF Succeeded, IInv, ThanksInv, TypeOK, Runs
  <2>3. run.clean /\ run.service_url # NoUrl => url = run.service_url
    BY <1>1, <2>1 DEF Succeeded, UrlDiffers, IInv, ThanksInv
  <2>. QED
    BY <2>2, <2>3
<1>2. IInv /\ [Next]_vars =>
        [pc' = "registered" /\ pc # "registered" =>
          /\ valid_till > run.begun
          /\ run.clean /\ run.service_url # NoUrl => url = run.service_url]_vars
  BY <1>1
<1>. QED
  BY <1>2, Invariant, PTL DEF Spec, ThanksMeansRegistered

==============================================================================
