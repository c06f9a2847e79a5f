-------------------------- MODULE IouPayments_proofs --------------------------
(***************************************************************************)
(* Proofs about IouPayments: for any number of clients, sessions and       *)
(* requests under way, and any interleaving with claim_fees.               *)
(***************************************************************************)
EXTENDS IouPayments, FiniteSetTheorems, WellFoundedInduction, SequenceTheorems, TLAPS

\* What the stale copies of claim_fees rest on: OneActiveSession by itself and
\* ClaimedWasSettled by what is known of the transactions.
IInv == TypeOK /\ OneActiveSession /\ SuccessSettles /\ ClaimedWasSettled

------------------------------------------------------------------------------
(* The iou table.                                                          *)

\* Saving an IOU keeps the table well-formed.
LEMMA UpsertType ==
    ASSUME iou \in [Keys -> Rows], NEW i \in IOUs, NEW b \in BOOLEAN, Upsert(i, b)
    PROVE  iou' \in [Keys -> Rows]
<1>1. NoRow \in Rows
  BY DEF NoRow, Rows
<1>2. [amount |-> i.amount, claimed |-> b] \in Rows
  BY DEF Rows, IOUs
<1>. QED
  BY <1>1, <1>2 DEF Upsert

\* Because of the unique index no save makes a second session active.
LEMMA UpsertOneActive ==
    ASSUME iou \in [Keys -> Rows], OneActiveSession,
           NEW i \in IOUs, NEW b \in BOOLEAN, Upsert(i, b)
    PROVE  OneActiveSession'
<1>. SUFFICES ASSUME NEW s \in Senders, NEW t \in Sessions, NEW u \in Sessions,
                     iou'[<<s, t>>].amount > 0, ~iou'[<<s, t>>].claimed,
                     iou'[<<s, u>>].amount > 0, ~iou'[<<s, u>>].claimed
              PROVE  t = u
  BY DEF OneActiveSession, Active, Exists
<1>. DEFINE New(k) == IF k = <<i.sender, i.until>> THEN [amount |-> i.amount, claimed |-> b]
                      ELSE IF ~b /\ k[1] = i.sender /\ ~iou[k].claimed THEN NoRow
                      ELSE iou[k]
<1>1. <<s, t>> \in Keys /\ <<s, u>> \in Keys
  BY DEF Keys
<1>2. iou'[<<s, t>>] = New(<<s, t>>) /\ iou'[<<s, u>>] = New(<<s, u>>)
  BY <1>1 DEF Upsert
<1>3. NoRow.amount = 0
  BY DEF NoRow
<1>4. ASSUME NEW v \in Sessions, iou'[<<s, v>>] = New(<<s, v>>),
             iou'[<<s, v>>].amount > 0, ~iou'[<<s, v>>].claimed,
             <<s, v>> # <<i.sender, i.until>>
      PROVE  iou[<<s, v>>].amount > 0 /\ ~iou[<<s, v>>].claimed /\ (b \/ s # i.sender)
  BY <1>3, <1>4
<1>5. CASE <<s, t>> = <<i.sender, i.until>> /\ <<s, u>> = <<i.sender, i.until>>
  BY <1>5
<1>6. CASE <<s, t>> = <<i.sender, i.until>> /\ <<s, u>> # <<i.sender, i.until>>
  BY <1>2, <1>4, <1>6
<1>7. CASE <<s, t>> # <<i.sender, i.until>> /\ <<s, u>> = <<i.sender, i.until>>
  BY <1>2, <1>4, <1>7
<1>8. CASE <<s, t>> # <<i.sender, i.until>> /\ <<s, u>> # <<i.sender, i.until>>
  BY <1>2, <1>4, <1>8 DEF OneActiveSession, Active, Exists
<1>. QED
  BY <1>5, <1>6, <1>7, <1>8

\* A save marks no session as claimed but its own.
LEMMA UpsertClaimed ==
    ASSUME iou \in [Keys -> Rows], ClaimedWasSettled, settled' = settled,
           NEW i \in IOUs, NEW b \in BOOLEAN, Upsert(i, b),
           b => <<i.sender, i.until>> \in settled
    PROVE  ClaimedWasSettled'
<1>. SUFFICES ASSUME NEW k \in Keys, iou'[k].amount > 0, iou'[k].claimed
              PROVE  k \in settled
  BY DEF ClaimedWasSettled, Exists
<1>1. CASE k = <<i.sender, i.until>>
  BY <1>1 DEF Upsert
<1>2. CASE k # <<i.sender, i.until>>
  <2>1. NoRow.amount = 0
    BY DEF NoRow
  <2>2. iou'[k] = iou[k]
    BY <1>2, <2>1 DEF Upsert
  <2>. QED
    BY <2>2 DEF ClaimedWasSettled, Exists
<1>. QED
  BY <1>1, <1>2

\* Steps that leave the table and the transactions alone.
LEMMA TablesUntouched ==
    ASSUME IInv, UNCHANGED <<iou, settled, txs>>
    PROVE  OneActiveSession' /\ SuccessSettles' /\ ClaimedWasSettled'
BY DEF IInv, OneActiveSession, Active, Exists, SuccessSettles, ClaimedWasSettled

\* What is read from the table is an IOU.
LEMMA StoredIouType ==
    ASSUME iou \in [Keys -> Rows], NEW k \in Keys
    PROVE  StoredIou(k) \in IOUs
BY DEF StoredIou, IOUs, Keys, Rows

------------------------------------------------------------------------------
(* The API.                                                                *)

\* The checks of a request, and its end.
LEMMA RequestsKeep ==
    ASSUME IInv, NEW w \in Workers
    PROVE  /\ \A i \in Presented : ProcessPayment(w, i) => IInv'
           /\ DepositTooLow(w) => IInv'
           /\ SaveIou(w) => IInv'
<1>. USE DEF IInv
<1>1. ASSUME NEW i \in Presented, ProcessPayment(w, i)
      PROVE  IInv'
  <2>1. i \in IOUs
    BY IouConstants DEF Presented, IOUs
  <2>2. ExpectedAmount(i) \in Nat
    <3>1. <<i.sender, i.until>> \in Keys
      BY <2>1 DEF IOUs, Keys
    <3>. QED
      BY <3>1, IouConstants DEF ExpectedAmount, TypeOK, Rows
  <2>3. worker' \in [Workers -> [iou : IOUs, amount : Nat] \cup {Idle}]
    BY <1>1, <2>1, <2>2 DEF ProcessPayment, TypeOK
  <2>4. overlap' \in BOOLEAN
    BY <1>1 DEF ProcessPayment
  <2>5. TypeOK'
    BY <1>1, <2>3, <2>4 DEF ProcessPayment, TypeOK
  <2>. QED
    BY <1>1, <2>5, TablesUntouched DEF ProcessPayment
<1>2. ASSUME DepositTooLow(w)
      PROVE  IInv'
  <2>1. TypeOK'
    BY <1>2 DEF DepositTooLow, TypeOK
  <2>. QED
    BY <1>2, <2>1, TablesUntouched DEF DepositTooLow
<1>3. ASSUME SaveIou(w)
      PROVE  IInv'
  <2>. DEFINE i == worker[w].iou
  <2>1. i \in IOUs
    BY <1>3 DEF SaveIou, TypeOK
  <2>2. Upsert(i, FALSE) /\ served' = Append(served, i) /\ settled' = settled /\ txs' = txs
    BY <1>3 DEF SaveIou
  <2>3. iou' \in [Keys -> Rows]
    BY <2>1, <2>2, UpsertType DEF TypeOK
  <2>4. served' \in Seq(IOUs)
    BY <2>1, <2>2, AppendProperties DEF TypeOK
  <2>5. TypeOK'
    BY <1>3, <2>3, <2>4 DEF SaveIou, TypeOK
  <2>6. OneActiveSession' /\ ClaimedWasSettled'
    BY <2>1, <2>2, UpsertOneActive, UpsertClaimed DEF TypeOK
  <2>7. SuccessSettles'
    BY <2>2 DEF SuccessSettles
  <2>. QED
    BY <2>5, <2>6, <2>7
<1>. QED
  BY <1>1, <1>2, <1>3

------------------------------------------------------------------------------
(* claim_fees.                                                             *)

\* Reading, skipping and sending.
LEMMA SendingKeeps ==
    ASSUME IInv
    PROVE  /\ StartClaiming => IInv'
           /\ \A i \in ious : ClaimSkipped(i) \/ ClaimSent(i) \/ ClaimRefused(i) => IInv'
<1>. USE DEF IInv
<1>1. ASSUME StartClaiming
      PROVE  IInv'
  <2>1. ious' \in SUBSET IOUs
    BY <1>1, StoredIouType DEF StartClaiming, TypeOK
  <2>2. overlap' \in BOOLEAN
    BY <1>1 DEF StartClaiming
  <2>3. TypeOK'
    BY <1>1, <2>1, <2>2 DEF StartClaiming, TypeOK
  <2>. QED
    BY <1>1, <2>3, TablesUntouched DEF StartClaiming
<1>2. ASSUME NEW i \in ious, ClaimSkipped(i)
      PROVE  IInv'
  <2>1. TypeOK'
    BY <1>2 DEF ClaimSkipped, PfsVars, TypeOK
  <2>. QED
    BY <1>2, <2>1, TablesUntouched DEF ClaimSkipped, PfsVars
<1>3. ASSUME NEW i \in ious, ClaimSent(i)
      PROVE  IInv'
  <2>. DEFINE tx == [of |-> i, status |-> "pending"]
  <2>1. tx \in Claims
    BY DEF Claims, TypeOK
  <2>2. /\ txs' \in Seq(Claims)
        /\ DOMAIN txs' = DOMAIN txs \cup {Len(txs) + 1}
        /\ \A h \in DOMAIN txs : txs'[h] = txs[h]
        /\ txs'[Len(txs) + 1] = tx
    BY <1>3, <2>1 DEF ClaimSent, TypeOK
  <2>3. TypeOK'
    BY <1>3, <2>2 DEF ClaimSent, PfsVars, TypeOK
  <2>4. SuccessSettles'
    BY <1>3, <2>2 DEF ClaimSent, PfsVars, SuccessSettles
  <2>5. OneActiveSession' /\ ClaimedWasSettled'
    BY <1>3 DEF ClaimSent, PfsVars, OneActiveSession, Active, Exists, ClaimedWasSettled
  <2>. QED
    BY <2>3, <2>4, <2>5
<1>4. ASSUME NEW i \in ious, ClaimRefused(i)
      PROVE  IInv'
  <2>1. TypeOK'
    BY <1>4 DEF ClaimRefused, PfsVars, TypeOK
  <2>. QED
    BY <1>4, <2>1, TablesUntouched DEF ClaimRefused, PfsVars
<1>. QED
  BY <1>1, <1>2, <1>3, <1>4

\* Checking the receipts: the copy that is stored as claimed may be older than
\* the row it replaces, but its session is settled.
LEMMA CheckingKeeps ==
    ASSUME IInv, NEW h \in sent
    PROVE  RecordClaim(h) \/ ClaimFailed(h) => IInv'
<1>. USE DEF IInv
<1>1. h \in DOMAIN txs /\ txs[h] \in Claims
  BY DEF TypeOK
<1>2. ASSUME RecordClaim(h)
      PROVE  IInv'
  <2>. DEFINE i == txs[h].of
  <2>1. i \in IOUs /\ <<i.sender, i.until>> \in settled
    BY <1>1, <1>2 DEF RecordClaim, SuccessSettles, Claims
  <2>2. Upsert(i, TRUE) /\ settled' = settled /\ txs' = txs
    BY <1>2 DEF RecordClaim, PfsVars
  <2>3. iou' \in [Keys -> Rows]
    BY <2>1, <2>2, UpsertType DEF TypeOK
  <2>4. TypeOK'
    BY <1>2, <2>3 DEF RecordClaim, PfsVars, TypeOK
  <2>5. OneActiveSession' /\ ClaimedWasSettled'
    BY <2>1, <2>2, UpsertOneActive, UpsertClaimed DEF TypeOK
  <2>6. SuccessSettles'
    BY <2>2 DEF SuccessSettles
  <2>. QED
    BY <2>4, <2>5, <2>6
<1>3. ASSUME ClaimFailed(h)
      PROVE  IInv'
  <2>1. TypeOK'
    BY <1>3 DEF ClaimFailed, PfsVars, TypeOK
  <2>. QED
    BY <1>3, <2>1, TablesUntouched DEF ClaimFailed, PfsVars
<1>. QED
  BY <1>2, <1>3

\* The ends of the API's and claim_fees' phases, and their deaths.
LEMMA PhasesKeep ==
    ASSUME IInv
    PROVE  ApiRestart \/ AllSent \/ AllChecked \/ ClaimingAborted \/ Tick => IInv'
<1>. USE DEF IInv
<1>1. ASSUME ApiRestart \/ AllSent \/ AllChecked \/ ClaimingAborted \/ Tick
      PROVE  TypeOK'
  BY <1>1 DEF ApiRestart, AllSent, AllChecked, ClaimingAborted, Tick, PfsVars, TypeOK
<1>2. ASSUME ApiRestart \/ AllSent \/ AllChecked \/ ClaimingAborted \/ Tick
      PROVE  UNCHANGED <<iou, settled, txs>>
  BY <1>2 DEF ApiRestart, AllSent, AllChecked, ClaimingAborted, Tick, PfsVars
<1>. QED
  BY <1>1, <1>2, TablesUntouched

------------------------------------------------------------------------------
(* The contracts.                                                          *)

\* Mining a claim, with either outcome, and deposits.
LEMMA ContractsKeep ==
    ASSUME IInv
    PROVE  /\ \A h \in DOMAIN txs : MineClaim(h) \/ MineReverted(h) => IInv'
           /\ \A s \in Senders : Deposit(s) => IInv'
<1>. USE DEF IInv
<1>1. ASSUME NEW h \in DOMAIN txs, NEW st \in {"ok", "failed"},
             txs' = [txs EXCEPT ![h].status = st]
      PROVE  /\ txs' \in Seq(Claims) /\ DOMAIN txs' = DOMAIN txs
             /\ txs'[h].of = txs[h].of /\ txs'[h].status = st
             /\ \A g \in DOMAIN txs : g # h => txs'[g] = txs[g]
  <2>1. txs[h] \in Claims
    BY DEF TypeOK
  <2>2. [txs[h] EXCEPT !.status = st] \in Claims
    BY <2>1 DEF Claims
  <2>3. txs' = [txs EXCEPT ![h] = [txs[h] EXCEPT !.status = st]]
    BY <1>1
  <2>4. /\ txs' \in Seq(Claims) /\ Len(txs') = Len(txs)
        /\ \A g \in 1 .. Len(txs) :
            txs'[g] = IF g = h THEN [txs[h] EXCEPT !.status = st] ELSE txs[g]
    <3>. DEFINE e == [txs[h] EXCEPT !.status = st]
    <3>. HIDE DEF e
    <3>1. e \in Claims /\ txs \in Seq(Claims) /\ h \in 1 .. Len(txs)
      BY <2>2 DEF TypeOK, e
    <3>2. txs' = [txs EXCEPT ![h] = e]
      BY <2>3 DEF e
    <3>3. /\ txs' \in Seq(Claims) /\ Len(txs') = Len(txs)
          /\ \A g \in 1 .. Len(txs) : txs'[g] = IF g = h THEN e ELSE txs[g]
      BY <3>1, <3>2, ExceptSeq
    <3>. QED
      BY <3>3 DEF e
  <2>5. DOMAIN txs = 1 .. Len(txs) /\ DOMAIN txs' = 1 .. Len(txs)
    BY <2>4 DEF TypeOK
  <2>6. txs'[h] = [txs[h] EXCEPT !.status = st]
    BY <2>4, <2>5
  <2>. QED
    BY <2>1, <2>4, <2>5, <2>6 DEF Claims
<1>2. ASSUME NEW h \in DOMAIN txs, MineClaim(h)
      PROVE  IInv'
  <2>. DEFINE i == txs[h].of
  <2>1. i \in IOUs
    <3>1. txs[h] \in Claims
      BY DEF TypeOK
    <3>. QED
      BY <3>1 DEF Claims
  <2>2. i.sender \in Senders /\ i.until \in Sessions /\ i.amount \in Nat
    BY <2>1 DEF IOUs
  <2>3. deposit' \in [Senders -> Nat]
    <3>1. deposit[i.sender] - Transferrable(i) \in Nat
      BY <2>2 DEF Transferrable, TypeOK
    <3>. QED
      BY <1>2, <2>2, <3>1 DEF MineClaim, TypeOK
  <2>4. settled' \in SUBSET Keys /\ settled \subseteq settled' /\ <<i.sender, i.until>> \in settled'
    BY <1>2, <2>2 DEF MineClaim, TypeOK, Keys
  <2>5. txs' = [txs EXCEPT ![h].status = "ok"]
    BY <1>2 DEF MineClaim
  <2>6. TypeOK'
    BY <1>1, <1>2, <2>3, <2>4, <2>5 DEF MineClaim, TypeOK
  <2>7. SuccessSettles'
    BY <1>1, <2>4, <2>5 DEF SuccessSettles
  <2>8. OneActiveSession' /\ ClaimedWasSettled'
    BY <1>2, <2>4 DEF MineClaim, OneActiveSession, Active, Exists, ClaimedWasSettled
  <2>. QED
    BY <2>6, <2>7, <2>8
<1>3. ASSUME NEW h \in DOMAIN txs, MineReverted(h)
      PROVE  IInv'
  <2>1. txs' = [txs EXCEPT ![h].status = "failed"]
    BY <1>3 DEF MineReverted
  <2>2. TypeOK'
    BY <1>1, <1>3, <2>1 DEF MineReverted, TypeOK
  <2>3. SuccessSettles'
    BY <1>1, <1>3, <2>1 DEF MineReverted, SuccessSettles
  <2>4. OneActiveSession' /\ ClaimedWasSettled'
    BY <1>3 DEF MineReverted, OneActiveSession, Active, Exists, ClaimedWasSettled
  <2>. QED
    BY <2>2, <2>3, <2>4
<1>4. ASSUME NEW s \in Senders, Deposit(s)
      PROVE  IInv'
  <2>1. TypeOK'
    BY <1>4, IouConstants DEF Deposit, TypeOK
  <2>. QED
    BY <1>4, <2>1, TablesUntouched DEF Deposit
<1>. QED
  BY <1>2, <1>3, <1>4

------------------------------------------------------------------------------
(* The theorems.                                                           *)

\* The invariant holds initially.
LEMMA InitEstablishes == Init => IInv
<1>. SUFFICES ASSUME Init PROVE IInv
  OBVIOUS
<1>1. NoRow \in Rows /\ NoRow.amount = 0
  BY DEF NoRow, Rows
<1>2. iou \in [Keys -> Rows] /\ \A k \in Keys : iou[k].amount = 0
  BY <1>1 DEF Init
<1>3. deposit \in [Senders -> Nat]
  BY IouConstants DEF Init
<1>4. TypeOK
  <2>1. txs \in Seq(Claims) /\ served \in Seq(IOUs)
    BY DEF Init
  <2>2. worker \in [Workers -> [iou : IOUs, amount : Nat] \cup {Idle}]
    BY DEF Init
  <2>. QED
    BY <1>2, <1>3, <2>1, <2>2 DEF Init, TypeOK
<1>5. OneActiveSession /\ ClaimedWasSettled
  BY <1>2 DEF OneActiveSession, Active, Exists, ClaimedWasSettled, Keys
<1>6. SuccessSettles
  BY DEF Init, SuccessSettles
<1>. QED
  BY <1>4, <1>5, <1>6 DEF IInv

\* Every step keeps the invariant.
LEMMA StepPreserves == IInv /\ [Next]_vars => IInv'
<1>. SUFFICES ASSUME IInv, [Next]_vars PROVE IInv'
  OBVIOUS
<1>1. CASE UNCHANGED vars
  <2>1. TypeOK'
    BY <1>1 DEF IInv, TypeOK, vars
  <2>. QED
    BY <1>1, <2>1, TablesUntouched DEF IInv, vars
<1>2. CASE Next
  BY <1>2, RequestsKeep, SendingKeeps, CheckingKeeps, PhasesKeep, ContractsKeep DEF Next
<1>. QED
  BY <1>1, <1>2

\* The inductive invariant holds in every state.
THEOREM Invariance == Spec => []IInv
BY InitEstablishes, StepPreserves, PTL DEF Spec

\* Type correctness: the table, the requests under way and claim_fees' copies
\* are well-formed, and nobody's deposit becomes negative.
THEOREM TypeCorrect == Spec => []TypeOK
<1>1. IInv => TypeOK
  BY DEF IInv
<1>. QED
  BY <1>1, Invariance, PTL

\* A client has one session to pay into at a time, however many requests
\* compare with a stored IOU that is gone when they save theirs.
THEOREM SingleSession == Spec => []OneActiveSession
<1>1. IInv => OneActiveSession
  BY DEF IInv
<1>. QED
  BY <1>1, Invariance, PTL

\* No session is marked as claimed that the contract did not settle: the fees
\* of a session are not lost in a stale write of claim_fees.
THEOREM NoFalseClaim == Spec => []ClaimedWasSettled
<1>1. IInv => ClaimedWasSettled
  BY DEF IInv
<1>. QED
  BY <1>1, Invariance, PTL

------------------------------------------------------------------------------
(* Sessions that expired.                                                  *)

\* A request that waits for the node's answer carries an amount: the fee is
\* not 0, so that the row it saves is one.
PositivePayments == \A w \in Workers : worker[w] # Idle => worker[w].iou.amount > 0

\* The steps that touch neither the table nor the requests under way.
LEMMA OtherSteps ==
    ASSUME Next
    PROVE  \/ \E w \in Workers : \E i \in Presented : ProcessPayment(w, i)
           \/ \E w \in Workers : DepositTooLow(w) \/ SaveIou(w)
           \/ ApiRestart
           \/ \E h \in sent : RecordClaim(h)
           \/ UNCHANGED <<iou, worker>>
<1>1. StartClaiming \/ AllSent \/ AllChecked \/ ClaimingAborted => UNCHANGED <<iou, worker>>
  BY DEF StartClaiming, AllSent, AllChecked, ClaimingAborted, PfsVars
<1>2. \A i \in ious : ClaimSkipped(i) \/ ClaimSent(i) \/ ClaimRefused(i) => UNCHANGED <<iou, worker>>
  BY DEF ClaimSkipped, ClaimSent, ClaimRefused, PfsVars
<1>3. \A h \in sent : ClaimFailed(h) => UNCHANGED <<iou, worker>>
  BY DEF ClaimFailed, PfsVars
<1>4. \A h \in DOMAIN txs : MineClaim(h) \/ MineReverted(h) => UNCHANGED <<iou, worker>>
  BY DEF MineClaim, MineReverted
<1>5. (\E s \in Senders : Deposit(s)) \/ Tick => UNCHANGED <<iou, worker>>
  BY DEF Deposit, Tick
<1>. QED
  BY <1>1, <1>2, <1>3, <1>4, <1>5 DEF Next

\* Every step keeps it.
LEMMA PositiveStep ==
    ASSUME TypeOK, PositivePayments, [Next]_vars
    PROVE  PositivePayments'
<1>1. CASE UNCHANGED <<iou, worker>>
  BY <1>1 DEF PositivePayments
<1>2. ASSUME NEW w \in Workers, NEW i \in Presented, ProcessPayment(w, i)
      PROVE  PositivePayments'
  <2>1. i.amount > 0
    BY IouConstants DEF Presented
  <2>2. worker' = [worker EXCEPT ![w] = [iou |-> i, amount |-> ExpectedAmount(i)]]
    BY <1>2 DEF ProcessPayment
  <2>3. worker'[w].iou = i /\ \A v \in Workers \ {w} : worker'[v] = worker[v]
    BY <2>2 DEF TypeOK
  <2>. QED
    BY <2>1, <2>3 DEF PositivePayments
<1>3. ASSUME NEW w \in Workers, DepositTooLow(w) \/ SaveIou(w)
      PROVE  PositivePayments'
  BY <1>3 DEF DepositTooLow, SaveIou, PositivePayments, TypeOK
<1>4. CASE ApiRestart
  BY <1>4 DEF ApiRestart, PositivePayments
<1>5. ASSUME NEW h \in sent, RecordClaim(h)
      PROVE  PositivePayments'
  BY <1>5 DEF RecordClaim, PfsVars, PositivePayments
<1>6. UNCHANGED vars => UNCHANGED <<iou, worker>>
  BY DEF vars
<1>. QED
  BY <1>1, <1>2, <1>3, <1>4, <1>5, <1>6, OtherSteps

\* What a session needs to survive a step: its row is an active one.
LEMMA ActiveRow ==
    ASSUME NEW s \in Senders, NEW t \in Sessions
    PROVE  /\ t \in Active(s) <=> iou[<<s, t>>].amount > 0 /\ ~iou[<<s, t>>].claimed
           /\ t \in Active(s)' <=> iou'[<<s, t>>].amount > 0 /\ ~iou'[<<s, t>>].claimed
BY DEF Active, Exists

\* No step ends an expired session or begins another one of the client.
LEMMA SessionStays ==
    ASSUME IInv, PositivePayments, [Next]_vars,
           NEW s \in Senders, NEW t \in Active(s), <<s, t>> \notin settled, OnlyFor(s, t)
    PROVE  t \in Active(s)' /\ OnlyFor(s, t)'
<1>. TypeOK /\ OneActiveSession /\ SuccessSettles
  BY DEF IInv
<1>. t \in Sessions /\ <<s, t>> \in Keys
  BY DEF Active, Keys
<1>1. CASE UNCHANGED <<iou, worker>>
  BY <1>1, ActiveRow DEF OnlyFor
\* The checks refuse every session of the client but the active one.
<1>2. ASSUME NEW w \in Workers, NEW i \in Presented, ProcessPayment(w, i)
      PROVE  t \in Active(s)' /\ OnlyFor(s, t)'
  <2>1. i.sender = s => i.until = t
    BY <1>2 DEF ProcessPayment, RightSession, OneActiveSession
  <2>2. worker'[w].iou = i /\ \A v \in Workers \ {w} : worker'[v] = worker[v]
    <3>1. worker' = [worker EXCEPT ![w] = [iou |-> i, amount |-> ExpectedAmount(i)]]
      BY <1>2 DEF ProcessPayment
    <3>. QED
      BY <3>1 DEF TypeOK
  <2>3. OnlyFor(s, t)'
    BY <2>1, <2>2 DEF OnlyFor
  <2>4. iou' = iou
    BY <1>2 DEF ProcessPayment
  <2>. QED
    BY <2>3, <2>4, ActiveRow
<1>3. ASSUME NEW w \in Workers, DepositTooLow(w)
      PROVE  t \in Active(s)' /\ OnlyFor(s, t)'
  <2>1. iou' = iou
    BY <1>3 DEF DepositTooLow
  <2>2. OnlyFor(s, t)'
    BY <1>3 DEF DepositTooLow, OnlyFor, TypeOK
  <2>. QED
    BY <2>1, <2>2, ActiveRow
\* A request under way pays into the session, or it is another client's.
<1>4. ASSUME NEW w \in Workers, SaveIou(w)
      PROVE  t \in Active(s)' /\ OnlyFor(s, t)'
  <2>. DEFINE i == worker[w].iou
  <2>1. worker[w] # Idle /\ Upsert(i, FALSE) /\ worker' = [worker EXCEPT ![w] = Idle]
    BY <1>4 DEF SaveIou
  <2>2. i.amount > 0 /\ (i.sender = s => i.until = t)
    BY <2>1 DEF PositivePayments, OnlyFor
  <2>3. OnlyFor(s, t)'
    BY <2>1 DEF OnlyFor, TypeOK
  <2>4. CASE i.sender = s
    <3>1. iou'[<<s, t>>] = [amount |-> i.amount, claimed |-> FALSE]
      BY <2>1, <2>2, <2>4 DEF Upsert
    <3>. QED
      BY <2>2, <2>3, <3>1, ActiveRow
  <2>5. CASE i.sender # s
    <3>1. iou'[<<s, t>>] = iou[<<s, t>>]
      BY <2>1, <2>5 DEF Upsert
    <3>. QED
      BY <2>3, <3>1, ActiveRow
  <2>. QED
    BY <2>4, <2>5
<1>5. CASE ApiRestart
  <2>1. iou' = iou
    BY <1>5 DEF ApiRestart
  <2>2. OnlyFor(s, t)'
    BY <1>5 DEF ApiRestart, OnlyFor
  <2>. QED
    BY <2>1, <2>2, ActiveRow
\* A claim that succeeded was another session's.
<1>6. ASSUME NEW h \in sent, RecordClaim(h)
      PROVE  t \in Active(s)' /\ OnlyFor(s, t)'
  <2>. DEFINE i == txs[h].of
  <2>1. <<i.sender, i.until>> # <<s, t>>
    BY <1>6 DEF RecordClaim, SuccessSettles, TypeOK
  <2>2. Upsert(i, TRUE) /\ worker' = worker
    BY <1>6 DEF RecordClaim, PfsVars
  <2>3. iou'[<<s, t>>] = iou[<<s, t>>]
    BY <2>1, <2>2 DEF Upsert
  <2>. QED
    BY <2>2, <2>3, ActiveRow DEF OnlyFor
<1>7. UNCHANGED vars => UNCHANGED <<iou, worker>>
  BY DEF vars
<1>. QED
  BY <1>1, <1>2, <1>3, <1>4, <1>5, <1>6, <1>7, OtherSteps

\* A session that expired before it was claimed stays the client's active one
\* for ever: no request, however it overlaps with others and with claim_fees,
\* begins another session or ends this one.
THEOREM DeadSessionsStay == Spec => ExpiredSessionStays
<1>1. Init => PositivePayments
  BY DEF Init, PositivePayments
<1>2. IInv /\ PositivePayments /\ [Next]_vars => PositivePayments'
  BY PositiveStep DEF IInv
<1>. DEFINE Stays == \A s \in Senders : \A t \in Active(s) :
                        now > t /\ <<s, t>> \notin settled /\ OnlyFor(s, t)
                            => t \in Active(s)' /\ OnlyFor(s, t)'
<1>3. IInv /\ PositivePayments /\ [Next]_vars => Stays
  BY SessionStays
<1>4. IInv /\ PositivePayments /\ [Next]_vars => [Stays]_vars
  BY <1>3
<1>. QED
  BY <1>1, <1>2, <1>4, Invariance, PTL DEF Spec, ExpiredSessionStays

------------------------------------------------------------------------------
(* Sums over finite sets: what is proved of them is proved from a smallest *)
(* set that contradicts it (the same lemmas as in PathRequests_proofs).    *)

\* A smallest set of a family.
Smallest(s, family) == \A t \in family : t \subseteq s => t = s

\* Every family of subsets of a finite set has one.
LEMMA SmallestSet ==
    ASSUME NEW S, IsFiniteSet(S), NEW family \in SUBSET SUBSET S, family # {}
    PROVE  \E s \in family : Smallest(s, family)
<1>1. IsWellFoundedOn(StrictSubsetOrdering(S), FiniteSubsetsOf(S))
    BY FS_StrictSubsetOrderingWellFounded
<1>2. FiniteSubsetsOf(S) = SUBSET S
    BY FS_FiniteSubsetsOfFinite
<1>3. \E s \in family : \A t \in family : ~(<<t, s>> \in StrictSubsetOrdering(S))
    BY <1>1, <1>2, WFMin
<1>4. PICK s \in family : \A t \in family : ~(<<t, s>> \in StrictSubsetOrdering(S))
    BY <1>3
<1>5. \A t \in family : t \subseteq s => t = s
  <2>1. SUFFICES ASSUME NEW t \in family, t \subseteq s, t # s
                 PROVE  <<t, s>> \in StrictSubsetOrdering(S)
      BY <1>4
  <2>. QED
      BY <2>1 DEF StrictSubsetOrdering
<1>. QED
    BY <1>4, <1>5 DEF Smallest

\* The element that a fold over a set takes first.
Picked(s) == CHOOSE x \in s : TRUE

\* The function that the fold computes, from the smaller sets to the larger ones.
IsSumOf(sum, w, S) ==
    sum = [s \in SUBSET S |-> IF s = {} THEN 0 ELSE w[Picked(s)] + sum[s \ {Picked(s)}]]

\* The sum of the values of w over a set.
Sum(w, S) == MapThenSumSet(LAMBDA x : w[x], S)

\* It is the value of that function.
LEMMA SumIs == ASSUME NEW w, NEW S PROVE Sum(w, S) = (CHOOSE sum : IsSumOf(sum, w, S))[S]
    BY Zenon DEF Sum, MapThenSumSet, MapThenFoldSet, IsSumOf, Picked

\* The element taken is one of the set.
LEMMA PickedIn == ASSUME NEW s, s # {} PROVE Picked(s) \in s
    BY DEF Picked

\* The function for a set agrees with those for its subsets.
LEMMA SumsAgree ==
    ASSUME NEW S, IsFiniteSet(S), NEW T \in SUBSET S, NEW w, NEW f, NEW g,
           IsSumOf(f, w, S), IsSumOf(g, w, T)
    PROVE  \A s \in SUBSET T : f[s] = g[s]
<1>. DEFINE differing == {s \in SUBSET T : f[s] # g[s]}
<1>1. SUFFICES ASSUME differing # {} PROVE FALSE
    OBVIOUS
<1>2. IsFiniteSet(T)
    BY FS_Subset
<1>3. PICK s \in differing : Smallest(s, differing)
  <2>. HIDE DEF differing
  <2>1. differing \in SUBSET SUBSET T
      BY DEF differing
  <2>. QED
      BY <1>1, <1>2, <2>1, SmallestSet
<1>4. s \in SUBSET T /\ s \in SUBSET S
    OBVIOUS
<1>5. f[s] = IF s = {} THEN 0 ELSE w[Picked(s)] + f[s \ {Picked(s)}]
    BY <1>4 DEF IsSumOf
<1>6. g[s] = IF s = {} THEN 0 ELSE w[Picked(s)] + g[s \ {Picked(s)}]
    BY <1>4 DEF IsSumOf
<1>7. s # {}
    BY <1>5, <1>6
<1>8. Picked(s) \in s
    BY <1>7, PickedIn
<1>9. s \ {Picked(s)} \notin differing
    BY <1>3, <1>8 DEF Smallest
<1>10. f[s \ {Picked(s)}] = g[s \ {Picked(s)}]
    BY <1>9
<1>. QED
    BY <1>5, <1>6, <1>10

\* For a finite set there is such a function.
LEMMA SumExists ==
    ASSUME NEW S, IsFiniteSet(S), NEW w PROVE \E sum : IsSumOf(sum, w, S)
<1>. DEFINE missing == {s \in SUBSET S : ~\E sum : IsSumOf(sum, w, s)}
<1>1. SUFFICES ASSUME missing # {} PROVE FALSE
    OBVIOUS
<1>2. PICK m \in missing : Smallest(m, missing)
  <2>. HIDE DEF missing
  <2>1. missing \in SUBSET SUBSET S
      BY DEF missing
  <2>. QED
      BY <1>1, <2>1, SmallestSet
<1>. DEFINE Of(r) == CHOOSE sum : IsSumOf(sum, w, r)
            Rest(s) == s \ {Picked(s)}
            total == [s \in SUBSET m |-> IF s = {} THEN 0 ELSE w[Picked(s)] + Of(Rest(s))[Rest(s)]]
<1>3. ASSUME NEW r \in SUBSET m, r # m PROVE IsSumOf(Of(r), w, r)
  <2>1. r \notin missing
      BY <1>2, <1>3 DEF Smallest
  <2>2. \E sum : IsSumOf(sum, w, r)
      BY <2>1
  <2>. QED
      BY <2>2
<1>4. ASSUME NEW s \in SUBSET m, s # {}
      PROVE  Rest(s) \in SUBSET m /\ Rest(s) # m /\ Rest(s) \subseteq s
    BY <1>4, PickedIn
<1>5. ASSUME NEW r \in SUBSET m, r # m PROVE total[r] = Of(r)[r]
  <2>. HIDE DEF Of
  <2>1. Of(r)[r] = IF r = {} THEN 0 ELSE w[Picked(r)] + Of(r)[Rest(r)]
      BY <1>3, <1>5 DEF IsSumOf
  <2>2. ASSUME r # {} PROVE Of(r)[Rest(r)] = Of(Rest(r))[Rest(r)]
    <3>1. IsSumOf(Of(Rest(r)), w, Rest(r)) /\ IsSumOf(Of(r), w, r)
        BY <1>3, <1>4, <1>5, <2>2
    <3>2. IsFiniteSet(r)
        BY FS_Subset
    <3>. HIDE DEF Rest
    <3>3. Rest(r) \in SUBSET r
        BY <1>4, <2>2
    <3>. QED
        BY <3>1, <3>2, <3>3, SumsAgree
  <2>. QED
      BY <2>1, <2>2
<1>6. total = [s \in SUBSET m |-> IF s = {} THEN 0 ELSE w[Picked(s)] + total[Rest(s)]]
  <2>1. ASSUME NEW s \in SUBSET m, s # {} PROVE total[Rest(s)] = Of(Rest(s))[Rest(s)]
    <3>. HIDE DEF Of, Rest, total
    <3>. QED
      BY <1>4, <1>5, <2>1
  <2>. HIDE DEF Of, Rest
  <2>2. ASSUME NEW s \in SUBSET m
        PROVE  (IF s = {} THEN 0 ELSE w[Picked(s)] + Of(Rest(s))[Rest(s)])
                 = (IF s = {} THEN 0 ELSE w[Picked(s)] + total[Rest(s)])
    <3>. HIDE DEF total
    <3>. QED BY <2>1
  <2>. QED
      BY <2>2, Zenon
<1>7. IsSumOf(total, w, m)
  <2>. HIDE DEF total
  <2>. QED
    BY <1>6 DEF IsSumOf
<1>. QED
  <2>. HIDE DEF total
  <2>. QED
    BY <1>2, <1>7

\* The recursion, for the sum itself.
LEMMA SumPicked ==
    ASSUME NEW S, IsFiniteSet(S), NEW w
    PROVE  Sum(w, S) = IF S = {} THEN 0 ELSE w[Picked(S)] + Sum(w, S \ {Picked(S)})
<1>. DEFINE Of(r) == CHOOSE sum : IsSumOf(sum, w, r)
            rest == S \ {Picked(S)}
<1>1. IsFiniteSet(rest)
    BY FS_RemoveElement
<1>2. IsSumOf(Of(S), w, S)
    BY SumExists
<1>3. IsSumOf(Of(rest), w, rest)
    BY <1>1, SumExists
<1>4. Sum(w, S) = Of(S)[S] /\ Sum(w, rest) = Of(rest)[rest]
    BY SumIs
<1>. HIDE DEF Of
<1>5. Of(S)[rest] = Of(rest)[rest]
  <2>. HIDE DEF rest
  <2>1. rest \in SUBSET S
    BY DEF rest
  <2>. QED
    BY <1>2, <1>3, <2>1, SumsAgree
<1>6. Of(S)[S] = IF S = {} THEN 0 ELSE w[Picked(S)] + Of(S)[rest]
    BY <1>2 DEF IsSumOf
<1>. QED
    BY <1>4, <1>5, <1>6

\* A sum of amounts is an amount.
LEMMA SumNatural ==
    ASSUME NEW S, IsFiniteSet(S), NEW w, \A x \in S : w[x] \in Nat
    PROVE  Sum(w, S) \in Nat
<1>. DEFINE wrong == {s \in SUBSET S : Sum(w, s) \notin Nat}
<1>1. SUFFICES ASSUME wrong # {} PROVE FALSE
    OBVIOUS
<1>2. PICK s \in wrong : Smallest(s, wrong)
  <2>. HIDE DEF wrong
  <2>1. wrong \in SUBSET SUBSET S
      BY DEF wrong
  <2>. QED
      BY <1>1, <2>1, SmallestSet
<1>3. IsFiniteSet(s)
    BY FS_Subset
<1>4. Sum(w, s) = IF s = {} THEN 0 ELSE w[Picked(s)] + Sum(w, s \ {Picked(s)})
    BY <1>3, SumPicked
<1>5. s # {}
    BY <1>4
<1>6. Picked(s) \in s
    BY <1>5, PickedIn
<1>7. s \ {Picked(s)} \notin wrong
    BY <1>2, <1>6 DEF Smallest
<1>8. Sum(w, s \ {Picked(s)}) \in Nat /\ w[Picked(s)] \in Nat
    BY <1>6, <1>7
<1>. QED
    BY <1>4, <1>8

\* The order does not matter: any element can be taken first.
LEMMA SumRemove ==
    ASSUME NEW S, IsFiniteSet(S), NEW w, \A x \in S : w[x] \in Nat, NEW x \in S
    PROVE  Sum(w, S) = w[x] + Sum(w, S \ {x})
<1>. DEFINE wrong == {s \in SUBSET S : \E y \in s : Sum(w, s) # w[y] + Sum(w, s \ {y})}
<1>1. SUFFICES ASSUME wrong # {} PROVE FALSE
    OBVIOUS
<1>2. PICK s \in wrong : Smallest(s, wrong)
  <2>. HIDE DEF wrong
  <2>1. wrong \in SUBSET SUBSET S
      BY DEF wrong
  <2>. QED
      BY <1>1, <2>1, SmallestSet
<1>3. PICK y \in s : Sum(w, s) # w[y] + Sum(w, s \ {y})
    BY <1>2
<1>. DEFINE z == Picked(s)
<1>4. z \in s
    BY <1>3, PickedIn
<1>5. IsFiniteSet(s) /\ IsFiniteSet(s \ {y}) /\ IsFiniteSet(s \ {y, z}) /\ IsFiniteSet(s \ {z})
    BY FS_Subset
<1>6. Sum(w, s) = w[z] + Sum(w, s \ {z})
    BY <1>3, <1>5, SumPicked
<1>. HIDE DEF z
<1>7. y # z
    BY <1>3, <1>6
<1>8. s \ {z} \notin wrong /\ s \ {y} \notin wrong
    BY <1>2, <1>4 DEF Smallest
<1>9. Sum(w, s \ {z}) = w[y] + Sum(w, (s \ {z}) \ {y})
    BY <1>3, <1>7, <1>8
<1>10. Sum(w, s \ {y}) = w[z] + Sum(w, (s \ {y}) \ {z})
    BY <1>4, <1>7, <1>8
<1>11. (s \ {y}) \ {z} = s \ {y, z} /\ (s \ {z}) \ {y} = s \ {y, z}
    OBVIOUS
<1>12. Sum(w, s \ {y, z}) \in Nat /\ w[y] \in Nat /\ w[z] \in Nat
    BY <1>4, <1>5, SumNatural
<1>13. Sum(w, s \ {z}) = w[y] + Sum(w, s \ {y, z}) /\ Sum(w, s \ {y}) = w[z] + Sum(w, s \ {y, z})
    BY <1>9, <1>10, <1>11
<1>. HIDE DEF wrong
<1>. QED
    BY <1>3, <1>6, <1>12, <1>13

\* The sum depends on the values at the elements of the set.
LEMMA SumSame ==
    ASSUME NEW S, IsFiniteSet(S), NEW v, NEW w, \A x \in S : v[x] = w[x]
    PROVE  Sum(v, S) = Sum(w, S)
<1>. DEFINE wrong == {s \in SUBSET S : Sum(v, s) # Sum(w, s)}
<1>1. SUFFICES ASSUME wrong # {} PROVE FALSE
    OBVIOUS
<1>2. PICK s \in wrong : Smallest(s, wrong)
  <2>. HIDE DEF wrong
  <2>1. wrong \in SUBSET SUBSET S
      BY DEF wrong
  <2>. QED
      BY <1>1, <2>1, SmallestSet
<1>3. IsFiniteSet(s)
    BY FS_Subset
<1>4. /\ Sum(v, s) = IF s = {} THEN 0 ELSE v[Picked(s)] + Sum(v, s \ {Picked(s)})
      /\ Sum(w, s) = IF s = {} THEN 0 ELSE w[Picked(s)] + Sum(w, s \ {Picked(s)})
    BY <1>3, SumPicked
<1>5. s # {}
    BY <1>4
<1>6. Picked(s) \in s
    BY <1>5, PickedIn
<1>7. s \ {Picked(s)} \notin wrong
    BY <1>2, <1>6 DEF Smallest
<1>8. Sum(v, s \ {Picked(s)}) = Sum(w, s \ {Picked(s)}) /\ v[Picked(s)] = w[Picked(s)]
    BY <1>6, <1>7
<1>. QED
    BY <1>4, <1>8

\* A client's IOUs, by session.
AmountsOf(s) == [t \in Sessions |-> iou[<<s, t>>].amount]

\* What a client paid is their sum.
LEMMA PaidIsSum ==
    ASSUME NEW s
    PROVE  Paid(s) = Sum(AmountsOf(s), Sessions)
<1>. DEFINE w == AmountsOf(s)
            S == Sessions
            F(sum) == [q \in SUBSET S |-> IF q = {} THEN 0 ELSE w[Picked(q)] + sum[q \ {Picked(q)}]]
            H(sum) == [q \in SUBSET S |-> IF q = {} THEN 0
                                          ELSE iou[<<s, Picked(q)>>].amount + sum[q \ {Picked(q)}]]
<1>1. ASSUME NEW sum PROVE F(sum) = H(sum)
  <2>1. ASSUME NEW t \in S PROVE w[t] = iou[<<s, t>>].amount
      BY DEF AmountsOf
  <2>. HIDE DEF w
  <2>2. ASSUME NEW q \in SUBSET S
        PROVE  (IF q = {} THEN 0 ELSE w[Picked(q)] + sum[q \ {Picked(q)}])
                   = (IF q = {} THEN 0 ELSE iou[<<s, Picked(q)>>].amount + sum[q \ {Picked(q)}])
      BY <2>1, PickedIn
  <2>. QED
      BY <2>2, Zenon
<1>2. Paid(s) = (CHOOSE sum : sum = H(sum))[S]
    BY Zenon DEF Paid, MapThenSumSet, MapThenFoldSet, Picked
<1>3. Sum(w, S) = (CHOOSE sum : sum = F(sum))[S]
    BY Zenon, SumIs DEF IsSumOf
<1>. HIDE DEF F, H
<1>. QED
    BY <1>1, <1>2, <1>3, Zenon

\* So it is in the state after a step.
LEMMA PaidIsSumAlways == (\A s : Paid(s) = Sum(AmountsOf(s), Sessions))'
<1>1. \A s : Paid(s) = Sum(AmountsOf(s), Sessions)
    BY PaidIsSum
<1>. QED
    BY <1>1, PTL

\* What a client paid is an amount.
LEMMA PaidNatural ==
    ASSUME NEW s, \A t \in Sessions : iou'[<<s, t>>].amount \in Nat
    PROVE  Paid(s)' \in Nat
<1>1. PICK w : w = AmountsOf(s)'
    OBVIOUS
<1>2. \A t \in Sessions : w[t] \in Nat
    BY <1>1 DEF AmountsOf
<1>3. Paid(s)' = Sum(w, Sessions)
    BY <1>1, PaidIsSumAlways
<1>. QED
    BY <1>2, <1>3, SumNatural, IouConstants

\* Where no amount of the client changes, what it paid does not.
LEMMA PaidSame ==
    ASSUME NEW s, \A t \in Sessions : iou'[<<s, t>>].amount = iou[<<s, t>>].amount
    PROVE  Paid(s)' = Paid(s)
<1>1. AmountsOf(s)' = AmountsOf(s)
    BY DEF AmountsOf
<1>2. Paid(s)' = Sum(AmountsOf(s)', Sessions)
    BY PaidIsSumAlways
<1>. QED
    BY <1>1, <1>2, PaidIsSum

\* Where one amount grows, what the client paid grows as much.
LEMMA PaidGrows ==
    ASSUME TypeOK, TypeOK', NEW s \in Senders, NEW u \in Sessions, NEW d \in Nat,
           iou'[<<s, u>>].amount >= iou[<<s, u>>].amount + d,
           \A t \in Sessions \ {u} : iou'[<<s, t>>].amount = iou[<<s, t>>].amount
    PROVE  Paid(s) \in Nat /\ Paid(s)' >= Paid(s) + d
<1>. DEFINE v == AmountsOf(s)
<1>1. PICK w : w = AmountsOf(s)'
    OBVIOUS
<1>2. \A t \in Sessions : <<s, t>> \in Keys
    BY DEF Keys
<1>3. \A t \in Sessions : v[t] \in Nat /\ v[t] = iou[<<s, t>>].amount
    BY <1>2 DEF AmountsOf, TypeOK, Rows
<1>4. \A t \in Sessions : w[t] \in Nat /\ w[t] = iou'[<<s, t>>].amount
    BY <1>1, <1>2 DEF AmountsOf, TypeOK, Rows
<1>5. Paid(s) = Sum(v, Sessions) /\ Paid(s)' = Sum(w, Sessions)
  <2>1. Paid(s)' = Sum(AmountsOf(s)', Sessions)
      BY PaidIsSumAlways
  <2>. QED
      BY <1>1, <2>1, PaidIsSum
<1>6. IsFiniteSet(Sessions) /\ IsFiniteSet(Sessions \ {u})
    BY IouConstants, FS_RemoveElement
<1>. HIDE DEF v
<1>7. /\ Sum(v, Sessions) = v[u] + Sum(v, Sessions \ {u})
      /\ Sum(w, Sessions) = w[u] + Sum(w, Sessions \ {u})
    BY <1>3, <1>4, <1>6, SumRemove
<1>8. Sum(v, Sessions \ {u}) = Sum(w, Sessions \ {u})
    BY <1>3, <1>4, <1>6, SumSame
<1>9. Sum(v, Sessions \ {u}) \in Nat
    BY <1>3, <1>6, SumNatural
<1>10. w[u] >= v[u] + d /\ w[u] \in Nat /\ v[u] \in Nat
    BY <1>3, <1>4
<1>. QED
    BY <1>5, <1>7, <1>8, <1>9, <1>10

------------------------------------------------------------------------------
(* Every request is paid for.                                              *)

\* The primary key of an IOU's row.
Key(i) == <<i.sender, i.until>>

\* The IOU pays for one more request of the session that the table knows now.
Continues(i) ==
    /\ Active(i.sender) \subseteq {i.until}
    /\ i.amount >= iou[Key(i)].amount + Fee

\* claim_fees leaves nothing behind: it checks when all claims are sent.
IdleInv == (cpc # "claim" => ious = {}) /\ (cpc = "idle" => sent = {})

\* Without overlaps there is one request at a time, and none while claim_fees
\* runs; what the request compared with is still in the table, and so are the
\* amounts that claim_fees read.
SerialInv ==
    ~overlap =>
        /\ \A v, w \in Workers : worker[v] # Idle /\ worker[w] # Idle => v = w
        /\ \A w \in Workers : worker[w] # Idle => cpc = "idle" /\ Continues(worker[w].iou)
        /\ \A i \in ious : i.amount = iou[Key(i)].amount
        /\ \A h \in sent : txs[h].of.amount = iou[Key(txs[h].of)].amount

\* The inductive invariant behind PaidForServed.
PaidInv == IInv /\ IdleInv /\ SerialInv /\ PaidForServed

\* Steps that touch neither the table nor the history keep the account.
LEMMA AccountSame ==
    ASSUME PaidForServed, UNCHANGED served, overlap => overlap',
           \A s \in Senders : \A t \in Sessions : iou'[<<s, t>>].amount = iou[<<s, t>>].amount
    PROVE  PaidForServed'
<1>1. \A s \in Senders : Paid(s)' = Paid(s)
    BY PaidSame
<1>2. \A s \in Senders : ServedTo(s)' = ServedTo(s)
    BY DEF ServedTo
<1>. QED
    BY <1>1, <1>2 DEF PaidForServed

\* Where the table stays, an IOU that continued a session does so still.
LEMMA ContinuesSame ==
    ASSUME UNCHANGED iou, NEW i
    PROVE  Continues(i)' <=> Continues(i)
BY DEF Continues, Active, Exists, Key

\* The checks: the request is the only one, or there is an overlap.
LEMMA ProcessPaymentPaid ==
    ASSUME PaidInv, NEW w \in Workers, NEW i \in Presented, ProcessPayment(w, i)
    PROVE  IdleInv' /\ SerialInv' /\ PaidForServed'
<1>. TypeOK /\ OneActiveSession /\ IdleInv /\ SerialInv /\ PaidForServed
  BY DEF PaidInv, IInv
<1>1. /\ RightSession(i) /\ i.amount >= ExpectedAmount(i) /\ worker[w] = Idle
      /\ worker' = [worker EXCEPT ![w] = [iou |-> i, amount |-> ExpectedAmount(i)]]
      /\ UNCHANGED <<iou, txs, cpc, ious, sent, served>>
      /\ overlap' = (overlap \/ cpc # "idle" \/ \E v \in Workers : worker[v] # Idle)
  BY DEF ProcessPayment
<1>2. i \in IOUs /\ i.sender \in Senders /\ i.until \in Sessions /\ Key(i) \in Keys
  BY IouConstants DEF Presented, IOUs, Key, Keys
<1>3. iou[Key(i)].amount \in Nat
  BY <1>2 DEF TypeOK, Rows
<1>4. Continues(i)
  <2>1. CASE Active(i.sender) # {}
    <3>1. i.until \in Active(i.sender) /\ i.amount >= iou[Key(i)].amount + Fee
      BY <1>1, <2>1 DEF RightSession, ExpectedAmount, Key
    <3>2. Active(i.sender) \subseteq {i.until}
      BY <1>2, <3>1 DEF OneActiveSession
    <3>. QED
      BY <3>1, <3>2 DEF Continues
  <2>2. CASE Active(i.sender) = {}
    <3>1. ~(iou[Key(i)].amount > 0) /\ i.amount >= Fee
      BY <1>1, <2>2 DEF RightSession, ExpectedAmount, Key, Exists
    <3>2. iou[Key(i)].amount = 0
      BY <1>3, <3>1
    <3>3. i.amount >= iou[Key(i)].amount + Fee
      BY <3>1, <3>2, IouConstants
    <3>. QED
      BY <2>2, <3>3 DEF Continues
  <2>. QED
    BY <2>1, <2>2
<1>5. worker'[w].iou = i /\ \A v \in Workers \ {w} : worker'[v] = worker[v]
  BY <1>1 DEF TypeOK
<1>6. overlap => overlap'
  BY <1>1
<1>7. PaidForServed'
  BY <1>1, <1>6, AccountSame
<1>8. SerialInv'
  <2>1. SUFFICES ASSUME ~overlap' PROVE SerialInv'
    BY DEF SerialInv
  <2>2. ~overlap /\ cpc = "idle" /\ \A v \in Workers : worker[v] = Idle
    BY <1>1, <2>1
  <2>3. ious' = {} /\ sent' = {} /\ cpc' = "idle"
    BY <1>1, <2>2 DEF IdleInv
  <2>4. \A v \in Workers : worker'[v] # Idle => v = w
    BY <1>5, <2>2
  <2>5. Continues(i)'
    BY <1>1, <1>4, ContinuesSame
  <2>6. \A v \in Workers : worker'[v] # Idle => Continues(worker[v].iou)'
    <3>1. (Continues(worker[w].iou))' <=> (Continues(i))'
      BY <1>5 DEF Continues, Key
    <3>. QED
      BY <2>4, <2>5, <3>1
  <2>. QED
    BY <2>3, <2>4, <2>6 DEF SerialInv
<1>. QED
  BY <1>1, <1>7, <1>8 DEF IdleInv

\* The save: the client's amounts grow by the fee and none of them goes.
LEMMA SaveIouPaid ==
    ASSUME PaidInv, NEW w \in Workers, SaveIou(w)
    PROVE  IdleInv' /\ SerialInv' /\ PaidForServed'
<1>. TypeOK /\ IdleInv /\ SerialInv /\ PaidForServed
  BY DEF PaidInv, IInv
<1>. DEFINE i == worker[w].iou
<1>1. /\ worker[w] # Idle /\ Upsert(i, FALSE) /\ served' = Append(served, i)
      /\ worker' = [worker EXCEPT ![w] = Idle] /\ UNCHANGED <<txs, cpc, ious, sent, overlap>>
  BY DEF SaveIou
<1>2. i \in IOUs /\ i.sender \in Senders /\ i.until \in Sessions /\ Key(i) \in Keys /\ i.amount \in Nat
  BY <1>1 DEF TypeOK, IOUs, Key, Keys
<1>3. IdleInv'
  BY <1>1 DEF IdleInv
<1>. SUFFICES ASSUME ~overlap PROVE SerialInv' /\ PaidForServed'
  BY <1>1, <1>3 DEF SerialInv, PaidForServed
<1>4. cpc = "idle" /\ Continues(i) /\ \A v \in Workers : worker'[v] = Idle
  BY <1>1 DEF SerialInv, TypeOK
<1>5. SerialInv'
  BY <1>1, <1>4 DEF IdleInv, SerialInv
<1>. HIDE DEF i
<1>6. TypeOK'
  BY RequestsKeep DEF PaidInv, IInv
<1>7. iou'[<<i.sender, i.until>>].amount >= iou[<<i.sender, i.until>>].amount + Fee
  <2>1. iou'[<<i.sender, i.until>>] = [amount |-> i.amount, claimed |-> FALSE]
    BY <1>1, <1>2 DEF Upsert, Key
  <2>. QED
    BY <1>4, <2>1 DEF Continues, Key
<1>8. ASSUME NEW s \in Senders, NEW t \in Sessions, <<s, t>> # <<i.sender, i.until>>
      PROVE  iou'[<<s, t>>].amount = iou[<<s, t>>].amount
  <2>1. <<s, t>> \in Keys /\ iou[<<s, t>>].amount \in Nat
    BY DEF Keys, TypeOK, Rows
  <2>2. CASE s = i.sender /\ ~iou[<<s, t>>].claimed
    <3>1. t \notin Active(i.sender)
      BY <1>4, <1>8, <2>2 DEF Continues
    <3>2. ~(iou[<<s, t>>].amount > 0)
      BY <2>2, <3>1 DEF Active, Exists
    <3>3. iou'[<<s, t>>] = NoRow
      BY <1>1, <1>8, <2>1, <2>2 DEF Upsert
    <3>. QED
      BY <2>1, <3>2, <3>3 DEF NoRow
  <2>3. CASE ~(s = i.sender /\ ~iou[<<s, t>>].claimed)
    <3>1. iou'[<<s, t>>] = iou[<<s, t>>]
      BY <1>1, <1>8, <2>1, <2>3 DEF Upsert
    <3>. QED
      BY <3>1
  <2>. QED
    BY <2>2, <2>3
<1>9. /\ served \in Seq(IOUs) /\ Len(served) \in Nat /\ DOMAIN served = 1 .. Len(served)
      /\ DOMAIN served' = 1 .. Len(served) + 1 /\ served'[Len(served) + 1] = i
      /\ \A n \in 1 .. Len(served) : served'[n] = served[n]
  BY <1>1, <1>2 DEF TypeOK
<1>10. \A s \in Senders : IsFiniteSet(ServedTo(s))
  <2>1. IsFiniteSet(1 .. Len(served))
    BY <1>9, FS_Interval
  <2>. QED
    BY <1>9, <2>1, FS_Subset DEF ServedTo
<1>11. ASSUME NEW s \in Senders
       PROVE  Cardinality(ServedTo(s)') * Fee <= Paid(s)'
  <2>1. Cardinality(ServedTo(s)) * Fee <= Paid(s) /\ Cardinality(ServedTo(s)) \in Nat
    BY <1>10, FS_CardinalityType DEF PaidForServed
  <2>2. CASE s = i.sender
    <3>1. ServedTo(s)' = ServedTo(s) \cup {Len(served) + 1} /\ Len(served) + 1 \notin ServedTo(s)
      BY <1>9, <2>2 DEF ServedTo
    <3>2. Cardinality(ServedTo(s)') = Cardinality(ServedTo(s)) + 1
      BY <1>10, <3>1, FS_AddElement
    <3>3. Paid(s) \in Nat /\ Paid(s)' >= Paid(s) + Fee
      BY <1>2, <1>6, <1>7, <1>8, <2>2, PaidGrows, IouConstants
    <3>4. Paid(s)' \in Int
      <4>1. \A t \in Sessions : iou'[<<s, t>>].amount \in Nat
        BY <1>6 DEF TypeOK, Rows, Keys
      <4>2. Paid(s)' \in Nat
        BY <4>1, PaidNatural
      <4>. QED
        BY <4>2
    <3>5. PICK c, p, q : c = Cardinality(ServedTo(s)) /\ p = Paid(s) /\ q = Paid(s)'
      OBVIOUS
    <3>6. (c + 1) * Fee <= q
      <4>1. c \in Nat /\ p \in Nat /\ q \in Int /\ c * Fee <= p /\ q >= p + Fee /\ Fee \in Nat
        BY <2>1, <3>3, <3>4, <3>5, IouConstants
      <4>2. (c + 1) * Fee = c * Fee + Fee /\ c * Fee \in Nat
        BY <4>1
      <4>. QED
        BY <4>1, <4>2
    <3>. QED
      BY <3>2, <3>5, <3>6
  <2>3. CASE s # i.sender
    <3>1. ServedTo(s)' = ServedTo(s)
      BY <1>9, <2>3 DEF ServedTo
    <3>2. Paid(s)' = Paid(s)
      BY <1>8, <2>3, PaidSame
    <3>. QED
      BY <2>1, <3>1, <3>2
  <2>. QED
    BY <2>2, <2>3
<1>12. PaidForServed'
  BY <1>11 DEF PaidForServed
<1>. QED
  BY <1>5, <1>12

\* A request ends without a trace.
LEMMA RequestGone ==
    ASSUME PaidInv, UNCHANGED <<iou, txs, cpc, ious, sent, served, overlap>>,
           \A w \in Workers : worker'[w] \in {worker[w], Idle}
    PROVE  IdleInv' /\ SerialInv' /\ PaidForServed'
<1>. IdleInv /\ SerialInv /\ PaidForServed
  BY DEF PaidInv
<1>1. IdleInv' /\ PaidForServed'
  BY AccountSame DEF IdleInv
<1>2. SUFFICES ASSUME ~overlap PROVE SerialInv'
  BY <1>1 DEF SerialInv
<1>3. \A w \in Workers : worker'[w] # Idle => worker[w] # Idle /\ worker'[w] = worker[w]
  OBVIOUS
<1>4. ASSUME NEW w \in Workers, worker'[w] # Idle
      PROVE  cpc' = "idle" /\ Continues(worker[w].iou)'
  <2>1. cpc = "idle" /\ Continues(worker[w].iou) /\ worker'[w] = worker[w]
    BY <1>2, <1>3, <1>4 DEF SerialInv
  <2>. QED
    BY <2>1 DEF Continues, Active, Exists, Key
<1>5. \A v, w \in Workers : worker'[v] # Idle /\ worker'[w] # Idle => v = w
  BY <1>2, <1>3 DEF SerialInv
<1>6. \A i \in ious' : i.amount = iou'[Key(i)].amount
  BY <1>2 DEF SerialInv
<1>7. \A h \in sent' : txs'[h].of.amount = iou'[Key(txs'[h].of)].amount
  BY <1>2 DEF SerialInv
<1>. QED
  BY <1>4, <1>5, <1>6, <1>7 DEF SerialInv, Key

\* A step of claim_fees or of the contracts: the copies it keeps are those it
\* had, or they are in the table.
LEMMA CopiesKept ==
    ASSUME PaidInv, UNCHANGED <<iou, worker, served, overlap>>,
           cpc = "idle" => cpc' = "idle", IdleInv',
           ~overlap => \A i \in ious' : i.amount = iou[Key(i)].amount,
           ~overlap => \A h \in sent' : txs'[h].of.amount = iou[Key(txs'[h].of)].amount
    PROVE  IdleInv' /\ SerialInv' /\ PaidForServed'
<1>. IdleInv /\ SerialInv /\ PaidForServed
  BY DEF PaidInv
<1>1. PaidForServed'
  BY AccountSame
<1>2. SUFFICES ASSUME ~overlap PROVE SerialInv'
  BY <1>1 DEF SerialInv
<1>3. ASSUME NEW w \in Workers, worker'[w] # Idle
      PROVE  cpc' = "idle" /\ Continues(worker[w].iou)'
  <2>1. cpc = "idle" /\ Continues(worker[w].iou)
    BY <1>2, <1>3 DEF SerialInv
  <2>. QED
    BY <2>1 DEF Continues, Active, Exists, Key
<1>4. \A v, w \in Workers : worker'[v] # Idle /\ worker'[w] # Idle => v = w
  BY <1>2 DEF SerialInv
<1>. QED
  BY <1>2, <1>3, <1>4 DEF SerialInv, Key

\* claim_fees reads the table.
LEMMA StartClaimingPaid ==
    ASSUME PaidInv, StartClaiming
    PROVE  IdleInv' /\ SerialInv' /\ PaidForServed'
<1>. IdleInv /\ SerialInv /\ PaidForServed
  BY DEF PaidInv
<1>1. /\ cpc = "idle" /\ cpc' = "claim"
      /\ ious' = {StoredIou(k) : k \in {k \in Keys : Claimable(k)}}
      /\ overlap' = (overlap \/ \E w \in Workers : worker[w] # Idle)
      /\ UNCHANGED <<worker, served, iou, txs, sent>>
  BY DEF StartClaiming
<1>2. IdleInv' /\ sent' = {}
  BY <1>1 DEF IdleInv
<1>3. overlap => overlap'
  BY <1>1
<1>4. PaidForServed'
  BY <1>1, <1>3, AccountSame
<1>5. \A i \in ious' : i.amount = iou'[Key(i)].amount
  <2>1. ASSUME NEW k \in Keys PROVE StoredIou(k).amount = iou[Key(StoredIou(k))].amount
    <3>1. PICK s \in Senders, t \in Sessions : k = <<s, t>>
      BY DEF Keys
    <3>2. Key(StoredIou(k)) = k
      BY <3>1 DEF Key, StoredIou
    <3>. QED
      BY <3>2 DEF StoredIou
  <2>. QED
    BY <1>1, <2>1
<1>6. ~overlap' => \A w \in Workers : worker'[w] = Idle
  BY <1>1
<1>7. SerialInv'
  BY <1>2, <1>5, <1>6 DEF SerialInv, Key
<1>. QED
  BY <1>2, <1>4, <1>7

\* claim_fees sends a claim, or does not.
LEMMA ClaimPaid ==
    ASSUME PaidInv, NEW i \in ious, ClaimSkipped(i) \/ ClaimSent(i) \/ ClaimRefused(i)
    PROVE  IdleInv' /\ SerialInv' /\ PaidForServed'
<1>. TypeOK /\ SerialInv /\ IdleInv
  BY DEF PaidInv, IInv
<1>1. CASE ClaimSkipped(i) \/ ClaimRefused(i)
  <2>1. /\ UNCHANGED <<iou, worker, served, overlap, txs>> /\ cpc = "claim"
        /\ ious' \subseteq ious /\ sent' \subseteq sent /\ (cpc' = "claim" \/ (ious' = {} /\ sent' = {}))
    BY <1>1 DEF ClaimSkipped, ClaimRefused, PfsVars
  <2>. QED
    BY <2>1, CopiesKept DEF IdleInv, SerialInv
<1>2. CASE ClaimSent(i)
  <2>1. /\ UNCHANGED <<iou, worker, served, overlap, cpc>> /\ cpc = "claim" /\ ious' \subseteq ious
        /\ sent' = sent \cup {Len(txs) + 1} /\ txs' = Append(txs, [of |-> i, status |-> "pending"])
    BY <1>2 DEF ClaimSent, PfsVars
  <2>2. /\ txs \in Seq(Claims) /\ sent \subseteq DOMAIN txs
        /\ [of |-> i, status |-> "pending"] \in Claims
    BY DEF TypeOK, Claims
  <2>3. txs'[Len(txs) + 1].of = i /\ \A h \in sent : txs'[h] = txs[h]
    BY <2>1, <2>2
  <2>4. ~overlap => \A h \in sent' : txs'[h].of.amount = iou[Key(txs'[h].of)].amount
    <3>1. SUFFICES ASSUME ~overlap, NEW h \in sent' PROVE txs'[h].of.amount = iou[Key(txs'[h].of)].amount
      OBVIOUS
    <3>2. CASE h \in sent
      BY <2>3, <3>1, <3>2 DEF SerialInv
    <3>3. CASE h = Len(txs) + 1
      BY <2>3, <3>1, <3>3 DEF SerialInv
    <3>. QED
      BY <2>1, <3>2, <3>3
  <2>5. ~overlap => \A j \in ious' : j.amount = iou[Key(j)].amount
    BY <2>1 DEF SerialInv
  <2>6. IdleInv'
    BY <2>1 DEF IdleInv
  <2>. QED
    BY <2>1, <2>4, <2>5, <2>6, CopiesKept
<1>. QED
  BY <1>1, <1>2

\* A claim is recorded: the copy has the amount of the row it replaces.
LEMMA RecordClaimPaid ==
    ASSUME PaidInv, NEW h \in sent, RecordClaim(h)
    PROVE  IdleInv' /\ SerialInv' /\ PaidForServed'
<1>. TypeOK /\ SerialInv /\ IdleInv /\ PaidForServed
  BY DEF PaidInv, IInv
<1>. DEFINE i == txs[h].of
<1>1. /\ cpc = "check" /\ sent' = sent \ {h} /\ Upsert(i, TRUE)
      /\ UNCHANGED <<worker, served, overlap, txs, cpc, ious>>
  BY DEF RecordClaim, PfsVars
<1>2. IdleInv'
  BY <1>1 DEF IdleInv
<1>3. SUFFICES ASSUME ~overlap PROVE SerialInv' /\ PaidForServed'
  BY <1>1, <1>2 DEF SerialInv, PaidForServed
<1>4. i.amount = iou[Key(i)].amount /\ \A w \in Workers : worker[w] = Idle
  BY <1>1, <1>3 DEF SerialInv
<1>5. \A k \in Keys : iou'[k].amount = iou[k].amount
  BY <1>1, <1>4 DEF Upsert, Key
<1>6. \A s \in Senders : \A t \in Sessions : iou'[<<s, t>>].amount = iou[<<s, t>>].amount
  BY <1>5 DEF Keys
<1>7. PaidForServed'
  BY <1>1, <1>6, AccountSame
<1>8. \A j \in IOUs : Key(j) \in Keys
  BY DEF IOUs, Key, Keys
<1>9. \A j \in ious' : j.amount = iou'[Key(j)].amount
  BY <1>1, <1>3, <1>5, <1>8 DEF SerialInv, TypeOK
<1>10. ASSUME NEW g \in sent' PROVE txs'[g].of.amount = iou'[Key(txs'[g].of)].amount
  <2>1. g \in sent /\ txs'[g] = txs[g]
    BY <1>1
  <2>2. txs[g] \in Claims
    BY <2>1 DEF TypeOK
  <2>3. txs[g].of \in IOUs
    BY <2>2 DEF Claims
  <2>. QED
    BY <1>3, <1>5, <1>8, <2>1, <2>3 DEF SerialInv
<1>11. SerialInv'
  BY <1>1, <1>4, <1>9, <1>10 DEF SerialInv, Key
<1>. QED
  BY <1>7, <1>11

\* The other steps leave the table, the requests and the copies alone.
LEMMA OthersPaid ==
    ASSUME PaidInv,
           \/ AllSent \/ AllChecked \/ ClaimingAborted \/ Tick
           \/ \E h \in sent : ClaimFailed(h)
           \/ \E h \in DOMAIN txs : MineClaim(h) \/ MineReverted(h)
           \/ \E s \in Senders : Deposit(s)
           \/ UNCHANGED vars
    PROVE  IdleInv' /\ SerialInv' /\ PaidForServed'
<1>. TypeOK /\ SerialInv /\ IdleInv
  BY DEF PaidInv, IInv
<1>1. UNCHANGED <<iou, worker, served, overlap>>
  BY DEF AllSent, AllChecked, ClaimingAborted, Tick, ClaimFailed, MineClaim, MineReverted, Deposit, vars, PfsVars
<1>2. ious' \subseteq ious /\ sent' \subseteq sent /\ (cpc = "idle" => cpc' = "idle")
  BY DEF AllSent, AllChecked, ClaimingAborted, Tick, ClaimFailed, MineClaim, MineReverted, Deposit, vars, PfsVars
<1>3. IdleInv'
  <2>1. CASE AllSent \/ ClaimingAborted \/ \E h \in sent : ClaimFailed(h)
    BY <2>1 DEF AllSent, ClaimingAborted, ClaimFailed, IdleInv
  <2>2. CASE AllChecked
    BY <2>2 DEF AllChecked, IdleInv
  <2>3. CASE UNCHANGED <<cpc, ious, sent>>
    BY <2>3 DEF IdleInv
  <2>. QED
    BY <2>1, <2>2, <2>3 DEF Tick, MineClaim, MineReverted, Deposit, vars
<1>4. \A g \in DOMAIN txs : txs'[g].of = txs[g].of
  <2>1. ASSUME NEW h \in DOMAIN txs, MineClaim(h) \/ MineReverted(h)
        PROVE  \A g \in DOMAIN txs : txs'[g].of = txs[g].of
    <3>1. PICK st : txs' = [txs EXCEPT ![h].status = st]
      BY <2>1 DEF MineClaim, MineReverted
    <3>2. \A g \in DOMAIN txs : txs[g] \in Claims
      BY DEF TypeOK
    <3>3. \A g \in DOMAIN txs : txs'[g] = IF g = h THEN [txs[g] EXCEPT !.status = st] ELSE txs[g]
      BY <3>1
    <3>. QED
      BY <3>2, <3>3 DEF Claims
  <2>2. CASE txs' = txs
    BY <2>2
  <2>. QED
    BY <2>1, <2>2 DEF AllSent, AllChecked, ClaimingAborted, Tick, ClaimFailed, Deposit, vars
<1>5. ~overlap => \A i \in ious' : i.amount = iou[Key(i)].amount
  BY <1>2 DEF SerialInv
<1>6. ~overlap => \A h \in sent' : txs'[h].of.amount = iou[Key(txs'[h].of)].amount
  <2>1. \A h \in sent' : h \in sent /\ txs'[h].of = txs[h].of
    BY <1>2, <1>4 DEF TypeOK
  <2>. QED
    BY <2>1 DEF SerialInv
<1>. QED
  BY <1>1, <1>2, <1>3, <1>5, <1>6, CopiesKept

\* At the beginning nothing was served.
LEMMA PaidInit == Init => PaidInv
<1>. SUFFICES ASSUME Init PROVE PaidInv
  OBVIOUS
<1>1. IInv /\ IdleInv /\ SerialInv
  BY InitEstablishes DEF Init, IdleInv, SerialInv
<1>2. ASSUME NEW s \in Senders PROVE Cardinality(ServedTo(s)) * Fee <= Paid(s)
  <2>1. ServedTo(s) = {}
    BY DEF Init, ServedTo
  <2>2. Paid(s) \in Nat
    <3>1. \A t \in Sessions : AmountsOf(s)[t] \in Nat
      BY <1>1 DEF IInv, TypeOK, Rows, Keys, AmountsOf
    <3>. QED
      BY <3>1, PaidIsSum, SumNatural, IouConstants
  <2>3. Cardinality(ServedTo(s)) = 0
    BY <2>1, FS_EmptySet
  <2>. QED
    BY <2>2, <2>3, IouConstants
<1>. QED
  BY <1>1, <1>2 DEF PaidInv, PaidForServed

\* Every step keeps the account.
LEMMA PaidStep == PaidInv /\ [Next]_vars => PaidInv'
<1>. SUFFICES ASSUME PaidInv, [Next]_vars PROVE PaidInv'
  OBVIOUS
<1>1. IInv'
  BY StepPreserves DEF PaidInv
<1>. DEFINE Goal == IdleInv' /\ SerialInv' /\ PaidForServed'
<1>2. ASSUME NEW w \in Workers, DepositTooLow(w) PROVE Goal
  <2>1. worker' = [worker EXCEPT ![w] = Idle] /\ UNCHANGED <<iou, txs, cpc, ious, sent, served, overlap>>
    BY <1>2 DEF DepositTooLow
  <2>2. \A v \in Workers : worker'[v] \in {worker[v], Idle}
    BY <2>1 DEF PaidInv, IInv, TypeOK
  <2>. QED
    BY <2>1, <2>2, RequestGone
<1>3. CASE ApiRestart
  <2>1. UNCHANGED <<iou, txs, cpc, ious, sent, served, overlap>> /\ \A v \in Workers : worker'[v] \in {worker[v], Idle}
    BY <1>3 DEF ApiRestart
  <2>2. Goal
    BY <2>1, RequestGone
  <2>. QED
    BY <1>1, <2>2 DEF PaidInv
<1>. HIDE DEF Goal
<1>4. ASSUME NEW w \in Workers PROVE (\A i \in Presented : ProcessPayment(w, i) => Goal) /\ (SaveIou(w) => Goal)
  BY ProcessPaymentPaid, SaveIouPaid DEF Goal
<1>5. (StartClaiming => Goal) /\ \A i \in ious : ClaimSkipped(i) \/ ClaimSent(i) \/ ClaimRefused(i) => Goal
  BY StartClaimingPaid, ClaimPaid DEF Goal
<1>6. \A h \in sent : RecordClaim(h) => Goal
  BY RecordClaimPaid DEF Goal
<1>7. \/ AllSent \/ AllChecked \/ ClaimingAborted \/ Tick
      \/ \E h \in sent : ClaimFailed(h)
      \/ \E h \in DOMAIN txs : MineClaim(h) \/ MineReverted(h)
      \/ \E s \in Senders : Deposit(s)
      \/ UNCHANGED vars
      => Goal
  BY OthersPaid DEF Goal
<1>8. ~ApiRestart => Goal
  BY <1>2, <1>4, <1>5, <1>6, <1>7 DEF Next
<1>. QED
  BY <1>1, <1>3, <1>8 DEF PaidInv, Goal

\* As long as requests do not overlap one another or claim_fees, what the
\* clients' stored IOUs add up to covers every request that was served, for any
\* number of clients, sessions, claims, failures and deaths of both processes.
THEOREM ServedIsPaid == Spec => []PaidForServed
<1>1. PaidInv => PaidForServed
  BY DEF PaidInv
<1>. QED
  BY <1>1, PaidInit, PaidStep, PTL DEF Spec

==============================================================================
