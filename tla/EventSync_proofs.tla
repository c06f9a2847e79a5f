-------------------------- MODULE EventSync_proofs --------------------------
(***************************************************************************)
(* Proofs about EventSync, for every interval, every number of             *)
(* confirmations and every length of the chain.                            *)
(***************************************************************************)
EXTENDS EventSync, TLAPS

\* The inductive invariant: the types, the shape of the batch, and the two
\* safety properties it keeps.
IInv == TypeOK /\ BatchInv /\ NoBlockSkipped /\ OnlyConfirmedHandled

\* MinOf and MaxOf pick one of their arguments, the right one.
LEMMA MinMaxFacts ==
    ASSUME NEW a \in Int, NEW b \in Int
    PROVE  /\ MinOf(a, b) \in {a, b} /\ MinOf(a, b) <= a /\ MinOf(a, b) <= b
           /\ MaxOf(a, b) \in {a, b} /\ a <= MaxOf(a, b) /\ b <= MaxOf(a, b)
BY DEF MinOf, MaxOf

\* However a query ends, the interval stays between MIN_FILTER_INTERVAL and
\* MAX_FILTER_INTERVAL.
LEMMA IntervalStaysInBounds ==
    ASSUME NEW i \in MinInterval .. MaxInterval
    PROVE  /\ Faster(i) \in MinInterval .. MaxInterval
           /\ Slower(i) \in MinInterval .. MaxInterval
           /\ AfterTimeout(i) \in MinInterval .. MaxInterval
BY IntervalAssumption DEF Faster, Slower, AfterTimeout, MinOf, MaxOf

\* The service starts in a state that satisfies the invariant.
LEMMA InitEstablishes == Init => IInv
BY IntervalAssumption, ChainAssumption
   DEF Init, IInv, TypeOK, BatchInv, NoBlockSkipped, OnlyConfirmedHandled, Items, Confirmed

\* A query that is answered fetches exactly the next confirmed blocks.
LEMMA BatchRange ==
    ASSUME TypeOK, FromBlock <= ToBlock
    PROVE  /\ FromBlock = latest + 1
           /\ ToBlock \in Nat
           /\ latest < ToBlock
           /\ ToBlock <= Confirmed
<1>. latest \in Nat /\ head \in Nat /\ interval \in Nat /\ Confirmed \in Int
  BY IntervalAssumption, ChainAssumption DEF TypeOK, Confirmed
<1>. FromBlock = latest + 1
  BY DEF FromBlock
<1>. /\ ToBlock \in Int
     /\ ToBlock <= Confirmed
  BY DEF ToBlock, MinOf
<1>. QED
  OBVIOUS

\* Every step of the service, of the chain and every crash keeps the
\* invariant.
LEMMA StepPreserves == IInv /\ [Next]_vars => IInv'
<1>. SUFFICES ASSUME IInv, [Next]_vars
              PROVE  IInv'
  OBVIOUS
<1>. USE IntervalAssumption, ChainAssumption
<1>1. CASE Mine
  BY <1>1 DEF IInv, TypeOK, BatchInv, NoBlockSkipped, OnlyConfirmedHandled, Mine, Confirmed, Items
<1>2. CASE NothingNew
  <2>1. interval' \in MinInterval .. MaxInterval
    BY <1>2, IntervalStaysInBounds DEF IInv, TypeOK, NothingNew
  <2>. QED
    BY <1>2, <2>1
       DEF IInv, TypeOK, BatchInv, NoBlockSkipped, OnlyConfirmedHandled, NothingNew, Confirmed
<1>3. CASE QueryAnswered
  <2>1. interval' \in MinInterval .. MaxInterval
    BY <1>3, IntervalStaysInBounds DEF IInv, TypeOK, QueryAnswered
  <2>2. FromBlock = latest + 1 /\ ToBlock \in Nat /\ latest < ToBlock /\ ToBlock <= Confirmed
    BY <1>3, BatchRange DEF IInv, QueryAnswered
  <2>3. latest = committed /\ latest \in Nat
    BY <1>3 DEF IInv, TypeOK, BatchInv, QueryAnswered
  <2>4. todo' = Sources \X ((committed + 1) .. to') /\ to' = ToBlock
    BY <1>3, <2>2, <2>3 DEF QueryAnswered
  <2>5. TypeOK'
    BY <1>3, <2>1, <2>2, <2>3, <2>4 DEF IInv, TypeOK, QueryAnswered, Items
  <2>6. BatchInv'
    BY <1>3, <2>2, <2>3, <2>4 DEF IInv, BatchInv, QueryAnswered, Confirmed
  <2>. QED
    BY <1>3, <2>5, <2>6 DEF IInv, NoBlockSkipped, OnlyConfirmedHandled, QueryAnswered, Confirmed
<1>4. CASE QueryTimedOut
  <2>1. interval' \in MinInterval .. MaxInterval
    BY <1>4, IntervalStaysInBounds DEF IInv, TypeOK, QueryTimedOut
  <2>. QED
    BY <1>4, <2>1
       DEF IInv, TypeOK, BatchInv, NoBlockSkipped, OnlyConfirmedHandled, QueryTimedOut, Confirmed
<1>5. CASE HandleEvents
  <2>1. PICK i \in todo : todo' = todo \ {i} /\ handled' = handled \cup {i}
    BY <1>5 DEF HandleEvents
  <2>2. i \in Items /\ i[2] <= Confirmed
    BY <1>5, <2>1 DEF IInv, TypeOK, BatchInv, HandleEvents, Items, Confirmed
  <2>3. TypeOK'
    BY <1>5, <2>1, <2>2 DEF IInv, TypeOK, HandleEvents
  <2>4. BatchInv'
    BY <1>5, <2>1 DEF IInv, BatchInv, HandleEvents, Confirmed
  <2>5. NoBlockSkipped' /\ OnlyConfirmedHandled'
    BY <1>5, <2>1, <2>2 DEF IInv, NoBlockSkipped, OnlyConfirmedHandled, HandleEvents, Confirmed
  <2>. QED
    BY <2>3, <2>4, <2>5 DEF IInv
<1>6. CASE UpdateHeadInMemory
  BY <1>6
     DEF IInv, TypeOK, BatchInv, NoBlockSkipped, OnlyConfirmedHandled, UpdateHeadInMemory, Confirmed
<1>7. CASE UpdateHeadInDatabase
  BY <1>7
     DEF IInv, TypeOK, BatchInv, NoBlockSkipped, OnlyConfirmedHandled, UpdateHeadInDatabase,
         Confirmed
<1>8. CASE Crash
  BY <1>8 DEF IInv, TypeOK, BatchInv, NoBlockSkipped, OnlyConfirmedHandled, Crash, Confirmed
<1>9. CASE Restart
  BY <1>9 DEF IInv, TypeOK, BatchInv, NoBlockSkipped, OnlyConfirmedHandled, Restart, Confirmed
<1>10. CASE UNCHANGED vars
  BY <1>10 DEF IInv, TypeOK, BatchInv, NoBlockSkipped, OnlyConfirmedHandled, vars, Confirmed
<1>. QED
  BY <1>1, <1>2, <1>3, <1>4, <1>5, <1>6, <1>7, <1>8, <1>9, <1>10 DEF Next

\* The invariant holds in every reachable state.
THEOREM Invariance == Spec => []IInv
BY InitEstablishes, StepPreserves, PTL DEF Spec

\* The variables of get_blockchain_events_adaptive keep their types; above
\* all the adaptive interval never leaves MIN .. MAX_FILTER_INTERVAL.
THEOREM TypeCorrect == Spec => []TypeOK
<1>1. IInv => TypeOK
  BY DEF IInv
<1>. QED
  BY <1>1, Invariance, PTL

\* No block is skipped, whatever the intervals, timeouts and crashes.
THEOREM Coverage == Spec => []NoBlockSkipped
<1>1. IInv => NoBlockSkipped
  BY DEF IInv
<1>. QED
  BY <1>1, Invariance, PTL

\* An unconfirmed block is never handled.
THEOREM Confirmation == Spec => []OnlyConfirmedHandled
<1>1. IInv => OnlyConfirmedHandled
  BY DEF IInv
<1>. QED
  BY <1>1, Invariance, PTL

\* The assertion of the pathfinding service's _process_new_blocks never fails.
THEOREM MemoryAgrees == Spec => []MemoryMatchesDatabase
<1>1. IInv => MemoryMatchesDatabase
  BY DEF IInv, BatchInv, MemoryMatchesDatabase
<1>. QED
  BY <1>1, Invariance, PTL

\* A committed block is never replayed.
THEOREM NoReplay == Spec => CommittedNeverReplayed
<1>1. IInv /\ [Next]_vars => [\A i \in todo \ todo' : pc' # "down" => i[2] > committed]_vars
  <2>. SUFFICES ASSUME IInv, [Next]_vars, NEW i \in todo \ todo', pc' # "down"
                PROVE  i[2] > committed
    BY DEF vars
  <2>1. pc = "handle"
    BY DEF IInv, BatchInv
  <2>. QED
    BY <2>1, ChainAssumption DEF IInv, TypeOK, BatchInv
<1>. QED
  BY <1>1, Invariance, PTL DEF Spec, CommittedNeverReplayed

\* The loop implements the abstract follower: a batch is handled block by
\* block in confirmed territory, and the commit covers it all.
THEOREM Refinement == Spec => ImplementsFollower
<1>1. Init => Follower!FInit
  BY ChainAssumption DEF Init, Confirmed, Follower!FInit
<1>2. IInv /\ [Next]_vars => [Follower!FNext]_(Follower!fvars)
  <2>. SUFFICES ASSUME IInv, [Next]_vars
                PROVE  Follower!FNext \/ UNCHANGED <<Confirmed, committed, handled>>
    BY DEF Follower!fvars
  <2>1. CASE Mine
    BY <2>1, ChainAssumption DEF IInv, TypeOK, Mine, Confirmed, Follower!FNext, Follower!Grow
  <2>2. CASE HandleEvents
    <3>1. PICK i \in todo : handled' = handled \cup {i}
      BY <2>2 DEF HandleEvents
    <3>2. PICK s \in Sources, b \in (committed + 1) .. to : i = <<s, b>>
      BY <2>2, <3>1 DEF IInv, BatchInv, HandleEvents
    <3>3. b \in (committed + 1) .. Confirmed
      BY <2>2, <3>2, ChainAssumption DEF IInv, TypeOK, BatchInv, HandleEvents, Confirmed
    <3>4. Follower!HandleBlock(s, b)
      BY <2>2, <3>1, <3>2, <3>3 DEF HandleEvents, Confirmed, Follower!HandleBlock
    <3>. QED
      BY <3>3, <3>4 DEF Follower!FNext
  <2>3. CASE UpdateHeadInDatabase
    <3>1. latest \in (committed + 1) .. Confirmed
      BY <2>3, ChainAssumption DEF IInv, TypeOK, BatchInv, UpdateHeadInDatabase, Confirmed
    <3>2. Follower!Commit(latest)
      BY <2>3, <3>1 DEF IInv, TypeOK, BatchInv, UpdateHeadInDatabase, Confirmed, Follower!Commit
    <3>. QED
      BY <3>1, <3>2 DEF Follower!FNext
  <2>4. CASE NothingNew \/ QueryAnswered \/ QueryTimedOut \/ UpdateHeadInMemory
    BY <2>4 DEF NothingNew, QueryAnswered, QueryTimedOut, UpdateHeadInMemory, Confirmed
  <2>5. CASE Crash \/ Restart \/ UNCHANGED vars
    BY <2>5 DEF Crash, Restart, vars, Confirmed
  <2>. QED
    BY <2>1, <2>2, <2>3, <2>4, <2>5 DEF Next
<1>. QED
  BY <1>1, <1>2, Invariance, PTL DEF Spec, ImplementsFollower, Follower!FSpec
==============================================================================
