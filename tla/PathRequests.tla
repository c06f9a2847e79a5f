---------------------------- MODULE PathRequests ----------------------------
(***************************************************************************)
(* One request for paths: PathsResource.post, after the payment, and the   *)
(* feedback on the paths it returned.  The handler checks the request for  *)
(* common errors, searches the graph of the channels whose nodes are       *)
(* reachable for the best path that can carry the payment and its fees,    *)
(* makes the channels of that path more expensive and searches again,      *)
(* until there are enough paths; a row in the database for each path, one  *)
(* statement after the other, allows feedback on it for some time.  The    *)
(* search does not let other greenlets run, so that the graph does not     *)
(* change: it is chosen at the beginning.  Fees are flat fees.             *)
(***************************************************************************)
EXTENDS Integers, Sequences, FiniteSetsExt, SequencesExt

CONSTANTS Nodes, Channels,  \* possible channels: sets of two participants
          Source, Target,
          Capacities,   \* graphs: what each node can send to its partners
          Fees,         \* and the flat fee it asks for in each channel
          Situations,   \* open channels, reachable nodes and nodes with a user present
          Values,       \* amounts asked for
          MaxPaths,     \* numbers of paths asked for
          DiversityPenalty,
          FeePenalty,
          Infinite,     \* a weight above those of all finite paths
          MaxAge,       \* MAX_AGE_OF_FEEDBACK_REQUESTS
          MaxTime       \* bound: the clock

ASSUME PathConstants ==
    /\ \A c \in Channels : c \subseteq Nodes /\ Cardinality(c) = 2
    /\ Source \in Nodes /\ Target \in Nodes \ {Source}
    /\ Values \subseteq Nat \ {0} /\ MaxPaths \subseteq Nat \ {0}
    /\ DiversityPenalty \in Nat /\ FeePenalty \in Nat
    /\ Infinite \in Nat /\ DiversityPenalty < Infinite
    /\ MaxAge \in Nat \ {0} /\ MaxTime \in Nat

VARIABLES
    \* the TokenNetwork's graph and what is known of its nodes
    open,       \* channels in the graph
    capacity,   \* of each view: what the first node can send to the second
    fee,        \* of each view: the flat fee of the first node in the channel
    reachable,  \* nodes whose address is REACHABLE
    present,    \* nodes with a user that is online or unavailable
    \* the request
    value, max_paths,
    \* the handler
    pc, paths, visited,
    creation_time,  \* of the feedback token
    \* the feedback table: `successful' in the row of each route
    feedback,
    now

graph == <<open, capacity, fee, reachable, present, value, max_paths>>
vars == <<graph, pc, paths, visited, creation_time, feedback, now>>

Edges == {e \in Nodes \X Nodes : {e[1], e[2]} \in Channels}

ASSUME GraphConstants ==
    /\ Capacities \subseteq [Edges -> Nat] /\ Fees \subseteq [Edges -> Nat]
    /\ \A s \in Situations :
          s.open \subseteq Channels /\ s.reachable \subseteq Nodes /\ s.present \subseteq Nodes

NoRow == "none"
Null == "null"

\* The simple paths from the source to the target, and those in some edges.
Walks == UNION {[1 .. n -> Nodes] : n \in 2 .. Cardinality(Nodes)}
Hops(p) == {<<p[i], p[i + 1]>> : i \in 1 .. Len(p) - 1}
Routes ==
    {p \in Walks : p[1] = Source /\ p[Len(p)] = Target /\ IsInjective(p) /\ Hops(p) \subseteq Edges}
SimplePaths(edges) == {p \in Routes : Hops(p) \subseteq edges}

TypeOK ==
    /\ open \subseteq Channels
    /\ capacity \in [Edges -> Nat] /\ fee \in [Edges -> Nat]
    /\ reachable \subseteq Nodes /\ present \subseteq Nodes
    /\ value \in Nat \ {0} /\ max_paths \in Nat \ {0}
    /\ pc \in {"request", "search", "store", "answered", "refused", "not_found", "died"}
    /\ IsInjective(paths) /\ ToSet(paths) \subseteq Routes /\ Len(paths) <= max_paths
    /\ visited \in [Channels -> Nat]
    /\ creation_time \in Nat
    /\ feedback \in [Routes -> {NoRow, Null, "yes", "no"}]
    /\ now \in Nat

------------------------------------------------------------------------------
(* prune_graph, Path and TokenNetwork.edge_weight.                         *)

G == {e \in Edges : {e[1], e[2]} \in open}

PrunedGraph == {e \in G : {e[1], e[2]} \subseteq reachable}

\* get_amount_with_fees, for flat fees: what has to be sent for `amount' to
\* leave the mediator.
AmountWithFees(amount, fee_in, fee_out) == amount + fee_in + fee_out

\* _calculate_fees, backwards: the amount sent over each hop of a path.
Amounts(p) ==
    LET total[i \in 1 .. Len(p) - 1] ==
            IF i = Len(p) - 1
            THEN value
            ELSE AmountWithFees(total[i + 1], fee[<<p[i + 1], p[i]>>], fee[<<p[i + 1], p[i + 2]>>])
    IN total

EstimatedFee(p) == Amounts(p)[1] - value

\* Seeded fault: the capacity is compared with the value without fees.
MutantIsValid(p) ==
    /\ \A e \in Hops(p) : capacity[e] >= value
    /\ ToSet(p) \subseteq present

\* _check_validity_and_calculate_fees and _get_address_metadata: each hop has
\* the capacity for the value and, but for the last one, for the value with
\* fees; each node has a user that is there.
IsValid(p) ==
    /\ \A e \in Hops(p) : capacity[e] >= value
    /\ \A i \in 1 .. Len(p) - 2 : Amounts(p)[i] <= capacity[<<p[i], p[i + 1]>>]
    /\ ToSet(p) \subseteq present

\* Too little for a refund: less than 1.1 times the value, rounded down.
NoRefund(e) == IF capacity[<<e[2], e[1]>>] < (11 * value) \div 10 THEN 1 ELSE 0

\* edge_weight
Weight(e) ==
    LET fees == fee[e] + fee[<<e[2], e[1]>>] IN
    IF value + fees > capacity[e]
    THEN Infinite
    ELSE 1 + visited[{e[1], e[2]}] + FeePenalty * fees + NoRefund(e)

\* All infinite weights are the same.
PathWeight(p) == Min({Infinite, MapThenSumSet(Weight, Hops(p))})

------------------------------------------------------------------------------
(* PathsResource.post.                                                     *)

From(n) == {e \in G : e[1] = n}
To(n) == {e \in G : e[2] = n}

\* Seeded fault: the capacity of each channel of the source must suffice.
MutantRefused ==
    \/ ~({Source, Target} \subseteq reachable)
    \/ \E e \in From(Source) : capacity[e] < value

\* check_path_request_errors: a node at the ends is not reachable, has no
\* channel, or none with the capacity, or there is no way between them.
Refused ==
    \/ ~({Source, Target} \subseteq reachable)
    \/ \A e \in From(Source) : capacity[e] < value
    \/ \A e \in To(Target) : capacity[e] < value
    \/ SimplePaths(G) = {}

CheckRequest ==
    /\ pc = "request"
    /\ pc' = IF Refused THEN "refused" ELSE "search"
    /\ UNCHANGED <<graph, paths, visited, creation_time, feedback, now>>

\* Seeded fault: a path may be found again.
MutantCandidates == {p \in SimplePaths(PrunedGraph) : IsValid(p)}

Candidates == {p \in SimplePaths(PrunedGraph) : IsValid(p) /\ p \notin ToSet(paths)}

\* Seeded fault: the channels of a path are not made more expensive.
MutantVisited(p) == visited

Visited(p) ==
    [c \in Channels |->
        visited[c] + IF \E e \in Hops(p) : c = {e[1], e[2]} THEN DiversityPenalty ELSE 0]

\* _get_single_path: paths come in the order of their weights, those of the
\* same weight in any.
NextPath ==
    /\ pc = "search" /\ Len(paths) < max_paths
    /\ \E p \in Candidates :
          /\ \A q \in Candidates : PathWeight(p) <= PathWeight(q)
          /\ paths' = Append(paths, p)
          /\ visited' = Visited(p)
    /\ UNCHANGED <<graph, pc, creation_time, feedback, now>>

\* There is no other path, or not even one in the pruned graph, or they suffice.
SearchEnds == Len(paths) = max_paths \/ Candidates = {}

SearchDone ==
    /\ pc = "search" /\ SearchEnds
    /\ IF paths = <<>>
       THEN pc' = "not_found" /\ UNCHANGED creation_time
       ELSE pc' = "store" /\ creation_time' = now
    /\ UNCHANGED <<graph, paths, visited, feedback, now>>

Stored == {r \in Routes : feedback[r] # NoRow}

\* prepare_feedback: a row for the next path.
PrepareFeedback ==
    /\ pc = "store"
    /\ \E i \in DOMAIN paths :
          /\ i = Cardinality(Stored) + 1
          /\ feedback' = [feedback EXCEPT ![paths[i]] = Null]
    /\ UNCHANGED <<graph, pc, paths, visited, creation_time, now>>

\* Seeded fault: the answer does not wait for all the rows.
MutantAllStored == Stored # {}

AllStored == Cardinality(Stored) = Len(paths)

\* The client learns the paths and the feedback token.
Answer ==
    /\ pc = "store" /\ AllStored
    /\ pc' = "answered"
    /\ UNCHANGED <<graph, paths, visited, creation_time, feedback, now>>

\* The process dies; only the rows stay.
Crash ==
    /\ pc \in {"search", "store"}
    /\ pc' = "died"
    /\ UNCHANGED <<graph, paths, visited, creation_time, feedback, now>>

Tick ==
    /\ now < MaxTime
    /\ now' = now + 1
    /\ UNCHANGED <<graph, pc, paths, visited, creation_time, feedback>>

------------------------------------------------------------------------------
(* FeedbackResource.post.                                                  *)

\* FeedbackToken.is_valid
IsTokenValid == creation_time + MaxAge > now

\* Seeded fault: feedback replaces earlier feedback.
MutantUpdatable(route) == feedback[route] # NoRow

\* update_feedback: `successful IS NULL'.
Updatable(route) == feedback[route] = Null

\* Feedback with the token of the answer, for some route.
Feedback(route, success) ==
    /\ pc = "answered"
    /\ IsTokenValid /\ Updatable(route)
    /\ feedback' = [feedback EXCEPT ![route] = success]
    /\ UNCHANGED <<graph, pc, paths, visited, creation_time, now>>

------------------------------------------------------------------------------
Init ==
    /\ capacity \in Capacities /\ fee \in Fees
    /\ \E s \in Situations :
          open = s.open /\ reachable = s.reachable /\ present = s.present
    /\ value \in Values /\ max_paths \in MaxPaths
    /\ pc = "request" /\ paths = <<>> /\ visited = [c \in Channels |-> 0]
    /\ creation_time = 0
    /\ feedback = [r \in Routes |-> NoRow]
    /\ now = 0

Next ==
    \/ CheckRequest \/ NextPath \/ SearchDone \/ PrepareFeedback \/ Answer \/ Crash
    \/ \E route \in Routes, success \in {"yes", "no"} : Feedback(route, success)
    \/ Tick

Spec == Init /\ [][Next]_vars

------------------------------------------------------------------------------
(* Properties.                                                             *)

\* What the mediator p[i] keeps of a payment along p.
Kept(p, i) == fee[<<p[i], p[i - 1]>>] + fee[<<p[i], p[i + 1]>>]

\* What arrives over hop i when the initiator sends the value and the fee the
\* answer estimates, and every mediator keeps its fee.
Arrives(p, i) ==
    value + EstimatedFee(p) - MapThenSumSet(LAMBDA j : Kept(p, j), 2 .. i)

\* Each path of an answer can carry the payment: sent forward with the
\* estimated fee, it fits in the capacity of every channel on the way, and
\* exactly the value arrives.
PathsCarryPayment ==
    \A p \in ToSet(paths) :
        /\ \A i \in 1 .. Len(p) - 1 : Arrives(p, i) <= capacity[<<p[i], p[i + 1]>>]
        /\ Arrives(p, Len(p) - 1) = value

\* A path that a client could use: its nodes are online, and its channels can
\* carry the value and the fees of the mediators behind them.
Usable(p) ==
    /\ Hops(p) \subseteq G /\ ToSet(p) \subseteq reachable \cap present
    /\ \A i \in 1 .. Len(p) - 1 :
          value + MapThenSumSet(LAMBDA j : Kept(p, j), i + 1 .. Len(p) - 1)
              <= capacity[<<p[i], p[i + 1]>>]

\* No usable path is missed: a refusal, an answer without paths or with fewer
\* than asked for means that there are no others.
NothingMissed ==
    /\ pc \in {"refused", "not_found"} => \A p \in Routes : ~Usable(p)
    /\ pc = "answered" /\ Len(paths) < max_paths =>
          \A p \in Routes : Usable(p) => p \in ToSet(paths)

\* Where fees do not matter, the second path shares no channel with the first
\* one if some usable path does not that is short enough: a hop over a channel
\* that was not used before weighs two at most, a refund included, and one over
\* a used channel more than the penalty.
Disjoint(p, q) ==
    {{e[1], e[2]} : e \in Hops(p)} \cap {{e[1], e[2]} : e \in Hops(q)} = {}

DiverseIfPossible ==
    /\ Len(paths) >= 2
    /\ Range(fee) = {0}
    /\ \E p \in Routes :
          Usable(p) /\ Disjoint(p, paths[1]) /\ 2 * (Len(p) - 1) <= DiversityPenalty
    => Disjoint(paths[2], paths[1])

\* A client that has its answer can give feedback on every path in it, and on
\* no other, from the first moment on.
AnswerHasRows == pc = "answered" => Stored = ToSet(paths)

\* The first feedback on a path stands, and none is taken when the token is
\* older than MAX_AGE_OF_FEEDBACK_REQUESTS.
FirstFeedbackStands ==
    [][\A r \in Routes :
          /\ feedback[r] \in {"yes", "no"} => feedback'[r] = feedback[r]
          /\ feedback'[r] \in {"yes", "no"} /\ feedback'[r] # feedback[r] =>
                r \in ToSet(paths) /\ now - creation_time < MaxAge]_vars
==============================================================================
