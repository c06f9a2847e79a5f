------------------------- MODULE UserPresence_proofs -------------------------
(***************************************************************************)
(* Proofs about UserPresence: for any homeservers, users and addresses,    *)
(* and any order of logins, ends of syncs and listeners.                   *)
(***************************************************************************)
EXTENDS UserPresence, FiniteSetTheorems, TLAPS

\* While the main client lives its listener is registered, and so is only the
\* listener of a client whose greenlet is in its sync.
ListenerInv ==
    /\ ~stopped => Main \in registered
    /\ alive[Main] /\ ~stopped => \A s \in registered \ {Main} : worker[s] = "sync"

IInv == TypeOK /\ ListenerInv

\* The users of an address are those whose id names it and whose presence was
\* set; only a presence that was set has an update id.
UsersInv ==
    /\ \A a \in Addresses : \A u \in userids[a] :
          u \in Users /\ AddressOf[u] = a /\ presence[u] # "none"
    /\ \A u \in Users : presence[u] = "none" => update_id[u] = -2

\* A listener that has its address for itself knows the reachability that the
\* presences of the address's users make, and has left it behind when it ended.
LoneInv ==
    /\ \A a \in Addresses :
          lone[a] => Quiet(a) /\ reachability[a] = Composite(userids[a], presence)
    /\ \A s \in Servers : listener[s] # Idle /\ listener[s].lone =>
          LET a == AddressOf[listener[s].user] IN
          /\ Busy(a) = {s}
          /\ listener[s].pc = "capabilities" => listener[s].new = Composite(userids[a], presence)

One(S) == \A x, y \in S : x = y

\* As long as the events of a user come from one login of one client, its
\* update ids grow, and at most one listener handles the newest event.
OrderInv ==
    /\ \A u \in Users : /\ IsFiniteSet(via[u])
                        /\ via[u] = {} => update_id[u] = -2 /\ presence[u] = newest[u]
                        /\ \A x \in via[u] : x[2] <= logins[x[1]]
                        /\ \A s \in Servers : One(via[u]) /\ <<s, logins[s]>> \in via[u]
                                            => update_id[u] < counter[s]
    /\ \A s \in Servers : listener[s] # Idle => \E x \in via[listener[s].user] : x[1] = s
    /\ \A s \in Servers : listener[s].pc = "name" =>
          LET u == listener[s].user IN
          One(via[u]) =>
              /\ update_id[u] < listener[s].id /\ listener[s].presence = newest[u]
              /\ <<s, logins[s]>> \in via[u] => listener[s].id < counter[s]
    /\ \A u \in Users \ BadUsers :
          ~stopped /\ One(via[u])
          /\ (\A s \in Servers : listener[s].pc = "name" => listener[s].user # u)
          => presence[u] \in {newest[u], "server_error"}

------------------------------------------------------------------------------
(* Types.                                                                  *)

\* Every user has an address.
LEMMA UserAddress == \A u \in Users : AddressOf[u] \in Addresses
  BY DEF Addresses

\* What a client may be in.
LEMMA ListenerType ==
    ASSUME TypeOK, NEW s \in Servers
    PROVE  /\ listener[s] \in Named \cup Waiting \cup {Idle}
           /\ listener[s].pc = "name" => listener[s] \in Named
           /\ listener[s].pc = "capabilities" => listener[s] \in Waiting
           /\ listener[s] # Idle => listener[s] \in Named \cup Waiting
  BY DEF TypeOK, Named, Waiting, Idle

\* Other listeners learn that they are not alone.
LEMMA NotLoneType ==
    ASSUME NEW l \in Named \cup Waiting
    PROVE  [l EXCEPT !.lone = FALSE] \in Named \cup Waiting
  BY DEF Named, Waiting

\* An update keeps the types.
LEMMA SetUserPresenceType ==
    ASSUME TypeOK, NEW u \in Users, NEW p \in Presences, NEW id \in Nat,
           SetUserPresence(u, p, id)
    PROVE  presence' \in [Users -> Presences] /\ update_id' \in [Users -> Int]
  BY DEF SetUserPresence, TypeOK

\* What the homeservers say is a presence.
LEMMA PresenceNames == ServerPresences \cup {"server_error"} \subseteq Presences
  BY DEF ServerPresences, Presences, Rank

\* Every presence has a reachability.
LEMMA ReachabilityType == \A p : ReachabilityFor(p) \in Reachabilities
  BY DEF ReachabilityFor, Reachabilities

\* The types hold initially.
LEMMA TypeInit == Init => TypeOK
<1>. SUFFICES ASSUME Init PROVE TypeOK
  OBVIOUS
<1>1. Main \in Servers
  BY PresenceConstants
<1>2. /\ actual \in [Users -> ServerPresences] /\ version \in [Users -> Nat]
      /\ worker \in [Others -> {"start", "login", "sync", "ended"}]
      /\ clients \in SUBSET Others /\ registered \in SUBSET Servers
  BY <1>1 DEF Init, ServerPresences
<1>3. alive \in [Servers -> BOOLEAN] /\ stopped \in BOOLEAN /\ lone \in [Addresses -> BOOLEAN]
  BY DEF Init
<1>4. logins \in [Servers -> Nat] /\ counter \in [Servers -> Nat]
      /\ seen \in [Servers -> [Users -> Nat]]
  BY DEF Init
<1>5. /\ userids \in [Addresses -> SUBSET Users] /\ presence \in [Users -> Presences]
      /\ update_id \in [Users -> Int] /\ reachability \in [Addresses -> Reachabilities]
  BY DEF Init, Presences, Rank, Reachabilities
<1>6. listener \in [Servers -> Named \cup Waiting \cup {Idle}]
      /\ newest \in [Users -> ServerPresences \cup {"none"}]
      /\ via \in [Users -> SUBSET (Servers \X Nat)]
  BY DEF Init
<1>. QED
  BY <1>2, <1>3, <1>4, <1>5, <1>6 DEF TypeOK

\* Every step keeps the types.
LEMMA TypeStep ==
    ASSUME TypeOK, [Next]_vars
    PROVE  TypeOK'
<1>. USE DEF servervars, clientvars, syncvars, managervars
<1>1. CASE UNCHANGED vars
  BY <1>1 DEF vars, TypeOK
<1>2. ASSUME NEW u \in Users, NEW p \in Announced, Change(u, p)
      PROVE  TypeOK'
  <2>1. p \in ServerPresences
    BY PresenceConstants DEF ServerPresences
  <2>2. actual' \in [Users -> ServerPresences] /\ version' \in [Users -> Nat]
    BY <1>2, <2>1 DEF Change, TypeOK
  <2>. QED
    BY <1>2, <2>2 DEF Change, TypeOK
<1>3. ASSUME NEW s \in Servers, SyncEnds(s)
      PROVE  TypeOK'
  BY <1>3 DEF SyncEnds, TypeOK
<1>4. ASSUME NEW s \in Others, Connection(s)
      PROVE  TypeOK'
  <2>. s \in Servers /\ Main \in Servers
    BY PresenceConstants DEF Others
  <2>1. CASE ConnectClient(s)
    BY <2>1 DEF ConnectClient, TypeOK
  <2>2. CASE LoginFails(s)
    BY <2>2 DEF LoginFails, TypeOK
  <2>3. CASE LoginSucceeds(s)
    BY <2>3 DEF LoginSucceeds, TypeOK
  <2>4. CASE UnhandledError(s)
    BY <2>4 DEF UnhandledError, TypeOK
  <2>5. CASE WorkerStops(s)
    BY <2>5 DEF WorkerStops, TypeOK
  <2>. QED
    BY <1>4, <2>1, <2>2, <2>3, <2>4, <2>5 DEF Connection
<1>5. CASE Stop
  <2>1. alive' \in [Servers -> BOOLEAN]
    BY <1>5 DEF Stop, TypeOK
  <2>2. listener' \in [Servers -> Named \cup Waiting \cup {Idle}]
    BY <1>5 DEF Stop, TypeOK
  <2>. QED
    BY <1>5, <2>1, <2>2 DEF Stop, TypeOK
<1>6. ASSUME NEW s \in Servers, NEW u \in Users, Hear(s, u)
      PROVE  TypeOK'
  <2>1. seen' \in [Servers -> [Users -> Nat]] /\ counter' \in [Servers -> Nat]
    BY <1>6 DEF Hear, TypeOK
  <2>2. CASE ~Consumes(s, u)
    BY <1>6, <2>1, <2>2 DEF Hear, TypeOK
  <2>3. CASE Consumes(s, u)
    <3>. DEFINE a == AddressOf[u]
                new == [pc |-> "name", user |-> u, presence |-> actual[u], id |-> counter[s],
                        lone |-> Busy(a) = {}]
    <3>1. new \in Named
      BY DEF Named, TypeOK
    <3>2. \A t \in Busy(a) : [listener[t] EXCEPT !.lone = FALSE] \in Named \cup Waiting
      BY ListenerType, NotLoneType DEF Busy
    <3>3. listener' = [t \in Servers |->
                  IF t = s THEN new
                  ELSE IF t \in Busy(a) THEN [listener[t] EXCEPT !.lone = FALSE]
                  ELSE listener[t]]
      BY <1>6, <2>3 DEF Hear
    <3>. HIDE DEF new
    <3>4. listener' \in [Servers -> Named \cup Waiting \cup {Idle}]
      BY <3>1, <3>2, <3>3, ListenerType
    <3>5. newest' \in [Users -> ServerPresences \cup {"none"}]
      BY <1>6, <2>3 DEF Hear, TypeOK
    <3>6. via' \in [Users -> SUBSET (Servers \X Nat)]
      <4>1. logins[s] \in Nat /\ via[u] \in SUBSET (Servers \X Nat)
        BY DEF TypeOK
      <4>2. via[u] \cup {<<s, logins[s]>>} \in SUBSET (Servers \X Nat)
        BY <4>1
      <4>3. via' = [via EXCEPT ![u] = via[u] \cup {<<s, logins[s]>>}]
        BY <1>6, <2>3 DEF Hear
      <4>. QED
        BY <4>2, <4>3 DEF TypeOK
    <3>7. lone' \in [Addresses -> BOOLEAN]
      BY <1>6, <2>3 DEF Hear, TypeOK
    <3>. QED
      BY <1>6, <2>1, <3>4, <3>5, <3>6, <3>7 DEF Hear, TypeOK
  <2>. QED
    BY <2>2, <2>3
<1>7. ASSUME NEW s \in Servers, NameUnknown(s)
      PROVE  TypeOK'
  <2>1. listener[s] \in Named
    BY <1>7, ListenerType DEF NameUnknown
  <2>2. presence' \in [Users -> Presences] /\ update_id' \in [Users -> Int]
    BY <1>7, <2>1, SetUserPresenceType, PresenceNames DEF NameUnknown, Named
  <2>. QED
    BY <1>7, <2>2 DEF NameUnknown, TypeOK
<1>8. ASSUME NEW s \in Servers, NameInvalid(s)
      PROVE  TypeOK'
  BY <1>8 DEF NameInvalid, TypeOK
<1>9. ASSUME NEW s \in Servers, NameKnown(s)
      PROVE  TypeOK'
  <2>. DEFINE l == listener[s]
              a == AddressOf[l.user]
              new == Composite(userids'[a], presence')
  <2>1. l \in Named
    BY <1>9, ListenerType DEF NameKnown
  <2>2. l.user \in Users /\ l.lone \in BOOLEAN /\ a \in Addresses
    BY <2>1, UserAddress DEF Named
  <2>3. presence' \in [Users -> Presences] /\ update_id' \in [Users -> Int]
    BY <1>9, <2>1, SetUserPresenceType, PresenceNames DEF NameKnown, Named
  <2>4. userids' \in [Addresses -> SUBSET Users]
    BY <1>9, <2>2 DEF NameKnown, TypeOK
  <2>5. new \in Reachabilities
    BY ReachabilityType DEF Composite
  <2>. HIDE DEF new
  <2>6. [pc |-> "capabilities", user |-> l.user, new |-> new, lone |-> l.lone] \in Waiting
    BY <2>2, <2>5 DEF Waiting
  <2>7. /\ listener' \in [Servers -> Named \cup Waiting \cup {Idle}]
        /\ lone' \in [Addresses -> BOOLEAN]
    BY <1>9, <2>2, <2>6 DEF NameKnown, TypeOK, new
  <2>. QED
    BY <1>9, <2>3, <2>4, <2>7 DEF NameKnown, TypeOK
<1>10. ASSUME NEW s \in Servers, CapabilitiesKnown(s)
       PROVE  TypeOK'
  <2>1. listener[s] \in Waiting
    BY <1>10, ListenerType DEF CapabilitiesKnown
  <2>2. /\ AddressOf[listener[s].user] \in Addresses /\ listener[s].new \in Reachabilities
        /\ listener[s].lone \in BOOLEAN
    BY <2>1, UserAddress DEF Waiting
  <2>. QED
    BY <1>10, <2>2 DEF CapabilitiesKnown, TypeOK
<1>. QED
  BY <1>1, <1>2, <1>3, <1>4, <1>5, <1>6, <1>7, <1>8, <1>9, <1>10 DEF Next, Listening

\* The homeservers, the clients, the address manager and its listeners stay
\* well typed; a reachability is one whatever presences it is computed from.
THEOREM TypeCorrect == Spec => []TypeOK
<1>1. TypeOK /\ [Next]_vars => TypeOK'
  BY TypeStep
<1>. QED
  BY <1>1, TypeInit, PTL DEF Spec

------------------------------------------------------------------------------
(* Who hears whom.                                                         *)

\* The listeners are right initially.
LEMMA ListenerInit == Init => ListenerInv
  BY DEF Init, ListenerInv

\* Every step keeps them right.
LEMMA ListenerStep ==
    ASSUME IInv, [Next]_vars
    PROVE  ListenerInv'
<1>. USE DEF servervars, clientvars, syncvars, managervars
<1>. TypeOK /\ ListenerInv
  BY DEF IInv
<1>1. CASE UNCHANGED vars
  BY <1>1 DEF vars, ListenerInv
<1>2. ASSUME NEW u \in Users, NEW p \in Announced, Change(u, p)
      PROVE  ListenerInv'
  BY <1>2 DEF Change, ListenerInv
<1>3. ASSUME NEW s \in Servers, SyncEnds(s)
      PROVE  ListenerInv'
  BY <1>3, PresenceConstants DEF SyncEnds, ListenerInv, TypeOK
<1>4. ASSUME NEW s \in Others, Connection(s)
      PROVE  ListenerInv'
  <2>. s \in Servers /\ Main \in Servers /\ s # Main
    BY PresenceConstants DEF Others
  \* The greenlet that is about to log in has no listener.
  <2>1. CASE ConnectClient(s)
    BY <2>1 DEF ConnectClient, ListenerInv, TypeOK, Others
  <2>2. CASE LoginFails(s)
    BY <2>2 DEF LoginFails, ListenerInv, TypeOK, Others
  <2>3. CASE LoginSucceeds(s)
    BY <2>3 DEF LoginSucceeds, ListenerInv, TypeOK, Others
  \* The main client ends with the greenlet, so nothing is claimed of it.
  <2>4. CASE UnhandledError(s)
    BY <2>4 DEF UnhandledError, ListenerInv, TypeOK
  <2>5. CASE WorkerStops(s)
    BY <2>5 DEF WorkerStops, ListenerInv
  <2>. QED
    BY <1>4, <2>1, <2>2, <2>3, <2>4, <2>5 DEF Connection
<1>5. CASE Stop
  BY <1>5 DEF Stop, ListenerInv
<1>6. ASSUME NEW s \in Servers, NEW u \in Users, Hear(s, u)
      PROVE  ListenerInv'
  BY <1>6 DEF Hear, ListenerInv
<1>7. ASSUME NEW s \in Servers, Listening(s)
      PROVE  ListenerInv'
  BY <1>7 DEF Listening, NameUnknown, NameInvalid, NameKnown, CapabilitiesKnown, ListenerInv
<1>. QED
  BY <1>1, <1>2, <1>3, <1>4, <1>5, <1>6, <1>7 DEF Next

\* Then every user is heard once.
LEMMA HeardOnce == IInv => EveryUserHeardOnce
<1>. SUFFICES ASSUME IInv, alive[Main], ~stopped, NEW u \in Users
              PROVE  \E s \in registered :
                        /\ Consumes(s, u)
                        /\ \A t \in registered : Consumes(t, u) => t = s
                        /\ alive[s] \/ (s # Main /\ worker[s] = "sync")
  BY DEF EveryUserHeardOnce
<1>1. Main \in registered /\ \A s \in registered \ {Main} : worker[s] = "sync"
  BY DEF IInv, ListenerInv
<1>2. CASE ServerOf[u] \in registered \ {Main}
  <2>1. \A t \in registered : Consumes(t, u) <=> t = ServerOf[u]
    BY <1>2 DEF Consumes
  <2>. QED
    BY <1>1, <1>2, <2>1
<1>3. CASE ServerOf[u] \notin registered \ {Main}
  <2>1. \A t \in registered : Consumes(t, u) <=> t = Main
    BY <1>3 DEF Consumes
  <2>. QED
    BY <1>1, <2>1
<1>. QED
  BY <1>2, <1>3

\* While the service runs, exactly one client handles the presences of each
\* user, and its sync runs or its greenlet is about to notice that it ended:
\* no order of logins, failures and ends of syncs leaves a user to two clients
\* or to none.
THEOREM EveryoneHeard == Spec => []EveryUserHeardOnce
<1>1. Init => IInv
  BY TypeInit, ListenerInit DEF IInv
<1>2. IInv /\ [Next]_vars => IInv'
  <2>. SUFFICES ASSUME IInv, [Next]_vars PROVE IInv'
    OBVIOUS
  <2>1. TypeOK'
    BY TypeStep DEF IInv
  <2>2. ListenerInv'
    BY ListenerStep
  <2>. QED
    BY <2>1, <2>2 DEF IInv
<1>. QED
  BY <1>1, <1>2, HeardOnce, PTL DEF Spec

------------------------------------------------------------------------------
(* What the listeners leave behind.                                        *)

\* Steps that no listener takes; a login begins another count of updates.
Aside ==
    /\ UNCHANGED <<stopped, managervars, listener, newest, via, lone>>
    /\ \A s \in Servers : \/ logins'[s] = logins[s] /\ counter'[s] >= counter[s]
                          \/ logins'[s] > logins[s]

Heard(s, u) == Hear(s, u) /\ Consumes(s, u)

\* Every step is of one of these kinds.
LEMMA Steps ==
    ASSUME TypeOK, [Next]_vars
    PROVE  \/ Aside \/ Stop
           \/ \E s \in Servers, u \in Users : Heard(s, u)
           \/ \E s \in Servers : Listening(s)
<1>. USE DEF clientvars, syncvars
<1>0. \A s \in Servers : logins[s] \in Nat /\ counter[s] \in Nat
  BY DEF TypeOK
<1>1. UNCHANGED <<stopped, logins, counter, managervars, listener, newest, via, lone>> => Aside
  BY <1>0 DEF Aside
<1>2. UNCHANGED vars => Aside
  BY <1>1 DEF vars
<1>3. ASSUME NEW u \in Users, NEW p \in Announced, Change(u, p)
      PROVE  Aside
  BY <1>1, <1>3 DEF Change
<1>4. ASSUME NEW s \in Servers, SyncEnds(s)
      PROVE  Aside
  BY <1>1, <1>4 DEF SyncEnds
<1>5. ASSUME NEW s \in Others, Connection(s)
      PROVE  Aside
  <2>1. CASE LoginSucceeds(s)
    BY <1>0, <2>1 DEF LoginSucceeds, Aside, TypeOK
  <2>2. CASE ConnectClient(s) \/ LoginFails(s) \/ UnhandledError(s) \/ WorkerStops(s)
    BY <1>1, <2>2 DEF ConnectClient, LoginFails, UnhandledError, WorkerStops
  <2>. QED
    BY <1>5, <2>1, <2>2 DEF Connection
<1>6. ASSUME NEW s \in Servers, NEW u \in Users, Hear(s, u), ~Consumes(s, u)
      PROVE  Aside
  BY <1>0, <1>6 DEF Hear, Aside, TypeOK
<1>. QED
  BY <1>2, <1>3, <1>4, <1>5, <1>6 DEF Next, Heard

\* _set_user_presence: a presence that was never set is, and so is a newer one.
LEMMA SetEffect ==
    ASSUME TypeOK, UsersInv, NEW u \in Users, NEW p \in Presences \ {"none"}, NEW id \in Nat,
           SetUserPresence(u, p, id)
    PROVE  /\ \A v \in Users \ {u} : presence'[v] = presence[v] /\ update_id'[v] = update_id[v]
           /\ presence'[u] # "none" /\ presence'[u] \in {p, presence[u]}
           /\ update_id[u] < id => presence'[u] = p
           /\ update_id'[u] \in {update_id[u], id}
<1>1. /\ presence \in [Users -> Presences] /\ update_id \in [Users -> Int]
      /\ presence[u] = "none" => update_id[u] = -2
  BY DEF TypeOK, UsersInv
<1>2. CASE Fresh(u, id) /\ presence[u] # p
  <2>1. presence' = [presence EXCEPT ![u] = p] /\ update_id' = [update_id EXCEPT ![u] = id]
    BY <1>2 DEF SetUserPresence
  <2>. QED
    BY <1>1, <2>1
<1>3. CASE ~(Fresh(u, id) /\ presence[u] # p)
  <2>1. presence' = presence /\ update_id' = update_id
    BY <1>3 DEF SetUserPresence
  <2>2. presence[u] # "none"
    BY <1>1, <1>3 DEF Fresh
  <2>. QED
    BY <1>3, <2>1, <2>2 DEF Fresh
<1>. QED
  BY <1>2, <1>3

\* What a listener does to the state it is not alone with.
LEMMA ListeningEffect ==
    ASSUME TypeOK, UsersInv, NEW s \in Servers, Listening(s)
    PROVE  LET l == listener[s]
               a == AddressOf[l.user]
           IN  /\ l \in Named \cup Waiting /\ l # Idle /\ l.user \in Users /\ a \in Addresses
               /\ \A v \in Users \ {l.user} : presence'[v] = presence[v] /\ update_id'[v] = update_id[v]
               /\ \A b \in Addresses \ {a} : /\ userids'[b] = userids[b]
                                             /\ reachability'[b] = reachability[b]
                                             /\ lone'[b] = lone[b]
               /\ \A t \in Servers \ {s} : listener'[t] = listener[t]
               /\ \A u \in userids'[a] : u \in userids[a] \/ (u = l.user /\ presence'[u] # "none")
               /\ presence'[l.user] = "none" =>
                      presence[l.user] = "none" /\ update_id'[l.user] = update_id[l.user]
               /\ UNCHANGED <<stopped, counter, logins, newest, via>>
<1>. DEFINE l == listener[s]
            a == AddressOf[l.user]
<1>. USE DEF servervars, clientvars, syncvars, managervars
<1>1. l \in Named \cup Waiting /\ l # Idle /\ l.user \in Users /\ a \in Addresses
  <2>1. l.pc = "name" \/ l.pc = "capabilities"
    BY DEF Listening, NameUnknown, NameInvalid, NameKnown, CapabilitiesKnown
  <2>2. l \in Named \cup Waiting
    BY <2>1, ListenerType
  <2>3. l # Idle /\ l.user \in Users
    BY <2>1, <2>2 DEF Named, Waiting, Idle
  <2>. QED
    BY <2>2, <2>3, UserAddress
<1>2. UNCHANGED <<stopped, counter, logins, newest, via>>
  BY DEF Listening, NameUnknown, NameInvalid, NameKnown, CapabilitiesKnown
<1>3. \A t \in Servers \ {s} : listener'[t] = listener[t]
  BY DEF Listening, NameUnknown, NameInvalid, NameKnown, CapabilitiesKnown, TypeOK
<1>4. \A b \in Addresses \ {a} : /\ userids'[b] = userids[b] /\ reachability'[b] = reachability[b]
                                 /\ lone'[b] = lone[b]
  BY DEF Listening, NameUnknown, NameInvalid, NameKnown, CapabilitiesKnown, TypeOK
<1>5. CASE NameUnknown(s)
  <2>1. l \in Named /\ l.id \in Nat /\ "server_error" \in Presences \ {"none"}
    BY <1>5, ListenerType, PresenceNames DEF NameUnknown, Named
  <2>2. SetUserPresence(l.user, "server_error", l.id) /\ userids' = userids
    BY <1>5 DEF NameUnknown
  <2>. QED
    BY <1>1, <1>2, <1>3, <1>4, <2>1, <2>2, SetEffect
<1>6. CASE NameKnown(s)
  <2>1. l \in Named /\ l.id \in Nat /\ l.presence \in Presences \ {"none"}
    <3>1. l \in Named
      BY <1>6, ListenerType DEF NameKnown
    <3>. QED
      BY <3>1, PresenceNames DEF Named, ServerPresences
  <2>2. /\ SetUserPresence(l.user, l.presence, l.id)
        /\ userids' = [userids EXCEPT ![a] = userids[a] \cup {l.user}]
    BY <1>6 DEF NameKnown
  <2>3. userids'[a] = userids[a] \cup {l.user}
    BY <1>1, <2>2 DEF TypeOK
  <2>. QED
    BY <1>1, <1>2, <1>3, <1>4, <2>1, <2>2, <2>3, SetEffect
<1>7. CASE NameInvalid(s) \/ CapabilitiesKnown(s)
  <2>1. UNCHANGED <<userids, presence, update_id>>
    BY <1>7 DEF NameInvalid, CapabilitiesKnown
  <2>. QED
    BY <1>1, <1>2, <1>3, <1>4, <2>1
<1>. QED
  BY <1>5, <1>6, <1>7 DEF Listening

\* Every step keeps what holds of the users.
LEMMA UsersStep ==
    ASSUME TypeOK, UsersInv, [Next]_vars
    PROVE  UsersInv'
<1>1. UNCHANGED <<userids, presence, update_id>> => UsersInv'
  BY DEF UsersInv
<1>2. Aside \/ Stop => UsersInv'
  BY <1>1 DEF Aside, Stop, managervars
<1>3. ASSUME NEW s \in Servers, NEW u \in Users, Heard(s, u)
      PROVE  UsersInv'
  BY <1>1, <1>3 DEF Heard, Hear, managervars
<1>4. ASSUME NEW s \in Servers, Listening(s)
      PROVE  UsersInv'
  <2>. DEFINE l == listener[s]
              a == AddressOf[l.user]
  <2>1. /\ l.user \in Users /\ a \in Addresses
        /\ \A v \in Users \ {l.user} : presence'[v] = presence[v] /\ update_id'[v] = update_id[v]
        /\ \A b \in Addresses \ {a} : userids'[b] = userids[b]
        /\ \A u \in userids'[a] : u \in userids[a] \/ (u = l.user /\ presence'[u] # "none")
        /\ presence'[l.user] = "none" =>
               presence[l.user] = "none" /\ update_id'[l.user] = update_id[l.user]
    BY <1>4, ListeningEffect
  <2>2. a = AddressOf[l.user]
    OBVIOUS
  <2>. HIDE DEF l, a
  <2>3. ASSUME NEW b \in Addresses, NEW u \in userids'[b]
        PROVE  u \in Users /\ AddressOf[u] = b /\ presence'[u] # "none"
    BY <2>1, <2>2 DEF UsersInv
  <2>4. \A u \in Users : presence'[u] = "none" => update_id'[u] = -2
    BY <2>1 DEF UsersInv
  <2>. QED
    BY <2>3, <2>4 DEF UsersInv
<1>. QED
  BY <1>2, <1>3, <1>4, Steps

\* The reachability an address's users make depends on their presences only.
LEMMA CompositeLocal ==
    ASSUME NEW us, NEW f, NEW g, \A u \in us : f[u] = g[u]
    PROVE  Composite(us, f) = Composite(us, g)
<1>1. {f[u] : u \in us} = {g[u] : u \in us}
  OBVIOUS
<1>. QED
  BY <1>1 DEF Composite

\* Every step keeps what holds of a lone listener.
LEMMA LoneStep ==
    ASSUME TypeOK, TypeOK', UsersInv, LoneInv, [Next]_vars
    PROVE  LoneInv'
<1>. DEFINE B(b) == {t \in Servers : listener'[t] # Idle /\ AddressOf[listener'[t].user] = b}
            C(b) == Composite(userids[b], presence)
            D(b) == Composite(userids'[b], presence')
<1>. SUFFICES
        /\ \A b \in Addresses : lone'[b] => B(b) = {} /\ reachability'[b] = D(b)
        /\ \A t \in Servers : listener'[t] # Idle /\ listener'[t].lone =>
              /\ B(AddressOf[listener'[t].user]) = {t}
              /\ listener'[t].pc = "capabilities" => listener'[t].new = D(AddressOf[listener'[t].user])
  BY DEF LoneInv, Busy, Quiet
<1>0. /\ \A b \in Addresses : lone[b] => Busy(b) = {} /\ reachability[b] = C(b)
      /\ \A t \in Servers : listener[t] # Idle /\ listener[t].lone =>
            /\ Busy(AddressOf[listener[t].user]) = {t}
            /\ listener[t].pc = "capabilities" => listener[t].new = C(AddressOf[listener[t].user])
  BY DEF LoneInv, Quiet
<1>b. /\ \A b : B(b) = {t \in Servers : listener'[t] # Idle /\ AddressOf[listener'[t].user] = b}
      /\ \A b : Busy(b) = {t \in Servers : listener[t] # Idle /\ AddressOf[listener[t].user] = b}
  BY DEF Busy
<1>a. \A t \in Servers : listener[t] # Idle =>
          listener[t].user \in Users /\ AddressOf[listener[t].user] \in Addresses
  BY ListenerType, UserAddress DEF Named, Waiting
<1>d. UNCHANGED <<userids, presence>> => \A b : D(b) = C(b)
  OBVIOUS
<1>. HIDE DEF B, C, D
<1>1. CASE Aside
  <2>1. /\ UNCHANGED <<listener, lone, reachability, userids, presence>>
    BY <1>1 DEF Aside, managervars
  <2>2. \A b : B(b) = Busy(b) /\ D(b) = C(b)
    BY <1>b, <1>d, <2>1
  <2>. QED
    BY <1>0, <2>1, <2>2
<1>2. CASE Stop
  <2>1. /\ UNCHANGED <<lone, reachability, userids, presence>>
        /\ \A t \in Servers : listener'[t] = Idle \/ listener'[t] = listener[t]
    BY <1>2 DEF Stop, managervars
  <2>2. \A b : B(b) \subseteq Busy(b) /\ D(b) = C(b)
    BY <1>b, <1>d, <2>1
  <2>3. \A t \in Servers : listener'[t] # Idle =>
            listener'[t] = listener[t] /\ t \in B(AddressOf[listener'[t].user])
    BY <1>b, <2>1
  <2>. QED
    BY <1>0, <2>1, <2>2, <2>3
<1>3. ASSUME NEW s \in Servers, NEW u \in Users, Heard(s, u)
      PROVE  /\ \A b \in Addresses : lone'[b] => B(b) = {} /\ reachability'[b] = D(b)
             /\ \A t \in Servers : listener'[t] # Idle /\ listener'[t].lone =>
                    /\ B(AddressOf[listener'[t].user]) = {t}
                    /\ listener'[t].pc = "capabilities" =>
                           listener'[t].new = D(AddressOf[listener'[t].user])
  <2>. DEFINE a == AddressOf[u]
              new == [pc |-> "name", user |-> u, presence |-> actual[u], id |-> counter[s],
                      lone |-> Busy(a) = {}]
  <2>1. /\ listener[s] = Idle /\ a \in Addresses
        /\ listener' = [t \in Servers |->
              IF t = s THEN new
              ELSE IF t \in Busy(a) THEN [listener[t] EXCEPT !.lone = FALSE]
              ELSE listener[t]]
        /\ lone' = [lone EXCEPT ![a] = FALSE]
        /\ UNCHANGED <<reachability, userids, presence>>
    BY <1>3, UserAddress DEF Heard, Hear, managervars
  <2>2. /\ listener'[s] # Idle /\ listener'[s].user = u /\ listener'[s].pc = "name"
        /\ listener'[s].lone => Busy(a) = {}
    BY <2>1 DEF Idle
  <2>3. ASSUME NEW t \in Servers, t # s, t \in Busy(a)
        PROVE  listener'[t] # Idle /\ listener'[t].user = listener[t].user /\ listener'[t].lone = FALSE
    <3>1. listener[t] \in Named \cup Waiting
      BY <2>3, ListenerType DEF Busy
    <3>2. listener'[t] = [listener[t] EXCEPT !.lone = FALSE]
      BY <2>1, <2>3
    <3>. QED
      BY <3>1, <3>2 DEF Named, Waiting, Idle
  <2>4. \A t \in Servers : t # s /\ t \notin Busy(a) => listener'[t] = listener[t]
    BY <2>1
  <2>5. lone'[a] = FALSE /\ \A b \in Addresses \ {a} : lone'[b] = lone[b]
    BY <2>1 DEF TypeOK
  <2>6. \A b : D(b) = C(b)
    BY <1>d, <2>1
  <2>9. a = AddressOf[u] /\ listener[s] = Idle /\ reachability' = reachability
    BY <2>1
  <2>. HIDE DEF a, new
  <2>7. \A b : b # a => B(b) = Busy(b)
    BY <1>b, <2>2, <2>3, <2>4, <2>9
  <2>8. Busy(a) = {} => B(a) = {s}
    BY <1>b, <2>2, <2>4, <2>9
  <2>10. \A b \in Addresses : lone'[b] => B(b) = {} /\ reachability'[b] = D(b)
    BY <1>0, <2>5, <2>6, <2>7, <2>9
  <2>11. ASSUME NEW t \in Servers, listener'[t] # Idle, listener'[t].lone
         PROVE  /\ B(AddressOf[listener'[t].user]) = {t}
                /\ listener'[t].pc = "capabilities" =>
                       listener'[t].new = D(AddressOf[listener'[t].user])
    <3>1. CASE t = s
      BY <2>2, <2>8, <2>9, <2>11, <3>1
    <3>2. CASE t # s /\ t \in Busy(a)
      BY <2>3, <2>11, <3>2
    <3>3. CASE t # s /\ t \notin Busy(a)
      <4>1. listener'[t] = listener[t] /\ AddressOf[listener[t].user] # a
        BY <1>b, <2>4, <2>11, <3>3
      <4>. QED
        BY <1>0, <2>6, <2>7, <2>11, <4>1
    <3>. QED
      BY <3>1, <3>2, <3>3
  <2>. QED
    BY <2>10, <2>11
<1>4. ASSUME NEW s \in Servers, Listening(s)
      PROVE  /\ \A b \in Addresses : lone'[b] => B(b) = {} /\ reachability'[b] = D(b)
             /\ \A t \in Servers : listener'[t] # Idle /\ listener'[t].lone =>
                    /\ B(AddressOf[listener'[t].user]) = {t}
                    /\ listener'[t].pc = "capabilities" =>
                           listener'[t].new = D(AddressOf[listener'[t].user])
  <2>. DEFINE l == listener[s]
              a == AddressOf[l.user]
  <2>1. /\ l \in Named \cup Waiting /\ l # Idle /\ l.user \in Users /\ a \in Addresses
        /\ \A v \in Users \ {l.user} : presence'[v] = presence[v]
        /\ \A b \in Addresses \ {a} : /\ userids'[b] = userids[b] /\ reachability'[b] = reachability[b]
                                      /\ lone'[b] = lone[b]
        /\ \A t \in Servers \ {s} : listener'[t] = listener[t]
    BY <1>4, ListeningEffect
  <2>2. s \in Busy(a) /\ ~lone[a]
    BY <1>0, <2>1 DEF Busy
  \* The listener has ended, or waits for the capabilities of the same user.
  <2>3. /\ \/ listener'[s] = Idle
           \/ /\ listener'[s] # Idle /\ listener'[s].user = l.user /\ listener'[s].lone = l.lone
              /\ listener'[s].pc = "capabilities" /\ listener'[s].new = D(a)
              /\ ~lone'[a]
        /\ lone'[a] => l.lone /\ listener'[s] = Idle /\ reachability'[a] = D(a)
    <3>1. CASE NameUnknown(s) \/ NameInvalid(s)
      BY <2>2, <3>1 DEF NameUnknown, NameInvalid, TypeOK
    <3>2. CASE NameKnown(s)
      <4>1. l.lone \in BOOLEAN /\ D(a) = Composite(userids'[a], presence') /\ reachability' = reachability
        BY <2>1, <3>2 DEF Named, Waiting, D, NameKnown
      <4>2. CASE D(a) = reachability[a]
        <5>1. listener' = [listener EXCEPT ![s] = Idle] /\ lone' = [lone EXCEPT ![a] = l.lone]
          BY <3>2, <4>1, <4>2 DEF NameKnown
        <5>2. listener'[s] = Idle /\ lone'[a] = l.lone
          BY <2>1, <5>1 DEF TypeOK
        <5>. QED
          BY <4>1, <4>2, <5>2
      <4>3. CASE D(a) # reachability[a]
        <5>. DEFINE w == [pc |-> "capabilities", user |-> l.user, new |-> D(a), lone |-> l.lone]
        <5>1. listener' = [listener EXCEPT ![s] = w] /\ lone' = lone
          BY <3>2, <4>1, <4>3 DEF NameKnown
        <5>2. w # Idle /\ w.user = l.user /\ w.lone = l.lone /\ w.pc = "capabilities" /\ w.new = D(a)
          BY DEF Idle
        <5>. HIDE DEF w
        <5>3. listener'[s] = w
          BY <5>1 DEF TypeOK
        <5>. QED
          BY <2>2, <5>1, <5>2, <5>3
      <4>. QED
        BY <4>2, <4>3
    <3>3. CASE CapabilitiesKnown(s)
      <4>1. /\ l.pc = "capabilities" /\ UNCHANGED <<userids, presence>>
            /\ reachability' = [reachability EXCEPT ![a] = l.new]
            /\ listener' = [listener EXCEPT ![s] = Idle] /\ lone' = [lone EXCEPT ![a] = l.lone]
        BY <3>3 DEF CapabilitiesKnown
      <4>2. reachability'[a] = l.new /\ listener'[s] = Idle /\ lone'[a] = l.lone
        BY <2>1, <4>1 DEF TypeOK
      <4>3. l.lone => l.new = C(a)
        BY <1>0, <2>1, <4>1
      <4>. QED
        BY <1>d, <4>1, <4>2, <4>3
    <3>. QED
      BY <1>4, <3>1, <3>2, <3>3 DEF Listening
  <2>4. a = AddressOf[l.user] /\ l = listener[s]
    OBVIOUS
  <2>5. ASSUME NEW b \in Addresses, b # a
        PROVE  D(b) = C(b)
    <3>1. userids'[b] = userids[b] /\ \A u \in userids[b] : presence[u] = presence'[u]
      BY <2>1, <2>4, <2>5 DEF UsersInv
    <3>. QED
      BY <3>1, CompositeLocal DEF C, D
  <2>. HIDE DEF l, a
  <2>6. ASSUME NEW b, b # a
        PROVE  B(b) = Busy(b)
    <3>1. s \notin B(b) /\ s \notin Busy(b)
      BY <1>b, <2>3, <2>4, <2>6
    <3>2. \A t \in Servers \ {s} : t \in B(b) <=> t \in Busy(b)
      BY <1>b, <2>1
    <3>. QED
      BY <1>b, <3>1, <3>2
  <2>7. /\ listener'[s] = Idle => B(a) = Busy(a) \ {s}
        /\ listener'[s] # Idle => B(a) = Busy(a)
    BY <1>b, <2>1, <2>2, <2>3, <2>4
  <2>8. l.lone => Busy(a) = {s}
    BY <1>0, <2>1, <2>4
  <2>9. ASSUME NEW b \in Addresses, lone'[b]
        PROVE  B(b) = {} /\ reachability'[b] = D(b)
    <3>1. CASE b = a
      BY <2>3, <2>7, <2>8, <2>9, <3>1
    <3>2. CASE b # a
      BY <1>0, <2>1, <2>5, <2>6, <2>9, <3>2
    <3>. QED
      BY <3>1, <3>2
  <2>10. ASSUME NEW t \in Servers, listener'[t] # Idle, listener'[t].lone
         PROVE  /\ B(AddressOf[listener'[t].user]) = {t}
                /\ listener'[t].pc = "capabilities" =>
                       listener'[t].new = D(AddressOf[listener'[t].user])
    <3>1. CASE t = s
      <4>1. /\ listener'[s].user = l.user /\ listener'[s].lone = l.lone /\ listener'[s].new = D(a)
        BY <2>3, <2>10, <3>1
      <4>2. AddressOf[listener'[s].user] = a /\ l.lone
        BY <2>4, <2>10, <3>1, <4>1
      <4>. QED
        BY <2>7, <2>8, <2>10, <3>1, <4>1, <4>2
    <3>2. CASE t # s
      <4>1. listener'[t] = listener[t] /\ Busy(AddressOf[listener[t].user]) = {t}
        BY <1>0, <2>1, <2>10, <3>2
      <4>2. AddressOf[listener[t].user] # a /\ AddressOf[listener[t].user] \in Addresses
        BY <1>a, <2>2, <2>10, <3>2, <4>1
      <4>. QED
        BY <1>0, <2>5, <2>6, <2>10, <4>1, <4>2
    <3>. QED
      BY <3>1, <3>2
  <2>. QED
    BY <2>9, <2>10
<1>. QED
  BY <1>1, <1>2, <1>3, <1>4, Steps

------------------------------------------------------------------------------
(* Updates from one login of one client.                                   *)

\* What a listener does to its user.
LEMMA ListeningUser ==
    ASSUME TypeOK, UsersInv, NEW s \in Servers, Listening(s)
    PROVE  LET l == listener[s]
               u == l.user
           IN  /\ \/ listener'[s] = Idle
                  \/ listener'[s].pc = "capabilities" /\ listener'[s].user = u
               /\ \/ l.pc = "capabilities" /\ UNCHANGED <<presence, update_id>>
                  \/ /\ l.pc = "name" /\ l.id \in Nat /\ update_id'[u] \in {update_id[u], l.id}
                     /\ u \notin BadUsers /\ update_id[u] < l.id =>
                            presence'[u] \in {l.presence, "server_error"}
<1>. DEFINE l == listener[s]
            u == l.user
<1>0. l \in Named \cup Waiting /\ u \in Users
  BY ListeningEffect
<1>1. CASE NameUnknown(s)
  <2>1. l \in Named /\ l.id \in Nat /\ "server_error" \in Presences \ {"none"} /\ l.pc = "name"
    BY <1>1, ListenerType, PresenceNames DEF NameUnknown, Named
  <2>2. SetUserPresence(u, "server_error", l.id) /\ listener'[s] = Idle
    BY <1>1 DEF NameUnknown, TypeOK
  <2>. QED
    BY <1>0, <2>1, <2>2, SetEffect
<1>2. CASE NameInvalid(s)
  <2>1. l \in Named /\ l.id \in Nat /\ l.pc = "name" /\ u \in BadUsers
    BY <1>2, ListenerType DEF NameInvalid, Named
  <2>2. UNCHANGED <<presence, update_id>> /\ listener'[s] = Idle
    BY <1>2 DEF NameInvalid, TypeOK, managervars
  <2>. QED
    BY <2>1, <2>2
<1>3. CASE NameKnown(s)
  <2>1. l \in Named /\ l.id \in Nat /\ l.presence \in Presences \ {"none"} /\ l.pc = "name"
    <3>1. l \in Named /\ l.pc = "name"
      BY <1>3, ListenerType DEF NameKnown
    <3>. QED
      BY <3>1, PresenceNames DEF Named, ServerPresences
  <2>2. SetUserPresence(u, l.presence, l.id)
    BY <1>3 DEF NameKnown
  <2>3. listener'[s] = Idle \/ (listener'[s].pc = "capabilities" /\ listener'[s].user = u)
    BY <1>3 DEF NameKnown, TypeOK
  <2>. QED
    BY <1>0, <2>1, <2>2, <2>3, SetEffect
<1>4. CASE CapabilitiesKnown(s)
  BY <1>4 DEF CapabilitiesKnown, TypeOK
<1>. QED
  BY <1>1, <1>2, <1>3, <1>4 DEF Listening

\* Every step keeps the order of the updates.
LEMMA OrderStep ==
    ASSUME TypeOK, TypeOK', UsersInv, OrderInv, [Next]_vars
    PROVE  OrderInv'
<1>0. /\ \A u \in Users : update_id[u] \in Int /\ update_id'[u] \in Int
                          /\ via[u] \subseteq Servers \X Nat
      /\ \A s \in Servers : /\ counter[s] \in Nat /\ counter'[s] \in Nat
                            /\ logins[s] \in Nat /\ logins'[s] \in Nat
  BY DEF TypeOK
<1>v. \A u \in Users :
          /\ IsFiniteSet(via[u])
          /\ via[u] = {} => update_id[u] = -2 /\ presence[u] = newest[u]
          /\ \A x \in via[u] : x[2] <= logins[x[1]]
          /\ \A s \in Servers : One(via[u]) /\ <<s, logins[s]>> \in via[u] => update_id[u] < counter[s]
  BY DEF OrderInv
<1>k. \A s \in Servers : listener[s] # Idle => \E x \in via[listener[s].user] : x[1] = s
  BY DEF OrderInv
<1>j. \A s \in Servers : listener[s].pc = "name" /\ One(via[listener[s].user]) =>
          /\ update_id[listener[s].user] < listener[s].id /\ listener[s].presence = newest[listener[s].user]
          /\ <<s, logins[s]>> \in via[listener[s].user] => listener[s].id < counter[s]
  BY DEF OrderInv
<1>f. \A u \in Users \ BadUsers :
          ~stopped /\ One(via[u])
          /\ (\A s \in Servers : listener[s].pc = "name" => listener[s].user # u)
          => presence[u] \in {newest[u], "server_error"}
  BY DEF OrderInv
<1>i. Idle.pc = "idle" /\ \A s \in Servers : listener[s].pc = "name" =>
          listener[s] # Idle /\ listener[s] \in Named /\ listener[s].user \in Users /\ listener[s].id \in Nat
  BY ListenerType DEF Idle, Named
<1>1. CASE Aside
  <2>1. UNCHANGED <<stopped, presence, update_id, listener, newest, via>>
    BY <1>1 DEF Aside, managervars
  <2>2. ASSUME NEW u \in Users, NEW s \in Servers, <<s, logins'[s]>> \in via[u]
        PROVE  logins'[s] = logins[s] /\ counter'[s] >= counter[s]
    <3>1. logins'[s] <= logins[s]
      BY <1>v, <2>2
    <3>. QED
      BY <1>0, <1>1, <3>1 DEF Aside
  <2>3. \A u \in Users : \A x \in via'[u] : x[2] <= logins'[x[1]]
    <3>. SUFFICES ASSUME NEW u \in Users, NEW x \in via[u]
                  PROVE  x[2] <= logins'[x[1]]
      BY <2>1
    <3>1. x \in Servers \X Nat /\ x[2] <= logins[x[1]]
      BY <1>0, <1>v
    <3>2. x[1] \in Servers /\ x[2] \in Nat
      BY <3>1
    <3>. QED
      BY <1>0, <1>1, <3>1, <3>2 DEF Aside
  <2>4. \A u \in Users : \A s \in Servers :
            One(via'[u]) /\ <<s, logins'[s]>> \in via'[u] => update_id'[u] < counter'[s]
    BY <1>0, <1>v, <2>1, <2>2
  <2>5. \A s \in Servers : listener'[s].pc = "name" /\ One(via'[listener'[s].user]) =>
            /\ update_id'[listener'[s].user] < listener'[s].id
            /\ listener'[s].presence = newest'[listener'[s].user]
            /\ <<s, logins'[s]>> \in via'[listener'[s].user] => listener'[s].id < counter'[s]
    <3>. SUFFICES ASSUME NEW s \in Servers, listener[s].pc = "name", One(via[listener[s].user])
                  PROVE  /\ update_id[listener[s].user] < listener[s].id
                         /\ listener[s].presence = newest[listener[s].user]
                         /\ <<s, logins'[s]>> \in via[listener[s].user] => listener[s].id < counter'[s]
      BY <2>1
    <3>1. listener[s].user \in Users /\ listener[s].id \in Nat
      BY <1>i
    <3>2. /\ update_id[listener[s].user] < listener[s].id /\ listener[s].presence = newest[listener[s].user]
          /\ <<s, logins[s]>> \in via[listener[s].user] => listener[s].id < counter[s]
      BY <1>j
    <3>3. ASSUME <<s, logins'[s]>> \in via[listener[s].user]
          PROVE  listener[s].id < counter'[s]
      <4>1. logins'[s] = logins[s] /\ counter'[s] >= counter[s]
        BY <2>2, <3>1, <3>3
      <4>2. listener[s].id < counter[s]
        BY <3>2, <3>3, <4>1
      <4>. QED
        BY <1>0, <3>1, <4>1, <4>2
    <3>. QED
      BY <3>2, <3>3
  <2>. QED
    BY <1>f, <1>k, <1>v, <2>1, <2>3, <2>4, <2>5 DEF OrderInv
<1>2. CASE Stop
  <2>1. /\ stopped' /\ UNCHANGED <<presence, update_id, newest, via, counter, logins>>
        /\ \A t \in Servers : listener'[t] = Idle \/ listener'[t] = listener[t]
    BY <1>2 DEF Stop, managervars, syncvars
  <2>. QED
    BY <1>i, <1>j, <1>k, <1>v, <2>1 DEF OrderInv
<1>3. ASSUME NEW s \in Servers, NEW u \in Users, Heard(s, u)
      PROVE  OrderInv'
  <2>. DEFINE a == AddressOf[u]
              e == <<s, logins[s]>>
              new == [pc |-> "name", user |-> u, presence |-> actual[u], id |-> counter[s],
                      lone |-> Busy(a) = {}]
  <2>1. /\ listener[s] = Idle
        /\ listener' = [t \in Servers |->
              IF t = s THEN new
              ELSE IF t \in Busy(a) THEN [listener[t] EXCEPT !.lone = FALSE]
              ELSE listener[t]]
        /\ via' = [via EXCEPT ![u] = via[u] \cup {e}]
        /\ newest' = [newest EXCEPT ![u] = actual[u]]
        /\ counter' = [counter EXCEPT ![s] = counter[s] + 1]
        /\ UNCHANGED <<stopped, logins, presence, update_id>>
    BY <1>3 DEF Heard, Hear, managervars, clientvars
  <2>2. /\ via'[u] = via[u] \cup {e} /\ \A v \in Users \ {u} : via'[v] = via[v]
        /\ newest'[u] = actual[u] /\ \A v \in Users \ {u} : newest'[v] = newest[v]
        /\ counter'[s] = counter[s] + 1 /\ \A t \in Servers \ {s} : counter'[t] = counter[t]
    BY <2>1 DEF TypeOK
  <2>3. /\ listener'[s].user = u /\ listener'[s].pc = "name" /\ listener'[s].id = counter[s]
        /\ listener'[s].presence = actual[u]
    BY <2>1
  <2>4. ASSUME NEW t \in Servers, t # s
        PROVE  /\ listener'[t] # Idle => listener[t] # Idle /\ listener'[t].user = listener[t].user
               /\ listener'[t].pc = listener[t].pc
               /\ listener[t].pc = "name" => /\ listener'[t].id = listener[t].id
                                             /\ listener'[t].presence = listener[t].presence
    <3>1. CASE t \in Busy(a)
      <4>1. listener[t] \in Named \cup Waiting /\ listener[t] # Idle
        BY <3>1, ListenerType DEF Busy
      <4>2. listener'[t] = [listener[t] EXCEPT !.lone = FALSE]
        BY <2>1, <2>4, <3>1
      <4>. QED
        BY <4>1, <4>2 DEF Named, Waiting
    <3>2. CASE t \notin Busy(a)
      BY <2>1, <2>4, <3>2
    <3>. QED
      BY <3>1, <3>2
  <2>5. One(via'[u]) => update_id[u] < counter[s]
    <3>1. CASE via[u] = {}
      BY <1>0, <1>v, <3>1
    <3>2. CASE via[u] # {}
      <4>1. One(via'[u]) => One(via[u]) /\ e \in via[u]
        BY <2>2, <3>2 DEF One
      <4>. QED
        BY <1>v, <4>1
    <3>. QED
      BY <3>1, <3>2
  <2>6. e[1] = s /\ e[2] = logins[s] /\ UNCHANGED <<stopped, logins, presence, update_id>>
    BY <2>1
  <2>7. \A t \in Servers : <<t, logins[t]>> = e => t = s
    OBVIOUS
  <2>8. e = <<s, logins[s]>>
    OBVIOUS
  <2>. HIDE DEF e, a, new
  <2>v. ASSUME NEW v \in Users
        PROVE  /\ IsFiniteSet(via'[v])
               /\ via'[v] = {} => update_id'[v] = -2 /\ presence'[v] = newest'[v]
               /\ \A x \in via'[v] : x[2] <= logins'[x[1]]
               /\ \A t \in Servers : One(via'[v]) /\ <<t, logins'[t]>> \in via'[v]
                                     => update_id'[v] < counter'[t]
    <3>1. CASE v # u
      <4>1. via'[v] = via[v] /\ newest'[v] = newest[v] /\ \A t \in Servers : counter'[t] >= counter[t]
        BY <1>0, <2>2, <3>1
      <4>. QED
        BY <1>0, <1>v, <2>6, <4>1
    <3>2. CASE v = u
      <4>1. IsFiniteSet(via'[u]) /\ via'[u] # {}
        BY <1>v, <2>2, FS_AddElement
      <4>2. \A x \in via'[u] : x[2] <= logins'[x[1]]
        BY <1>0, <1>v, <2>2, <2>6
      <4>3. ASSUME NEW t \in Servers, One(via'[u]), <<t, logins[t]>> \in via'[u]
            PROVE  update_id[u] < counter'[t]
        <5>1. t = s
          BY <2>2, <2>7, <4>3 DEF One
        <5>. QED
          BY <1>0, <2>2, <2>5, <4>3, <5>1
      <4>. QED
        BY <2>6, <3>2, <4>1, <4>2, <4>3
    <3>. QED
      BY <3>1, <3>2
  <2>k. ASSUME NEW t \in Servers, listener'[t] # Idle
        PROVE  \E x \in via'[listener'[t].user] : x[1] = t
    <3>1. CASE t = s
      BY <2>2, <2>3, <2>6, <3>1
    <3>2. CASE t # s
      <4>1. listener[t] # Idle /\ listener'[t].user = listener[t].user /\ listener[t].user \in Users
        BY <2>4, <2>k, <3>2, ListenerType DEF Named, Waiting
      <4>2. via[listener[t].user] \subseteq via'[listener[t].user]
        BY <2>2, <4>1
      <4>. QED
        BY <1>k, <4>1, <4>2
    <3>. QED
      BY <3>1, <3>2
  <2>j. ASSUME NEW t \in Servers, listener'[t].pc = "name", One(via'[listener'[t].user])
        PROVE  /\ update_id'[listener'[t].user] < listener'[t].id
               /\ listener'[t].presence = newest'[listener'[t].user]
               /\ <<t, logins'[t]>> \in via'[listener'[t].user] => listener'[t].id < counter'[t]
    <3>1. CASE t = s
      <4>1. listener'[t].user = u /\ listener'[t].id = counter[s] /\ listener'[t].presence = actual[u]
        BY <2>3, <3>1
      <4>2. update_id'[u] = update_id[u] /\ newest'[u] = actual[u] /\ counter'[t] = counter[s] + 1
        BY <2>2, <2>6, <3>1
      <4>3. One(via'[u])
        BY <2>j, <4>1
      <4>4. update_id[u] < counter[s] /\ counter[s] < counter[s] + 1
        BY <1>0, <2>5, <4>3
      <4>. QED
        BY <4>1, <4>2, <4>4
    <3>2. CASE t # s
      <4>1. /\ listener[t].pc = "name" /\ listener'[t].id = listener[t].id
            /\ listener'[t].presence = listener[t].presence /\ listener'[t] # Idle
        BY <1>i, <2>4, <2>j, <3>2
      <4>2. /\ listener[t] # Idle /\ listener'[t].user = listener[t].user /\ listener[t].user \in Users
        BY <1>i, <2>4, <3>2, <4>1
      <4>3. listener[t].user # u
        <5>1. ASSUME listener[t].user = u
              PROVE  FALSE
          <6>1. PICK x \in via[u] : x[1] = t
            BY <1>k, <4>2, <5>1
          <6>2. x = e
            BY <2>2, <2>j, <4>2, <5>1 DEF One
          <6>. QED
            BY <2>6, <3>2, <6>1, <6>2
        <5>. QED
          BY <5>1
      <4>4. via'[listener[t].user] = via[listener[t].user] /\ newest'[listener[t].user] = newest[listener[t].user]
            /\ counter'[t] = counter[t]
        BY <2>2, <3>2, <4>2, <4>3
      <4>. QED
        BY <1>j, <2>6, <2>j, <4>1, <4>2, <4>4
    <3>. QED
      BY <3>1, <3>2
  <2>f. ASSUME NEW v \in Users \ BadUsers, ~stopped', One(via'[v]),
               \A t \in Servers : listener'[t].pc = "name" => listener'[t].user # v
        PROVE  presence'[v] \in {newest'[v], "server_error"}
    <3>1. v # u
      BY <2>3, <2>f
    <3>2. via'[v] = via[v] /\ newest'[v] = newest[v]
      BY <2>2, <3>1
    <3>3. \A t \in Servers : listener[t].pc = "name" => listener[t].user # v
      <4>. SUFFICES ASSUME NEW t \in Servers, listener[t].pc = "name"
                    PROVE  listener[t].user # v
        OBVIOUS
      <4>1. t # s
        BY <1>i, <2>1
      <4>2. listener'[t].pc = "name" /\ listener'[t] # Idle
        BY <1>i, <2>4, <4>1
      <4>. QED
        BY <2>4, <2>f, <4>1, <4>2
    <3>. QED
      BY <1>f, <2>6, <2>f, <3>2, <3>3
  <2>. QED
    BY <2>v, <2>k, <2>j, <2>f DEF OrderInv
<1>4. ASSUME NEW s \in Servers, Listening(s)
      PROVE  OrderInv'
  <2>. DEFINE l == listener[s]
              u == l.user
  <2>1. /\ l # Idle /\ u \in Users
        /\ \A v \in Users \ {u} : presence'[v] = presence[v] /\ update_id'[v] = update_id[v]
        /\ \A t \in Servers \ {s} : listener'[t] = listener[t]
        /\ UNCHANGED <<stopped, counter, logins, newest, via>>
    BY <1>4, ListeningEffect
  <2>2. /\ \/ listener'[s] = Idle
           \/ listener'[s].pc = "capabilities" /\ listener'[s].user = u
        /\ \/ l.pc = "capabilities" /\ UNCHANGED <<presence, update_id>>
           \/ /\ l.pc = "name" /\ l.id \in Nat /\ update_id'[u] \in {update_id[u], l.id}
              /\ u \notin BadUsers /\ update_id[u] < l.id => presence'[u] \in {l.presence, "server_error"}
    BY <1>4, ListeningUser
  <2>3. PICK x \in via[u] : x[1] = s
    BY <1>k, <2>1
  <2>4. l = listener[s] /\ u = listener[s].user
    OBVIOUS
  <2>. HIDE DEF l, u
  <2>5. listener'[s].pc # "name"
    BY <1>i, <2>2
  <2>v. ASSUME NEW v \in Users
        PROVE  /\ via[v] = {} => update_id'[v] = -2 /\ presence'[v] = newest[v]
               /\ \A t \in Servers : One(via[v]) /\ <<t, logins[t]>> \in via[v] => update_id'[v] < counter[t]
    <3>1. CASE v # u
      BY <1>v, <2>1, <3>1
    <3>2. CASE v = u
      <4>1. via[u] # {}
        BY <2>3
      <4>2. ASSUME NEW t \in Servers, One(via[u]), <<t, logins[t]>> \in via[u]
            PROVE  update_id'[u] < counter[t]
        <5>1. t = s
          <6>1. x = <<t, logins[t]>>
            BY <2>3, <4>2 DEF One
          <6>. QED
            BY <2>3, <6>1
        <5>2. update_id[u] < counter[s]
          BY <1>v, <2>1, <4>2, <5>1
        <5>3. l.pc = "name" => l.id < counter[s]
          BY <1>j, <2>4, <4>2, <5>1
        <5>. QED
          BY <2>2, <5>1, <5>2, <5>3
      <4>. QED
        BY <3>2, <4>1, <4>2
    <3>. QED
      BY <3>1, <3>2
  <2>k. \A t \in Servers : listener'[t] # Idle => \E y \in via[listener'[t].user] : y[1] = t
    BY <1>k, <2>1, <2>2, <2>3
  <2>j. ASSUME NEW t \in Servers, listener'[t].pc = "name", One(via[listener'[t].user])
        PROVE  /\ update_id'[listener'[t].user] < listener'[t].id
               /\ listener'[t].presence = newest[listener'[t].user]
               /\ <<t, logins[t]>> \in via[listener'[t].user] => listener'[t].id < counter[t]
    <3>1. t # s /\ listener'[t] = listener[t]
      BY <2>1, <2>5, <2>j
    <3>2. listener[t].user # u
      <4>1. ASSUME listener[t].user = u
            PROVE  FALSE
        <5>1. PICK y \in via[u] : y[1] = t
          BY <1>i, <1>k, <2>j, <3>1, <4>1
        <5>2. x = y
          BY <2>j, <3>1, <4>1 DEF One
        <5>. QED
          BY <2>3, <3>1, <5>1, <5>2
      <4>. QED
        BY <4>1
    <3>3. listener[t].user \in Users
      BY <1>i, <2>j, <3>1
    <3>. QED
      BY <1>j, <2>1, <2>j, <3>1, <3>2, <3>3
  <2>f. ASSUME NEW v \in Users \ BadUsers, ~stopped, One(via[v]),
               \A t \in Servers : listener'[t].pc = "name" => listener'[t].user # v
        PROVE  presence'[v] \in {newest[v], "server_error"}
    <3>1. CASE v # u
      <4>1. \A t \in Servers : listener[t].pc = "name" => listener[t].user # v
        BY <2>1, <2>4, <2>f, <3>1
      <4>. QED
        BY <1>f, <2>1, <2>f, <3>1, <4>1
    <3>2. CASE v = u /\ l.pc = "name"
      <4>1. update_id[u] < l.id /\ l.presence = newest[u]
        BY <1>j, <2>4, <2>f, <3>2
      <4>. QED
        BY <2>2, <2>f, <3>2, <4>1
    <3>3. CASE v = u /\ l.pc # "name"
      <4>1. \A t \in Servers : listener[t].pc = "name" => listener[t].user # v
        BY <2>1, <2>4, <2>f, <3>3
      <4>. QED
        BY <1>f, <2>2, <2>f, <3>3, <4>1
    <3>. QED
      BY <3>1, <3>2, <3>3
  <2>. QED
    BY <1>v, <2>1, <2>v, <2>k, <2>j, <2>f DEF OrderInv
<1>. QED
  BY <1>1, <1>2, <1>3, <1>4, Steps

------------------------------------------------------------------------------
(* The theorems about presence and reachability.                           *)

PInv == TypeOK /\ UsersInv /\ LoneInv /\ OrderInv

\* The invariant holds initially.
LEMMA PresenceInit == Init => PInv
<1>. SUFFICES ASSUME Init PROVE PInv
  OBVIOUS
<1>1. TypeOK
  BY TypeInit
<1>2. UsersInv
  BY DEF Init, UsersInv
<1>3. Idle.pc = "idle" /\ \A s \in Servers : listener[s] = Idle
  BY DEF Init, Idle
<1>4. LoneInv
  BY <1>3 DEF Init, LoneInv
<1>5. \A u \in Users : via[u] = {} /\ update_id[u] = -2 /\ presence[u] = "none" /\ newest[u] = "none"
  BY DEF Init
<1>6. OrderInv
  BY <1>3, <1>5, FS_EmptySet DEF OrderInv
<1>. QED
  BY <1>1, <1>2, <1>4, <1>6 DEF PInv

\* Every step keeps the invariant.
LEMMA PresenceStep == PInv /\ [Next]_vars => PInv'
<1>. SUFFICES ASSUME PInv, [Next]_vars PROVE PInv'
  OBVIOUS
<1>1. TypeOK /\ UsersInv /\ LoneInv /\ OrderInv
  BY DEF PInv
<1>2. TypeOK'
  BY <1>1, TypeStep
<1>. QED
  BY <1>1, <1>2, UsersStep, LoneStep, OrderStep DEF PInv

\* The inductive invariant holds in every state.
LEMMA PresenceInvariant == Spec => []PInv
  BY PresenceInit, PresenceStep, PTL DEF Spec

\* The presences and their order.
LEMMA PresenceList ==
    /\ Presences = {"online", "unavailable", "offline", "unknown", "server_error", "none"}
    /\ Rank["online"] = 1 /\ Rank["unavailable"] = 2 /\ Rank["offline"] = 3
    /\ Rank["unknown"] = 4 /\ Rank["server_error"] = 5 /\ Rank["none"] = 6
  BY DEF Presences, Rank

\* The best presence is one of them, and none of them is better.
LEMMA BestIs ==
    ASSUME NEW ps \in SUBSET Presences, ps # {}
    PROVE  Best(ps) \in ps /\ \A q \in ps : Rank[Best(ps)] <= Rank[q]
<1>1. \E p \in ps : \A q \in ps : Rank[p] <= Rank[q]
  <2>. HIDE DEF Rank
  <2>1. CASE "online" \in ps
    BY <2>1, PresenceList
  <2>2. CASE "online" \notin ps /\ "unavailable" \in ps
    BY <2>2, PresenceList
  <2>3. CASE "online" \notin ps /\ "unavailable" \notin ps /\ "offline" \in ps
    BY <2>3, PresenceList
  <2>4. CASE ps \subseteq {"unknown", "server_error", "none"} /\ "unknown" \in ps
    BY <2>4, PresenceList
  <2>5. CASE ps \subseteq {"server_error", "none"} /\ "server_error" \in ps
    BY <2>5, PresenceList
  <2>6. CASE ps \subseteq {"none"}
    <3>1. ps = {"none"}
      BY <2>6
    <3>. QED
      BY <3>1, PresenceList
  <2>. QED
    BY <2>1, <2>2, <2>3, <2>4, <2>5, <2>6, PresenceList
<1>. QED
  BY <1>1 DEF Best

\* A node is reachable when one of its users is, and of unknown reachability
\* when nothing is known of any of them.
LEMMA CompositeIs ==
    ASSUME NEW ps \in SUBSET (Presences \ {"none"})
    PROVE  LET r == ReachabilityFor(Best(ps \cup {"none"})) IN
           /\ r = "reachable" <=> ps \cap {"online", "unavailable"} # {}
           /\ r = "unknown" <=> ps \subseteq {"unknown", "server_error"}
<1>. DEFINE b == Best(ps \cup {"none"})
            r == ReachabilityFor(b)
<1>1. "none" \in Presences
  BY PresenceList
<1>2. b \in ps \cup {"none"} /\ \A q \in ps \cup {"none"} : Rank[b] <= Rank[q]
  BY <1>1, BestIs
<1>3. /\ r = "reachable" <=> b \in {"online", "unavailable"}
      /\ r = "unknown" <=> b \notin {"online", "unavailable", "offline"}
  BY DEF ReachabilityFor
<1>. HIDE DEF b, r
<1>4. b \in {"online", "unavailable"} <=> ps \cap {"online", "unavailable"} # {}
  BY <1>2, PresenceList
<1>5. b \notin {"online", "unavailable", "offline"} <=> ps \subseteq {"unknown", "server_error"}
  BY <1>2, PresenceList
<1>. QED
  BY <1>3, <1>4, <1>5 DEF b, r

\* A node is reachable exactly when at least one of its Matrix users is, and
\* unknown exactly when none of them is known to be on or off line, once a
\* listener that had the address for itself (_presence_listener to
\* _maybe_update_address_reachability) has ended: whatever listeners that
\* overlapped had written before.
THEOREM LoneListenerLeavesTruth == Spec => []LoneListenerRepairs
<1>1. PInv => LoneListenerRepairs
  <2>. SUFFICES ASSUME PInv, NEW a \in Addresses, lone[a]
                PROVE  LET ps == {presence[u] : u \in userids[a]} IN
                       /\ reachability[a] = "reachable" <=> ps \cap {"online", "unavailable"} # {}
                       /\ reachability[a] = "unknown" <=> ps \subseteq {"unknown", "server_error"}
    BY DEF LoneListenerRepairs
  <2>. DEFINE ps == {presence[u] : u \in userids[a]}
  <2>1. ps \in SUBSET (Presences \ {"none"})
    BY DEF PInv, UsersInv, TypeOK
  <2>2. reachability[a] = ReachabilityFor(Best(ps \cup {"none"}))
    BY DEF PInv, LoneInv, Composite
  <2>. HIDE DEF ps
  <2>3. /\ reachability[a] = "reachable" <=> ps \cap {"online", "unavailable"} # {}
        /\ reachability[a] = "unknown" <=> ps \subseteq {"unknown", "server_error"}
    BY <2>1, <2>2, CompositeIs
  <2>. QED
    BY <2>3 DEF ps
<1>. QED
  BY <1>1, PresenceInvariant, PTL

\* A set with at most one element.
LEMMA AtMostOne ==
    ASSUME NEW S, IsFiniteSet(S), Cardinality(S) <= 1
    PROVE  One(S)
<1>. SUFFICES ASSUME NEW x \in S, NEW y \in S, x # y
              PROVE  FALSE
  BY DEF One
<1>1. IsFiniteSet({x}) /\ Cardinality({x}) = 1
  BY FS_Singleton
<1>2. Cardinality({x} \cup {y}) = Cardinality({x}) + 1
  BY <1>1, FS_AddElement
<1>3. {x} \cup {y} \subseteq S
  OBVIOUS
<1>4. Cardinality({x} \cup {y}) <= Cardinality(S)
  BY <1>3, FS_Subset
<1>5. Cardinality(S) \in Nat
  BY FS_CardinalityType
<1>. QED
  BY <1>1, <1>2, <1>4, <1>5

\* An event _set_user_presence ignores is older than the one it kept: as long
\* as a user's events come from one login of one client, whose ids grow, and no
\* listener is under way, the presence kept is that of the newest event, or
\* the error of a display name that could not be had.
THEOREM NewestStands == Spec => []NewestOfOneClient
<1>1. PInv => NewestOfOneClient
  <2>. SUFFICES ASSUME PInv, NEW u \in Users \ BadUsers, Quiet(AddressOf[u]), ~stopped,
                       Cardinality(via[u]) <= 1
                PROVE  presence[u] \in {newest[u], "server_error"}
    BY DEF NewestOfOneClient
  <2>1. TypeOK /\ OrderInv
    BY DEF PInv
  <2>2. One(via[u])
    BY <2>1, AtMostOne DEF OrderInv
  <2>3. \A s \in Servers : listener[s].pc = "name" => listener[s].user # u
    BY DEF Quiet, Busy, Idle
  <2>. QED
    BY <2>1, <2>2, <2>3 DEF OrderInv
<1>. QED
  BY <1>1, PresenceInvariant, PTL

==============================================================================
