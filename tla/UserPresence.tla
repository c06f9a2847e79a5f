---------------------------- MODULE UserPresence ----------------------------
(***************************************************************************)
(* How the pathfinding service knows who is online.  Its ClientManager     *)
(* keeps one Matrix client per homeserver: the main client, and for every  *)
(* other server a greenlet that logs in again whenever that client's sync  *)
(* ends.  Each client's sync hands presence events to the shared           *)
(* MultiClientUserAddressManager, one after the other and numbered from 0  *)
(* by each client.  A listener asks the server for the display name, then  *)
(* updates the user's presence, and asks for the capabilities before it    *)
(* writes the reachability of the user's address: at both requests the     *)
(* listeners of other clients run.  Capabilities, display names and the    *)
(* times of changes are left out, and so are the methods of                *)
(* UserAddressManager the services never call.                             *)
(***************************************************************************)
EXTENDS Integers, FiniteSetsExt

CONSTANTS Servers,     \* homeservers of the federation
          Main,        \* the server of the main client
          Users,       \* Matrix users of Raiden nodes
          AddressOf,   \* the Ethereum address in each user's id
          ServerOf,    \* the homeserver in each user's id
          BadUsers,    \* users whose display name is not their signature
          Announced,   \* the presences users take
          MaxChanges,  \* bound: presence changes of all users
          MaxLogins    \* bound: logins at a server

Others == Servers \ {Main}
Addresses == {AddressOf[u] : u \in Users}

ASSUME PresenceConstants ==
    /\ Main \in Servers
    /\ AddressOf \in [Users -> Addresses]
    /\ ServerOf \in [Users -> Servers]
    /\ BadUsers \subseteq Users
    /\ Announced \subseteq {"online", "unavailable", "offline"}
    /\ MaxChanges \in Nat
    /\ MaxLogins \in Nat

VARIABLES
    \* the homeservers: each user's presence and how often it changed
    actual, version,
    \* ClientManager
    worker,      \* where connect_client_forever is, for each other server
    clients,     \* server_url_to_other_clients
    alive,       \* the client's sync worker runs
    stopped,     \* stop_event
    logins,      \* bound: logins so far
    \* the clients: the next update id, and each user's newest change seen
    counter, seen,
    \* MultiClientUserAddressManager
    registered,    \* server_url_to_listener_id
    userids,       \* _address_to_userids
    presence,      \* _userid_to_presence
    update_id,     \* _userid_to_presence_update_id
    reachability,  \* _address_to_reachabilitystate
    listener,      \* the presence listener each client is in
    \* history
    newest,  \* the newest change of a user that a listener was called with
    via,     \* the logins through which a user's changes came
    lone     \* the last listener of an address ended without others in between

servervars == <<actual, version>>
clientvars == <<worker, clients, alive, stopped, logins>>
syncvars == <<counter, seen>>
managervars == <<userids, presence, update_id, reachability>>
vars == <<servervars, clientvars, syncvars, registered, managervars, listener, newest, via, lone>>

\* UserPresence, from the best to the worst; "none" is no entry.
Rank == [online |-> 1, unavailable |-> 2, offline |-> 3, unknown |-> 4, server_error |-> 5,
         none |-> 6]
ServerPresences == {"online", "unavailable", "offline"}
Presences == DOMAIN Rank
Reachabilities == {"reachable", "unreachable", "unknown"}

Idle == [pc |-> "idle"]
Named == [pc : {"name"}, user : Users, presence : ServerPresences, id : Nat, lone : BOOLEAN]
Waiting == [pc : {"capabilities"}, user : Users, new : Reachabilities, lone : BOOLEAN]

TypeOK ==
    /\ actual \in [Users -> ServerPresences]
    /\ version \in [Users -> Nat]
    /\ worker \in [Others -> {"start", "login", "sync", "ended"}]
    /\ clients \in SUBSET Others
    /\ alive \in [Servers -> BOOLEAN]
    /\ stopped \in BOOLEAN
    /\ logins \in [Servers -> Nat]
    /\ counter \in [Servers -> Nat]
    /\ seen \in [Servers -> [Users -> Nat]]
    /\ registered \in SUBSET Servers
    /\ userids \in [Addresses -> SUBSET Users]
    /\ presence \in [Users -> Presences]
    /\ update_id \in [Users -> Int]
    /\ reachability \in [Addresses -> Reachabilities]
    /\ listener \in [Servers -> Named \cup Waiting \cup {Idle}]
    /\ newest \in [Users -> ServerPresences \cup {"none"}]
    /\ via \in [Users -> SUBSET (Servers \X Nat)]
    /\ lone \in [Addresses -> BOOLEAN]

\* user_manager.start() and the main client's login are done; the greenlets of
\* the other servers have been spawned.
Init ==
    /\ actual = [u \in Users |-> "offline"] /\ version = [u \in Users |-> 0]
    /\ worker = [s \in Others |-> "start"] /\ clients = {}
    /\ alive = [s \in Servers |-> s = Main]
    /\ stopped = FALSE /\ logins = [s \in Servers |-> 0]
    /\ counter = [s \in Servers |-> 0]
    /\ seen = [s \in Servers |-> [u \in Users |-> 0]]
    /\ registered = {Main}
    /\ userids = [a \in Addresses |-> {}]
    /\ presence = [u \in Users |-> "none"] /\ update_id = [u \in Users |-> -2]
    /\ reachability = [a \in Addresses |-> "unknown"]
    /\ listener = [s \in Servers |-> Idle]
    /\ newest = [u \in Users |-> "none"] /\ via = [u \in Users |-> {}]
    /\ lone = [a \in Addresses |-> FALSE]

------------------------------------------------------------------------------
(* The homeservers.  A sync hands over the presence of every user that     *)
(* changed since the client's last one, the first sync all of them.        *)

Change(u, p) ==
    /\ MapThenSumSet(LAMBDA v : version[v], Users) < MaxChanges
    /\ p # actual[u]
    /\ actual' = [actual EXCEPT ![u] = p]
    /\ version' = [version EXCEPT ![u] = @ + 1]
    /\ UNCHANGED <<clientvars, syncvars, registered, managervars, listener, newest, via, lone>>

SyncEnds(s) ==
    /\ alive[s] /\ listener[s] = Idle
    /\ alive' = [alive EXCEPT ![s] = FALSE]
    /\ UNCHANGED <<servervars, worker, clients, stopped, logins, syncvars, registered,
                   managervars, listener, newest, via, lone>>

------------------------------------------------------------------------------
(* ClientManager.                                                          *)

\* The greenlet of a server is about to log in: for the first time, after a
\* login that failed, or because the client's sync has ended.
Awake(s) == worker[s] = "start" \/ (worker[s] = "sync" /\ ~alive[s])

\* Seeded fault: the listener of a client that stopped stays registered.
MutantConnectClient(s) ==
    /\ Awake(s) /\ ~stopped /\ logins[s] < MaxLogins
    /\ worker' = [worker EXCEPT ![s] = "login"]
    /\ clients' = clients \cup {s}
    /\ UNCHANGED <<servervars, alive, stopped, logins, syncvars, registered, managervars,
                   listener, newest, via, lone>>

\* connect_client_forever: the client that stopped is forgotten, its listener
\* too, and a new one is made, which begins to log in.
ConnectClient(s) ==
    /\ Awake(s) /\ ~stopped /\ logins[s] < MaxLogins
    /\ worker' = [worker EXCEPT ![s] = "login"]
    /\ clients' = clients \cup {s}
    /\ registered' = registered \ {s}
    /\ UNCHANGED <<servervars, alive, stopped, logins, syncvars, managervars, listener, newest,
                   via, lone>>

LoginFails(s) ==
    /\ worker[s] = "login"
    /\ worker' = [worker EXCEPT ![s] = "start"]
    /\ UNCHANGED <<servervars, clients, alive, stopped, logins, syncvars, registered,
                   managervars, listener, newest, via, lone>>

\* The rest of _start_client: the client's sync begins, with update ids from 0,
\* and its listener is registered.  stop_event is not looked at again.
LoginSucceeds(s) ==
    /\ worker[s] = "login"
    /\ worker' = [worker EXCEPT ![s] = "sync"]
    /\ alive' = [alive EXCEPT ![s] = TRUE]
    /\ logins' = [logins EXCEPT ![s] = @ + 1]
    /\ counter' = [counter EXCEPT ![s] = 0]
    /\ seen' = [seen EXCEPT ![s] = [u \in Users |-> 0]]
    /\ registered' = registered \cup {s}
    /\ UNCHANGED <<servervars, clients, stopped, managervars, listener, newest, via, lone>>

\* An exception nobody expects ends the greenlet and the main client.
UnhandledError(s) ==
    /\ worker[s] = "sync" /\ ~alive[s] /\ listener[Main] = Idle
    /\ worker' = [worker EXCEPT ![s] = "ended"]
    /\ alive' = [alive EXCEPT ![Main] = FALSE]
    /\ UNCHANGED <<servervars, clients, stopped, logins, syncvars, registered, managervars,
                   listener, newest, via, lone>>

WorkerStops(s) ==
    /\ Awake(s) /\ stopped
    /\ worker' = [worker EXCEPT ![s] = "ended"]
    /\ UNCHANGED <<servervars, clients, alive, stopped, logins, syncvars, registered,
                   managervars, listener, newest, via, lone>>

\* MatrixListener._run waits for the main client's sync and then stops all the
\* clients; a listener one of them is in dies with it.
Stop ==
    /\ ~alive[Main] /\ ~stopped
    /\ stopped' = TRUE
    /\ clients' = {}
    /\ alive' = [s \in Servers |-> alive[s] /\ s \notin clients \cup {Main}]
    /\ registered' = registered \ (clients \cup {Main})
    /\ listener' = [s \in Servers |-> IF s \in clients \cup {Main} THEN Idle ELSE listener[s]]
    /\ UNCHANGED <<servervars, worker, logins, syncvars, managervars, newest, via, lone>>

------------------------------------------------------------------------------
(* MultiClientUserAddressManager.                                          *)

\* _filter_presence: a client handles the users of its own server, the main
\* client those of all servers without a client, too.
Consumes(s, u) ==
    IF s = Main THEN ServerOf[u] \notin registered \ {Main} ELSE ServerOf[u] = s

\* The servers whose clients are in a listener for an address.
Busy(a) == {s \in Servers : listener[s] # Idle /\ AddressOf[listener[s].user] = a}

\* A sync calls the client's listener with a presence.
Hear(s, u) ==
    /\ alive[s] /\ s \in registered /\ listener[s] = Idle
    /\ seen[s][u] < version[u]
    /\ seen' = [seen EXCEPT ![s][u] = version[u]]
    /\ counter' = [counter EXCEPT ![s] = @ + 1]
    /\ IF Consumes(s, u)
       THEN LET a == AddressOf[u] IN
            /\ listener' = [t \in Servers |->
                  IF t = s
                  THEN [pc |-> "name", user |-> u, presence |-> actual[u], id |-> counter[s],
                        lone |-> Busy(a) = {}]
                  ELSE IF t \in Busy(a) THEN [listener[t] EXCEPT !.lone = FALSE]
                  ELSE listener[t]]
            /\ newest' = [newest EXCEPT ![u] = actual[u]]
            /\ via' = [via EXCEPT ![u] = @ \cup {<<s, logins[s]>>}]
            /\ lone' = [lone EXCEPT ![a] = FALSE]
       ELSE UNCHANGED <<listener, newest, via, lone>>
    /\ UNCHANGED <<servervars, clientvars, registered, managervars>>

\* Seeded fault: a user without an update id is taken to have had the first.
MutantFresh(u, id) == (IF update_id[u] = -2 THEN 0 ELSE update_id[u]) < id

\* _set_user_presence: an update id that is not known is -2.
Fresh(u, id) == update_id[u] < id

SetUserPresence(u, p, id) ==
    LET set == Fresh(u, id) /\ presence[u] # p IN
    /\ presence' = IF set THEN [presence EXCEPT ![u] = p] ELSE presence
    /\ update_id' = IF set THEN [update_id EXCEPT ![u] = id] ELSE update_id

\* The display name cannot be had: the user's presence becomes SERVER_ERROR,
\* the address's reachability is left as it is.
NameUnknown(s) ==
    /\ listener[s].pc = "name"
    /\ SetUserPresence(listener[s].user, "server_error", listener[s].id)
    /\ listener' = [listener EXCEPT ![s] = Idle]
    /\ UNCHANGED <<servervars, clientvars, syncvars, registered, userids, reachability, newest,
                   via, lone>>

NameInvalid(s) ==
    /\ listener[s].pc = "name" /\ listener[s].user \in BadUsers
    /\ listener' = [listener EXCEPT ![s] = Idle]
    /\ UNCHANGED <<servervars, clientvars, syncvars, registered, managervars, newest, via, lone>>

\* Seeded fault: the presence is taken for the reachability.
MutantReachabilityFor(p) == p

\* USER_PRESENCE_TO_ADDRESS_REACHABILITY
ReachabilityFor(p) ==
    CASE p \in {"online", "unavailable"} -> "reachable"
      [] p = "offline" -> "unreachable"
      [] OTHER -> "unknown"

\* Seeded fault: the worst presence of a node's users counts.
MutantBest(ps) == CHOOSE p \in ps : \A q \in ps \ {"none"} : Rank[p] >= Rank[q] /\ p # "none"

\* The best of some presences.
Best(ps) == CHOOSE p \in ps : \A q \in ps : Rank[p] <= Rank[q]

\* The reachability of an address with these users.
Composite(us, pres) == ReachabilityFor(Best({pres[u] : u \in us} \cup {"none"}))

\* The display name is the user's signature: the user belongs to the address,
\* its presence is set, and the address's reachability is looked at.
NameKnown(s) ==
    LET l == listener[s]
        a == AddressOf[l.user]
        new == Composite(userids'[a], presence')
    IN
    /\ l.pc = "name" /\ l.user \notin BadUsers
    /\ userids' = [userids EXCEPT ![a] = @ \cup {l.user}]
    /\ SetUserPresence(l.user, l.presence, l.id)
    /\ IF new = reachability[a]
       THEN /\ listener' = [listener EXCEPT ![s] = Idle]
            /\ lone' = [lone EXCEPT ![a] = l.lone]
       ELSE /\ listener' = [listener EXCEPT ![s] =
                  [pc |-> "capabilities", user |-> l.user, new |-> new, lone |-> l.lone]]
            /\ UNCHANGED lone
    /\ UNCHANGED <<servervars, clientvars, syncvars, registered, reachability, newest, via>>

\* The server's answer with the capabilities is there.
CapabilitiesKnown(s) ==
    LET l == listener[s]
        a == AddressOf[l.user]
    IN
    /\ l.pc = "capabilities"
    /\ reachability' = [reachability EXCEPT ![a] = l.new]
    /\ listener' = [listener EXCEPT ![s] = Idle]
    /\ lone' = [lone EXCEPT ![a] = l.lone]
    /\ UNCHANGED <<servervars, clientvars, syncvars, registered, userids, presence, update_id,
                   newest, via>>

------------------------------------------------------------------------------
Connection(s) ==
    ConnectClient(s) \/ LoginFails(s) \/ LoginSucceeds(s) \/ UnhandledError(s) \/ WorkerStops(s)

Listening(s) == NameUnknown(s) \/ NameInvalid(s) \/ NameKnown(s) \/ CapabilitiesKnown(s)

Next ==
    \/ \E u \in Users, p \in Announced : Change(u, p)
    \/ \E s \in Servers : SyncEnds(s)
    \/ \E s \in Others : Connection(s)
    \/ Stop
    \/ \E s \in Servers, u \in Users : Hear(s, u)
    \/ \E s \in Servers : Listening(s)

Spec == Init /\ [][Next]_vars

------------------------------------------------------------------------------
(* Properties.                                                             *)

\* While the service runs, the presences of every user are handled by exactly
\* one client, and by one whose sync runs, except for the moment between the
\* end of a sync and the wake-up of its greenlet: the main client steps in
\* for a server whose client is gone, and steps back when it is there again.
EveryUserHeardOnce ==
    alive[Main] /\ ~stopped =>
        \A u \in Users : \E s \in registered :
            /\ Consumes(s, u)
            /\ \A t \in registered : Consumes(t, u) => t = s
            /\ alive[s] \/ (s # Main /\ worker[s] = "sync")

Quiet(a) == Busy(a) = {}

\* "if there is at least one Matrix user that is reachable, then the Raiden
\* node is considered reachable": a listener that has an address for itself
\* leaves it so, whatever earlier listeners that overlapped left behind.  After
\* listeners that overlap it need not hold: the one that asked for the
\* capabilities first may write its reachability, computed before, last.
LoneListenerRepairs ==
    \A a \in Addresses :
        Quiet(a) /\ lone[a] =>
            LET ps == {presence[u] : u \in userids[a]} IN
            /\ reachability[a] = "reachable" <=> ps \cap {"online", "unavailable"} # {}
            /\ reachability[a] = "unknown" <=> ps \subseteq {"unknown", "server_error"}

\* "We've already received a more recent presence (or the same one)": what is
\* ignored is older than what is kept, so that the presence of a user is that
\* of the newest event, or an error, as long as the events come from one login
\* of one client.  The events of a client that took over are compared by ids
\* counted from 0 again, and newer ones of them may be ignored.
NewestOfOneClient ==
    \A u \in Users \ BadUsers :
        Quiet(AddressOf[u]) /\ ~stopped /\ Cardinality(via[u]) <= 1 =>
            presence[u] \in {newest[u], "server_error"}
==============================================================================
