---------------------------- MODULE BlockFollower ----------------------------
(***************************************************************************)
(* What following the blockchain promises, whatever batches it is done in  *)
(* and wherever the process is killed: the events of a block are handled   *)
(* only once the block is confirmed and before the block is committed, a   *)
(* committed block is never handled again, and the commit pointer moves    *)
(* forward over blocks all of whose events were handled.                   *)
(***************************************************************************)
EXTENDS Integers

CONSTANTS Sources,        \* the contracts a block is queried for
          SyncStart       \* the block a fresh database starts from

VARIABLES confirmed,      \* the newest confirmed block of the chain
          committed,      \* the block up to which everything is done
          handled         \* <<source, block>> pairs whose events were handled

fvars == <<confirmed, committed, handled>>

FInit ==
    /\ confirmed \in Int
    /\ committed = SyncStart
    /\ handled = {}

\* Another block is confirmed.
Grow ==
    /\ confirmed' = confirmed + 1
    /\ UNCHANGED <<committed, handled>>

\* The events that one contract emitted in a confirmed, uncommitted block.
HandleBlock(s, b) ==
    /\ b \in (committed + 1) .. confirmed
    /\ handled' = handled \cup {<<s, b>>}
    /\ UNCHANGED <<confirmed, committed>>

\* Everything up to block b is done.
Commit(b) ==
    /\ b > committed
    /\ \A s \in Sources, c \in (committed + 1) .. b : <<s, c>> \in handled
    /\ committed' = b
    /\ UNCHANGED <<confirmed, handled>>

FNext ==
    \/ Grow
    \/ \E s \in Sources, b \in (committed + 1) .. confirmed : HandleBlock(s, b)
    \/ \E b \in (committed + 1) .. confirmed : Commit(b)

FSpec == FInit /\ [][FNext]_fvars
==============================================================================
