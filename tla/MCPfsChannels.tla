---------------------------- MODULE MCPfsChannels ----------------------------
(* A small instance of PfsChannels for TLC: two channels, one after the    *)
(* other, between the same two nodes.                                      *)
EXTENDS PfsChannels

CONSTANTS c1, c2, alice, bob, carol

MCPairOf == [c \in Channels |-> {alice, bob}]

Capacity(from, to, c, a, b) ==
    [type |-> "capacity", ch |-> c, from |-> from, partner |-> to, updating |-> a, other |-> b]
Fee(from, c, t) == [type |-> "fee", ch |-> c, from |-> from, timestamp |-> t]

\* Of the first channel alice alone says something, and names herself as her
\* partner; of the second one bob says less than alice.  Carol does not take part
\* in either.
MCMessages ==
    {Capacity(alice, alice, c1, 2, 0),
     Capacity(alice, bob, c2, 2, 0), Capacity(bob, alice, c2, 0, 1),
     Capacity(carol, bob, c2, 2, 2), Fee(alice, c2, 1), Fee(alice, c2, 2)}
==============================================================================
