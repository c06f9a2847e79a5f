--------------------------- MODULE MCPathRequests ---------------------------
(* Constant values for checking PathRequests with TLC.                     *)
EXTENDS PathRequests

\* Two mediators between the source and the target, with a channel between
\* them.
MCNodes == {"s", "m", "n", "t"}
MCChannels == {{"s", "m"}, {"s", "n"}, {"m", "t"}, {"n", "t"}, {"m", "n"}}

\* Everything that matters for a payment of 2: too little, just enough and
\* enough for fees.  What is sent back towards the source is fixed, and not
\* enough for a refund in the channels of n.
Forward == {<<"s", "m">>, <<"s", "n">>, <<"m", "t">>, <<"n", "t">>, <<"m", "n">>, <<"n", "m">>}
MCCapacities ==
    {[e \in Edges |-> IF e \in Forward THEN f[e] ELSE IF "n" \in {e[1], e[2]} THEN 1 ELSE 2] :
        f \in [Forward -> {1, 2, 4}]}

\* The mediators' fees differ from channel to channel.
MCFees ==
    {[e \in Edges |-> IF e = <<"m", "s">> \/ e = <<"n", "m">> THEN k
                      ELSE IF e = <<"m", "n">> THEN l ELSE 0] : k, l \in {0, 1}}

\* All nodes are there, or one is not, or is thought to be or not to be; or
\* channels are missing, those of the source or enough to cut it off.
Whole == {[open |-> MCChannels, reachable |-> MCNodes \ a, present |-> MCNodes \ b] :
            a \in {{}, {"m"}, {"s"}, {"t"}}, b \in {{}, {"m"}}}
Partial == {[open |-> MCChannels \ c, reachable |-> MCNodes, present |-> MCNodes] :
            c \in {{{"s", "m"}}, {{"s", "m"}, {"s", "n"}}, {{"s", "m"}, {"n", "t"}, {"m", "n"}}}}
MCSituations == Whole \cup Partial
=============================================================================
