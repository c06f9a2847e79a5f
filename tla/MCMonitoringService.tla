------------------------ MODULE MCMonitoringService ------------------------
(* Small instances of MonitoringService for TLC.  Where A closes, B is the *)
(* client whose requests matter.                                           *)
EXTENDS MonitoringService

CONSTANTS c1, c2, tn

MCNetOf == [c \in Channels |-> tn]

\* The deposit covers the reward of 1, with and without times when it does not.
FullDeposit == [p \in Participants |-> {2}]
ChangingDeposit == [A |-> {2}, B |-> {0, 2}]

\* B asks to be monitored once in each channel, or with two nonces.
OneRequest ==
    [ch : Channels, who : {"B"}, nonce : {1}, signer : {"A"}, reward : {1}]
TwoRequests ==
    [ch : Channels, who : {"B"}, nonce : {1, 2}, signer : {"A"}, reward : {1}]
=============================================================================
