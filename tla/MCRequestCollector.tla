-------------------------- MODULE MCRequestCollector --------------------------
(* A small instance of RequestCollector for TLC.                           *)
EXTENDS RequestCollector

CONSTANTS c1, c2, alice, bob

\* Alice's requests for both channels, and one that bob claims to be alice's.
MCMessages ==
    [ch : Channels, non_closing_signer : {alice}, non_closing_participant : {alice},
     reward_proof_signer : {alice}, same_chain : {TRUE}, nonce : {1, 2}]
    \cup [ch : {c1}, non_closing_signer : {bob}, non_closing_participant : {alice},
          reward_proof_signer : {bob}, same_chain : {TRUE}, nonce : {2}]
===============================================================================
