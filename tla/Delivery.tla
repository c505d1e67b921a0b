------------------------------ MODULE Delivery ------------------------------
(***************************************************************************)
(* What a transfer promises, without packets, segments, retries or a       *)
(* network: a sender hands total chunks to a receiver one at a time.  The  *)
(* receiver accepts a chunk, the sender confirms it, and only then is the  *)
(* next one accepted.  The receiver judges the whole file once every chunk *)
(* is confirmed.  The sender may report success only after a good verdict, *)
(* the receiver only after some verdict; both may fail at any time.        *)
(***************************************************************************)
EXTENDS Naturals

VARIABLES
  total,      \* number of chunks
  accepted,   \* chunks the receiver has accepted
  confirmed,  \* chunks the sender knows to be accepted
  verdict,    \* the receiver's judgement of the whole file
  sender,     \* what the sender reported
  receiver    \* what the receiver reported

vars == <<total, accepted, confirmed, verdict, sender, receiver>>

Init ==
  /\ total \in Nat \ {0}
  /\ accepted = 0 /\ confirmed = 0
  /\ verdict = "none"
  /\ sender = "running" /\ receiver = "running"

Accept ==
  /\ receiver = "running"
  /\ accepted = confirmed /\ accepted < total
  /\ accepted' = accepted + 1
  /\ UNCHANGED <<total, confirmed, verdict, sender, receiver>>

Confirm ==
  /\ sender = "running"
  /\ confirmed < accepted
  /\ confirmed' = accepted
  /\ UNCHANGED <<total, accepted, verdict, sender, receiver>>

Judge ==
  /\ receiver = "running"
  /\ verdict = "none" /\ confirmed = total
  /\ verdict' \in {"match", "mismatch"}
  /\ UNCHANGED <<total, accepted, confirmed, sender, receiver>>

SenderReturns ==
  /\ sender = "running"
  /\ \/ sender' = "success" /\ verdict = "match"
     \/ sender' = "failure"
  /\ UNCHANGED <<total, accepted, confirmed, verdict, receiver>>

ReceiverReturns ==
  /\ receiver = "running"
  /\ \/ receiver' = "success" /\ verdict # "none"
     \/ receiver' = "failure"
  /\ UNCHANGED <<total, accepted, confirmed, verdict, sender>>

Next == Accept \/ Confirm \/ Judge \/ SenderReturns \/ ReceiverReturns

Spec == Init /\ [][Next]_vars
=============================================================================
