----------------------------------- MODULE Channel -----------------------------------
(***************************************************************************)
(* What the programs at the ends expect of the network for each of its     *)
(* flows, as RequestReply does once the routers have bound their sockets:  *)
(* packets may be lost, but those that arrive do so in the order they were *)
(* sent, each once.  What one flow does leaves the others free.            *)
(***************************************************************************)
EXTENDS Integers, Sequences, SequencesExt

VARIABLES
  sent,       \* for each flow, how many packets have been sent, numbered from 1
  transit,    \* those under way, in order
  received    \* those received, in order

Quiet(f) == sent'[f] = sent[f] /\ transit'[f] = transit[f] /\ received'[f] = received[f]

\* A packet may be lost at once.
Send(f) ==
  /\ sent'[f] = sent[f] + 1
  /\ transit'[f] \in {Append(transit[f], sent'[f]), transit[f]}
  /\ received'[f] = received[f]

Lose(f) ==
  /\ \E k \in DOMAIN transit[f] : transit'[f] = RemoveAt(transit[f], k)
  /\ sent'[f] = sent[f] /\ received'[f] = received[f]

Deliver(f) ==
  /\ transit[f] # <<>>
  /\ received'[f] = Append(received[f], Head(transit[f]))
  /\ transit'[f] = Tail(transit[f])
  /\ sent'[f] = sent[f]

ChanStep(f) == Send(f) \/ Lose(f) \/ Deliver(f)
=================================================================================
