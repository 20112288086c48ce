----------------------------- MODULE MessageLink -----------------------------
(***************************************************************************)
(* What a link promises to the two applications that use it: messages sent *)
(* at the other end arrive in order and at most once; a link that may not  *)
(* drop delivers every message before any later one.                       *)
(***************************************************************************)
EXTENDS Integers, Sequences

CONSTANTS Ends, MayDrop

VARIABLES
    sent,     \* sent[d]: how many messages were given to the link for d
    pending,  \* pending[d]: those not yet at d, oldest first
    arrived   \* arrived[d]: those d has received, in order of arrival

LinkInit ==
    /\ sent = [d \in Ends |-> 0]
    /\ pending = [d \in Ends |-> <<>>]
    /\ arrived = [d \in Ends |-> <<>>]

Send(d) ==
    /\ sent' = [sent EXCEPT ![d] = @ + 1]
    /\ pending' = [pending EXCEPT ![d] = Append(@, sent[d] + 1)]
    /\ UNCHANGED arrived

Arrive(d) ==
    /\ pending[d] # <<>>
    /\ arrived' = [arrived EXCEPT ![d] = Append(@, Head(pending[d]))]
    /\ pending' = [pending EXCEPT ![d] = Tail(@)]
    /\ UNCHANGED sent

Drop(d) ==
    /\ MayDrop
    /\ \E i \in 1 .. Len(pending[d]) :
          pending' = [pending EXCEPT ![d] =
                        SubSeq(@, 1, i - 1) \o SubSeq(@, i + 1, Len(@))]
    /\ UNCHANGED <<sent, arrived>>

LinkNext == \E d \in Ends : Send(d) \/ Arrive(d) \/ Drop(d)

LinkSpec == LinkInit /\ [][LinkNext]_<<sent, pending, arrived>>

==============================================================================
