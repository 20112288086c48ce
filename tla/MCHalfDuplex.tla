---------------------------- MODULE MCHalfDuplex ----------------------------
(***************************************************************************)
(* The half-duplex link for TLC: the refinement mapping to MessageLink and *)
(* the liveness properties.                                                *)
(***************************************************************************)
EXTENDS HalfDuplex

\* The payloads of the information messages among the first n frames of q ...
BodiesUpTo(q) ==
    LET upTo[n \in 0 .. Len(q)] ==
            IF n = 0 THEN <<>>
            ELSE IF q[n].type = "INFO" THEN Append(upTo[n - 1], q[n].body)
            ELSE upTo[n - 1]
    IN upTo

\* ... and among all of them.
Bodies(q) == BodiesUpTo(q)[Len(q)]

Link == INSTANCE MessageLink WITH
    Ends    <- Stations,
    MayDrop <- MaxFaults > 0,
    sent    <- [d \in Stations |-> enqueued[Peer(d)]],
    pending <- [d \in Stations |-> Bodies(line[d]) \o output_queue[Peer(d)]],
    arrived <- [d \in Stations |-> delivered[d] \o input_queue[d]]

\* The protocol implements the link: every step of the two stations sends,
\* delivers in order, drops one message, or changes nothing the applications
\* can see.
ImplementsLink == Link!LinkSpec

\* bravo has been offered the line and has asked for it, and waits for alpha.
BravoWaits ==
    /\ state["bravo"] = "MASTER_SELECT_ACK_RECEIVE"
    /\ state["alpha"] = "SLAVE_SELECT_RECEIVE"

\* Every message alpha's application enqueues reaches bravo's application,
\* unless the stations come to wait for each other for ever after bravo's
\* select request: on a clean line nothing else keeps a message back.
AlphaMessagesArrive ==
    [](faults = 0) => \A n \in 1 .. AlphaMsgs :
        enqueued["alpha"] >= n ~>
            \/ \E i \in DOMAIN delivered["bravo"] : delivered["bravo"][i] = n
            \/ []BravoWaits

\* As long as the line loses nothing, each message enqueued at one end is in
\* exactly one place, in order: with the other application, in its
\* input_queue, on the line or in output_queue.  The no-response timer may
\* expire late and interrupt a transfer; it makes no message disappear.
NothingSkipped ==
    faults = 0 =>
        \A s \in Stations :
            delivered[s] \o input_queue[s] \o Bodies(line[s])
                \o output_queue[Peer(s)] = [i \in 1 .. enqueued[Peer(s)] |-> i]

\* The waits that no timer ends: for the ACK of an information message, for
\* the peer after an offer of the line, and all of bravo's, which has no timer.
UntimedWaits(s) ==
    {"MASTER_INFO_ACK_RECEIVE", "SLAVE_SELECT_RECEIVE"}
        \cup IF s = Controller THEN {}
             ELSE {"MASTER_SELECT_ACK_RECEIVE", "SLAVE_INFO_RECEIVE"}

\* Whatever the line loses, a station that does not end its process comes back
\* to NEUTRAL again and again, or it stays for ever in one wait that the code
\* gave no timer.  Nothing else holds it up: not the wait for the answer to
\* alpha's selection, a repeated refusal or an endless exchange of frames.
OnlyUntimedWaitsLast ==
    \A s \in Stations :
        \/ []<>(state[s] = "NEUTRAL" \/ up[s] # "running")
        \/ \E wait \in UntimedWaits(s) : <>[](state[s] = wait)

\* "Now we wait for the peer's select request" (poll): the request that bravo
\* then makes is answered.
SelectRequestAnswered ==
    state["bravo"] = "MASTER_SELECT_ACK_RECEIVE" ~>
        state["bravo"] # "MASTER_SELECT_ACK_RECEIVE" \/ up["bravo"] # "running"

=============================================================================
