----------------------------- MODULE HalfDuplex -----------------------------
(***************************************************************************)
(* The ISO-1745 half-duplex link of src/halfduplex: two processes, each    *)
(* with one Half_duplex object on its end of a serial line.  "alpha" is    *)
(* the controlling station (controller_ is true), "bravo" the other one.   *)
(*                                                                         *)
(* Each process runs one io_service thread, so every handler (read, poll   *)
(* timer, no-response timer, the application's calls) is one step.  A read *)
(* may end at any byte, and read_handler does nothing between two messages *)
(* of one read, so a read of k messages is k consecutive steps; the one    *)
(* thing that reaches across messages, the clearing of the input buffer    *)
(* on a malformed one, is in Rests.  Frames are what parse_input makes of  *)
(* the bytes (module HalfDuplexFraming); a payload is the sequence number  *)
(* of the enqueue_message call that created it.                            *)
(***************************************************************************)
EXTENDS Integers, Sequences

CONSTANTS
    AlphaMsgs,     \* bound: enqueue_message calls at alpha
    BravoMsgs,     \* bound: enqueue_message calls at bravo
    MaxEnqTries,   \* MAX_ENQ_TRIES
    MaxInfoTries,  \* MAX_INFO_TRIES
    MaxFaults,     \* bound: frames the line may lose or garble
    LineCap,       \* bound: frames in flight when a timer handler writes
    Garbling,      \* may the line garble frames, or only lose them?
    LateTimeouts   \* may the no-response timer expire while frames travel?

ASSUME ConstantsAssumption ==
    /\ AlphaMsgs \in Nat /\ BravoMsgs \in Nat
    /\ MaxEnqTries \in Nat /\ MaxInfoTries \in Nat
    /\ MaxFaults \in Nat /\ LineCap \in Nat
    /\ Garbling \in BOOLEAN /\ LateTimeouts \in BOOLEAN

Stations == {"alpha", "bravo"}

Controller == "alpha"

Peer(s) == IF s = "alpha" THEN "bravo" ELSE "alpha"

\* The states in which a handler can leave a station.  The five others of
\* enum State are set and left again within one handler.
States == {"NEUTRAL", "POLL_TRANSMIT", "MASTER_SELECT_ACK_RECEIVE",
           "MASTER_INFO_ACK_RECEIVE", "SLAVE_SELECT_RECEIVE",
           "SLAVE_INFO_RECEIVE"}

\* "DLE" is a message introduced by DLE: parse_input returns no Msg for it.
Msg_type == {"ACK", "NAK", "EOT", "ENQ", "INFO", "MALFORMED", "DLE"}

Msg == [type : Msg_type, prefix : {"", "alpha", "bravo"}, body : Nat]

Simple(typ) == [type |-> typ, prefix |-> "", body |-> 0]

Enq(name) == [type |-> "ENQ", prefix |-> name, body |-> 0]

\* The body 0 stands for the text of a garbled information message.
Info(n) == [type |-> "INFO", prefix |-> "", body |-> n]

VARIABLES
    up,            \* "running", "threw" (out of io_service::run) or "aborted"
    state,         \* state_
    enq_nak_count,
    info_nak_count,
    timer_armed,   \* alpha's no_response_timer_ has a pending async_wait
    timer_queued,  \* that wait has expired; its completion handler is queued
    output_queue,
    last_message,  \* payload of last_message_, 0 before the first
    input_queue,
    line,          \* line[s]: frames on their way to s, oldest first
    enqueued,      \* how many messages the application of s has enqueued
    delivered,     \* payloads the application of s got from get_next_message
    faults

linkVars == <<line, faults>>

timerVars == <<timer_armed, timer_queued>>

appVars == <<input_queue, enqueued, delivered>>

vars == <<up, state, enq_nak_count, info_nak_count, timerVars, output_queue,
          last_message, appVars, linkVars>>

\* The constructor, on both ends, with nothing on the line.
Init ==
    /\ up = [s \in Stations |-> "running"]
    /\ state = [s \in Stations |-> "NEUTRAL"]
    /\ enq_nak_count = [s \in Stations |-> 0]
    /\ info_nak_count = [s \in Stations |-> 0]
    /\ timer_armed = FALSE /\ timer_queued = FALSE
    /\ output_queue = [s \in Stations |-> <<>>]
    /\ last_message = [s \in Stations |-> 0]
    /\ input_queue = [s \in Stations |-> <<>>]
    /\ line = [s \in Stations |-> <<>>]
    /\ enqueued = [s \in Stations |-> 0]
    /\ delivered = [s \in Stations |-> <<>>]
    /\ faults = 0

-----------------------------------------------------------------------------
(* The application: calls made from a handler of the same io_service.      *)

\* Mutant: push_front for push_back.
enqueue_at_front(s) ==
    /\ up[s] = "running"
    /\ enqueued[s] < IF s = "alpha" THEN AlphaMsgs ELSE BravoMsgs
    /\ enqueued' = [enqueued EXCEPT ![s] = @ + 1]
    /\ output_queue' = [output_queue EXCEPT ![s] = <<enqueued[s] + 1>> \o @]
    /\ UNCHANGED <<up, state, enq_nak_count, info_nak_count, timerVars,
                   last_message, input_queue, delivered, linkVars>>

enqueue_message(s) ==
    /\ up[s] = "running"
    /\ enqueued[s] < IF s = "alpha" THEN AlphaMsgs ELSE BravoMsgs
    /\ enqueued' = [enqueued EXCEPT ![s] = @ + 1]
    /\ output_queue' = [output_queue EXCEPT ![s] = Append(@, enqueued[s] + 1)]
    /\ UNCHANGED <<up, state, enq_nak_count, info_nak_count, timerVars,
                   last_message, input_queue, delivered, linkVars>>

\* Mutant: back and pop_back for front and pop_front.
get_last_message(s) ==
    /\ up[s] = "running"
    /\ input_queue[s] # <<>>
    /\ LET n == Len(input_queue[s]) IN
       /\ delivered' = [delivered EXCEPT ![s] = Append(@, input_queue[s][n])]
       /\ input_queue' = [input_queue EXCEPT ![s] = SubSeq(@, 1, n - 1)]
    /\ UNCHANGED <<up, state, enq_nak_count, info_nak_count, timerVars,
                   output_queue, last_message, enqueued, linkVars>>

get_next_message(s) ==
    /\ up[s] = "running"
    /\ input_queue[s] # <<>>
    /\ delivered' = [delivered EXCEPT ![s] = Append(@, Head(input_queue[s]))]
    /\ input_queue' = [input_queue EXCEPT ![s] = Tail(@)]
    /\ UNCHANGED <<up, state, enq_nak_count, info_nak_count, timerVars,
                   output_queue, last_message, enqueued, linkVars>>

-----------------------------------------------------------------------------
(* read_handler: one message taken from the input.                         *)

Reading(s, st) ==
    /\ up[s] = "running"
    /\ line[s] # <<>>
    /\ state[s] = st

Received(s) == Head(line[s])

\* What is left of the input after parse_input returned Received(s).  A
\* malformed message clears input_unprocessed_, and with it the messages
\* that arrived in the same read.
Rests(s) ==
    IF Received(s).type = "MALFORMED"
    THEN {SubSeq(line[s], k, Len(line[s])) : k \in 2 .. Len(line[s]) + 1}
    ELSE {Tail(line[s])}

\* Take one message from the input, write the frames, go to state st.
Answer(s, frames, st) ==
    /\ \E rest \in Rests(s) :
          line' = [line EXCEPT ![s] = rest, ![Peer(s)] = @ \o frames]
    /\ state' = [state EXCEPT ![s] = st]
    /\ UNCHANGED <<up, faults, enqueued, delivered>>

\* The process ends: an exception that main() catches after run(), or abort().
Die(s, how) ==
    /\ up' = [up EXCEPT ![s] = how]
    /\ line' = [line EXCEPT ![s] = Tail(@)]
    /\ UNCHANGED <<state, enq_nak_count, info_nak_count, timerVars,
                   output_queue, last_message, appVars, faults>>

\* The data of the station that only a master's handlers change.
masterVars == <<enq_nak_count, info_nak_count, timerVars, output_queue,
                last_message>>

handle_message_neutral_state(s) ==
    /\ Reading(s, "NEUTRAL")
    /\ \/ /\ Received(s) = Enq("bravo")
          /\ output_queue[s] # <<>>
          /\ Answer(s, <<Enq("alpha")>>, "MASTER_SELECT_ACK_RECEIVE")
          /\ UNCHANGED <<masterVars, input_queue>>
       \/ /\ Received(s) = Enq("bravo")
          /\ output_queue[s] = <<>>
          /\ Answer(s, <<Simple("EOT")>>, "NEUTRAL")
          /\ UNCHANGED <<masterVars, input_queue>>
       \/ /\ Received(s) = Enq("alpha")
          /\ Answer(s, <<>>, "SLAVE_SELECT_RECEIVE")
          /\ UNCHANGED <<masterVars, input_queue>>
       \/ /\ Received(s) = Enq("") \/ Received(s).type = "EOT"
          /\ Answer(s, <<>>, "NEUTRAL")
          /\ UNCHANGED <<masterVars, input_queue>>
       \/ /\ Received(s).type \in {"ACK", "NAK", "INFO", "MALFORMED"}
          /\ Die(s, "threw")

\* accepting_input_ is set by the constructor and never cleared, so the
\* branch that refuses a selection with NAK is not reachable.
handle_message_slave_select_receive_state(s) ==
    /\ Reading(s, "SLAVE_SELECT_RECEIVE")
    /\ \/ /\ Received(s) = Enq("bravo") /\ s # Controller
          /\ Answer(s, <<Simple("ACK")>>, "SLAVE_INFO_RECEIVE")
          /\ UNCHANGED <<masterVars, input_queue>>
       \/ /\ \/ Received(s).type = "ENQ"
                /\ ~(Received(s) = Enq("bravo") /\ s # Controller)
             \/ Received(s).type = "ACK"
          /\ Answer(s, <<>>, "SLAVE_SELECT_RECEIVE")
          /\ UNCHANGED <<masterVars, input_queue>>
       \/ /\ Received(s).type = "EOT"
          /\ Answer(s, <<>>, "NEUTRAL")
          /\ UNCHANGED <<masterVars, input_queue>>
       \/ /\ Received(s).type \in {"NAK", "INFO", "MALFORMED"}
          /\ Die(s, "threw")

\* Mutant: front() without pop_front().
send_front_and_keep_it(s) ==
    \/ /\ output_queue[s] = <<>>
       /\ Answer(s, <<Simple("EOT")>>, "NEUTRAL")
       /\ UNCHANGED <<output_queue, last_message, input_queue>>
    \/ /\ output_queue[s] # <<>>
       /\ last_message' = [last_message EXCEPT ![s] = Head(output_queue[s])]
       /\ Answer(s, <<Info(Head(output_queue[s]))>>, "MASTER_INFO_ACK_RECEIVE")
       /\ UNCHANGED <<output_queue, input_queue>>

\* Mutant: the second change_state is forgotten.
send_and_stay_transmitting(s) ==
    \/ /\ output_queue[s] = <<>>
       /\ Answer(s, <<Simple("EOT")>>, "NEUTRAL")
       /\ UNCHANGED <<output_queue, last_message, input_queue>>
    \/ /\ output_queue[s] # <<>>
       /\ last_message' = [last_message EXCEPT ![s] = Head(output_queue[s])]
       /\ output_queue' = [output_queue EXCEPT ![s] = Tail(@)]
       /\ Answer(s, <<Info(Head(output_queue[s]))>>, "MASTER_INFO_TRANSMIT")
       /\ UNCHANGED input_queue

\* With messages left send the next one and await its ACK; with none left,
\* EOT and back to neutral.
handle_output_queue_msg_and_state(s) ==
    \/ /\ output_queue[s] = <<>>
       /\ Answer(s, <<Simple("EOT")>>, "NEUTRAL")
       /\ UNCHANGED <<output_queue, last_message, input_queue>>
    \/ /\ output_queue[s] # <<>>
       /\ last_message' = [last_message EXCEPT ![s] = Head(output_queue[s])]
       /\ output_queue' = [output_queue EXCEPT ![s] = Tail(@)]
       /\ Answer(s, <<Info(Head(output_queue[s]))>>, "MASTER_INFO_ACK_RECEIVE")
       /\ UNCHANGED input_queue

\* The no-response timer that poll() started is still running after the ACK.
handle_message_master_select_ack_receive_state(s) ==
    /\ Reading(s, "MASTER_SELECT_ACK_RECEIVE")
    /\ \/ /\ Received(s).type = "ACK"
          /\ enq_nak_count' = [enq_nak_count EXCEPT ![s] = 0]
          /\ handle_output_queue_msg_and_state(s)
          /\ UNCHANGED <<info_nak_count, timerVars>>
       \/ /\ Received(s).type = "NAK" /\ s = Controller
          /\ enq_nak_count' = [enq_nak_count EXCEPT ![s] = @ + 1]
          /\ Answer(s, <<>>, IF enq_nak_count[s] + 1 < MaxEnqTries
                             THEN "POLL_TRANSMIT" ELSE "NEUTRAL")
          /\ UNCHANGED <<info_nak_count, timerVars, output_queue,
                         last_message, input_queue>>
       \/ /\ Received(s).type = "NAK" /\ s # Controller
          /\ Answer(s, <<>>, "NEUTRAL")
          /\ UNCHANGED <<masterVars, input_queue>>
       \/ /\ Received(s).type = "EOT"
          /\ Answer(s, <<>>, "NEUTRAL")
          /\ UNCHANGED <<masterVars, input_queue>>
       \/ /\ Received(s).type \in {"ENQ", "INFO", "MALFORMED"}
          /\ Die(s, "threw")

\* no_response_timer_.cancel(): an expired wait's handler stays queued.  Only
\* the controller ever starts its timer.
cancel(s) ==
    /\ timer_armed' = IF s = Controller THEN FALSE ELSE timer_armed
    /\ UNCHANGED timer_queued

\* A NAK within the limit is answered by retransmit(): the same message
\* again, with no timer.
handle_message_master_info_ack_receive_state(s) ==
    /\ Reading(s, "MASTER_INFO_ACK_RECEIVE")
    /\ \/ /\ Received(s).type = "ACK"
          /\ cancel(s)
          /\ info_nak_count' = [info_nak_count EXCEPT ![s] = 0]
          /\ handle_output_queue_msg_and_state(s)
          /\ UNCHANGED enq_nak_count
       \/ /\ Received(s).type = "NAK"
          /\ cancel(s)
          /\ info_nak_count' = [info_nak_count EXCEPT ![s] = @ + 1]
          /\ \/ /\ info_nak_count[s] + 1 < MaxInfoTries
                /\ Answer(s, <<Info(last_message[s])>>,
                          "MASTER_INFO_ACK_RECEIVE")
             \/ /\ info_nak_count[s] + 1 >= MaxInfoTries
                /\ Answer(s, <<Simple("EOT")>>, "NEUTRAL")
          /\ UNCHANGED <<enq_nak_count, output_queue, last_message,
                         input_queue>>
       \/ /\ Received(s).type \in {"ENQ", "EOT", "INFO", "MALFORMED"}
          /\ Answer(s, <<Simple("EOT")>>, "NEUTRAL")
          /\ UNCHANGED <<masterVars, input_queue>>

handle_message_slave_info_receive_state(s) ==
    /\ Reading(s, "SLAVE_INFO_RECEIVE")
    /\ \/ /\ Received(s).type = "INFO"
          /\ input_queue' = [input_queue EXCEPT
                                ![s] = Append(@, Received(s).body)]
          /\ Answer(s, <<Simple("ACK")>>, "SLAVE_INFO_RECEIVE")
          /\ UNCHANGED masterVars
       \/ /\ Received(s).type = "MALFORMED"
          /\ Answer(s, <<Simple("NAK")>>, "SLAVE_INFO_RECEIVE")
          /\ UNCHANGED <<masterVars, input_queue>>
       \/ /\ Received(s).type = "EOT"
          /\ Answer(s, <<>>, "NEUTRAL")
          /\ UNCHANGED <<masterVars, input_queue>>
       \/ /\ Received(s).type \in {"ENQ", "ACK", "NAK"}
          /\ Die(s, "threw")

\* parse_input gives up on a message introduced by DLE, in any state ...
parse_input_abort(s) ==
    /\ up[s] = "running" /\ line[s] # <<>>
    /\ Received(s).type = "DLE"
    /\ Die(s, "aborted")

\* ... and the dispatch in read_handler has no case for POLL_TRANSMIT.
read_handler_abort(s) ==
    /\ Reading(s, "POLL_TRANSMIT")
    /\ Received(s).type # "DLE"
    /\ Die(s, "aborted")

read_handler(s) ==
    \/ handle_message_neutral_state(s)
    \/ handle_message_slave_select_receive_state(s)
    \/ handle_message_master_select_ack_receive_state(s)
    \/ handle_message_master_info_ack_receive_state(s)
    \/ handle_message_slave_info_receive_state(s)
    \/ parse_input_abort(s)
    \/ read_handler_abort(s)

-----------------------------------------------------------------------------
(* The controlling station's timers.                                       *)

\* A timer handler of alpha writes frames and leaves alpha in state st.
Transmit(frames, st) ==
    /\ Len(line["alpha"]) + Len(line["bravo"]) + Len(frames) <= LineCap
    /\ line' = [line EXCEPT !["bravo"] = @ \o frames]
    /\ state' = [state EXCEPT !["alpha"] = st]
    /\ UNCHANGED <<up, enq_nak_count, info_nak_count, output_queue,
                   last_message, appVars, faults>>

\* Mutants of poll(): no test for NEUTRAL; the poll of alpha left out; the
\* no-response timer not started.
PollAsMasterInAnyState ==
    /\ up["alpha"] = "running"
    /\ output_queue["alpha"] # <<>>
    /\ Transmit(<<Simple("EOT"), Enq("alpha"), Enq("bravo")>>,
                "MASTER_SELECT_ACK_RECEIVE")
    /\ timer_armed' = TRUE
    /\ UNCHANGED timer_queued

PollWithoutAlpha ==
    /\ up["alpha"] = "running" /\ state["alpha"] = "NEUTRAL"
    /\ output_queue["alpha"] # <<>>
    /\ Transmit(<<Simple("EOT"), Enq("bravo")>>, "MASTER_SELECT_ACK_RECEIVE")
    /\ timer_armed' = TRUE
    /\ UNCHANGED timer_queued

PollWithoutTimer ==
    /\ up["alpha"] = "running" /\ state["alpha"] = "NEUTRAL"
    /\ output_queue["alpha"] # <<>>
    /\ Transmit(<<Simple("EOT"), Enq("alpha"), Enq("bravo")>>,
                "MASTER_SELECT_ACK_RECEIVE")
    /\ UNCHANGED timerVars

\* poll() with messages to send.  In any state but NEUTRAL poll() only starts
\* its own timer again.  Restarting the no-response timer drops a wait still
\* pending, but not a handler already queued.
PollAsMaster ==
    /\ up["alpha"] = "running" /\ state["alpha"] = "NEUTRAL"
    /\ output_queue["alpha"] # <<>>
    /\ Transmit(<<Simple("EOT"), Enq("alpha"), Enq("bravo")>>,
                "MASTER_SELECT_ACK_RECEIVE")
    /\ timer_armed' = TRUE
    /\ UNCHANGED timer_queued

\* Mutant: the last change_state is forgotten.
PollPeerAndStay ==
    /\ up["alpha"] = "running" /\ state["alpha"] = "NEUTRAL"
    /\ output_queue["alpha"] = <<>>
    /\ Transmit(<<Simple("EOT"), Enq("bravo")>>, "POLL_TRANSMIT")
    /\ UNCHANGED timerVars

\* poll() with nothing to send offers the line to bravo, with no timer.
PollPeer ==
    /\ up["alpha"] = "running" /\ state["alpha"] = "NEUTRAL"
    /\ output_queue["alpha"] = <<>>
    /\ Transmit(<<Simple("EOT"), Enq("bravo")>>, "SLAVE_SELECT_RECEIVE")
    /\ UNCHANGED timerVars

poll == PollAsMaster \/ PollPeer

\* Nothing travels and neither process has input left.
Quiet == \A s \in Stations : line[s] = <<>>

\* The wait expires while other handlers of the process are due to run first.
Expire ==
    /\ LateTimeouts
    /\ up["alpha"] = "running"
    /\ timer_armed /\ ~timer_queued
    /\ timer_armed' = FALSE /\ timer_queued' = TRUE
    /\ UNCHANGED <<up, state, enq_nak_count, info_nak_count, output_queue,
                   last_message, appVars, linkVars>>

\* Mutant: the timeout writes EOT but does not return to NEUTRAL.
TimeoutWithoutNeutral ==
    /\ up["alpha"] = "running"
    /\ \/ timer_armed /\ Quiet /\ timer_armed' = FALSE /\ UNCHANGED timer_queued
       \/ timer_queued /\ timer_queued' = FALSE /\ UNCHANGED timer_armed
    /\ Transmit(<<Simple("EOT")>>, state["alpha"])

\* The wait expires and its handler runs at once, or a queued handler runs.
\* It does not look at the state it interrupts.
on_master_select_no_response_timeout ==
    /\ up["alpha"] = "running"
    /\ \/ timer_armed /\ Quiet /\ timer_armed' = FALSE /\ UNCHANGED timer_queued
       \/ timer_queued /\ timer_queued' = FALSE /\ UNCHANGED timer_armed
    /\ Transmit(<<Simple("EOT")>>, "NEUTRAL")

-----------------------------------------------------------------------------
(* The serial line.                                                        *)

\* What the receiver's parser makes of a frame whose bytes were changed.  The
\* line's noise is assumed not to spell out a station's name: parse_input would
\* return an ENQ that carries "alpha" or "bravo" (555-565), and such a forged
\* request is left out.  An ENQ with any other name counts as Enq("").
GarbledForms ==
    {Simple(t) : t \in {"ACK", "NAK", "EOT", "MALFORMED", "DLE"}}
        \cup {Enq(""), Info(0)}

Without(q, i) == SubSeq(q, 1, i - 1) \o SubSeq(q, i + 1, Len(q))

Lose(s) ==
    /\ faults < MaxFaults
    /\ \E i \in 1 .. Len(line[s]) :
          line' = [line EXCEPT ![s] = Without(@, i)]
    /\ faults' = faults + 1
    /\ UNCHANGED <<up, state, masterVars, appVars>>

Garble(s) ==
    /\ Garbling
    /\ faults < MaxFaults
    /\ \E i \in 1 .. Len(line[s]), m \in GarbledForms :
          line' = [line EXCEPT ![s][i] = m]
    /\ faults' = faults + 1
    /\ UNCHANGED <<up, state, masterVars, appVars>>

\* Once the process has ended nobody reads the port, and what arrives is gone.
Unread(s) ==
    /\ up[s] # "running"
    /\ line[s] # <<>>
    /\ line' = [line EXCEPT ![s] = Tail(@)]
    /\ UNCHANGED <<up, state, masterVars, appVars, faults>>

-----------------------------------------------------------------------------
Next ==
    \/ \E s \in Stations :
          \/ enqueue_message(s)
          \/ get_next_message(s)
          \/ read_handler(s)
          \/ Lose(s)
          \/ Garble(s)
          \/ Unread(s)
    \/ poll
    \/ Expire
    \/ on_master_select_no_response_timeout

Spec == Init /\ [][Next]_vars

\* io_service::run keeps running handlers: input that has arrived is read, the
\* poll timer keeps firing, an armed or expired no-response timer completes,
\* and the application keeps fetching its messages.  Nothing obliges it to
\* enqueue any, and nothing is assumed of the faults.
Fairness ==
    /\ \A s \in Stations : /\ WF_vars(read_handler(s))
                           /\ WF_vars(get_next_message(s))
                           /\ WF_vars(Unread(s))
    /\ WF_vars(poll)
    /\ WF_vars(on_master_select_no_response_timeout)

FairSpec == Spec /\ Fairness

-----------------------------------------------------------------------------
(* Properties.                                                             *)

TypeOK ==
    /\ up \in [Stations -> {"running", "threw", "aborted"}]
    /\ state \in [Stations -> States]
    /\ enq_nak_count \in [Stations -> Nat]
    /\ info_nak_count \in [Stations -> Nat]
    /\ timer_armed \in BOOLEAN /\ timer_queued \in BOOLEAN
    /\ output_queue \in [Stations -> Seq(Nat)]
    /\ last_message \in [Stations -> Nat]
    /\ input_queue \in [Stations -> Seq(Nat)]
    /\ line \in [Stations -> Seq(Msg)]
    /\ enqueued \in [Stations -> Nat]
    /\ delivered \in [Stations -> Seq(Nat)]
    /\ faults \in 0 .. MaxFaults

\* The two stations never transmit at the same time: frames travel in one
\* direction only.  This is the collision prevention that polling is for.
NoCollision == line["alpha"] = <<>> \/ line["bravo"] = <<>>

\* What get_next_message hands out is in the order of the enqueue_message
\* calls at the other end, whatever the line and the timers do; a garbled
\* body (0) has no place in that order.
NeverReordered ==
    \A s \in Stations : \A i, j \in DOMAIN delivered[s] :
        i < j /\ delivered[s][j] # 0 => delivered[s][i] <= delivered[s][j]

\* No message is handed out twice by get_next_message, as long as the line
\* loses frames but does not garble them.
NoDuplicates ==
    \A s \in Stations : \A i, j \in DOMAIN delivered[s] :
        i < j => delivered[s][i] # delivered[s][j]

\* While alpha awaits the answer to its selection, or is back in
\* POLL_TRANSMIT after a refusal, the no-response timer is running or its
\* handler is queued: alpha cannot be left there for ever.
SelectionIsTimed ==
    state["alpha"] \in {"MASTER_SELECT_ACK_RECEIVE", "POLL_TRANSMIT"}
        => timer_armed \/ timer_queued

\* Until the line loses or garbles its first frame, neither process ends in an
\* exception or an abort, whatever the interleaving of sends and polls.
NobodyDies == faults = 0 => \A s \in Stations : up[s] = "running"

\* A master that has sent an information message has a slave: bravo is in
\* SLAVE_INFO_RECEIVE, and its process has not ended, for as long as alpha
\* awaits the ACK.
MasterHasSlave ==
    state["alpha"] = "MASTER_INFO_ACK_RECEIVE"
        => state["bravo"] = "SLAVE_INFO_RECEIVE" /\ up["bravo"] = "running"

=============================================================================
