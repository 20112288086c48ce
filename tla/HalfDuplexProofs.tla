-------------------------- MODULE HalfDuplexProofs --------------------------
(***************************************************************************)
(* Proofs about HalfDuplex, for any number of messages and faults and for  *)
(* any retry limits: its states and frames, that it delivers in order      *)
(* whatever the line and the timers do, and at most once when the line     *)
(* does not garble.                                                        *)
(***************************************************************************)
EXTENDS HalfDuplex, TLAPS

\* The first element of a sequence: what parse_input returns, and what the next
\* transfer sends.
LEMMA FirstElement ==
    ASSUME NEW S, NEW q \in Seq(S), q # <<>>
    PROVE  1 \in 1 .. Len(q) /\ Head(q) = q[1] /\ Head(q) \in S
OBVIOUS

\* A handler that writes nothing leaves the line as it is.
LEMMA NothingWritten ==
    ASSUME NEW S, NEW q \in Seq(S)
    PROVE  q \o <<>> = q
OBVIOUS

-----------------------------------------------------------------------------
(* Type correctness.                                                       *)

\* The frames the stations write are messages.
LEMMA FramesTyped ==
    /\ Simple("ACK") \in Msg /\ Simple("NAK") \in Msg /\ Simple("EOT") \in Msg
    /\ Enq("alpha") \in Msg /\ Enq("bravo") \in Msg
    /\ \A n \in Nat : Info(n) \in Msg
    /\ GarbledForms \subseteq Msg
  <1>1. \A t \in Msg_type : Simple(t) \in Msg
    BY DEF Simple, Msg
  <1>2. Enq("") \in Msg /\ Enq("alpha") \in Msg /\ Enq("bravo") \in Msg
    BY DEF Enq, Msg, Msg_type
  <1>3. \A n \in Nat : Info(n) \in Msg
    BY DEF Info, Msg, Msg_type
  <1>4. {"ACK", "NAK", "EOT", "MALFORMED", "DLE"} \subseteq Msg_type
    BY DEF Msg_type
  <1>5. GarbledForms \subseteq Msg
    <2>1. ASSUME NEW m \in GarbledForms  PROVE m \in Msg
      <3>1. \/ m = Enq("") \/ m = Info(0)
            \/ \E t \in {"ACK", "NAK", "EOT", "MALFORMED", "DLE"} :
                  m = Simple(t)
        BY <2>1, Zenon DEF GarbledForms
      <3> QED  BY <1>1, <1>2, <1>3, <1>4, <3>1, Zenon
    <2> QED  BY <2>1
  <1> QED  BY <1>1, <1>2, <1>3, <1>4, <1>5, Zenon

\* What is left of the input is a sequence of messages.
LEMMA RestTyped ==
    ASSUME NEW s \in Stations, line[s] \in Seq(Msg), line[s] # <<>>,
           NEW rest \in Rests(s)
    PROVE  rest \in Seq(Msg)
  <1>1. CASE Received(s).type = "MALFORMED"
    <2>1. PICK k \in 2 .. Len(line[s]) + 1 :
             rest = SubSeq(line[s], k, Len(line[s]))
      BY <1>1 DEF Rests
    <2> QED  BY <2>1
  <1>2. CASE Received(s).type # "MALFORMED"
    BY <1>2, SMTT(60) DEF Rests
  <1> QED  BY <1>1, <1>2

\* Answering a message keeps the line and the states well typed.
LEMMA AnswerTyped ==
    ASSUME TypeOK, NEW s \in Stations, line[s] # <<>>,
           NEW frames \in Seq(Msg), NEW st \in States, Answer(s, frames, st)
    PROVE  /\ line' \in [Stations -> Seq(Msg)]
           /\ state' \in [Stations -> States]
           /\ UNCHANGED <<up, faults, enqueued, delivered>>
  <1>1. PICK rest \in Rests(s) :
           line' = [line EXCEPT ![s] = rest, ![Peer(s)] = @ \o frames]
    BY Zenon DEF Answer
  <1>2. rest \in Seq(Msg)
    BY RestTyped DEF TypeOK
  <1>3. Peer(s) \in Stations
    BY DEF Peer, Stations
  <1>4. \A q \in Seq(Msg) : q \o frames \in Seq(Msg)
    OBVIOUS
  <1>5. line' \in [Stations -> Seq(Msg)]
    BY <1>1, <1>2, <1>3, <1>4, Zenon DEF TypeOK
  <1> QED  BY <1>5, Zenon DEF Answer, TypeOK

\* A process that ends leaves everything well typed.
LEMMA DieTyped ==
    ASSUME TypeOK, NEW s \in Stations, line[s] # <<>>,
           NEW how \in {"threw", "aborted"}, Die(s, how)
    PROVE  TypeOK'
  <1>1. Tail(line[s]) \in Seq(Msg)
    BY DEF TypeOK
  <1> QED  BY <1>1, SMTT(60) DEF TypeOK, Die, timerVars, appVars

\* Sending the next message, or EOT, keeps the queues well typed.
LEMMA OutputTyped ==
    ASSUME TypeOK, NEW s \in Stations, line[s] # <<>>,
           handle_output_queue_msg_and_state(s)
    PROVE  /\ output_queue' \in [Stations -> Seq(Nat)]
           /\ last_message' \in [Stations -> Nat]
           /\ line' \in [Stations -> Seq(Msg)]
           /\ state' \in [Stations -> States]
           /\ UNCHANGED <<up, faults, enqueued, delivered, input_queue>>
  <1>1. CASE output_queue[s] = <<>>
    <2>1. Answer(s, <<Simple("EOT")>>, "NEUTRAL")
      BY <1>1 DEF handle_output_queue_msg_and_state
    <2>2. <<Simple("EOT")>> \in Seq(Msg) /\ "NEUTRAL" \in States
      BY FramesTyped DEF States
    <2> HIDE DEF Answer
    <2> QED  BY <1>1, <2>1, <2>2, AnswerTyped, Zenon
             DEF handle_output_queue_msg_and_state, TypeOK
  <1>2. CASE output_queue[s] # <<>>
    <2>1. Head(output_queue[s]) \in Nat /\ Tail(output_queue[s]) \in Seq(Nat)
      BY <1>2, SMTT(60) DEF TypeOK
    <2>2. Answer(s, <<Info(Head(output_queue[s]))>>, "MASTER_INFO_ACK_RECEIVE")
      BY <1>2 DEF handle_output_queue_msg_and_state
    <2>3. <<Info(Head(output_queue[s]))>> \in Seq(Msg)
            /\ "MASTER_INFO_ACK_RECEIVE" \in States
      BY <2>1, FramesTyped DEF States
    <2>4. /\ line' \in [Stations -> Seq(Msg)]
          /\ state' \in [Stations -> States]
          /\ UNCHANGED <<up, faults, enqueued, delivered>>
      BY <2>2, <2>3, AnswerTyped, Zenon
    <2> QED  BY <1>2, <2>1, <2>4, ZenonT(60)
             DEF handle_output_queue_msg_and_state, TypeOK
  <1> QED  BY <1>1, <1>2

\* A handler that answers and changes nothing else keeps the type invariant.
LEMMA PlainAnswerTyped ==
    ASSUME TypeOK, NEW s \in Stations, line[s] # <<>>,
           NEW frames \in Seq(Msg), NEW st \in States, Answer(s, frames, st),
           UNCHANGED <<masterVars, input_queue>>
    PROVE  TypeOK'
  <1>1. /\ line' \in [Stations -> Seq(Msg)]
        /\ state' \in [Stations -> States]
        /\ UNCHANGED <<up, faults, enqueued, delivered>>
    BY AnswerTyped
  <1> QED  BY <1>1, Zenon DEF TypeOK, masterVars, timerVars

\* The replies that consist of at most one frame.
LEMMA RepliesTyped ==
    /\ <<>> \in Seq(Msg)
    /\ <<Simple("ACK")>> \in Seq(Msg) /\ <<Simple("NAK")>> \in Seq(Msg)
    /\ <<Simple("EOT")>> \in Seq(Msg)
    /\ <<Enq("alpha")>> \in Seq(Msg)
    /\ <<Simple("EOT"), Enq("bravo")>> \in Seq(Msg)
    /\ <<Simple("EOT"), Enq("alpha"), Enq("bravo")>> \in Seq(Msg)
    /\ \A n \in Nat : <<Info(n)>> \in Seq(Msg)
  BY FramesTyped

\* The six states have their names.
LEMMA StatesNamed ==
    /\ "NEUTRAL" \in States /\ "POLL_TRANSMIT" \in States
    /\ "MASTER_SELECT_ACK_RECEIVE" \in States
    /\ "MASTER_INFO_ACK_RECEIVE" \in States
    /\ "SLAVE_SELECT_RECEIVE" \in States /\ "SLAVE_INFO_RECEIVE" \in States
  BY DEF States

\* A step of read_handler has input.
LEMMA ReadHandlerReads ==
    ASSUME NEW s \in Stations, read_handler(s)
    PROVE  line[s] # <<>>
  <1>1. CASE handle_message_neutral_state(s)
    BY <1>1, Zenon DEF handle_message_neutral_state, Reading
  <1>2. CASE handle_message_slave_select_receive_state(s)
    BY <1>2 DEF handle_message_slave_select_receive_state, Reading
  <1>3. CASE handle_message_master_select_ack_receive_state(s)
    BY <1>3 DEF handle_message_master_select_ack_receive_state, Reading
  <1>4. CASE handle_message_master_info_ack_receive_state(s)
    BY <1>4 DEF handle_message_master_info_ack_receive_state, Reading
  <1>5. CASE handle_message_slave_info_receive_state(s)
    BY <1>5 DEF handle_message_slave_info_receive_state, Reading
  <1>6. CASE parse_input_abort(s) \/ read_handler_abort(s)
    BY <1>6 DEF parse_input_abort, read_handler_abort, Reading
  <1> QED  BY <1>1, <1>2, <1>3, <1>4, <1>5, <1>6 DEF read_handler

\* Every step of read_handler keeps the type invariant.
LEMMA ReadTyped ==
    ASSUME TypeOK, NEW s \in Stations, read_handler(s)
    PROVE  TypeOK'
  <1> USE RepliesTyped, StatesNamed
  <1>0. line[s] # <<>> /\ Received(s) \in Msg
    BY ReadHandlerReads DEF Received, TypeOK
  <1>1. CASE handle_message_neutral_state(s)
    BY <1>0, <1>1, PlainAnswerTyped, DieTyped, Zenon DEF handle_message_neutral_state
  <1>2. CASE handle_message_slave_select_receive_state(s)
    BY <1>0, <1>2, PlainAnswerTyped, DieTyped, Zenon
       DEF handle_message_slave_select_receive_state
  <1>3. CASE handle_message_master_select_ack_receive_state(s)
    <2>1. CASE /\ enq_nak_count' = [enq_nak_count EXCEPT ![s] = 0]
               /\ handle_output_queue_msg_and_state(s)
               /\ UNCHANGED <<info_nak_count, timerVars>>
      BY <1>0, <2>1, OutputTyped, Zenon DEF TypeOK, timerVars
    <2>2. CASE /\ enq_nak_count' = [enq_nak_count EXCEPT ![s] = @ + 1]
               /\ Answer(s, <<>>, IF enq_nak_count[s] + 1 < MaxEnqTries
                                  THEN "POLL_TRANSMIT" ELSE "NEUTRAL")
               /\ UNCHANGED <<info_nak_count, timerVars, output_queue,
                              last_message, input_queue>>
      <3>1. (IF enq_nak_count[s] + 1 < MaxEnqTries
             THEN "POLL_TRANSMIT" ELSE "NEUTRAL") \in States
        OBVIOUS
      <3>2. /\ line' \in [Stations -> Seq(Msg)]
            /\ state' \in [Stations -> States]
            /\ UNCHANGED <<up, faults, enqueued, delivered>>
        BY <1>0, <2>2, <3>1, AnswerTyped, Zenon
      <3>3. enq_nak_count' \in [Stations -> Nat]
        BY <2>2 DEF TypeOK
      <3> QED  BY <2>2, <3>2, <3>3, Zenon DEF TypeOK, timerVars
    <2> QED  BY <1>0, <1>3, <2>1, <2>2, PlainAnswerTyped, DieTyped, Zenon
             DEF handle_message_master_select_ack_receive_state
  <1>4. CASE handle_message_master_info_ack_receive_state(s)
    <2>1. CASE /\ cancel(s)
               /\ info_nak_count' = [info_nak_count EXCEPT ![s] = 0]
               /\ handle_output_queue_msg_and_state(s)
               /\ UNCHANGED enq_nak_count
      BY <1>0, <2>1, OutputTyped, Zenon DEF TypeOK, cancel
    <2>2. CASE /\ cancel(s)
               /\ info_nak_count' = [info_nak_count EXCEPT ![s] = @ + 1]
               /\ \/ Answer(s, <<Info(last_message[s])>>,
                               "MASTER_INFO_ACK_RECEIVE")
                  \/ Answer(s, <<Simple("EOT")>>, "NEUTRAL")
               /\ UNCHANGED <<enq_nak_count, output_queue, last_message,
                              input_queue>>
      <3>1. last_message[s] \in Nat
        BY DEF TypeOK
      <3>2. /\ line' \in [Stations -> Seq(Msg)]
            /\ state' \in [Stations -> States]
            /\ UNCHANGED <<up, faults, enqueued, delivered>>
        BY <1>0, <2>2, <3>1, AnswerTyped, Zenon
      <3>3. info_nak_count' \in [Stations -> Nat]
        BY <2>2 DEF TypeOK
      <3> QED  BY <2>2, <3>2, <3>3, Zenon DEF TypeOK, cancel
    <2> QED  BY <1>0, <1>4, <2>1, <2>2, PlainAnswerTyped, Zenon
             DEF handle_message_master_info_ack_receive_state
  <1>5. CASE handle_message_slave_info_receive_state(s)
    <2>1. CASE /\ input_queue' = [input_queue EXCEPT
                                     ![s] = Append(@, Received(s).body)]
               /\ Answer(s, <<Simple("ACK")>>, "SLAVE_INFO_RECEIVE")
               /\ UNCHANGED masterVars
      <3>1. /\ line' \in [Stations -> Seq(Msg)]
            /\ state' \in [Stations -> States]
            /\ UNCHANGED <<up, faults, enqueued, delivered>>
        BY <1>0, <2>1, AnswerTyped, Zenon
      <3>2. Received(s).body \in Nat
        BY <1>0, Zenon DEF Msg
      <3>3. input_queue' \in [Stations -> Seq(Nat)]
        BY <2>1, <3>2 DEF TypeOK
      <3> QED  BY <2>1, <3>1, <3>3, Zenon DEF TypeOK, masterVars, timerVars
    <2> QED  BY <1>0, <1>5, <2>1, PlainAnswerTyped, DieTyped, Zenon
             DEF handle_message_slave_info_receive_state
  <1>6. CASE parse_input_abort(s) \/ read_handler_abort(s)
    BY <1>0, <1>6, DieTyped DEF parse_input_abort, read_handler_abort
  <1> QED  BY <1>1, <1>2, <1>3, <1>4, <1>5, <1>6 DEF read_handler

\* Every step of alpha's timers keeps the type invariant.
LEMMA TimersTyped ==
    ASSUME TypeOK, poll \/ Expire \/ on_master_select_no_response_timeout
    PROVE  TypeOK'
  <1>1. ASSUME NEW frames \in Seq(Msg), NEW st \in States, Transmit(frames, st),
               timer_armed' \in BOOLEAN, timer_queued' \in BOOLEAN
        PROVE  TypeOK'
    <2>1. line["bravo"] \o frames \in Seq(Msg)
      BY DEF TypeOK, Stations
    <2>2. line' \in [Stations -> Seq(Msg)]
      BY <1>1, <2>1, Zenon DEF TypeOK, Transmit
    <2> QED  BY <1>1, <2>2, Zenon DEF TypeOK, Transmit, appVars
  <1>2. CASE poll
    BY <1>1, <1>2, RepliesTyped, StatesNamed, Zenon
       DEF poll, PollAsMaster, PollPeer, TypeOK, timerVars
  <1>3. CASE Expire
    BY <1>3, Zenon DEF Expire, TypeOK, appVars, linkVars
  <1>4. CASE on_master_select_no_response_timeout
    BY <1>1, <1>4, RepliesTyped, StatesNamed, Zenon
       DEF on_master_select_no_response_timeout, TypeOK
  <1> QED  BY <1>2, <1>3, <1>4

\* Every step of the application and of the line keeps the type invariant.
LEMMA OthersTyped ==
    ASSUME TypeOK, NEW s \in Stations,
           \/ enqueue_message(s) \/ get_next_message(s)
           \/ Lose(s) \/ Garble(s) \/ Unread(s)
    PROVE  TypeOK'
  <1>1. CASE enqueue_message(s)
    <2>1. Append(output_queue[s], enqueued[s] + 1) \in Seq(Nat)
      BY DEF TypeOK
    <2> QED  BY <1>1, <2>1, SMTT(60) DEF enqueue_message, TypeOK, timerVars, linkVars
  <1>2. CASE get_next_message(s)
    <2>1. /\ Tail(input_queue[s]) \in Seq(Nat)
          /\ Append(delivered[s], Head(input_queue[s])) \in Seq(Nat)
      BY <1>2, SMTT(60) DEF TypeOK, get_next_message
    <2> QED  BY <1>2, <2>1, Zenon DEF get_next_message, TypeOK, timerVars, linkVars
  <1>3. CASE Lose(s)
    <2>1. PICK i \in 1 .. Len(line[s]) :
             line' = [line EXCEPT ![s] = Without(@, i)]
      BY <1>3, Zenon DEF Lose
    <2>2. /\ SubSeq(line[s], 1, i - 1) \in Seq(Msg)
          /\ SubSeq(line[s], i + 1, Len(line[s])) \in Seq(Msg)
      BY SMTT(60) DEF TypeOK
    <2>3. Without(line[s], i) \in Seq(Msg)
      BY <2>2 DEF Without
    <2>4. faults' \in 0 .. MaxFaults
      BY <1>3, ConstantsAssumption DEF Lose, TypeOK
    <2> QED  BY <1>3, <2>1, <2>3, <2>4, Zenon
             DEF Lose, TypeOK, masterVars, timerVars, appVars
  <1>4. CASE Garble(s)
    <2>1. PICK i \in 1 .. Len(line[s]), m \in GarbledForms :
             line' = [line EXCEPT ![s][i] = m]
      BY <1>4, Zenon DEF Garble
    <2>2. [line[s] EXCEPT ![i] = m] \in Seq(Msg)
      BY FramesTyped DEF TypeOK
    <2>3. faults' \in 0 .. MaxFaults
      BY <1>4, ConstantsAssumption DEF Garble, TypeOK
    <2> QED  BY <1>4, <2>1, <2>2, <2>3, Zenon
             DEF Garble, TypeOK, masterVars, timerVars, appVars
  <1>5. CASE Unread(s)
    <2>1. Tail(line[s]) \in Seq(Msg)
      BY <1>5 DEF Unread, TypeOK
    <2> QED  BY <1>5, <2>1, Zenon DEF Unread, TypeOK, masterVars, timerVars, appVars
  <1> QED  BY <1>1, <1>2, <1>3, <1>4, <1>5

\* Type correctness of the two stations and the line.
THEOREM TypeCorrect == Spec => []TypeOK
  <1>1. Init => TypeOK
    <2>1. 0 \in 0 .. MaxFaults
      BY ConstantsAssumption
    <2>2. <<>> \in Seq(Nat) /\ <<>> \in Seq(Msg)
      OBVIOUS
    <2> SUFFICES ASSUME Init  PROVE TypeOK
      OBVIOUS
    <2>3. up \in [Stations -> {"running", "threw", "aborted"}]
      BY DEF Init
    <2>4. state \in [Stations -> States]
      BY StatesNamed DEF Init
    <2>5. timer_armed \in BOOLEAN /\ timer_queued \in BOOLEAN
      BY Zenon DEF Init
    <2>6. /\ enq_nak_count \in [Stations -> Nat]
          /\ info_nak_count \in [Stations -> Nat]
          /\ last_message \in [Stations -> Nat]
          /\ enqueued \in [Stations -> Nat]
      BY DEF Init
    <2>7. /\ output_queue \in [Stations -> Seq(Nat)]
          /\ input_queue \in [Stations -> Seq(Nat)]
          /\ line \in [Stations -> Seq(Msg)]
          /\ delivered \in [Stations -> Seq(Nat)]
      BY <2>2 DEF Init
    <2>8. faults \in 0 .. MaxFaults
      BY <2>1 DEF Init
    <2> QED  BY <2>3, <2>4, <2>5, <2>6, <2>7, <2>8 DEF TypeOK
  <1>2. TypeOK /\ [Next]_vars => TypeOK'
    <2> SUFFICES ASSUME TypeOK, [Next]_vars  PROVE TypeOK'
      OBVIOUS
    <2>1. CASE UNCHANGED vars
      BY <2>1 DEF vars, timerVars, appVars, linkVars, TypeOK
    <2> QED  BY <2>1, ReadTyped, TimersTyped, OthersTyped DEF Next
  <1> QED  BY <1>1, <1>2, PTL DEF Spec

-----------------------------------------------------------------------------
(* Frames.                                                                 *)

AllIn(q, S) == \A i \in 1 .. Len(q) : q[i] \in S

\* All frames but the last are in S.
EarlyIn(q, S) == \A i \in 1 .. Len(q) - 1 : q[i] \in S

\* bravo never answers these.
Unanswered == {Simple("EOT"), Enq("alpha")}

FromAlpha == Unanswered \cup {Enq("bravo")} \cup {Info(n) : n \in Nat}

FromBravo == {Simple("ACK"), Simple("EOT"), Enq("alpha")}

\* The types of the frames.
LEMMA FrameFacts ==
    /\ \A t \in Msg_type : Simple(t).type = t
    /\ \A p \in {"", "alpha", "bravo"} : Enq(p).type = "ENQ" /\ Enq(p).prefix = p
    /\ \A n \in Nat : Info(n).type = "INFO"
    /\ \A m \in Unanswered : m.type \in {"EOT", "ENQ"} /\ m # Enq("bravo")
    /\ \A m \in FromAlpha : m.type \in {"EOT", "ENQ", "INFO"}
    /\ \A m \in FromBravo : m.type \in {"ACK", "EOT", "ENQ"} /\ m # Enq("bravo")
<1>1. \A t \in Msg_type : Simple(t).type = t
  BY DEF Simple
<1>2. \A p \in {"", "alpha", "bravo"} : Enq(p).type = "ENQ" /\ Enq(p).prefix = p
  BY Zenon DEF Enq
<1>3. \A n \in Nat : Info(n).type = "INFO"
  BY DEF Info
<1>4. Simple("EOT").type = "EOT" /\ Simple("ACK").type = "ACK"
  BY <1>1 DEF Msg_type
<1>5. Enq("alpha") # Enq("bravo")
  BY <1>2, Zenon
<1>6. \A m \in Unanswered : m.type \in {"EOT", "ENQ"} /\ m # Enq("bravo")
  BY <1>2, <1>4, <1>5, Zenon DEF Unanswered
<1>7. \A m \in FromAlpha : m.type \in {"EOT", "ENQ", "INFO"}
  BY <1>2, <1>3, <1>6, Zenon DEF FromAlpha
<1>8. \A m \in FromBravo : m.type \in {"ACK", "EOT", "ENQ"} /\ m # Enq("bravo")
  BY <1>2, <1>4, <1>5, Zenon DEF FromBravo
<1> QED
  BY <1>1, <1>2, <1>3, <1>6, <1>7, <1>8, Zenon

\* Taking the first frame off the line.
LEMMA TailFacts ==
    ASSUME NEW q \in Seq(Msg), q # <<>>, NEW S
    PROVE  /\ Tail(q) \in Seq(Msg) /\ Len(q) \in Nat \ {0}
           /\ AllIn(q, S) => Head(q) \in S /\ AllIn(Tail(q), S)
           /\ EarlyIn(q, S) => EarlyIn(Tail(q), S)
           /\ EarlyIn(q, S) /\ Head(q) \notin S => Tail(q) = <<>>
           /\ Len(q) = 1 => Tail(q) = <<>>
<1>1. /\ Tail(q) \in Seq(Msg) /\ Len(q) \in Nat /\ Len(q) > 0
      /\ Len(Tail(q)) = Len(q) - 1 /\ Head(q) = q[1]
      /\ \A i \in 1 .. Len(q) - 1 : Tail(q)[i] = q[i + 1]
  OBVIOUS
<1>2. AllIn(q, S) => Head(q) \in S /\ AllIn(Tail(q), S)
  BY <1>1 DEF AllIn
<1>3. EarlyIn(q, S) => EarlyIn(Tail(q), S)
  BY <1>1 DEF EarlyIn
<1>4. EarlyIn(q, S) /\ Head(q) \notin S => Len(Tail(q)) = 0
  BY <1>1 DEF EarlyIn
<1> QED
  BY <1>1, <1>2, <1>3, <1>4

\* What writing frames does to a line.
LEMMA ConcatFacts ==
    ASSUME NEW q \in Seq(Msg), NEW f \in Seq(Msg)
    PROVE  /\ q \o f \in Seq(Msg) /\ Len(q \o f) = Len(q) + Len(f)
           /\ \A k \in 1 .. Len(q) + Len(f) :
                 (q \o f)[k] = IF k <= Len(q) THEN q[k] ELSE f[k - Len(q)]
OBVIOUS

\* Losing one.
LEMMA WithoutElements ==
    ASSUME NEW q \in Seq(Msg), NEW i \in 1 .. Len(q)
    PROVE  /\ Without(q, i) \in Seq(Msg) /\ Len(Without(q, i)) = Len(q) - 1
           /\ \A k \in 1 .. Len(q) - 1 :
                 Without(q, i)[k] = IF k < i THEN q[k] ELSE q[k + 1]
<1> DEFINE a == SubSeq(q, 1, i - 1)
           b == SubSeq(q, i + 1, Len(q))
<1>1. /\ a \in Seq(Msg) /\ Len(a) = i - 1
      /\ \A k \in 1 .. i - 1 : a[k] = q[k]
  OBVIOUS
<1>2. /\ b \in Seq(Msg) /\ Len(b) = Len(q) - i
      /\ \A k \in 1 .. Len(q) - i : b[k] = q[k + i]
  OBVIOUS
<1>3. Without(q, i) = a \o b
  BY DEF Without
<1> HIDE DEF a, b
<1>4. /\ a \o b \in Seq(Msg) /\ Len(a \o b) = Len(q) - 1
      /\ \A k \in 1 .. Len(q) - 1 :
            (a \o b)[k] = IF k <= i - 1 THEN a[k] ELSE b[k - (i - 1)]
  <2>1. /\ a \o b \in Seq(Msg) /\ Len(a \o b) = Len(a) + Len(b)
        /\ \A k \in 1 .. Len(a) + Len(b) :
              (a \o b)[k] = IF k <= Len(a) THEN a[k] ELSE b[k - Len(a)]
    BY <1>1, <1>2, ConcatFacts, Zenon
  <2>2. Len(a) + Len(b) = Len(q) - 1
    BY <1>1, <1>2
  <2> QED
    BY <1>1, <2>1, <2>2
<1>5. ASSUME NEW k \in 1 .. Len(q) - 1
      PROVE  (a \o b)[k] = IF k < i THEN q[k] ELSE q[k + 1]
  <2>1. CASE k < i
    BY <1>1, <1>4, <2>1
  <2>2. CASE ~(k < i)
    <3>1. k - (i - 1) \in 1 .. Len(q) - i /\ (k - (i - 1)) + i = k + 1
      BY <2>2
    <3> QED
      BY <1>2, <1>4, <2>2, <3>1
  <2> QED
    BY <2>1, <2>2, Zenon
<1> QED
  BY <1>3, <1>4, <1>5

\* What losing a frame does to a line.
LEMMA WithoutFacts ==
    ASSUME NEW q \in Seq(Msg), NEW i \in 1 .. Len(q), NEW S
    PROVE  /\ AllIn(q, S) => AllIn(Without(q, i), S)
           /\ EarlyIn(q, S) => EarlyIn(Without(q, i), S)
<1>1. /\ Without(q, i) \in Seq(Msg) /\ Len(Without(q, i)) = Len(q) - 1
      /\ \A k \in 1 .. Len(q) - 1 :
            Without(q, i)[k] = IF k < i THEN q[k] ELSE q[k + 1]
  BY WithoutElements, Zenon
<1>2. AllIn(q, S) => AllIn(Without(q, i), S)
  BY <1>1 DEF AllIn
<1>3. EarlyIn(q, S) => EarlyIn(Without(q, i), S)
  BY <1>1 DEF EarlyIn
<1> QED
  BY <1>2, <1>3

\* Writing frames behind the others.
LEMMA WriteFacts ==
    ASSUME NEW q \in Seq(Msg), NEW f \in Seq(Msg), NEW S, NEW T
    PROVE  /\ AllIn(q, S) /\ AllIn(f, S) => AllIn(q \o f, S)
           /\ AllIn(q, T) /\ EarlyIn(f, T) => EarlyIn(q \o f, T)
<1>1. /\ Len(q \o f) = Len(q) + Len(f) /\ Len(q) \in Nat /\ Len(f) \in Nat
      /\ \A k \in 1 .. Len(q) + Len(f) :
            (q \o f)[k] = IF k <= Len(q) THEN q[k] ELSE f[k - Len(q)]
  OBVIOUS
<1>2. AllIn(q, S) /\ AllIn(f, S) => AllIn(q \o f, S)
  BY <1>1 DEF AllIn
<1>3. AllIn(q, T) /\ EarlyIn(f, T) => EarlyIn(q \o f, T)
  BY <1>1 DEF AllIn, EarlyIn
<1> QED
  BY <1>2, <1>3

-----------------------------------------------------------------------------
\* What makes polling prevent collisions.  bravo speaks only when it has read
\* the last frame that alpha has written, alpha only when nothing travels
\* towards it; and the ACK that alpha awaits comes from a bravo that is its
\* slave.
Control ==
    /\ state["alpha"] # "SLAVE_INFO_RECEIVE"
    /\ state["bravo"] # "MASTER_INFO_ACK_RECEIVE"
    /\ AllIn(line["bravo"], FromAlpha) /\ EarlyIn(line["bravo"], Unanswered)
    /\ AllIn(line["alpha"], FromBravo)
    /\ \/ line["alpha"] = <<>>
       \/ line["bravo"] = <<>> /\ Len(line["alpha"]) = 1
    /\ state["alpha"] = "NEUTRAL" =>
          line["alpha"] = <<>> /\ AllIn(line["bravo"], {Simple("EOT")})
    /\ \/ AllIn(line["alpha"], FromBravo \ {Simple("ACK")})
       \/ state["bravo"] = "SLAVE_INFO_RECEIVE" /\ up["bravo"] = "running"
    /\ state["alpha"] = "MASTER_INFO_ACK_RECEIVE" =>
          /\ state["bravo"] = "SLAVE_INFO_RECEIVE" /\ up["bravo"] = "running"
          /\ AllIn(line["bravo"], {Info(n) : n \in Nat})

\* A message that is not malformed is the only one taken from the input.
LEMMA AnswerEffect ==
    ASSUME TypeOK, NEW s \in Stations, line[s] # <<>>, Received(s).type # "MALFORMED",
           NEW f \in Seq(Msg), NEW st, Answer(s, f, st)
    PROVE  /\ line'[s] = Tail(line[s]) /\ line'[Peer(s)] = line[Peer(s)] \o f
           /\ state'[s] = st /\ state'[Peer(s)] = state[Peer(s)]
           /\ UNCHANGED <<up, faults>>
<1>1. Rests(s) = {Tail(line[s])}
  BY DEF Rests
<1>2. /\ line' = [line EXCEPT ![s] = Tail(line[s]), ![Peer(s)] = @ \o f]
      /\ state' = [state EXCEPT ![s] = st] /\ UNCHANGED <<up, faults>>
  BY <1>1, Zenon DEF Answer
<1> QED
  BY <1>2, Zenon DEF TypeOK, Stations, Peer

\* alpha reads the only frame there is, so it may answer.
LEMMA AlphaAnswer ==
    ASSUME TypeOK, Control, line["alpha"] # <<>>,
           NEW f \in Seq(Msg), NEW st, Answer("alpha", f, st),
           \/ f = <<>> /\ st \in {"NEUTRAL", "POLL_TRANSMIT", "SLAVE_SELECT_RECEIVE"}
           \/ f = <<Simple("EOT")>> /\ st = "NEUTRAL"
           \/ /\ Received("alpha") = Simple("ACK")
              /\ \E n \in Nat : f = <<Info(n)>> /\ st = "MASTER_INFO_ACK_RECEIVE"
    PROVE  Control'
<1>1. /\ line["bravo"] = <<>> /\ Len(line["alpha"]) = 1
      /\ line["alpha"] \in Seq(Msg)
  BY DEF Control, TypeOK, Stations
<1>2. /\ Received("alpha") \in FromBravo /\ Tail(line["alpha"]) = <<>>
      /\ Received("alpha") = line["alpha"][1]
  BY <1>1, TailFacts DEF Control, Received
<1>3. /\ line'["alpha"] = <<>> /\ line'["bravo"] = f
      /\ state'["alpha"] = st /\ state'["bravo"] = state["bravo"] /\ up' = up
  <2>1. Received("alpha").type # "MALFORMED"
    BY <1>2, FrameFacts, Zenon
  <2>2. "alpha" \in Stations /\ Peer("alpha") = "bravo"
    BY DEF Stations, Peer
  <2>3. /\ line'["alpha"] = Tail(line["alpha"])
        /\ line'["bravo"] = line["bravo"] \o f
        /\ state'["alpha"] = st /\ state'["bravo"] = state["bravo"] /\ up' = up
    BY <2>1, <2>2, AnswerEffect, Zenon
  <2> QED
    BY <1>1, <1>2, <2>3
<1>4. AllIn(line'["alpha"], FromBravo \ {Simple("ACK")}) /\ AllIn(line'["alpha"], FromBravo)
  BY <1>3 DEF AllIn
<1>5. /\ AllIn(f, FromAlpha) /\ EarlyIn(f, Unanswered)
      /\ st = "NEUTRAL" => AllIn(f, {Simple("EOT")})
      /\ st = "MASTER_INFO_ACK_RECEIVE" => AllIn(f, {Info(n) : n \in Nat})
  <2>1. CASE f = <<>> /\ st # "MASTER_INFO_ACK_RECEIVE"
    BY <2>1 DEF AllIn, EarlyIn
  <2>2. CASE f = <<Simple("EOT")>> /\ st = "NEUTRAL"
    BY <2>2 DEF AllIn, EarlyIn, FromAlpha, Unanswered
  <2>3. CASE \E n \in Nat : f = <<Info(n)>> /\ st = "MASTER_INFO_ACK_RECEIVE"
    BY <2>3 DEF AllIn, EarlyIn, FromAlpha
  <2> QED
    BY <2>1, <2>2, <2>3
<1>6. st = "MASTER_INFO_ACK_RECEIVE" =>
         state["bravo"] = "SLAVE_INFO_RECEIVE" /\ up["bravo"] = "running"
  BY <1>1, <1>2, SMTT(60) DEF Control, AllIn
<1> QED
  BY <1>3, <1>4, <1>5, <1>6 DEF Control

\* bravo answers only the last frame there is.
LEMMA BravoAnswer ==
    ASSUME TypeOK, Control, line["bravo"] # <<>>, up["bravo"] = "running",
           NEW f \in Seq(Msg), NEW st, Answer("bravo", f, st),
           st # "MASTER_INFO_ACK_RECEIVE",
           \/ f = <<>> /\ state["alpha"] # "MASTER_INFO_ACK_RECEIVE"
           \/ /\ Received("bravo") \notin Unanswered
              /\ f = <<Simple("ACK")>> /\ st = "SLAVE_INFO_RECEIVE"
           \/ /\ Received("bravo") \notin Unanswered
              /\ f \in {<<Simple("EOT")>>, <<Enq("alpha")>>}
              /\ state["alpha"] # "MASTER_INFO_ACK_RECEIVE"
    PROVE  Control'
<1>1. /\ line["alpha"] = <<>> /\ line["bravo"] \in Seq(Msg)
  BY Zenon DEF Control, TypeOK, Stations
<1> DEFINE rest == Tail(line["bravo"])
<1>2. /\ Received("bravo") \in FromAlpha
      /\ AllIn(rest, FromAlpha) /\ EarlyIn(rest, Unanswered)
      /\ Received("bravo") \notin Unanswered => rest = <<>>
      /\ AllIn(line["bravo"], {Simple("EOT")}) =>
            Received("bravo") = Simple("EOT") /\ AllIn(rest, {Simple("EOT")})
      /\ AllIn(line["bravo"], {Info(n) : n \in Nat}) =>
            AllIn(rest, {Info(n) : n \in Nat})
  BY <1>1, TailFacts DEF Control, Received
<1>3. /\ line'["bravo"] = rest /\ line'["alpha"] = f
      /\ state'["bravo"] = st /\ state'["alpha"] = state["alpha"] /\ up' = up
  <2>1. Received("bravo").type # "MALFORMED"
    BY <1>2, FrameFacts, Zenon
  <2>2. "bravo" \in Stations /\ Peer("bravo") = "alpha"
    BY DEF Stations, Peer
  <2>3. /\ line'["bravo"] = rest /\ line'["alpha"] = line["alpha"] \o f
        /\ state'["bravo"] = st /\ state'["alpha"] = state["alpha"] /\ up' = up
    BY <2>1, <2>2, AnswerEffect, SMTT(60)
  <2> QED
    BY <1>1, <2>3
<1>4. /\ AllIn(f, FromBravo) /\ (f = <<>> \/ Len(f) = 1)
      /\ st = "SLAVE_INFO_RECEIVE" \/ AllIn(f, FromBravo \ {Simple("ACK")})
  <2>1. Simple("EOT") # Simple("ACK") /\ Enq("alpha") # Simple("ACK")
    BY FrameFacts, Zenon DEF Msg_type
  <2> QED
    BY <2>1 DEF AllIn, FromBravo
<1>5. f = <<>> \/ rest = <<>>
  BY <1>2
<1>6. state["alpha"] = "NEUTRAL" => f = <<>> /\ AllIn(rest, {Simple("EOT")})
  BY <1>2 DEF Control, Unanswered
<1>7. state["alpha"] = "MASTER_INFO_ACK_RECEIVE" =>
         st = "SLAVE_INFO_RECEIVE" /\ AllIn(rest, {Info(n) : n \in Nat})
  BY <1>2 DEF Control
<1> HIDE DEF rest
<1> QED
  BY <1>2, <1>3, <1>4, <1>5, <1>6, <1>7 DEF Control

\* A frame is read by a process that ends, or by none; bravo's process does
\* not end while alpha awaits its ACK.
LEMMA DropControl ==
    ASSUME TypeOK, Control, NEW s \in Stations, line[s] # <<>>,
           state' = state, line' = [line EXCEPT ![s] = Tail(line[s])],
           s = "alpha" => up'["bravo"] = up["bravo"],
           s = "bravo" => state["alpha"] # "MASTER_INFO_ACK_RECEIVE"
    PROVE  Control'
<1>1. /\ line["alpha"] \in Seq(Msg) /\ line["bravo"] \in Seq(Msg)
      /\ line[s] \in Seq(Msg)
  BY Zenon DEF TypeOK, Stations
<1>2. CASE s = "alpha"
  <2>1. line'["alpha"] = <<>> /\ line'["bravo"] = line["bravo"]
    BY <1>1, <1>2, TailFacts, Zenon DEF Control, TypeOK, Stations
  <2>2. /\ AllIn(line'["alpha"], FromBravo)
        /\ AllIn(line'["alpha"], FromBravo \ {Simple("ACK")})
    BY <2>1 DEF AllIn
  <2> QED
    BY <1>2, <2>1, <2>2 DEF Control
<1>3. CASE s = "bravo"
  <2>1. /\ line["alpha"] = <<>> /\ line'["alpha"] = line["alpha"]
        /\ line'["bravo"] = Tail(line["bravo"])
    BY <1>1, <1>3 DEF Control, TypeOK, Stations
  <2>2. /\ AllIn(line'["bravo"], FromAlpha) /\ EarlyIn(line'["bravo"], Unanswered)
        /\ AllIn(line["bravo"], {Simple("EOT")}) =>
              AllIn(line'["bravo"], {Simple("EOT")})
    BY <1>1, <1>3, <2>1, TailFacts DEF Control
  <2>3. AllIn(line'["alpha"], FromBravo \ {Simple("ACK")})
    BY <2>1 DEF AllIn
  <2> QED
    BY <1>3, <2>1, <2>2, <2>3 DEF Control
<1> QED
  BY <1>2, <1>3 DEF Stations

\* The end of a process.
LEMMA DieControl ==
    ASSUME TypeOK, Control, NEW s \in Stations, NEW how, line[s] # <<>>,
           Die(s, how),
           s = "bravo" => state["alpha"] # "MASTER_INFO_ACK_RECEIVE"
    PROVE  Control'
<1>1. /\ state' = state /\ line' = [line EXCEPT ![s] = Tail(line[s])]
      /\ s = "alpha" => up'["bravo"] = up["bravo"]
  BY DEF Die, TypeOK, Stations
<1> QED
  BY <1>1, DropControl, Zenon

\* Each of alpha's handlers.
LEMMA AlphaReads ==
    ASSUME TypeOK, Control, read_handler("alpha")
    PROVE  Control'
<1> USE RepliesTyped
<1>1. /\ line["alpha"] # <<>> /\ line["alpha"] \in Seq(Msg)
      /\ "alpha" \in Stations /\ "alpha" = Controller
  BY ReadHandlerReads, SMTT(60) DEF Stations, TypeOK, Controller
<1>2. /\ Received("alpha") \in FromBravo
      /\ Received("alpha").type \in {"ACK", "EOT", "ENQ"}
      /\ Received("alpha") # Enq("bravo")
      /\ Received("alpha").type = "ACK" => Received("alpha") = Simple("ACK")
  BY <1>1, TailFacts, FrameFacts, ZenonT(60) DEF Control, Received, FromBravo, Msg_type
<1>3. state["alpha"] \notin {"NEUTRAL", "SLAVE_INFO_RECEIVE"}
  BY <1>1 DEF Control
<1>4. ASSUME NEW how, Die("alpha", how) PROVE Control'
  BY <1>1, <1>4, DieControl
<1>5. ASSUME handle_output_queue_msg_and_state("alpha"),
             Received("alpha").type = "ACK"
      PROVE  Control'
  <2>1. CASE Answer("alpha", <<Simple("EOT")>>, "NEUTRAL")
    BY <1>1, <2>1, AlphaAnswer, Zenon
  <2>2. CASE /\ output_queue["alpha"] # <<>>
             /\ Answer("alpha", <<Info(Head(output_queue["alpha"]))>>,
                       "MASTER_INFO_ACK_RECEIVE")
    <3>1. Head(output_queue["alpha"]) \in Nat
      BY <1>1, <2>2 DEF TypeOK
    <3>2. <<Info(Head(output_queue["alpha"]))>> \in Seq(Msg)
      BY <3>1, FramesTyped
    <3> QED
      BY <1>1, <1>2, <1>5, <2>2, <3>1, <3>2, AlphaAnswer, Zenon
  <2> QED
    BY <1>5, <2>1, <2>2 DEF handle_output_queue_msg_and_state
<1>6. CASE handle_message_slave_select_receive_state("alpha")
  <2>1. \/ Answer("alpha", <<>>, "SLAVE_SELECT_RECEIVE")
        \/ Answer("alpha", <<>>, "NEUTRAL")
        \/ Die("alpha", "threw")
    BY <1>1, <1>6 DEF handle_message_slave_select_receive_state
  <2> QED
    BY <1>1, <1>4, <2>1, AlphaAnswer, Zenon
<1>7. CASE handle_message_master_select_ack_receive_state("alpha")
  <2>1. \/ /\ Received("alpha").type = "ACK"
           /\ handle_output_queue_msg_and_state("alpha")
        \/ Answer("alpha", <<>>, "NEUTRAL")
        \/ Die("alpha", "threw")
    BY <1>1, <1>2, <1>7 DEF handle_message_master_select_ack_receive_state
  <2> QED
    BY <1>1, <1>4, <1>5, <2>1, AlphaAnswer, Zenon
<1>8. CASE handle_message_master_info_ack_receive_state("alpha")
  <2>1. \/ /\ Received("alpha").type = "ACK"
           /\ handle_output_queue_msg_and_state("alpha")
        \/ Answer("alpha", <<Simple("EOT")>>, "NEUTRAL")
    BY <1>1, <1>2, <1>8 DEF handle_message_master_info_ack_receive_state
  <2> QED
    BY <1>1, <1>5, <2>1, AlphaAnswer, Zenon
<1>9. CASE parse_input_abort("alpha") \/ read_handler_abort("alpha")
  BY <1>4, <1>9 DEF parse_input_abort, read_handler_abort
<1> QED
  BY <1>3, <1>6, <1>7, <1>8, <1>9, Zenon DEF read_handler, Reading,
     handle_message_neutral_state, handle_message_slave_info_receive_state

\* Each of bravo's handlers.
LEMMA BravoReads ==
    ASSUME TypeOK, Control, read_handler("bravo")
    PROVE  Control'
<1> USE RepliesTyped
<1>1. /\ line["bravo"] # <<>> /\ line["bravo"] \in Seq(Msg)
      /\ "bravo" \in Stations /\ "bravo" # Controller
  BY ReadHandlerReads DEF Stations, TypeOK, Controller
<1>2. /\ Received("bravo").type \in {"EOT", "ENQ", "INFO"}
      /\ Enq("bravo") \notin Unanswered
      /\ Received("bravo").type = "INFO" => Received("bravo") \notin Unanswered
  BY <1>1, TailFacts, FrameFacts, ZenonT(60) DEF Control, Received
<1>3. state["bravo"] # "MASTER_INFO_ACK_RECEIVE"
  BY DEF Control
<1>4. state["alpha"] = "MASTER_INFO_ACK_RECEIVE" =>
         state["bravo"] = "SLAVE_INFO_RECEIVE" /\ Received("bravo").type = "INFO"
  <2>1. AllIn(line["bravo"], {Info(n) : n \in Nat}) =>
           Received("bravo") \in {Info(n) : n \in Nat}
    BY <1>1, TailFacts DEF Received
  <2>2. \A m \in {Info(n) : n \in Nat} : m.type = "INFO"
    BY FrameFacts, ZenonT(60)
  <2> QED
    BY <2>1, <2>2 DEF Control
<1>5. ASSUME NEW how, Die("bravo", how),
             state["alpha"] # "MASTER_INFO_ACK_RECEIVE"
      PROVE  Control'
  BY <1>1, <1>5, DieControl
<1>6. CASE handle_message_neutral_state("bravo")
  <2>1. /\ state["alpha"] # "MASTER_INFO_ACK_RECEIVE" /\ up["bravo"] = "running"
        /\ \/ /\ Received("bravo") = Enq("bravo")
              /\ Answer("bravo", <<Enq("alpha")>>, "MASTER_SELECT_ACK_RECEIVE")
           \/ /\ Received("bravo") = Enq("bravo")
              /\ Answer("bravo", <<Simple("EOT")>>, "NEUTRAL")
           \/ Answer("bravo", <<>>, "SLAVE_SELECT_RECEIVE")
           \/ Answer("bravo", <<>>, "NEUTRAL")
           \/ Die("bravo", "threw")
    BY <1>4, <1>6, Zenon DEF handle_message_neutral_state, Reading
  <2> QED
    BY <1>1, <1>2, <1>5, <2>1, BravoAnswer, Zenon
<1>7. CASE handle_message_slave_select_receive_state("bravo")
  <2>1. /\ state["alpha"] # "MASTER_INFO_ACK_RECEIVE" /\ up["bravo"] = "running"
        /\ \/ /\ Received("bravo") = Enq("bravo")
              /\ Answer("bravo", <<Simple("ACK")>>, "SLAVE_INFO_RECEIVE")
           \/ Answer("bravo", <<>>, "SLAVE_SELECT_RECEIVE")
           \/ Answer("bravo", <<>>, "NEUTRAL")
           \/ Die("bravo", "threw")
    BY <1>4, <1>7 DEF handle_message_slave_select_receive_state, Reading
  <2> QED
    BY <1>1, <1>2, <1>5, <2>1, BravoAnswer, Zenon
<1>8. CASE handle_message_master_select_ack_receive_state("bravo")
  <2>1. /\ state["alpha"] # "MASTER_INFO_ACK_RECEIVE" /\ up["bravo"] = "running"
        /\ Answer("bravo", <<>>, "NEUTRAL") \/ Die("bravo", "threw")
    BY <1>2, <1>4, <1>8 DEF handle_message_master_select_ack_receive_state, Reading
  <2> QED
    BY <1>1, <1>5, <2>1, BravoAnswer, Zenon
<1>9. CASE handle_message_slave_info_receive_state("bravo")
  <2>1. /\ up["bravo"] = "running"
        /\ \/ /\ Received("bravo").type = "INFO"
              /\ Answer("bravo", <<Simple("ACK")>>, "SLAVE_INFO_RECEIVE")
           \/ /\ Received("bravo").type = "EOT"
              /\ Answer("bravo", <<>>, "NEUTRAL")
           \/ /\ Received("bravo").type = "ENQ"
              /\ Die("bravo", "threw")
    BY <1>2, <1>9 DEF handle_message_slave_info_receive_state, Reading
  <2> QED
    BY <1>1, <1>2, <1>4, <1>5, <2>1, BravoAnswer, ZenonT(60)
<1>10. CASE parse_input_abort("bravo") \/ read_handler_abort("bravo")
  BY <1>2, <1>4, <1>5, <1>10, SMTT(60) DEF parse_input_abort, read_handler_abort, Reading
<1> QED
  BY <1>3, <1>6, <1>7, <1>8, <1>9, <1>10 DEF read_handler, Reading,
     handle_message_master_info_ack_receive_state

\* alpha polls when it is NEUTRAL, so behind nothing but EOT; the time-out
\* comes when nothing travels.
LEMMA TimersControl ==
    ASSUME ~LateTimeouts, TypeOK, ~timer_queued, Control,
           poll \/ on_master_select_no_response_timeout
    PROVE  Control'
<1> USE RepliesTyped
<1>1. /\ line["bravo"] \in Seq(Msg) /\ line["alpha"] = <<>>
      /\ AllIn(line["bravo"], {Simple("EOT")})
  <2>1. CASE poll
    BY <2>1 DEF poll, PollAsMaster, PollPeer, Control, TypeOK, Stations
  <2>2. CASE on_master_select_no_response_timeout
    BY <2>2 DEF on_master_select_no_response_timeout, Quiet, AllIn, TypeOK, Stations
  <2> QED
    BY <2>1, <2>2, SMTT(60)
<1>2. PICK f \in Seq(Msg), st \in States : /\ Transmit(f, st)
         /\ \/ /\ f = <<Simple("EOT"), Enq("alpha"), Enq("bravo")>>
               /\ st = "MASTER_SELECT_ACK_RECEIVE"
            \/ f = <<Simple("EOT"), Enq("bravo")>> /\ st = "SLAVE_SELECT_RECEIVE"
            \/ f = <<Simple("EOT")>> /\ st = "NEUTRAL"
  BY Zenon DEF poll, PollAsMaster, PollPeer, on_master_select_no_response_timeout,
     States
<1>3. /\ line'["bravo"] = line["bravo"] \o f /\ line'["alpha"] = line["alpha"]
      /\ state'["alpha"] = st /\ state'["bravo"] = state["bravo"] /\ up' = up
  BY <1>2, Zenon DEF Transmit, TypeOK, Stations
<1>4. /\ AllIn(f, FromAlpha) /\ EarlyIn(f, Unanswered)
      /\ st = "NEUTRAL" => AllIn(f, {Simple("EOT")})
  <2>1. CASE f = <<Simple("EOT"), Enq("alpha"), Enq("bravo")>>
             /\ st = "MASTER_SELECT_ACK_RECEIVE"
    BY <2>1 DEF AllIn, EarlyIn, FromAlpha, Unanswered
  <2>2. CASE f = <<Simple("EOT"), Enq("bravo")>> /\ st = "SLAVE_SELECT_RECEIVE"
    BY <2>2 DEF AllIn, EarlyIn, FromAlpha, Unanswered
  <2>3. CASE f = <<Simple("EOT")>> /\ st = "NEUTRAL"
    BY <2>3 DEF AllIn, EarlyIn, FromAlpha, Unanswered
  <2> QED
    BY <1>2, <2>1, <2>2, <2>3
<1>5. AllIn(line["bravo"], FromAlpha) /\ AllIn(line["bravo"], Unanswered)
  BY <1>1, SMTT(60) DEF AllIn, FromAlpha, Unanswered
<1>6. /\ AllIn(line'["bravo"], FromAlpha) /\ EarlyIn(line'["bravo"], Unanswered)
      /\ st = "NEUTRAL" => AllIn(line'["bravo"], {Simple("EOT")})
  BY <1>1, <1>3, <1>4, <1>5, WriteFacts, SMTT(60)
<1>7. AllIn(line'["alpha"], FromBravo \ {Simple("ACK")})
  BY <1>1, <1>3 DEF AllIn
<1> QED
  BY <1>1, <1>2, <1>3, <1>6, <1>7, SMTT(60) DEF Control

\* A lost frame leaves a combination of states that is allowed.
LEMMA LoseControl ==
    ASSUME TypeOK, Control, NEW s \in Stations, Lose(s)
    PROVE  Control'
<1>1. PICK i \in 1 .. Len(line[s]) :
         line' = [line EXCEPT ![s] = Without(line[s], i)]
  BY Zenon DEF Lose
<1>2. /\ state' = state /\ up' = up
      /\ line["alpha"] \in Seq(Msg) /\ line["bravo"] \in Seq(Msg)
  BY DEF Lose, TypeOK, Stations
<1>3. CASE s = "alpha"
  <2>1. /\ line'["alpha"] = Without(line["alpha"], i)
        /\ line'["bravo"] = line["bravo"] /\ i \in 1 .. Len(line["alpha"])
    BY <1>1, <1>3 DEF TypeOK, Stations
  <2>2. line["alpha"] # <<>> /\ Len(line["alpha"]) = 1
    <3>1. line["alpha"] = <<>> \/ Len(line["alpha"]) = 1
      BY Zenon DEF Control
    <3>2. PICK q \in Seq(Msg) : q = line["alpha"]
      BY <1>2, Zenon
    <3>3. i \in 1 .. Len(q)
      BY <2>1, <3>2, Zenon
    <3>4. q # <<>>
      BY <3>3
    <3> QED
      BY <3>1, <3>2, <3>4, Zenon
  <2>3. line'["alpha"] = <<>>
    <3>1. /\ Without(line["alpha"], i) \in Seq(Msg)
          /\ Len(Without(line["alpha"], i)) = Len(line["alpha"]) - 1
      BY <1>2, <2>1, WithoutElements, Zenon
    <3> QED
      BY <2>1, <2>2, <3>1
  <2>4. /\ AllIn(line'["alpha"], FromBravo)
        /\ AllIn(line'["alpha"], FromBravo \ {Simple("ACK")})
    BY <2>3, SMTT(60) DEF AllIn
  <2> QED
    BY <1>2, <2>1, <2>3, <2>4 DEF Control
<1>4. CASE s = "bravo"
  <2>1. /\ line'["bravo"] = Without(line["bravo"], i)
        /\ line'["alpha"] = line["alpha"] /\ i \in 1 .. Len(line["bravo"])
    BY <1>1, <1>4 DEF TypeOK, Stations
  <2>2. line["alpha"] = <<>>
    <3>1. line["alpha"] = <<>> \/ line["bravo"] = <<>>
      BY Zenon DEF Control
    <3>2. PICK q \in Seq(Msg) : q = line["bravo"]
      BY <1>2, Zenon
    <3>3. i \in 1 .. Len(q)
      BY <2>1, <3>2, Zenon
    <3>4. q # <<>>
      BY <3>3
    <3> QED
      BY <3>1, <3>2, <3>4, Zenon
  <2>3. /\ AllIn(line'["bravo"], FromAlpha)
        /\ AllIn(line["bravo"], {Simple("EOT")}) =>
              AllIn(line'["bravo"], {Simple("EOT")})
        /\ AllIn(line["bravo"], {Info(n) : n \in Nat}) =>
              AllIn(line'["bravo"], {Info(n) : n \in Nat})
    <3>1. AllIn(line'["bravo"], FromAlpha)
      BY <1>2, <2>1, WithoutFacts, SMTT(60) DEF Control
    <3>2. AllIn(line["bravo"], {Simple("EOT")}) =>
             AllIn(line'["bravo"], {Simple("EOT")})
      BY <1>2, <2>1, WithoutFacts, SMTT(60)
    <3>3. AllIn(line["bravo"], {Info(n) : n \in Nat}) =>
             AllIn(line'["bravo"], {Info(n) : n \in Nat})
      BY <1>2, <2>1, WithoutFacts, SMTT(60)
    <3> QED
      BY <3>1, <3>2, <3>3, SMTT(60)
  <2>4. EarlyIn(line'["bravo"], Unanswered)
    BY <1>2, <2>1, WithoutFacts DEF Control
  <2> QED
    BY <1>2, <2>1, <2>2, <2>3, <2>4 DEF Control
<1> QED
  BY <1>3, <1>4 DEF Stations

\* Only a wait that expires while its handler cannot run is queued.
Prompt == Control /\ ~timer_queued

\* The line has changed no frame.
Undamaged == ~Garbling \/ faults = 0

\* Every step keeps Prompt while the line changes no frame and the timer waits.
LEMMA NextPrompt ==
    ASSUME ~LateTimeouts, TypeOK, Prompt, [Next]_vars, Undamaged'
    PROVE  Prompt'
<1> USE DEF Prompt
<1>1. ASSUME NEW s \in Stations, read_handler(s) PROVE Prompt'
  <2>1. Control'
    BY <1>1, AlphaReads, BravoReads, SMTT(60) DEF Stations
  <2>2. ~timer_queued'
    BY <1>1, ZenonT(60) DEF read_handler, handle_message_neutral_state,
       handle_message_slave_select_receive_state,
       handle_message_master_select_ack_receive_state,
       handle_message_master_info_ack_receive_state,
       handle_message_slave_info_receive_state, parse_input_abort,
       read_handler_abort, Die, cancel, masterVars, timerVars
  <2> QED
    BY <2>1, <2>2
<1>2. ASSUME NEW s \in Stations, enqueue_message(s) \/ get_next_message(s)
      PROVE  Prompt'
  <2>1. UNCHANGED <<up, state, line, timer_queued>>
    BY <1>2 DEF enqueue_message, get_next_message, linkVars, timerVars
  <2> QED
    BY <2>1 DEF Control
<1>3. ASSUME NEW s \in Stations, Lose(s) PROVE Prompt'
  BY <1>3, LoseControl, Zenon DEF Lose, masterVars, timerVars
<1>4. ASSUME NEW s \in Stations, Unread(s) PROVE Prompt'
  <2>1. /\ line[s] # <<>> /\ line' = [line EXCEPT ![s] = Tail(line[s])]
        /\ state' = state /\ up' = up /\ up[s] # "running" /\ ~timer_queued'
    BY <1>4 DEF Unread, masterVars, timerVars
  <2>2. s = "bravo" => state["alpha"] # "MASTER_INFO_ACK_RECEIVE"
    BY <2>1 DEF Control
  <2> QED
    BY <2>1, <2>2, DropControl, Zenon
<1>5. CASE poll \/ on_master_select_no_response_timeout
  <2>1. ~timer_queued'
    BY <1>5, SMTT(60) DEF poll, PollAsMaster, PollPeer, timerVars,
       on_master_select_no_response_timeout
  <2> QED
    BY <1>5, <2>1, TimersControl, SMTT(60)
<1>6. CASE UNCHANGED vars
  BY <1>6, SMTT(60) DEF vars, linkVars, timerVars, Control
<1>7. ASSUME NEW s \in Stations PROVE ~Garble(s)
  BY DEF Garble, Undamaged, TypeOK
<1> QED
  BY <1>1, <1>2, <1>3, <1>4, <1>5, <1>6, <1>7 DEF Next, Expire

\* With a line that only loses frames and a timer that waits for its answer,
\* Control holds in every state.
THEOREM ControlInvariant ==
    ASSUME ~Garbling, ~LateTimeouts
    PROVE  Spec => []Prompt
<1>1. Init => Prompt
  <2> SUFFICES ASSUME Init PROVE Prompt
    OBVIOUS
  <2>1. line["alpha"] = <<>> /\ line["bravo"] = <<>> /\ ~timer_queued
    BY DEF Init, Stations
  <2>2. state["alpha"] = "NEUTRAL" /\ state["bravo"] = "NEUTRAL"
    BY DEF Init, Stations
  <2>3. \A S : AllIn(<<>>, S) /\ EarlyIn(<<>>, S)
    BY DEF AllIn, EarlyIn
  <2> QED
    BY <2>1, <2>2, <2>3 DEF Prompt, Control
<1>2. TypeOK /\ Prompt /\ [Next]_vars => Prompt'
  BY NextPrompt DEF Undamaged
<1> QED
  BY <1>1, <1>2, TypeCorrect, PTL DEF Spec

\* The two stations never transmit at once: polling does prevent collisions,
\* whatever the line loses.
THEOREM CollisionFree ==
    ASSUME ~Garbling, ~LateTimeouts
    PROVE  Spec => []NoCollision
<1>1. Prompt => NoCollision
  BY SMTT(60) DEF Prompt, Control, NoCollision
<1> QED
  BY <1>1, ControlInvariant, PTL

\* While alpha awaits the ACK of an information message, bravo is its slave
\* and still runs.
THEOREM SlaveIsThere ==
    ASSUME ~Garbling, ~LateTimeouts
    PROVE  Spec => []MasterHasSlave
<1>1. Prompt => MasterHasSlave
  BY DEF Prompt, Control, MasterHasSlave
<1> QED
  BY <1>1, ControlInvariant, PTL

-----------------------------------------------------------------------------
(* The no-response timer, on any line and with any delays.                 *)

\* A station that is selected by bravo's name would become a master without a
\* timer; no such frame is ever on its way to alpha, whatever the line does.
NotForBravo == Msg \ {Enq("bravo")}

Timed == SelectionIsTimed /\ AllIn(line["alpha"], NotForBravo)

\* No reply selects bravo, and no garbled frame does.
LEMMA RepliesNotForBravo ==
    /\ AllIn(<<>>, NotForBravo) /\ AllIn(<<Simple("ACK")>>, NotForBravo)
    /\ AllIn(<<Simple("NAK")>>, NotForBravo) /\ AllIn(<<Simple("EOT")>>, NotForBravo)
    /\ AllIn(<<Enq("alpha")>>, NotForBravo)
    /\ \A n \in Nat : AllIn(<<Info(n)>>, NotForBravo)
    /\ GarbledForms \subseteq NotForBravo
<1>1. /\ Simple("ACK") # Enq("bravo") /\ Simple("NAK") # Enq("bravo")
      /\ Simple("EOT") # Enq("bravo") /\ Enq("alpha") # Enq("bravo")
      /\ \A n \in Nat : Info(n) # Enq("bravo")
  BY FrameFacts, Zenon DEF Msg_type
<1>2. Enq("bravo") \notin GarbledForms
  <2>1. /\ Simple("MALFORMED") # Enq("bravo") /\ Simple("DLE") # Enq("bravo")
        /\ Enq("") # Enq("bravo") /\ Info(0) # Enq("bravo")
    BY <1>1, FrameFacts, ZenonT(60) DEF Msg_type
  <2> QED
    BY <1>1, <2>1, Zenon DEF GarbledForms
<1> QED
  BY <1>1, <1>2, FramesTyped DEF AllIn, NotForBravo

\* What a reading station leaves on the line and writes to it.
LEMMA ReadFrames ==
    ASSUME TypeOK, NEW s \in Stations, read_handler(s)
    PROVE  \/ \E how : Die(s, how)
           \/ \E f \in Seq(Msg) : \E st : Answer(s, f, st) /\ AllIn(f, NotForBravo)
<1> USE RepliesTyped, RepliesNotForBravo
<1>1. ASSUME handle_output_queue_msg_and_state(s)
      PROVE  \E f \in Seq(Msg) : \E st : Answer(s, f, st) /\ AllIn(f, NotForBravo)
  <2>1. CASE output_queue[s] = <<>>
    BY <1>1, <2>1, Zenon DEF handle_output_queue_msg_and_state
  <2>2. CASE output_queue[s] # <<>>
    <3>1. Head(output_queue[s]) \in Nat
      BY <2>2, SMTT(60) DEF TypeOK
    <3>2. /\ <<Info(Head(output_queue[s]))>> \in Seq(Msg)
          /\ AllIn(<<Info(Head(output_queue[s]))>>, NotForBravo)
      BY <3>1, FramesTyped, SMTT(60)
    <3> QED
      BY <1>1, <2>2, <3>2, Zenon DEF handle_output_queue_msg_and_state
  <2> QED
    BY <2>1, <2>2, SMTT(60)
<1>2. <<Info(last_message[s])>> \in Seq(Msg) /\ AllIn(<<Info(last_message[s])>>, NotForBravo)
  BY FramesTyped, SMTT(60) DEF TypeOK
<1>3. CASE handle_message_neutral_state(s)
  BY <1>3, Zenon DEF handle_message_neutral_state
<1>4. CASE handle_message_slave_select_receive_state(s)
  BY <1>4, Zenon DEF handle_message_slave_select_receive_state
<1>5. CASE handle_message_master_select_ack_receive_state(s)
  BY <1>1, <1>5, Zenon DEF handle_message_master_select_ack_receive_state
<1>6. CASE handle_message_master_info_ack_receive_state(s)
  BY <1>1, <1>2, <1>6, Zenon DEF handle_message_master_info_ack_receive_state
<1>7. CASE handle_message_slave_info_receive_state(s)
  BY <1>7, Zenon DEF handle_message_slave_info_receive_state
<1>8. CASE parse_input_abort(s) \/ read_handler_abort(s)
  BY <1>8, Zenon DEF parse_input_abort, read_handler_abort
<1> QED
  BY <1>3, <1>4, <1>5, <1>6, <1>7, <1>8, SMTT(60) DEF read_handler

\* The end of a line holds nothing that the line did not.
LEMMA SuffixFacts ==
    ASSUME NEW q \in Seq(Msg), NEW k \in 2 .. Len(q) + 1, NEW S, AllIn(q, S)
    PROVE  AllIn(SubSeq(q, k, Len(q)), S)
<1> DEFINE b == SubSeq(q, k, Len(q))
<1>1. /\ Len(b) = Len(q) - (k - 1) /\ Len(q) \in Nat
      /\ \A i \in 1 .. Len(q) - (k - 1) : b[i] = q[i + (k - 1)]
  OBVIOUS
<1> HIDE DEF b
<1>2. AllIn(b, S)
  BY <1>1, SMTT(60) DEF AllIn
<1> QED
  BY <1>2 DEF b

\* No handler writes a selection of bravo to alpha.
LEMMA ReadNotForBravo ==
    ASSUME TypeOK, NEW s \in Stations, read_handler(s),
           AllIn(line["alpha"], NotForBravo)
    PROVE  AllIn(line'["alpha"], NotForBravo)
<1>1. line["alpha"] \in Seq(Msg) /\ line[s] \in Seq(Msg) /\ line[s] # <<>>
  BY ReadHandlerReads, Zenon DEF TypeOK, Stations
<1>2. ASSUME NEW how, Die(s, how) PROVE AllIn(line'["alpha"], NotForBravo)
  <2>1. line'["alpha"] = IF s = "alpha" THEN Tail(line["alpha"]) ELSE line["alpha"]
    BY <1>2, Zenon DEF Die, TypeOK, Stations
  <2> QED
    BY <1>1, <2>1, TailFacts
<1>3. ASSUME NEW f \in Seq(Msg), NEW st, Answer(s, f, st), AllIn(f, NotForBravo)
      PROVE  AllIn(line'["alpha"], NotForBravo)
  <2>1. PICK rest \in Rests(s) :
           line' = [line EXCEPT ![s] = rest, ![Peer(s)] = @ \o f]
    BY <1>3, Zenon DEF Answer
  <2>2. CASE s = "alpha"
    <3>1. line'["alpha"] = rest
      BY <2>1, <2>2 DEF TypeOK, Stations, Peer
    <3>2. AllIn(rest, NotForBravo)
      <4>1. CASE rest = Tail(line["alpha"])
        BY <1>1, <2>2, <4>1, TailFacts
      <4>2. ASSUME NEW k \in 2 .. Len(line["alpha"]) + 1,
                   rest = SubSeq(line["alpha"], k, Len(line["alpha"]))
            PROVE  AllIn(rest, NotForBravo)
        BY <1>1, <4>2, SuffixFacts, SMTT(60)
      <4> QED
        BY <2>1, <2>2, <4>1, <4>2 DEF Rests
    <3> QED
      BY <3>1, <3>2
  <2>3. CASE s = "bravo"
    <3>1. line'["alpha"] = line["alpha"] \o f
      BY <2>1, <2>3, ZenonT(60) DEF TypeOK, Stations, Peer
    <3> QED
      BY <1>1, <1>3, <3>1, WriteFacts, Zenon
  <2> QED
    BY <2>2, <2>3 DEF Stations
<1> QED
  BY <1>2, <1>3, ReadFrames, SMTT(60)

\* alpha enters the wait for the answer to a selection in poll(), which starts
\* the timer, and a refusal leaves that timer running; only a station selected
\* by bravo's name enters it otherwise.
LEMMA ReadTimed ==
    ASSUME TypeOK, Timed, NEW s \in Stations, read_handler(s)
    PROVE  Timed'
<1>1. AllIn(line'["alpha"], NotForBravo)
  BY ReadNotForBravo DEF Timed
<1>2. SelectionIsTimed'
  <2>1. CASE s = "bravo"
    <3>1. state'["alpha"] = state["alpha"]
      BY <2>1, ZenonT(60) DEF read_handler, handle_message_neutral_state,
         handle_message_slave_select_receive_state,
         handle_message_master_select_ack_receive_state,
         handle_message_master_info_ack_receive_state,
         handle_message_slave_info_receive_state, parse_input_abort,
         read_handler_abort, Die, Answer, handle_output_queue_msg_and_state,
         TypeOK, Stations
    <3>2. timer_armed' = timer_armed /\ timer_queued' = timer_queued
      BY <2>1, ZenonT(60) DEF read_handler, handle_message_neutral_state,
         handle_message_slave_select_receive_state,
         handle_message_master_select_ack_receive_state,
         handle_message_master_info_ack_receive_state,
         handle_message_slave_info_receive_state, parse_input_abort,
         read_handler_abort, Die, cancel, masterVars, timerVars, Controller
    <3>3. up["alpha"] = "running" <=> up'["alpha"] = "running"
      BY <2>1, ZenonT(60) DEF read_handler, handle_message_neutral_state,
         handle_message_slave_select_receive_state,
         handle_message_master_select_ack_receive_state,
         handle_message_master_info_ack_receive_state,
         handle_message_slave_info_receive_state, parse_input_abort,
         read_handler_abort, Die, Answer, handle_output_queue_msg_and_state,
         TypeOK, Stations
    <3> QED
      BY <3>1, <3>2, <3>3 DEF Timed, SelectionIsTimed
  <2>2. CASE s = "alpha"
    <3>1. Received("alpha") # Enq("bravo")
      <4>1. line["alpha"] \in Seq(Msg) /\ line["alpha"] # <<>>
        BY <2>2, ReadHandlerReads DEF TypeOK, Stations
      <4> QED
        BY <4>1, TailFacts DEF Timed, Received, NotForBravo
    <3>2. ASSUME NEW how, Die("alpha", how) PROVE SelectionIsTimed'
      BY <3>2 DEF Die, Timed, SelectionIsTimed, timerVars, TypeOK, Stations
    <3>3. ASSUME NEW f, NEW st, Answer("alpha", f, st),
                 st \notin {"MASTER_SELECT_ACK_RECEIVE", "POLL_TRANSMIT"}
          PROVE  SelectionIsTimed'
      BY <3>3, SMTT(60) DEF Answer, SelectionIsTimed, TypeOK, Stations
    <3>4. CASE handle_message_neutral_state("alpha")
      BY <3>1, <3>2, <3>3, <3>4, Zenon DEF handle_message_neutral_state
    <3>5. CASE handle_message_slave_select_receive_state("alpha")
      BY <3>2, <3>3, <3>5 DEF handle_message_slave_select_receive_state
    <3>6. CASE handle_message_master_select_ack_receive_state("alpha")
      <4>1. timer_armed \/ timer_queued
        BY <3>6 DEF handle_message_master_select_ack_receive_state, Reading,
           Timed, SelectionIsTimed
      <4>2. CASE UNCHANGED timerVars
        BY <4>1, <4>2 DEF timerVars, SelectionIsTimed
      <4> QED
        BY <3>2, <3>6, <4>2, SMTT(60)
           DEF handle_message_master_select_ack_receive_state, masterVars
    <3>7. CASE handle_message_master_info_ack_receive_state("alpha")
      BY <3>3, <3>7 DEF handle_message_master_info_ack_receive_state,
         handle_output_queue_msg_and_state
    <3>8. CASE handle_message_slave_info_receive_state("alpha")
      BY <3>2, <3>3, <3>8 DEF handle_message_slave_info_receive_state
    <3> QED
      BY <2>2, <3>2, <3>4, <3>5, <3>6, <3>7, <3>8, SMTT(60)
         DEF read_handler, parse_input_abort, read_handler_abort
  <2> QED
    BY <2>1, <2>2 DEF Stations
<1> QED
  BY <1>1, <1>2 DEF Timed

\* Every step keeps a timer for a pending selection.
LEMMA NextTimed ==
    ASSUME TypeOK, Timed, [Next]_vars
    PROVE  Timed'
<1>1. line["alpha"] \in Seq(Msg) /\ line["bravo"] \in Seq(Msg)
  BY DEF TypeOK, Stations
<1>2. ASSUME NEW s \in Stations, enqueue_message(s) \/ get_next_message(s)
      PROVE  Timed'
  BY <1>2 DEF enqueue_message, get_next_message, linkVars, timerVars, Timed,
     SelectionIsTimed
<1>3. ASSUME NEW s \in Stations, Lose(s) \/ Garble(s) \/ Unread(s),
             AllIn(line'["alpha"], NotForBravo)
      PROVE  Timed'
  BY <1>3 DEF Lose, Garble, Unread, masterVars, timerVars, Timed,
     SelectionIsTimed
<1>4. ASSUME NEW s \in Stations, Lose(s) PROVE AllIn(line'["alpha"], NotForBravo)
  <2>1. PICK i \in 1 .. Len(line[s]) : line' = [line EXCEPT ![s] = Without(@, i)]
    BY <1>4, Zenon DEF Lose
  <2>2. CASE s = "alpha"
    <3>1. line'["alpha"] = Without(line["alpha"], i)
      BY <2>1, <2>2 DEF TypeOK, Stations
    <3> QED
      BY <1>1, <2>1, <2>2, <3>1, WithoutFacts DEF Timed
  <2> QED
    BY <2>1, <2>2 DEF Timed, TypeOK, Stations
<1>5. ASSUME NEW s \in Stations, Garble(s) PROVE AllIn(line'["alpha"], NotForBravo)
  <2>1. PICK i \in 1 .. Len(line[s]), m \in GarbledForms :
           line' = [line EXCEPT ![s][i] = m]
    BY <1>5, Zenon DEF Garble
  <2>2. CASE s = "alpha"
    <3>1. line'["alpha"] = [line["alpha"] EXCEPT ![i] = m] /\ m \in NotForBravo
      BY <2>1, <2>2, RepliesNotForBravo DEF TypeOK, Stations
    <3>2. Len(line'["alpha"]) = Len(line["alpha"])
      BY <1>1, <3>1
    <3> QED
      BY <1>1, <3>1, <3>2 DEF Timed, AllIn
  <2> QED
    BY <2>1, <2>2 DEF Timed, TypeOK, Stations
<1>6. ASSUME NEW s \in Stations, Unread(s) PROVE AllIn(line'["alpha"], NotForBravo)
  <2>1. line[s] # <<>> /\ line' = [line EXCEPT ![s] = Tail(@)]
    BY <1>6 DEF Unread
  <2>2. CASE s = "alpha"
    <3>1. line'["alpha"] = Tail(line["alpha"])
      BY <2>1, <2>2 DEF TypeOK, Stations
    <3> QED
      BY <1>1, <2>1, <2>2, <3>1, TailFacts DEF Timed
  <2> QED
    BY <2>1, <2>2 DEF Timed, TypeOK, Stations
<1>7. CASE poll \/ on_master_select_no_response_timeout
  <2>1. line'["alpha"] = line["alpha"]
    BY <1>7, Zenon DEF poll, PollAsMaster, PollPeer, Transmit, TypeOK, Stations,
       on_master_select_no_response_timeout
  <2>2. SelectionIsTimed'
    BY <1>7, Zenon DEF poll, PollAsMaster, PollPeer, Transmit, TypeOK, Stations,
       on_master_select_no_response_timeout, SelectionIsTimed
  <2> QED
    BY <2>1, <2>2, SMTT(60) DEF Timed
<1>8. CASE Expire
  BY <1>8 DEF Expire, linkVars, Timed, SelectionIsTimed
<1>9. CASE UNCHANGED vars
  BY <1>9 DEF vars, linkVars, timerVars, Timed, SelectionIsTimed
<1> QED
  BY <1>2, <1>3, <1>4, <1>5, <1>6, <1>7, <1>8, <1>9, ReadTimed DEF Next

\* While the controlling station waits for the answer to a selection, or is
\* back in POLL_TRANSMIT after a refusal, its no-response timer runs or has
\* expired, whatever the line loses or garbles and however late the handlers
\* run: a lost answer does not hold poll() up.
THEOREM SelectionTimed == Spec => []SelectionIsTimed
<1>1. Init => Timed
  <2> SUFFICES ASSUME Init PROVE Timed
    OBVIOUS
  <2>1. line["alpha"] = <<>> /\ state["alpha"] = "NEUTRAL"
    BY DEF Init, Stations
  <2> QED
    BY <2>1 DEF Timed, SelectionIsTimed, AllIn
<1>2. TypeOK /\ Timed /\ [Next]_vars => Timed'
  BY NextTimed
<1>3. Timed => SelectionIsTimed
  BY SMTT(60) DEF Timed
<1> QED
  BY <1>1, <1>2, <1>3, TypeCorrect, PTL DEF Spec

-----------------------------------------------------------------------------
(* Who writes what.                                                        *)

\* Whatever the timers do, alpha never becomes a slave that receives, bravo
\* never a master that transmits, and each writes only its own frames.
Roles ==
    /\ state["alpha"] \notin {"SLAVE_INFO_RECEIVE", "POLL_TRANSMIT"}
    /\ state["bravo"] \notin {"MASTER_INFO_ACK_RECEIVE", "POLL_TRANSMIT"}
    /\ AllIn(line["alpha"], FromBravo)
    /\ AllIn(line["bravo"], FromAlpha)

\* Reading one frame and writing f: what everybody else sees of it.
Reads(s, f) ==
    /\ line'[s] = Tail(line[s]) /\ line'[Peer(s)] = line[Peer(s)] \o f
    /\ state'[Peer(s)] = state[Peer(s)] /\ up'[Peer(s)] = up[Peer(s)]
    /\ UNCHANGED <<faults, enqueued, delivered>>

\* What a handler that answers does.
LEMMA AnswerReads ==
    ASSUME TypeOK, NEW s \in Stations, line[s] # <<>>, Received(s).type # "MALFORMED",
           NEW f \in Seq(Msg), NEW st, Answer(s, f, st)
    PROVE  Reads(s, f) /\ state'[s] = st /\ up' = up
<1>1. /\ line'[s] = Tail(line[s]) /\ line'[Peer(s)] = line[Peer(s)] \o f
      /\ state'[s] = st /\ state'[Peer(s)] = state[Peer(s)]
      /\ UNCHANGED <<up, faults>>
  BY AnswerEffect, Zenon
<1>2. UNCHANGED <<enqueued, delivered>>
  BY SMTT(60) DEF Answer
<1> QED
  BY <1>1, <1>2, SMTT(60) DEF Reads

\* What a handler that throws does.
LEMMA DieReads ==
    ASSUME TypeOK, NEW s \in Stations, line[s] # <<>>, NEW how, Die(s, how)
    PROVE  Reads(s, <<>>) /\ state' = state /\ up'[s] = how
<1>1. s # Peer(s) /\ Peer(s) \in Stations /\ line[Peer(s)] \in Seq(Msg)
  BY DEF Stations, Peer, TypeOK
<1>2. /\ up' = [up EXCEPT ![s] = how] /\ line' = [line EXCEPT ![s] = Tail(@)]
      /\ state' = state /\ UNCHANGED <<faults, enqueued, delivered>>
  BY DEF Die, appVars
<1>3. line[Peer(s)] \o <<>> = line[Peer(s)]
  BY <1>1, NothingWritten, Zenon
<1> QED
  BY <1>1, <1>2, <1>3 DEF Reads, TypeOK

\* The answers of bravo that end alpha's process.
Startles(st, m) ==
    \/ st = "NEUTRAL" /\ m.type = "ACK"
    \/ st = "MASTER_SELECT_ACK_RECEIVE" /\ m.type = "ENQ"

\* alpha reads an answer of bravo.
AlphaReadsOne ==
    /\ UNCHANGED input_queue
    /\ up' = up \/ Startles(state["alpha"], Received("alpha"))
    /\ \/ /\ Reads("alpha", <<>>)
          /\ state'["alpha"] \in {"NEUTRAL", "SLAVE_SELECT_RECEIVE", state["alpha"]}
          /\ UNCHANGED output_queue
       \/ /\ Reads("alpha", <<Simple("EOT")>>) /\ state'["alpha"] = "NEUTRAL"
          /\ UNCHANGED output_queue
       \/ /\ state["alpha"] \in {"MASTER_SELECT_ACK_RECEIVE", "MASTER_INFO_ACK_RECEIVE"}
          /\ output_queue["alpha"] # <<>>
          /\ Reads("alpha", <<Info(Head(output_queue["alpha"]))>>)
          /\ state'["alpha"] = "MASTER_INFO_ACK_RECEIVE"
          /\ output_queue' = [output_queue EXCEPT !["alpha"] = Tail(@)]

\* What alpha's handlers write, and the states they go to.
LEMMA AlphaReadsEffect ==
    ASSUME TypeOK, Roles, read_handler("alpha")
    PROVE  AlphaReadsOne
<1> USE RepliesTyped
<1>1. /\ line["alpha"] # <<>> /\ line["alpha"] \in Seq(Msg)
      /\ "alpha" \in Stations /\ "alpha" = Controller
  BY ReadHandlerReads DEF Stations, TypeOK, Controller
<1>2. /\ Received("alpha") \in FromBravo
      /\ Received("alpha").type \in {"ACK", "EOT", "ENQ"}
      /\ Received("alpha") # Enq("bravo")
      /\ Received("alpha").type # "MALFORMED"
  BY <1>1, TailFacts, FrameFacts, Zenon DEF Roles, Received
<1>3. ASSUME NEW how, Die("alpha", how), Startles(state["alpha"], Received("alpha"))
      PROVE  AlphaReadsOne
  <2>1. Reads("alpha", <<>>) /\ state' = state
    BY <1>1, <1>3, DieReads, SMTT(60)
  <2> QED
    BY <1>3, <2>1, SMTT(60) DEF Die, appVars, AlphaReadsOne
<1>4. ASSUME NEW st \in {"NEUTRAL", "SLAVE_SELECT_RECEIVE"}, Answer("alpha", <<>>, st),
             UNCHANGED <<output_queue, input_queue>>
      PROVE  AlphaReadsOne
  <2>1. Reads("alpha", <<>>) /\ state'["alpha"] = st /\ up' = up
    BY <1>1, <1>2, <1>4, AnswerReads, Zenon
  <2> QED
    BY <1>4, <2>1, SMTT(60) DEF AlphaReadsOne
<1>5. ASSUME Answer("alpha", <<Simple("EOT")>>, "NEUTRAL"),
             UNCHANGED <<output_queue, input_queue>>
      PROVE  AlphaReadsOne
  <2>1. Reads("alpha", <<Simple("EOT")>>) /\ state'["alpha"] = "NEUTRAL" /\ up' = up
    BY <1>1, <1>2, <1>5, AnswerReads, Zenon
  <2> QED
    BY <1>5, <2>1 DEF AlphaReadsOne
<1>6. ASSUME handle_output_queue_msg_and_state("alpha"),
             state["alpha"] \in {"MASTER_SELECT_ACK_RECEIVE", "MASTER_INFO_ACK_RECEIVE"}
      PROVE  AlphaReadsOne
  <2>1. CASE output_queue["alpha"] = <<>>
    BY <1>5, <1>6, <2>1 DEF handle_output_queue_msg_and_state
  <2>2. CASE output_queue["alpha"] # <<>>
    <3> DEFINE f == <<Info(Head(output_queue["alpha"]))>>
    <3>1. Head(output_queue["alpha"]) \in Nat
      BY <1>1, <2>2, SMTT(60) DEF TypeOK
    <3>2. f \in Seq(Msg)
      BY <3>1
    <3>3. /\ Answer("alpha", f, "MASTER_INFO_ACK_RECEIVE")
          /\ output_queue' = [output_queue EXCEPT !["alpha"] = Tail(@)]
          /\ UNCHANGED input_queue
      BY <1>6, <2>2, SMTT(60) DEF handle_output_queue_msg_and_state
    <3> HIDE DEF f
    <3>4. Reads("alpha", f) /\ state'["alpha"] = "MASTER_INFO_ACK_RECEIVE" /\ up' = up
      BY <1>1, <1>2, <3>2, <3>3, AnswerReads, SMTT(60)
    <3> QED
      BY <1>6, <2>2, <3>3, <3>4 DEF AlphaReadsOne, f
  <2> QED
    BY <2>1, <2>2
<1>7. CASE handle_message_neutral_state("alpha")
  <2>1. \/ Answer("alpha", <<>>, "SLAVE_SELECT_RECEIVE") /\ UNCHANGED <<output_queue, input_queue>>
        \/ Answer("alpha", <<>>, "NEUTRAL") /\ UNCHANGED <<output_queue, input_queue>>
        \/ Die("alpha", "threw") /\ Startles(state["alpha"], Received("alpha"))
    BY <1>2, <1>7, Zenon DEF handle_message_neutral_state, masterVars, Reading, Startles
  <2> QED
    BY <1>3, <1>4, <2>1, SMTT(60)
<1>8. CASE handle_message_slave_select_receive_state("alpha")
  <2>1. \/ Answer("alpha", <<>>, "SLAVE_SELECT_RECEIVE") /\ UNCHANGED <<output_queue, input_queue>>
        \/ Answer("alpha", <<>>, "NEUTRAL") /\ UNCHANGED <<output_queue, input_queue>>
    BY <1>2, <1>8 DEF handle_message_slave_select_receive_state, masterVars
  <2> QED
    BY <1>4, <2>1, SMTT(60)
<1>9. CASE handle_message_master_select_ack_receive_state("alpha")
  <2>1. /\ state["alpha"] = "MASTER_SELECT_ACK_RECEIVE"
        /\ \/ handle_output_queue_msg_and_state("alpha")
           \/ Answer("alpha", <<>>, "NEUTRAL") /\ UNCHANGED <<output_queue, input_queue>>
           \/ Die("alpha", "threw") /\ Startles(state["alpha"], Received("alpha"))
    BY <1>2, <1>9 DEF handle_message_master_select_ack_receive_state, masterVars, Reading,
       Startles
  <2> QED
    BY <1>3, <1>4, <1>6, <2>1, SMTT(60)
<1>10. CASE handle_message_master_info_ack_receive_state("alpha")
  <2>1. /\ state["alpha"] = "MASTER_INFO_ACK_RECEIVE"
        /\ \/ handle_output_queue_msg_and_state("alpha")
           \/ /\ Answer("alpha", <<Simple("EOT")>>, "NEUTRAL")
              /\ UNCHANGED <<output_queue, input_queue>>
    BY <1>2, <1>10, ZenonT(60) DEF handle_message_master_info_ack_receive_state, masterVars, Reading
  <2> QED
    BY <1>5, <1>6, <2>1, SMTT(60)
<1>11. CASE parse_input_abort("alpha") \/ read_handler_abort("alpha")
  BY <1>2, <1>11, SMTT(60) DEF parse_input_abort, read_handler_abort, Reading, Roles
<1> QED
  BY <1>7, <1>8, <1>9, <1>10, <1>11, SMTT(60) DEF read_handler, Reading, Roles,
     handle_message_slave_info_receive_state

\* What bravo makes of a frame m of alpha in state st: it accepts the payload,
\* or writes f and goes to state st2, or ends in an exception.
Accepts(st, m) == st = "SLAVE_INFO_RECEIVE" /\ m.type = "INFO"

Follows(st, m, f, st2) ==
    \/ m = Simple("EOT") /\ f = <<>> /\ st2 = "NEUTRAL"
    \/ /\ m = Enq("alpha") /\ st \in {"NEUTRAL", "SLAVE_SELECT_RECEIVE"}
       /\ f = <<>> /\ st2 = "SLAVE_SELECT_RECEIVE"
    \/ /\ m = Enq("bravo") /\ st = "SLAVE_SELECT_RECEIVE"
       /\ f = <<Simple("ACK")>> /\ st2 = "SLAVE_INFO_RECEIVE"
    \/ /\ m = Enq("bravo") /\ st = "NEUTRAL"
       /\ f = <<Enq("alpha")>> /\ st2 = "MASTER_SELECT_ACK_RECEIVE"
    \/ m = Enq("bravo") /\ st = "NEUTRAL" /\ f = <<Simple("EOT")>> /\ st2 = "NEUTRAL"

Refuses(st, m) ==
    \/ m.type = "INFO" /\ st # "SLAVE_INFO_RECEIVE"
    \/ m.type = "ENQ" /\ st \in {"MASTER_SELECT_ACK_RECEIVE", "SLAVE_INFO_RECEIVE"}

\* bravo reads a frame of alpha.
BravoReadsOne ==
    /\ UNCHANGED output_queue
    /\ \/ /\ Accepts(state["bravo"], Received("bravo"))
          /\ Reads("bravo", <<Simple("ACK")>>) /\ up' = up
          /\ state'["bravo"] = "SLAVE_INFO_RECEIVE"
          /\ input_queue' = [input_queue EXCEPT
                                !["bravo"] = Append(@, Received("bravo").body)]
       \/ /\ UNCHANGED <<input_queue, up>>
          /\ \E f \in Seq(Msg) :
                /\ Reads("bravo", f)
                /\ Follows(state["bravo"], Received("bravo"), f, state'["bravo"])
       \/ /\ UNCHANGED <<input_queue, state>>
          /\ Reads("bravo", <<>>)
          /\ up'["bravo"] # "running"
          /\ Refuses(state["bravo"], Received("bravo"))

\* What bravo's handlers write, and the states they go to.
LEMMA BravoReadsEffect ==
    ASSUME TypeOK, Roles, read_handler("bravo")
    PROVE  BravoReadsOne
<1> USE RepliesTyped
<1> DEFINE m == Received("bravo")
<1>1. /\ line["bravo"] # <<>> /\ line["bravo"] \in Seq(Msg)
      /\ "bravo" \in Stations /\ "bravo" # Controller
  BY ReadHandlerReads DEF Stations, TypeOK, Controller
<1>2. m \in FromAlpha
  BY <1>1, TailFacts, SMTT(60) DEF Roles, Received
<1>3. /\ m.type \in {"EOT", "ENQ", "INFO"} /\ m.type # "MALFORMED"
      /\ m.type = "EOT" => m = Simple("EOT")
      /\ m.type = "ENQ" => m \in {Enq("alpha"), Enq("bravo")}
      /\ m # Enq("") /\ (m = Enq("alpha") \/ m = Enq("bravo") => m.type = "ENQ")
  <2>1. m.type \in {"EOT", "ENQ", "INFO"}
    BY <1>2, FrameFacts, ZenonT(60)
  <2>2. m.type = "EOT" => m = Simple("EOT")
    BY <1>2, FrameFacts, ZenonT(60) DEF FromAlpha, Unanswered, Msg_type
  <2>3. m.type = "ENQ" => m \in {Enq("alpha"), Enq("bravo")}
    BY <1>2, FrameFacts, Zenon DEF FromAlpha, Unanswered, Msg_type
  <2>4. m # Enq("") /\ (m = Enq("alpha") \/ m = Enq("bravo") => m.type = "ENQ")
    BY <2>3, FrameFacts, Zenon
  <2> QED
    BY <2>1, <2>2, <2>3, <2>4, Zenon
<1>4. ASSUME NEW how \in {"threw", "aborted"}, Die("bravo", how),
             Refuses(state["bravo"], m)
      PROVE  BravoReadsOne
  <2>1. Reads("bravo", <<>>) /\ state' = state /\ up'["bravo"] = how
    BY <1>1, <1>4, DieReads, SMTT(60)
  <2> QED
    BY <1>4, <2>1, SMTT(60) DEF Die, appVars, BravoReadsOne
<1>5. ASSUME NEW f \in Seq(Msg), NEW st, Answer("bravo", f, st),
             Follows(state["bravo"], m, f, st), UNCHANGED <<output_queue, input_queue>>
      PROVE  BravoReadsOne
  <2>1. Reads("bravo", f) /\ state'["bravo"] = st /\ up' = up
    BY <1>1, <1>3, <1>5, AnswerReads, ZenonT(60)
  <2> QED
    BY <1>5, <2>1, SMTT(60) DEF BravoReadsOne
<1> HIDE DEF m
<1>6. CASE handle_message_neutral_state("bravo")
  <2>0. state["bravo"] = "NEUTRAL"
    BY <1>6, ZenonT(60) DEF handle_message_neutral_state, Reading
  <2>1. \/ /\ m = Enq("bravo") /\ Answer("bravo", <<Enq("alpha")>>, "MASTER_SELECT_ACK_RECEIVE")
           /\ UNCHANGED <<output_queue, input_queue>>
        \/ /\ m = Enq("bravo") /\ Answer("bravo", <<Simple("EOT")>>, "NEUTRAL")
           /\ UNCHANGED <<output_queue, input_queue>>
        \/ /\ m = Enq("alpha") /\ Answer("bravo", <<>>, "SLAVE_SELECT_RECEIVE")
           /\ UNCHANGED <<output_queue, input_queue>>
        \/ /\ m.type = "EOT" /\ Answer("bravo", <<>>, "NEUTRAL")
           /\ UNCHANGED <<output_queue, input_queue>>
        \/ m.type = "INFO" /\ Die("bravo", "threw")
    BY <1>3, <1>6, ZenonT(60) DEF handle_message_neutral_state, masterVars, m
  <2> QED
    BY <1>3, <1>4, <1>5, <2>0, <2>1, ZenonT(60) DEF Follows, Refuses
<1>7. CASE handle_message_slave_select_receive_state("bravo")
  <2>0. state["bravo"] = "SLAVE_SELECT_RECEIVE"
    BY <1>7, SMTT(60) DEF handle_message_slave_select_receive_state, Reading
  <2>1. \/ /\ m = Enq("bravo") /\ Answer("bravo", <<Simple("ACK")>>, "SLAVE_INFO_RECEIVE")
           /\ UNCHANGED <<output_queue, input_queue>>
        \/ /\ m = Enq("alpha") /\ Answer("bravo", <<>>, "SLAVE_SELECT_RECEIVE")
           /\ UNCHANGED <<output_queue, input_queue>>
        \/ /\ m.type = "EOT" /\ Answer("bravo", <<>>, "NEUTRAL")
           /\ UNCHANGED <<output_queue, input_queue>>
        \/ m.type = "INFO" /\ Die("bravo", "threw")
    BY <1>1, <1>3, <1>7, ZenonT(60) DEF handle_message_slave_select_receive_state, masterVars, m
  <2> QED
    BY <1>3, <1>4, <1>5, <2>0, <2>1, ZenonT(60) DEF Follows, Refuses
<1>8. CASE handle_message_master_select_ack_receive_state("bravo")
  <2>0. state["bravo"] = "MASTER_SELECT_ACK_RECEIVE"
    BY <1>8, SMTT(60) DEF handle_message_master_select_ack_receive_state, Reading
  <2>1. \/ /\ m.type = "EOT" /\ Answer("bravo", <<>>, "NEUTRAL")
           /\ UNCHANGED <<output_queue, input_queue>>
        \/ m.type \in {"ENQ", "INFO"} /\ Die("bravo", "threw")
    BY <1>3, <1>8, ZenonT(60) DEF handle_message_master_select_ack_receive_state, masterVars, m
  <2> QED
    BY <1>3, <1>4, <1>5, <2>0, <2>1, ZenonT(60) DEF Follows, Refuses
<1>9. CASE handle_message_slave_info_receive_state("bravo")
  <2>0. state["bravo"] = "SLAVE_INFO_RECEIVE"
    BY <1>9, SMTT(60) DEF handle_message_slave_info_receive_state, Reading
  <2>1. \/ /\ m.type = "INFO" /\ Answer("bravo", <<Simple("ACK")>>, "SLAVE_INFO_RECEIVE")
           /\ input_queue' = [input_queue EXCEPT !["bravo"] = Append(@, m.body)]
           /\ UNCHANGED output_queue
        \/ /\ m.type = "EOT" /\ Answer("bravo", <<>>, "NEUTRAL")
           /\ UNCHANGED <<output_queue, input_queue>>
        \/ m.type = "ENQ" /\ Die("bravo", "threw")
    BY <1>3, <1>9, ZenonT(60) DEF handle_message_slave_info_receive_state, masterVars, m
  <2>2. ASSUME m.type = "INFO", Answer("bravo", <<Simple("ACK")>>, "SLAVE_INFO_RECEIVE"),
               input_queue' = [input_queue EXCEPT !["bravo"] = Append(@, m.body)],
               UNCHANGED output_queue
        PROVE  BravoReadsOne
    <3>1. /\ Reads("bravo", <<Simple("ACK")>>) /\ up' = up
          /\ state'["bravo"] = "SLAVE_INFO_RECEIVE"
      BY <1>1, <1>3, <2>2, AnswerReads, ZenonT(60) DEF m
    <3> QED
      BY <2>0, <2>2, <3>1, SMTT(60) DEF BravoReadsOne, Accepts, m
  <2> QED
    BY <1>3, <1>4, <1>5, <2>0, <2>1, <2>2, ZenonT(60) DEF Follows, Refuses
<1>10. CASE parse_input_abort("bravo") \/ read_handler_abort("bravo")
  BY <1>3, <1>10, ZenonT(60) DEF parse_input_abort, read_handler_abort, Reading, Roles, m
<1> QED
  BY <1>6, <1>7, <1>8, <1>9, <1>10, ZenonT(60) DEF read_handler, Reading, Roles,
     handle_message_master_info_ack_receive_state

\* A timer handler of alpha writes f and leaves alpha in state st.
TimerWrites(f, st) ==
    /\ line'["bravo"] = line["bravo"] \o f /\ line'["alpha"] = line["alpha"]
    /\ state'["alpha"] = st /\ state'["bravo"] = state["bravo"]
    /\ UNCHANGED <<up, output_queue, input_queue, enqueued, delivered, faults>>

TimersWrite ==
    \/ TimerWrites(<<Simple("EOT"), Enq("alpha"), Enq("bravo")>>,
                   "MASTER_SELECT_ACK_RECEIVE") /\ state["alpha"] = "NEUTRAL"
    \/ TimerWrites(<<Simple("EOT"), Enq("bravo")>>, "SLAVE_SELECT_RECEIVE")
    \/ TimerWrites(<<Simple("EOT")>>, "NEUTRAL")

\* Nothing that the applications, the stations or the line see.
NothingSeen ==
    UNCHANGED <<up, state, line, output_queue, input_queue, enqueued, delivered, faults>>

\* The steps of the two stations on a line that changes no frame.
LEMMA UndamagedSteps ==
    ASSUME TypeOK, Undamaged => Roles, Undamaged', [Next]_vars
    PROVE  /\ Undamaged /\ Roles /\ (faults' = 0 => faults = 0)
           /\ \/ AlphaReadsOne /\ line["alpha"] # <<>>
              \/ BravoReadsOne /\ line["bravo"] # <<>>
              \/ TimersWrite
              \/ NothingSeen
              \/ \E s \in Stations : \/ enqueue_message(s) \/ get_next_message(s)
                                     \/ Lose(s) \/ Unread(s)
<1>1. faults \in Nat /\ Garbling \in BOOLEAN
  BY ConstantsAssumption, SMTT(60) DEF TypeOK
<1>2. ASSUME NEW f \in Seq(Msg), NEW st, Transmit(f, st) PROVE TimerWrites(f, st)
  BY <1>2, Zenon DEF Transmit, TimerWrites, TypeOK, Stations, appVars
<1>3. ASSUME poll PROVE TimersWrite
  BY <1>2, <1>3, RepliesTyped, Zenon DEF poll, PollAsMaster, PollPeer, TimersWrite
<1>4. ASSUME on_master_select_no_response_timeout PROVE TimersWrite
  BY <1>2, <1>4, RepliesTyped, Zenon DEF on_master_select_no_response_timeout, TimersWrite
<1>5. ASSUME Expire \/ UNCHANGED vars PROVE NothingSeen
  BY <1>5 DEF Expire, vars, linkVars, appVars, NothingSeen
<1>6. /\ \A s \in Stations : Garble(s) => Garbling /\ faults' = faults + 1
      /\ \A s \in Stations : Lose(s) => faults' = faults + 1
  BY DEF Garble, Lose
<1>7. \A s \in Stations : enqueue_message(s) \/ get_next_message(s) \/ Unread(s)
         => faults' = faults
  BY DEF enqueue_message, get_next_message, Unread, linkVars
<1>8. TimersWrite \/ NothingSeen => faults' = faults
  BY DEF TimersWrite, TimerWrites, NothingSeen
<1>9. ASSUME NEW s \in Stations, read_handler(s) PROVE faults' = faults
  BY <1>9, ZenonT(60) DEF read_handler, handle_message_neutral_state,
     handle_message_slave_select_receive_state,
     handle_message_master_select_ack_receive_state,
     handle_message_master_info_ack_receive_state,
     handle_message_slave_info_receive_state, parse_input_abort,
     read_handler_abort, Die, Answer, handle_output_queue_msg_and_state
<1>10. faults' \in {faults, faults + 1}
  BY <1>3, <1>4, <1>5, <1>6, <1>7, <1>8, <1>9 DEF Next
<1>11. Undamaged /\ Roles /\ (faults' = 0 => faults = 0)
  BY <1>1, <1>10 DEF Undamaged
<1>12. \A s \in Stations : ~Garble(s)
  BY <1>1, <1>6 DEF Undamaged
<1>13. ASSUME NEW s \in Stations, read_handler(s)
       PROVE  \/ AlphaReadsOne /\ line["alpha"] # <<>>
              \/ BravoReadsOne /\ line["bravo"] # <<>>
  BY <1>11, <1>13, AlphaReadsEffect, BravoReadsEffect, ReadHandlerReads DEF Stations
<1> QED
  BY <1>3, <1>4, <1>5, <1>11, <1>12, <1>13, SMTT(60) DEF Next

\* Frames alone on the line.
LEMMA OwnFrames ==
    /\ \A S : AllIn(<<>>, S)
    /\ AllIn(<<Simple("ACK")>>, FromBravo) /\ AllIn(<<Simple("EOT")>>, FromBravo)
    /\ AllIn(<<Enq("alpha")>>, FromBravo)
    /\ AllIn(<<Simple("EOT")>>, FromAlpha)
    /\ AllIn(<<Simple("EOT"), Enq("bravo")>>, FromAlpha)
    /\ AllIn(<<Simple("EOT"), Enq("alpha"), Enq("bravo")>>, FromAlpha)
    /\ \A n \in Nat : AllIn(<<Info(n)>>, FromAlpha)
<1>1. /\ Simple("ACK") \in FromBravo /\ Simple("EOT") \in FromBravo
      /\ Enq("alpha") \in FromBravo
      /\ Simple("EOT") \in FromAlpha /\ Enq("alpha") \in FromAlpha /\ Enq("bravo") \in FromAlpha
      /\ \A n \in Nat : Info(n) \in FromAlpha
  BY SMTT(60) DEF FromBravo, FromAlpha, Unanswered
<1>2. \A S, x : x \in S => AllIn(<<x>>, S)
  BY SMTT(60) DEF AllIn
<1>3. \A S, x, y : x \in S /\ y \in S => AllIn(<<x, y>>, S)
  BY SMTT(60) DEF AllIn
<1>4. \A S, x, y, z : x \in S /\ y \in S /\ z \in S => AllIn(<<x, y, z>>, S)
  BY SMTT(60) DEF AllIn
<1>5. \A S : AllIn(<<>>, S)
  BY SMTT(60) DEF AllIn
<1> QED
  BY <1>1, <1>2, <1>3, <1>4, <1>5, Zenon

\* Every step keeps the roles while the line changes no frame.
LEMMA NextRoles ==
    ASSUME TypeOK, Undamaged => Roles, [Next]_vars
    PROVE  Undamaged' => Roles'
<1> SUFFICES ASSUME Undamaged' PROVE Roles'
  BY ZenonT(60)
<1> USE RepliesTyped, OwnFrames
<1>1. Undamaged /\ Roles
  BY UndamagedSteps, SMTT(60)
<1>2. /\ line["alpha"] \in Seq(Msg) /\ line["bravo"] \in Seq(Msg)
      /\ "alpha" \in Stations /\ "bravo" \in Stations
      /\ Peer("alpha") = "bravo" /\ Peer("bravo") = "alpha"
  BY SMTT(60) DEF TypeOK, Stations, Peer
<1>3. /\ line["alpha"] # <<>> => AllIn(Tail(line["alpha"]), FromBravo)
      /\ line["bravo"] # <<>> => AllIn(Tail(line["bravo"]), FromAlpha)
  BY <1>1, <1>2, TailFacts, ZenonT(60) DEF Roles
<1>4. CASE AlphaReadsOne /\ line["alpha"] # <<>>
  <2>1. ASSUME NEW f \in Seq(Msg), Reads("alpha", f), AllIn(f, FromAlpha),
               state'["alpha"] \notin {"SLAVE_INFO_RECEIVE", "POLL_TRANSMIT"}
        PROVE  Roles'
    <3>1. AllIn(line["bravo"] \o f, FromAlpha)
      BY <1>1, <1>2, <2>1, WriteFacts, Zenon DEF Roles
    <3> QED
      BY <1>1, <1>2, <1>3, <1>4, <2>1, <3>1, ZenonT(60) DEF Reads, Roles
  <2>2. output_queue["alpha"] # <<>> => Head(output_queue["alpha"]) \in Nat
    <3>1. output_queue["alpha"] \in Seq(Nat)
      BY <1>2, SMTT(60) DEF TypeOK
    <3> QED
      BY <3>1, FirstElement, Zenon
  <2> QED
    BY <1>1, <1>4, <2>1, <2>2, ZenonT(60) DEF AlphaReadsOne, Roles
<1>5. CASE BravoReadsOne /\ line["bravo"] # <<>>
  <2>1. ASSUME NEW f \in Seq(Msg), Reads("bravo", f), AllIn(f, FromBravo),
               state'["bravo"] \notin {"MASTER_INFO_ACK_RECEIVE", "POLL_TRANSMIT"}
        PROVE  Roles'
    <3>1. AllIn(line["alpha"] \o f, FromBravo)
      BY <1>1, <1>2, <2>1, WriteFacts, Zenon DEF Roles
    <3> QED
      BY <1>1, <1>2, <1>3, <1>5, <2>1, <3>1, ZenonT(60) DEF Reads, Roles
  <2>2. ASSUME NEW f, NEW st2, NEW st, NEW m, Follows(st, m, f, st2)
        PROVE  AllIn(f, FromBravo) /\ st2 \notin {"MASTER_INFO_ACK_RECEIVE", "POLL_TRANSMIT"}
    BY <2>2, SMTT(60) DEF Follows
  <2> QED
    BY <1>1, <1>5, <2>1, <2>2, ZenonT(60) DEF BravoReadsOne, Roles
<1>6. CASE TimersWrite
  <2>1. ASSUME NEW f \in Seq(Msg), NEW st, TimerWrites(f, st), AllIn(f, FromAlpha),
               st \notin {"SLAVE_INFO_RECEIVE", "POLL_TRANSMIT"}
        PROVE  Roles'
    <3>1. AllIn(line["bravo"] \o f, FromAlpha)
      BY <1>1, <1>2, <2>1, WriteFacts, ZenonT(60) DEF Roles
    <3> QED
      BY <1>1, <2>1, <3>1, SMTT(60) DEF TimerWrites, Roles
  <2>5. \A st \in {"MASTER_SELECT_ACK_RECEIVE", "SLAVE_SELECT_RECEIVE", "NEUTRAL"} :
           st \notin {"SLAVE_INFO_RECEIVE", "POLL_TRANSMIT"}
    OBVIOUS
  <2>2. CASE TimerWrites(<<Simple("EOT"), Enq("alpha"), Enq("bravo")>>,
                         "MASTER_SELECT_ACK_RECEIVE")
    BY <2>1, <2>2, <2>5, Zenon
  <2>3. CASE TimerWrites(<<Simple("EOT"), Enq("bravo")>>, "SLAVE_SELECT_RECEIVE")
    BY <2>1, <2>3, <2>5, Zenon
  <2>4. CASE TimerWrites(<<Simple("EOT")>>, "NEUTRAL")
    BY <2>1, <2>4, <2>5, Zenon
  <2> QED
    BY <1>6, <2>2, <2>3, <2>4, ZenonT(60) DEF TimersWrite
<1>7. CASE NothingSeen
  BY <1>1, <1>7, SMTT(60) DEF NothingSeen, Roles
<1>8. ASSUME NEW s \in Stations, enqueue_message(s) \/ get_next_message(s)
      PROVE  Roles'
  BY <1>1, <1>8, SMTT(60) DEF enqueue_message, get_next_message, linkVars, Roles
<1>9. ASSUME NEW s \in Stations, Lose(s) PROVE Roles'
  <2>1. PICK i \in 1 .. Len(line[s]) : line' = [line EXCEPT ![s] = Without(@, i)]
    BY <1>9, ZenonT(60) DEF Lose
  <2>2. state' = state
    BY <1>9, ZenonT(60) DEF Lose
  <2>3. CASE s = "alpha"
    <3>1. line'["alpha"] = Without(line["alpha"], i) /\ line'["bravo"] = line["bravo"]
      BY <2>1, <2>3, Zenon DEF TypeOK, Stations
    <3>2. AllIn(line'["alpha"], FromBravo)
      <4>1. line["alpha"] \in Seq(Msg) /\ i \in 1 .. Len(line["alpha"])
        BY <1>2, <2>1, <2>3, Zenon DEF TypeOK, Stations
      <4>2. AllIn(line["alpha"], FromBravo)
        BY <1>1, ZenonT(60) DEF Roles
      <4>3. AllIn(Without(line["alpha"], i), FromBravo)
        BY <4>1, <4>2, WithoutFacts, ZenonT(60)
      <4> QED
        BY <3>1, <4>3, SMTT(60)
    <3> QED
      BY <1>1, <2>2, <3>1, <3>2 DEF Roles
  <2>4. CASE s = "bravo"
    <3>1. line'["bravo"] = Without(line["bravo"], i) /\ line'["alpha"] = line["alpha"]
      BY <2>1, <2>4, SMTT(60) DEF TypeOK, Stations
    <3>2. AllIn(line'["bravo"], FromAlpha)
      <4>1. line["bravo"] \in Seq(Msg) /\ i \in 1 .. Len(line["bravo"])
        BY <1>2, <2>1, <2>4, Zenon DEF TypeOK, Stations
      <4>2. AllIn(line["bravo"], FromAlpha)
        BY <1>1, Zenon DEF Roles
      <4>3. AllIn(Without(line["bravo"], i), FromAlpha)
        BY <4>1, <4>2, WithoutFacts, ZenonT(60)
      <4> QED
        BY <3>1, <4>3, SMTT(60)
    <3> QED
      BY <1>1, <2>2, <3>1, <3>2, SMTT(60) DEF Roles
  <2> QED
    BY <2>3, <2>4, SMTT(60) DEF Stations
<1>10. ASSUME NEW s \in Stations, Unread(s) PROVE Roles'
  <2>1. /\ line[s] # <<>> /\ line' = [line EXCEPT ![s] = Tail(@)] /\ state' = state
    BY <1>10, SMTT(60) DEF Unread
  <2>2. \/ line'["alpha"] = Tail(line["alpha"]) /\ line["alpha"] # <<>>
           /\ line'["bravo"] = line["bravo"]
        \/ line'["bravo"] = Tail(line["bravo"]) /\ line["bravo"] # <<>>
           /\ line'["alpha"] = line["alpha"]
    BY <2>1, Zenon DEF TypeOK, Stations
  <2> QED
    BY <1>1, <1>3, <2>1, <2>2, SMTT(60) DEF Roles
<1> QED
  BY <1>4, <1>5, <1>6, <1>7, <1>8, <1>9, <1>10, UndamagedSteps

\* On a line that changes no frame the two stations keep to their roles,
\* however late the time-outs come.
THEOREM RolesKept == Spec => [](Undamaged => Roles)
<1>1. Init => (Undamaged => Roles)
  <2> SUFFICES ASSUME Init PROVE Roles
    OBVIOUS
  <2>1. /\ line["alpha"] = <<>> /\ line["bravo"] = <<>>
        /\ state["alpha"] = "NEUTRAL" /\ state["bravo"] = "NEUTRAL"
    BY DEF Init, Stations
  <2> QED
    BY <2>1, OwnFrames DEF Roles
<1>2. TypeOK /\ (Undamaged => Roles) /\ [Next]_vars => (Undamaged => Roles)'
  BY NextRoles
<1> QED
  BY <1>1, <1>2, TypeCorrect, PTL DEF Spec

-----------------------------------------------------------------------------
(* The order of delivery.                                                  *)

\* A number that comes after another is not the 0 of a garbled body, and none
\* comes after itself.
LEMMA Younger ==
    /\ \A a, b \in Nat : a < b => b # 0
    /\ \A a \in Nat : a <= a
  OBVIOUS

\* The first of a queue of numbers, and the others.
LEMMA FrontAndRest ==
    ASSUME NEW q \in Seq(Nat), q # <<>>
    PROVE  /\ Tail(q) \in Seq(Nat) /\ Head(q) \in Nat /\ Head(q) = q[1]
           /\ Len(q) \in Nat /\ Len(q) >= 1 /\ Len(Tail(q)) = Len(q) - 1
           /\ \A i \in 1 .. Len(q) - 1 : Tail(q)[i] = q[i + 1]
  OBVIOUS

\* Payload v may follow payload u.  0 is a garbled body, or a frame without
\* one.  Equal payloads come from a retransmission, which only garbling brings
\* about.
Before(u, v) == v # 0 => IF Garbling THEN u <= v ELSE u < v

Sorted(x) == \A i, j \in 1 .. Len(x) : i < j => Before(x[i], x[j])

AllBefore(x, y) == \A i \in 1 .. Len(x), j \in 1 .. Len(y) : Before(x[i], y[j])

AtMost(x, m) == \A i \in 1 .. Len(x) : x[i] <= m

\* What waits in an output queue is younger than m, and enqueued (up to n).
Waiting(o, m, n) ==
    /\ \A i \in 1 .. Len(o) : m < o[i] /\ o[i] <= n
    /\ \A i, j \in 1 .. Len(o) : i < j => o[i] < o[j]

\* The messages of one sender by age: delivered (d), in the input queue (q),
\* on the line (b), last sent (m), in the output queue (o), enqueued so far (n).
Chain(d, q, b, m, o, n) ==
    /\ Sorted(d) /\ Sorted(q) /\ Sorted(b)
    /\ AllBefore(d, q) /\ AllBefore(d, b) /\ AllBefore(q, b)
    /\ AtMost(d, m) /\ AtMost(q, m) /\ AtMost(b, m)
    /\ Waiting(o, m, n)
    /\ m <= n

Payloads(l) == [i \in 1 .. Len(l) |-> l[i].body]

ChainFrom(s) ==
    Chain(delivered[Peer(s)], input_queue[Peer(s)], Payloads(line[Peer(s)]),
          last_message[s], output_queue[s], enqueued[s])

\* Without garbling nothing is refused, and every payload is a message's.
CleanFrames(l) ==
    \A i \in 1 .. Len(l) : /\ l[i].type \notin {"NAK", "MALFORMED"}
                           /\ l[i].type = "INFO" => l[i].body # 0

NoZero(x) == \A i \in 1 .. Len(x) : x[i] # 0

CleanAt(s) ==
    CleanFrames(line[s]) /\ NoZero(input_queue[s]) /\ NoZero(delivered[s])

OrderInv ==
    \A s \in Stations : ChainFrom(s) /\ (~Garbling => CleanAt(s))

\* The queue of a station that takes its first message to send it.
LEMMA WaitingTail ==
    ASSUME NEW o \in Seq(Nat), o # <<>>, NEW m \in Nat, NEW n \in Nat, Waiting(o, m, n)
    PROVE  m < Head(o) /\ Head(o) <= n /\ Waiting(Tail(o), Head(o), n)
  <1> DEFINE t == Tail(o)
             k == Len(o)
  <1>1. /\ t \in Seq(Nat) /\ Head(o) = o[1] /\ k \in Nat /\ k >= 1 /\ Len(t) = k - 1
        /\ \A i \in 1 .. k - 1 : t[i] = o[i + 1]
    BY FrontAndRest, Zenon
  <1> HIDE DEF t, k
  <1>2. 1 \in 1 .. k /\ \A i \in 1 .. k - 1 : i + 1 \in 1 .. k /\ 1 < i + 1
    BY <1>1
  <1>3. \A i, j \in 1 .. k - 1 : i < j => i + 1 < j + 1
    BY <1>1
  <1>4. /\ \A i \in 1 .. k : m < o[i] /\ o[i] <= n
        /\ \A i, j \in 1 .. k : i < j => o[i] < o[j]
    BY Zenon DEF Waiting, k
  <1>5. \A i \in 1 .. Len(t) : Head(o) < t[i] /\ t[i] <= n
    BY <1>1, <1>2, <1>4, Zenon
  <1>6. \A i, j \in 1 .. Len(t) : i < j => t[i] < t[j]
    BY <1>1, <1>2, <1>3, <1>4, Zenon
  <1>7. Waiting(t, Head(o), n)
    BY <1>5, <1>6, Zenon DEF Waiting
  <1> QED  BY <1>1, <1>2, <1>4, <1>7, Zenon DEF t

\* What get_next_message does to queues that hold messages only.
LEMMA NoZeroFetched ==
    ASSUME NEW q \in Seq(Nat), NEW d \in Seq(Nat), q # <<>>, NoZero(q), NoZero(d)
    PROVE  NoZero(Tail(q)) /\ NoZero(Append(d, Head(q)))
  <1>1. NoZero(Tail(q)) /\ Head(q) \in Nat /\ Head(q) # 0
    BY DEF NoZero
  <1>2. ASSUME NEW h \in Nat, h # 0  PROVE NoZero(Append(d, h))
    BY <1>2 DEF NoZero
  <1> QED  BY <1>1, <1>2, Zenon

-----------------------------------------------------------------------------
(* Sorted sequences of payloads.                                           *)

\* Sequences with equal elements are equal.
LEMMA SeqExtensionality ==
    ASSUME NEW x \in Seq(Nat), NEW y \in Seq(Nat), Len(x) = Len(y),
           \A i \in 1 .. Len(x) : x[i] = y[i]
    PROVE  x = y
  BY SMTT(60)

\* Appending a payload that may follow all of x.
LEMMA AppendSorted ==
    ASSUME NEW x \in Seq(Nat), NEW v \in Nat, Sorted(x),
           \A i \in 1 .. Len(x) : Before(x[i], v)
    PROVE  Sorted(Append(x, v))
  BY DEF Sorted

\* Appending on either side of AllBefore, and to a bounded sequence.
LEMMA AppendBefore ==
    ASSUME NEW x \in Seq(Nat), NEW y \in Seq(Nat), NEW v \in Nat,
           AllBefore(x, y)
    PROVE  /\ (\A j \in 1 .. Len(y) : Before(v, y[j]))
                 => AllBefore(Append(x, v), y)
           /\ (\A i \in 1 .. Len(x) : Before(x[i], v))
                 => AllBefore(x, Append(y, v))
  BY SMTT(60) DEF AllBefore

\* Appending a payload that is within the bound.
LEMMA AppendUpTo ==
    ASSUME NEW x \in Seq(Nat), NEW v \in Nat, NEW m \in Nat,
           AtMost(x, m), v <= m
    PROVE  AtMost(Append(x, v), m)
  BY DEF AtMost

\* Splitting the head off a sorted sequence.
LEMMA TailSorted ==
    ASSUME NEW y \in Seq(Nat), y # <<>>, Sorted(y)
    PROVE  /\ Sorted(Tail(y))
           /\ \A j \in 1 .. Len(Tail(y)) : Before(Head(y), Tail(y)[j])
  BY DEF Sorted

\* Splitting the head off either side of AllBefore.
LEMMA TailBefore ==
    ASSUME NEW x \in Seq(Nat), NEW y \in Seq(Nat), y # <<>>
    PROVE  /\ AllBefore(x, y) => AllBefore(x, Tail(y))
           /\ AllBefore(x, y) => \A i \in 1 .. Len(x) : Before(x[i], Head(y))
           /\ AllBefore(y, x) => AllBefore(Tail(y), x)
           /\ AllBefore(y, x) => \A j \in 1 .. Len(x) : Before(Head(y), x[j])
  BY DEF AllBefore

\* Splitting the head off a bounded sequence.
LEMMA TailUpTo ==
    ASSUME NEW y \in Seq(Nat), y # <<>>, NEW m \in Nat, AtMost(y, m)
    PROVE  AtMost(Tail(y), m) /\ Head(y) <= m
  BY DEF AtMost

-----------------------------------------------------------------------------
(* What the steps of the link do to a chain.                               *)

\* enqueue_message: a new youngest message.
LEMMA ChainEnqueue ==
    ASSUME NEW d \in Seq(Nat), NEW q \in Seq(Nat), NEW b \in Seq(Nat),
           NEW m \in Nat, NEW o \in Seq(Nat), NEW n \in Nat,
           Chain(d, q, b, m, o, n)
    PROVE  Chain(d, q, b, m, Append(o, n + 1), n + 1)
  <1>1. Waiting(o, m, n) /\ m <= n
    BY Zenon DEF Chain
  <1>2. Waiting(Append(o, n + 1), m, n + 1)
    <2>1. /\ Len(Append(o, n + 1)) = Len(o) + 1 /\ Len(o) \in Nat
          /\ \A i \in 1 .. Len(o) : Append(o, n + 1)[i] = o[i] /\ o[i] \in Nat
          /\ Append(o, n + 1)[Len(o) + 1] = n + 1
      BY SMTT(60)
    <2> DEFINE o2 == Append(o, n + 1)
    <2> HIDE DEF o2
    <2>2. /\ Len(o2) = Len(o) + 1
          /\ \A i \in 1 .. Len(o) : /\ o2[i] = o[i] /\ o[i] \in Nat
                                    /\ m < o[i] /\ o[i] <= n
          /\ o2[Len(o) + 1] = n + 1
          /\ \A i, j \in 1 .. Len(o) : i < j => o[i] < o[j]
      BY <1>1, <2>1, Zenon DEF Waiting, o2
    <2>3. ASSUME NEW i \in 1 .. Len(o2)  PROVE m < o2[i] /\ o2[i] <= n + 1
      <3>1. CASE i \in 1 .. Len(o)
        <4>1. o2[i] \in Nat /\ m < o2[i] /\ o2[i] <= n
          BY <2>2, <3>1, Zenon
        <4> QED  BY <4>1
      <3>2. CASE i = Len(o) + 1
        BY <1>1, <2>2, <3>2
      <3> QED  BY <2>1, <2>2, <3>1, <3>2, SMTT(60)
    <2>4. ASSUME NEW i \in 1 .. Len(o2), NEW j \in 1 .. Len(o2), i < j
          PROVE  o2[i] < o2[j]
      <3>1. i \in 1 .. Len(o)
        BY <2>1, <2>2, <2>4
      <3>2. CASE j \in 1 .. Len(o)
        BY <2>2, <2>4, <3>1, <3>2, Zenon
      <3>3. CASE j = Len(o) + 1
        <4>1. o2[i] \in Nat /\ o2[i] <= n /\ o2[j] = n + 1
          BY <2>2, <3>1, <3>3, Zenon
        <4> QED  BY <4>1, SMTT(60)
      <3> QED  BY <2>1, <2>2, <3>2, <3>3, SMTT(60)
    <2> QED  BY <2>3, <2>4, Zenon DEF Waiting, o2
  <1> QED  BY <1>1, <1>2 DEF Chain

\* get_next_message: from the head of the input queue to the application.
LEMMA ChainFetch ==
    ASSUME NEW d \in Seq(Nat), NEW q \in Seq(Nat), NEW b \in Seq(Nat),
           NEW m \in Nat, NEW o \in Seq(Nat), NEW n \in Nat,
           Chain(d, q, b, m, o, n), q # <<>>
    PROVE  Chain(Append(d, Head(q)), Tail(q), b, m, o, n)
  <1>0. Head(q) \in Nat /\ Tail(q) \in Seq(Nat) /\ Append(d, Head(q)) \in Seq(Nat)
    OBVIOUS
  <1>1. Sorted(Append(d, Head(q))) /\ Sorted(Tail(q))
    BY <1>0, AppendSorted, TailBefore, TailSorted, Zenon DEF Chain
  <1>2. AllBefore(Append(d, Head(q)), Tail(q))
    <2>1. AllBefore(d, Tail(q))
      BY TailBefore, Zenon DEF Chain
    <2>2. \A j \in 1 .. Len(Tail(q)) : Before(Head(q), Tail(q)[j])
      BY TailSorted, Zenon DEF Chain
    <2> QED  BY <1>0, <2>1, <2>2, AppendBefore, Zenon
  <1>3. AllBefore(Append(d, Head(q)), b) /\ AllBefore(Tail(q), b)
    BY <1>0, AppendBefore, TailBefore DEF Chain
  <1>4. AtMost(Append(d, Head(q)), m) /\ AtMost(Tail(q), m)
    BY <1>0, AppendUpTo, TailUpTo, Zenon DEF Chain
  <1> QED  BY <1>1, <1>2, <1>3, <1>4, Zenon DEF Chain

\* The slave takes the oldest frame from the line.
LEMMA ChainAccept ==
    ASSUME NEW d \in Seq(Nat), NEW q \in Seq(Nat), NEW b \in Seq(Nat),
           NEW m \in Nat, NEW o \in Seq(Nat), NEW n \in Nat,
           Chain(d, q, b, m, o, n), b # <<>>
    PROVE  Chain(d, Append(q, Head(b)), Tail(b), m, o, n)
  <1>0. Head(b) \in Nat /\ Tail(b) \in Seq(Nat) /\ Append(q, Head(b)) \in Seq(Nat)
    OBVIOUS
  <1>1. Sorted(Append(q, Head(b))) /\ Sorted(Tail(b))
    BY <1>0, AppendSorted, TailBefore, TailSorted, Zenon DEF Chain
  <1>2. AllBefore(Append(q, Head(b)), Tail(b))
    <2>1. AllBefore(q, Tail(b))
      BY TailBefore, ZenonT(60) DEF Chain
    <2>2. \A j \in 1 .. Len(Tail(b)) : Before(Head(b), Tail(b)[j])
      BY TailSorted, Zenon DEF Chain
    <2> QED  BY <1>0, <2>1, <2>2, AppendBefore, Zenon
  <1>3. AllBefore(d, Append(q, Head(b))) /\ AllBefore(d, Tail(b))
    BY <1>0, AppendBefore, TailBefore, Zenon DEF Chain
  <1>4. AtMost(Append(q, Head(b)), m) /\ AtMost(Tail(b), m)
    BY <1>0, AppendUpTo, TailUpTo, Zenon DEF Chain
  <1> QED  BY <1>1, <1>2, <1>3, <1>4, Zenon DEF Chain

\* Frames disappear from the line, or lose their body; the others keep their
\* order (f says where they were).
LEMMA ChainThin ==
    ASSUME NEW d \in Seq(Nat), NEW q \in Seq(Nat), NEW b \in Seq(Nat),
           NEW m \in Nat, NEW o \in Seq(Nat), NEW n \in Nat,
           Chain(d, q, b, m, o, n),
           NEW b2 \in Seq(Nat),
           NEW f \in [1 .. Len(b2) -> 1 .. Len(b)],
           \A i, j \in 1 .. Len(b2) : i < j => f[i] < f[j],
           \A i \in 1 .. Len(b2) : b2[i] = 0 \/ b2[i] = b[f[i]]
    PROVE  Chain(d, q, b2, m, o, n)
  <1>0. \A k \in 1 .. Len(b) : b[k] \in Nat
    BY SMTT(60)
  <1>1. \A i \in 1 .. Len(b2) : f[i] \in 1 .. Len(b) /\ b[f[i]] \in Nat
    BY <1>0, Zenon
  <1>2. \A x \in Seq(Nat) : AllBefore(x, b) => AllBefore(x, b2)
    BY <1>1, Zenon DEF AllBefore, Before
  <1>3. ASSUME NEW i \in 1 .. Len(b2), NEW j \in 1 .. Len(b2), i < j
        PROVE  Before(b2[i], b2[j])
    <2>1. Before(b[f[i]], b[f[j]])
      BY <1>1, <1>3, Zenon DEF Chain, Sorted
    <2>2. b[f[i]] \in Nat /\ b[f[j]] \in Nat
      BY <1>1, Zenon
    <2>3. b2[i] = 0 \/ b2[i] = b[f[i]]
      BY Zenon
    <2>4. b2[j] = 0 \/ b2[j] = b[f[j]]
      BY Zenon
    <2>5. CASE b2[j] = 0
      BY <2>5, Zenon DEF Before
    <2>6. CASE b2[j] = b[f[j]] /\ b2[j] # 0 /\ b2[i] = b[f[i]]
      BY <2>1, <2>6, Zenon
    <2>7. CASE b2[j] = b[f[j]] /\ b2[j] # 0 /\ b2[i] = 0
      <3>1. 0 <= b2[j] /\ 0 < b2[j]
        BY <2>2, <2>7, SMTT(60)
      <3> QED  BY <2>7, <3>1, Zenon DEF Before
    <2> QED  BY <2>3, <2>4, <2>5, <2>6, <2>7, Zenon
  <1>4. Sorted(b2)
    BY <1>3 DEF Sorted
  <1>5. AtMost(b2, m)
    <2>1. \A k \in 1 .. Len(b) : b[k] <= m
      BY DEF Chain, AtMost
    <2>2. \A i \in 1 .. Len(b2) : b[f[i]] <= m
      BY <1>1, <2>1, Zenon
    <2>3. ASSUME NEW i \in 1 .. Len(b2)  PROVE b2[i] <= m
      <3>1. b[f[i]] <= m /\ b[f[i]] \in Nat
        BY <1>1, <2>2, Zenon
      <3>2. 0 <= m
        OBVIOUS
      <3>3. b2[i] = 0 \/ b2[i] = b[f[i]]
        BY Zenon
      <3> QED  BY <3>1, <3>2, <3>3, Zenon
    <2> QED  BY <2>3 DEF AtMost
  <1> QED  BY <1>2, <1>4, <1>5, Zenon DEF Chain

\* Frames without a body are written.
LEMMA ChainWrite ==
    ASSUME NEW d \in Seq(Nat), NEW q \in Seq(Nat), NEW b \in Seq(Nat),
           NEW m \in Nat, NEW o \in Seq(Nat), NEW n \in Nat,
           Chain(d, q, b, m, o, n),
           NEW b2 \in Seq(Nat), Len(b2) >= Len(b),
           \A i \in 1 .. Len(b) : b2[i] = b[i],
           \A i \in Len(b) + 1 .. Len(b2) : b2[i] = 0
    PROVE  Chain(d, q, b2, m, o, n)
  <1>1. \A i \in 1 .. Len(b2) : i \in 1 .. Len(b) \/ b2[i] = 0
    OBVIOUS
  <1>2. \A x \in Seq(Nat) : AllBefore(x, b) => AllBefore(x, b2)
    BY <1>1, Zenon DEF AllBefore, Before
  <1>3. Sorted(b2)
    <2>1. Sorted(b)
      BY Zenon DEF Chain
    <2>2. ASSUME NEW i \in 1 .. Len(b2), NEW j \in 1 .. Len(b2), i < j
          PROVE  Before(b2[i], b2[j])
      <3>1. CASE b2[j] = 0
        BY <3>1, Zenon DEF Before
      <3>2. CASE j \in 1 .. Len(b)
        <4>1. i \in 1 .. Len(b)
          BY <2>2, <3>2
        <4> QED  BY <2>1, <2>2, <3>2, <4>1, Zenon DEF Sorted
      <3> QED  BY <1>1, <3>1, <3>2, Zenon
    <2> QED  BY <2>2, Zenon DEF Sorted
  <1>4. AtMost(b2, m)
    <2>1. AtMost(b, m)
      BY DEF Chain
    <2> QED  BY <1>1, <2>1, SMTT(60) DEF AtMost
  <1> QED  BY <1>2, <1>3, <1>4, Zenon DEF Chain

\* The master writes an information message m2: the next one or, when the line
\* garbles, the last one again.
LEMMA ChainPush ==
    ASSUME NEW d \in Seq(Nat), NEW q \in Seq(Nat), NEW b \in Seq(Nat),
           NEW m \in Nat, NEW o \in Seq(Nat), NEW n \in Nat,
           Chain(d, q, b, m, o, n),
           NEW m2 \in Nat, IF Garbling THEN m <= m2 ELSE m < m2, m2 <= n,
           NEW o2 \in Seq(Nat), Waiting(o2, m2, n)
    PROVE  Chain(d, q, Append(b, m2), m2, o2, n)
  <1>1. \A k \in Nat : k <= m => Before(k, m2) /\ k <= m2
    BY DEF Before
  <1>2. \A x \in Seq(Nat) : AtMost(x, m) =>
           AtMost(x, m2) /\ \A i \in 1 .. Len(x) : Before(x[i], m2)
    BY <1>1, SMTT(60) DEF AtMost
  <1>3. Sorted(Append(b, m2)) /\ AtMost(Append(b, m2), m2)
    BY <1>2, AppendSorted, AppendUpTo DEF Chain
  <1>4. AllBefore(d, Append(b, m2)) /\ AllBefore(q, Append(b, m2))
    BY <1>2, AppendBefore, Zenon DEF Chain
  <1> QED  BY <1>2, <1>3, <1>4, Zenon DEF Chain

-----------------------------------------------------------------------------
(* The payloads of frames.                                                 *)

\* The payloads of frames, one for each frame.
LEMMA PayloadsTyped ==
    ASSUME NEW l \in Seq(Msg)
    PROVE  /\ Payloads(l) \in Seq(Nat)
           /\ Len(Payloads(l)) = Len(l)
           /\ \A i \in 1 .. Len(l) : Payloads(l)[i] = l[i].body
  <1>1. \A i \in 1 .. Len(l) : l[i] \in Msg
    OBVIOUS
  <1>2. \A i \in 1 .. Len(l) : l[i].body \in Nat
    BY <1>1, Zenon DEF Msg
  <1>3. Len(l) \in Nat
    OBVIOUS
  <1> QED  BY <1>2, <1>3 DEF Payloads

\* The payloads of the first frame and of the others.
LEMMA PayloadsSplit ==
    ASSUME NEW l \in Seq(Msg), l # <<>>
    PROVE  /\ Payloads(l) # <<>>
           /\ Head(Payloads(l)) = Head(l).body
           /\ Payloads(Tail(l)) = Tail(Payloads(l))
  <1>1. /\ Len(l) \in Nat /\ Len(l) >= 1 /\ Tail(l) \in Seq(Msg)
        /\ Len(Tail(l)) = Len(l) - 1
        /\ \A i \in 1 .. Len(l) - 1 : Tail(l)[i] = l[i + 1]
        /\ Head(l) = l[1]
    OBVIOUS
  <1>2. /\ Payloads(l) \in Seq(Nat) /\ Len(Payloads(l)) = Len(l)
        /\ \A i \in 1 .. Len(l) : Payloads(l)[i] = l[i].body
    BY PayloadsTyped, Zenon
  <1>3. /\ Payloads(Tail(l)) \in Seq(Nat) /\ Len(Payloads(Tail(l))) = Len(l) - 1
        /\ \A i \in 1 .. Len(l) - 1 : Payloads(Tail(l))[i] = l[i + 1].body
    <2>1. /\ Payloads(Tail(l)) \in Seq(Nat)
          /\ Len(Payloads(Tail(l))) = Len(Tail(l))
          /\ \A i \in 1 .. Len(Tail(l)) : Payloads(Tail(l))[i] = Tail(l)[i].body
      BY <1>1, PayloadsTyped, Zenon
    <2> QED  BY <1>1, <2>1, ZenonT(60)
  <1>4. Payloads(l) # <<>> /\ Head(Payloads(l)) = Head(l).body
    BY <1>1, <1>2
  <1>5. /\ Tail(Payloads(l)) \in Seq(Nat)
        /\ Len(Tail(Payloads(l))) = Len(l) - 1
        /\ \A i \in 1 .. Len(l) - 1 : Tail(Payloads(l))[i] = l[i + 1].body
    BY <1>1, <1>2, <1>4
  <1>6. Payloads(Tail(l)) = Tail(Payloads(l))
    <2> DEFINE x == Payloads(Tail(l))
               y == Tail(Payloads(l))
    <2>1. /\ x \in Seq(Nat) /\ y \in Seq(Nat) /\ Len(x) = Len(y)
          /\ \A i \in 1 .. Len(x) : x[i] = y[i]
      BY <1>3, <1>5, Zenon
    <2> HIDE DEF x, y
    <2>2. x = y
      BY <2>1, SeqExtensionality, Zenon
    <2> QED  BY <2>2, Zenon DEF x, y
  <1> QED  BY <1>4, <1>6, Zenon

\* The payloads after one more frame was written.
LEMMA PayloadsAppend ==
    ASSUME NEW l \in Seq(Msg), NEW f \in Msg
    PROVE  Payloads(l \o <<f>>) = Append(Payloads(l), f.body)
  <1>1. /\ Len(l) \in Nat /\ l \o <<f>> \in Seq(Msg)
        /\ Len(l \o <<f>>) = Len(l) + 1
        /\ \A i \in 1 .. Len(l) : (l \o <<f>>)[i] = l[i]
        /\ (l \o <<f>>)[Len(l) + 1] = f
        /\ f.body \in Nat
    <2>1. f.body \in Nat
      BY Zenon DEF Msg
    <2> QED  BY <2>1
  <1> DEFINE x == Payloads(l \o <<f>>)
             y == Append(Payloads(l), f.body)
  <1>2. /\ x \in Seq(Nat) /\ Len(x) = Len(l) + 1
        /\ \A i \in 1 .. Len(l) + 1 : x[i] = (l \o <<f>>)[i].body
    BY <1>1, PayloadsTyped, Zenon
  <1>3. /\ Payloads(l) \in Seq(Nat) /\ Len(Payloads(l)) = Len(l)
        /\ \A i \in 1 .. Len(l) : Payloads(l)[i] = l[i].body
    BY PayloadsTyped, Zenon
  <1>4. /\ y \in Seq(Nat) /\ Len(y) = Len(l) + 1
        /\ \A i \in 1 .. Len(l) : y[i] = l[i].body
        /\ y[Len(l) + 1] = f.body
    BY <1>1, <1>3
  <1> HIDE DEF x, y
  <1>5. ASSUME NEW i \in 1 .. Len(l) + 1  PROVE x[i] = y[i]
    <2>1. CASE i \in 1 .. Len(l)
      BY <1>1, <1>2, <1>4, <2>1, Zenon
    <2>2. CASE i = Len(l) + 1
      BY <1>1, <1>2, <1>4, <2>2, Zenon
    <2> QED  BY <1>1, <2>1, <2>2
  <1>6. x = y
    BY <1>1, <1>2, <1>4, <1>5, SeqExtensionality, Zenon
  <1> QED  BY <1>6, Zenon DEF x, y

\* What is left of the input is a proper suffix of it.
LEMMA RestSuffix ==
    ASSUME NEW s \in Stations, line[s] \in Seq(Msg), line[s] # <<>>,
           NEW rest \in Rests(s)
    PROVE  \E k \in 1 .. Len(line[s]) :
              /\ Len(rest) = Len(line[s]) - k
              /\ \A i \in 1 .. Len(rest) : rest[i] = line[s][i + k]
  <1> DEFINE l == line[s]
  <1>0. Len(l) \in Nat /\ Len(l) >= 1
    OBVIOUS
  <1>1. CASE Received(s).type = "MALFORMED"
    <2>1. PICK j \in 2 .. Len(l) + 1 : rest = SubSeq(l, j, Len(l))
      BY <1>1, Zenon DEF Rests
    <2>2. j - 1 \in 1 .. Len(l)
      BY <1>0, <2>1
    <2>3. /\ Len(rest) = Len(l) - (j - 1)
          /\ \A i \in 1 .. Len(rest) : rest[i] = l[i + (j - 1)]
      BY <1>0, <2>1
    <2> QED  BY <2>2, <2>3, Zenon
  <1>2. CASE Received(s).type # "MALFORMED"
    <2>1. rest = Tail(l)
      BY <1>2, Zenon DEF Rests
    <2>2. 1 \in 1 .. Len(l)
      BY <1>0
    <2>3. Len(rest) = Len(l) - 1 /\ \A i \in 1 .. Len(rest) : rest[i] = l[i + 1]
      BY <2>1, SMTT(60)
    <2> QED  BY <2>2, <2>3, Zenon
  <1> QED  BY <1>1, <1>2, Zenon

\* Taking input from the line keeps a chain, and clean frames clean.
LEMMA RestThins ==
    ASSUME NEW s \in Stations, line[s] \in Seq(Msg), line[s] # <<>>,
           NEW rest \in Rests(s), NEW d \in Seq(Nat), NEW q \in Seq(Nat),
           NEW m \in Nat, NEW o \in Seq(Nat), NEW n \in Nat
    PROVE  /\ Chain(d, q, Payloads(line[s]), m, o, n)
                 => Chain(d, q, Payloads(rest), m, o, n)
           /\ CleanFrames(line[s]) => CleanFrames(rest)
  <1> DEFINE l == line[s]
  <1>1. PICK k \in 1 .. Len(l) :
           /\ Len(rest) = Len(l) - k
           /\ \A i \in 1 .. Len(rest) : rest[i] = l[i + k]
    BY RestSuffix, Zenon
  <1>2. rest \in Seq(Msg) /\ Len(l) \in Nat /\ Len(rest) \in Nat
    BY RestTyped
  <1>3. \A i \in 1 .. Len(rest) : i + k \in 1 .. Len(l)
    BY <1>1, <1>2, SMTT(60)
  <1>4. /\ Payloads(l) \in Seq(Nat) /\ Len(Payloads(l)) = Len(l)
        /\ \A i \in 1 .. Len(l) : Payloads(l)[i] = l[i].body
    BY PayloadsTyped, Zenon
  <1>5. /\ Payloads(rest) \in Seq(Nat) /\ Len(Payloads(rest)) = Len(rest)
        /\ \A i \in 1 .. Len(rest) : Payloads(rest)[i] = rest[i].body
    BY <1>2, PayloadsTyped, Zenon
  <1> DEFINE f == [i \in 1 .. Len(rest) |-> i + k]
  <1>6. /\ f \in [1 .. Len(Payloads(rest)) -> 1 .. Len(Payloads(l))]
        /\ \A i, j \in 1 .. Len(Payloads(rest)) : i < j => f[i] < f[j]
    BY <1>2, <1>3, <1>4, <1>5, SMTT(60)
  <1>7. \A i \in 1 .. Len(Payloads(rest)) : Payloads(rest)[i] = Payloads(l)[f[i]]
    <2>1. \A i \in 1 .. Len(rest) : f[i] = i + k
      OBVIOUS
    <2> HIDE DEF f, l
    <2>2. ASSUME NEW i \in 1 .. Len(rest)
          PROVE  Payloads(rest)[i] = Payloads(l)[f[i]]
      <3>1. Payloads(rest)[i] = rest[i].body /\ rest[i] = l[i + k]
        BY <1>1, <1>5, Zenon
      <3>2. Payloads(l)[i + k] = l[i + k].body
        BY <1>3, <1>4, Zenon
      <3> QED  BY <2>1, <3>1, <3>2, Zenon
    <2> QED  BY <1>5, <2>2
  <1> HIDE DEF f
  <1>8. ASSUME Chain(d, q, Payloads(l), m, o, n)
        PROVE  Chain(d, q, Payloads(rest), m, o, n)
    <2> DEFINE b == Payloads(l)
               b2 == Payloads(rest)
    <2>1. /\ b \in Seq(Nat) /\ b2 \in Seq(Nat) /\ Chain(d, q, b, m, o, n)
          /\ f \in [1 .. Len(b2) -> 1 .. Len(b)]
          /\ \A i, j \in 1 .. Len(b2) : i < j => f[i] < f[j]
          /\ \A i \in 1 .. Len(b2) : b2[i] = 0 \/ b2[i] = b[f[i]]
      BY <1>4, <1>5, <1>6, <1>7, <1>8, ZenonT(60)
    <2> HIDE DEF b, b2
    <2>2. Chain(d, q, b2, m, o, n)
      BY <2>1, ChainThin, ZenonT(60)
    <2> QED  BY <2>2, Zenon DEF b2
  <1>9. CleanFrames(l) => CleanFrames(rest)
    BY <1>1, <1>3, Zenon DEF CleanFrames
  <1> QED  BY <1>8, <1>9, Zenon

\* Writing frames without a body keeps a chain.
LEMMA WriteKeeps ==
    ASSUME NEW l \in Seq(Msg), NEW w \in Seq(Msg),
           \A i \in 1 .. Len(w) : w[i].body = 0, NEW d \in Seq(Nat), NEW q \in Seq(Nat),
           NEW m \in Nat, NEW o \in Seq(Nat), NEW n \in Nat
    PROVE  /\ Chain(d, q, Payloads(l), m, o, n)
                 => Chain(d, q, Payloads(l \o w), m, o, n)
           /\ CleanFrames(l) /\ CleanFrames(w) => CleanFrames(l \o w)
  <1> DEFINE l2 == l \o w
  <1>1. /\ l2 \in Seq(Msg) /\ Len(l) \in Nat /\ Len(w) \in Nat
        /\ Len(l2) = Len(l) + Len(w)
        /\ \A i \in 1 .. Len(l) : l2[i] = l[i]
    OBVIOUS
  <1>2. \A i \in Len(l) + 1 .. Len(l2) :
           i - Len(l) \in 1 .. Len(w) /\ l2[i] = w[i - Len(l)]
    BY <1>1
  <1> HIDE DEF l2
  <1>3. /\ Payloads(l) \in Seq(Nat) /\ Len(Payloads(l)) = Len(l)
        /\ \A i \in 1 .. Len(l) : Payloads(l)[i] = l[i].body
    BY PayloadsTyped, Zenon
  <1>4. /\ Payloads(l2) \in Seq(Nat) /\ Len(Payloads(l2)) = Len(l2)
        /\ \A i \in 1 .. Len(l2) : Payloads(l2)[i] = l2[i].body
    BY <1>1, PayloadsTyped, Zenon
  <1>5. /\ Len(Payloads(l2)) >= Len(Payloads(l))
        /\ \A i \in 1 .. Len(Payloads(l)) : Payloads(l2)[i] = Payloads(l)[i]
        /\ \A i \in Len(Payloads(l)) + 1 .. Len(Payloads(l2)) :
              Payloads(l2)[i] = 0
    <2>1. Len(Payloads(l2)) >= Len(Payloads(l))
      BY <1>1, <1>3, <1>4
    <2>2. \A i \in 1 .. Len(l) : i \in 1 .. Len(l2)
      BY <1>1
    <2>3. \A i \in 1 .. Len(l) : Payloads(l2)[i] = Payloads(l)[i]
      BY <1>1, <1>3, <1>4, <2>2, Zenon
    <2>4. \A i \in Len(l) + 1 .. Len(l2) : i \in 1 .. Len(l2)
      BY <1>1
    <2>5. \A i \in Len(l) + 1 .. Len(l2) : l2[i].body = 0
      BY <1>2, Zenon
    <2>6. \A i \in Len(l) + 1 .. Len(l2) : Payloads(l2)[i] = 0
      BY <1>4, <2>4, <2>5, Zenon
    <2> QED  BY <1>3, <1>4, <2>1, <2>3, <2>6, Zenon
  <1>6. Chain(d, q, Payloads(l), m, o, n) => Chain(d, q, Payloads(l2), m, o, n)
    BY <1>3, <1>4, <1>5, ChainWrite, Zenon
  <1>7. ASSUME CleanFrames(l), CleanFrames(w), NEW i \in 1 .. Len(l2)
        PROVE  /\ l2[i].type \notin {"NAK", "MALFORMED"}
               /\ l2[i].type = "INFO" => l2[i].body # 0
    <2>1. CASE i \in 1 .. Len(l)
      BY <1>1, <1>7, <2>1, Zenon DEF CleanFrames
    <2>2. CASE i \in Len(l) + 1 .. Len(l2)
      BY <1>2, <1>7, <2>2, Zenon DEF CleanFrames
    <2> QED  BY <1>1, <2>1, <2>2
  <1>8. CleanFrames(l) /\ CleanFrames(w) => CleanFrames(l2)
    BY <1>7, Zenon DEF CleanFrames
  <1> QED  BY <1>6, <1>8, Zenon DEF l2

-----------------------------------------------------------------------------
(* The steps of the two stations.                                          *)

\* There are two stations, each the peer of the other.
LEMMA PeerFacts ==
    ASSUME NEW s \in Stations
    PROVE  /\ Peer(s) \in Stations /\ Peer(s) # s /\ Peer(Peer(s)) = s
           /\ Stations = {s, Peer(s)}
  BY ZenonT(60) DEF Stations, Peer

\* The components of a chain have their types.
LEMMA ChainTyped ==
    ASSUME TypeOK, NEW s \in Stations
    PROVE  /\ delivered[s] \in Seq(Nat) /\ input_queue[s] \in Seq(Nat)
           /\ line[s] \in Seq(Msg) /\ Payloads(line[s]) \in Seq(Nat)
           /\ last_message[s] \in Nat /\ output_queue[s] \in Seq(Nat)
           /\ enqueued[s] \in Nat
  BY PayloadsTyped, Zenon DEF TypeOK

\* Clean frames written behind clean frames.
LEMMA CleanJoin ==
    ASSUME NEW l \in Seq(Msg), NEW w \in Seq(Msg), CleanFrames(l), CleanFrames(w)
    PROVE  CleanFrames(l \o w)
  <1> SUFFICES ASSUME NEW i \in 1 .. Len(l \o w)
               PROVE  /\ (l \o w)[i].type \notin {"NAK", "MALFORMED"}
                      /\ (l \o w)[i].type = "INFO" => (l \o w)[i].body # 0
    BY Zenon DEF CleanFrames
  <1>1. \/ i \in 1 .. Len(l) /\ (l \o w)[i] = l[i]
        \/ i - Len(l) \in 1 .. Len(w) /\ (l \o w)[i] = w[i - Len(l)]
    OBVIOUS
  <1> QED  BY <1>1, Zenon DEF CleanFrames

\* A message's own frame is clean.
LEMMA CleanInfo ==
    ASSUME NEW f \in Msg, f.type = "INFO", f.body # 0
    PROVE  <<f>> \in Seq(Msg) /\ CleanFrames(<<f>>)
  <1>1. <<f>> \in Seq(Msg) /\ Len(<<f>>) = 1 /\ <<f>>[1] = f /\ 1 .. 1 = {1}
    BY SMTT(60)
  <1> QED  BY <1>1, Zenon DEF CleanFrames

\* A handler that takes one message and answers with frames without a body.
LEMMA AnswerOrdered ==
    ASSUME TypeOK, OrderInv, NEW s \in Stations, line[s] # <<>>,
           NEW w \in Seq(Msg), \A i \in 1 .. Len(w) : w[i].body = 0,
           Garbling \/ CleanFrames(w), NEW st, Answer(s, w, st),
           UNCHANGED <<output_queue, last_message, input_queue>>
    PROVE  OrderInv'
  <1> DEFINE r == Peer(s)
  <1>0. r \in Stations /\ r # s /\ Peer(r) = s /\ Stations = {s, r}
    BY PeerFacts, Zenon
  <1> HIDE DEF r
  <1>1. PICK rest \in Rests(s) :
           line' = [line EXCEPT ![s] = rest, ![r] = @ \o w]
    BY Zenon DEF Answer, r
  <1>2. UNCHANGED <<delivered, enqueued>>
    BY Zenon DEF Answer
  <1>3. line'[s] = rest /\ line'[r] = line[r] \o w
    BY <1>0, <1>1, ZenonT(60) DEF TypeOK
  <1>4. ChainFrom(r) /\ ChainFrom(s)
    BY <1>0, Zenon DEF OrderInv
  <1>5. Chain(delivered[s], input_queue[s], Payloads(line[s]),
              last_message[r], output_queue[r], enqueued[r])
    BY <1>0, <1>4, Zenon DEF ChainFrom
  <1>6. Chain(delivered[r], input_queue[r], Payloads(line[r]),
              last_message[s], output_queue[s], enqueued[s])
    BY <1>0, <1>4, ZenonT(60) DEF ChainFrom, r
  <1>7. Chain(delivered[s], input_queue[s], Payloads(rest),
              last_message[r], output_queue[r], enqueued[r])
    BY <1>0, <1>5, RestThins, ChainTyped, Zenon
  <1>8. Chain(delivered[r], input_queue[r], Payloads(line[r] \o w),
              last_message[s], output_queue[s], enqueued[s])
    BY <1>0, <1>6, WriteKeeps, ChainTyped, ZenonT(60)
  <1>9. ChainFrom(r)'
    BY <1>0, <1>2, <1>3, <1>7, ZenonT(60) DEF ChainFrom
  <1>10. ChainFrom(s)'
    BY <1>0, <1>2, <1>3, <1>8, Zenon DEF ChainFrom, r
  <1>11. ASSUME ~Garbling  PROVE CleanAt(s)' /\ CleanAt(r)'
    <2>1. CleanAt(s) /\ CleanAt(r)
      BY <1>0, <1>11, ZenonT(60) DEF OrderInv
    <2>2. CleanFrames(rest)
      BY <2>1, RestThins, ChainTyped, Zenon DEF CleanAt
    <2>3. CleanFrames(line[r] \o w)
      BY <1>0, <1>11, <2>1, WriteKeeps, ChainTyped, Zenon DEF CleanAt
    <2> QED  BY <1>2, <1>3, <2>1, <2>2, <2>3, ZenonT(60) DEF CleanAt
  <1> QED  BY <1>0, <1>9, <1>10, <1>11, ZenonT(60) DEF OrderInv

\* The replies of the protocol carry no payload.
LEMMA ReplyPlain ==
    ASSUME NEW f \in Msg, f.body = 0
    PROVE  /\ <<f>> \in Seq(Msg)
           /\ \A i \in 1 .. Len(<<f>>) : <<f>>[i].body = 0
           /\ f.type \notin {"NAK", "MALFORMED", "INFO"} => CleanFrames(<<f>>)
  BY DEF CleanFrames

\* Without the first frame the others stay clean.
LEMMA CleanRest ==
    ASSUME NEW l \in Seq(Msg), l # <<>>, CleanFrames(l)
    PROVE  CleanFrames(Tail(l))
<1>1. /\ Len(l) \in Nat /\ Len(Tail(l)) = Len(l) - 1
      /\ \A i \in 1 .. Len(l) - 1 : Tail(l)[i] = l[i + 1] /\ i + 1 \in 1 .. Len(l)
  OBVIOUS
<1> QED
  BY <1>1, Zenon DEF CleanFrames

\* Supervisory messages carry no payload.
LEMMA SimplePlain ==
    /\ \A t \in {"ACK", "NAK", "EOT"} :
          Simple(t) \in Msg /\ Simple(t).body = 0 /\ Simple(t).type = t
    /\ \A p \in {"alpha", "bravo"} :
          Enq(p) \in Msg /\ Enq(p).body = 0 /\ Enq(p).type = "ENQ"
  BY FramesTyped, ZenonT(60) DEF Simple, Enq

\* A master takes one message and writes the information message m2.
LEMMA PushOrdered ==
    ASSUME TypeOK, OrderInv, NEW s \in Stations, line[s] # <<>>,
           NEW m2 \in Nat, IF Garbling THEN last_message[s] <= m2
                                       ELSE last_message[s] < m2,
           m2 <= enqueued[s], NEW st, Answer(s, <<Info(m2)>>, st),
           last_message' = [last_message EXCEPT ![s] = m2],
           NEW o2 \in Seq(Nat), Waiting(o2, m2, enqueued[s]),
           output_queue' = [output_queue EXCEPT ![s] = o2],
           UNCHANGED input_queue
    PROVE  OrderInv'
  <1> DEFINE r == Peer(s)
             w == <<Info(m2)>>
  <1>0. r \in Stations /\ r # s /\ Peer(r) = s /\ Stations = {s, r}
    BY PeerFacts, Zenon
  <1> HIDE DEF r
  <1>1. PICK rest \in Rests(s) :
           line' = [line EXCEPT ![s] = rest, ![r] = @ \o w]
    BY Zenon DEF Answer, r
  <1>2. UNCHANGED <<delivered, enqueued>>
    BY Zenon DEF Answer
  <1>3. line'[s] = rest /\ line'[r] = line[r] \o w
    BY <1>0, <1>1, Zenon DEF TypeOK
  <1>a. /\ last_message'[s] = m2 /\ last_message'[r] = last_message[r]
        /\ output_queue'[s] = o2 /\ output_queue'[r] = output_queue[r]
    BY <1>0, Zenon DEF TypeOK
  <1>b. Info(m2) \in Msg /\ Info(m2).body = m2 /\ Info(m2).type = "INFO"
    BY FramesTyped, ZenonT(60) DEF Info
  <1>4. ChainFrom(r) /\ ChainFrom(s)
    BY <1>0, ZenonT(60) DEF OrderInv
  <1>5. Chain(delivered[s], input_queue[s], Payloads(line[s]),
              last_message[r], output_queue[r], enqueued[r])
    BY <1>0, <1>4, Zenon DEF ChainFrom
  <1>6. Chain(delivered[r], input_queue[r], Payloads(line[r]),
              last_message[s], output_queue[s], enqueued[s])
    BY <1>0, <1>4, ZenonT(60) DEF ChainFrom, r
  <1>7. Chain(delivered[s], input_queue[s], Payloads(rest),
              last_message[r], output_queue[r], enqueued[r])
    BY <1>0, <1>5, RestThins, ChainTyped, Zenon
  <1>8. Chain(delivered[r], input_queue[r], Append(Payloads(line[r]), m2),
              m2, o2, enqueued[s])
    BY <1>0, <1>6, ChainPush, ChainTyped, Zenon
  <1>9. Payloads(line'[r]) = Append(Payloads(line[r]), m2)
    BY <1>0, <1>3, <1>b, PayloadsAppend, ChainTyped, ZenonT(60)
  <1>10. ChainFrom(r)'
    BY <1>0, <1>2, <1>3, <1>7, <1>a, ZenonT(60) DEF ChainFrom
  <1>11. ChainFrom(s)'
    BY <1>0, <1>2, <1>8, <1>9, <1>a, Zenon DEF ChainFrom, r
  <1>12. ASSUME ~Garbling  PROVE CleanAt(s)' /\ CleanAt(r)'
    <2>1. CleanAt(s) /\ CleanAt(r)
      BY <1>0, <1>12, ZenonT(60) DEF OrderInv
    <2>2. CleanFrames(rest)
      BY <2>1, RestThins, ChainTyped, Zenon DEF CleanAt
    <2>3. m2 # 0
      BY <1>12, ChainTyped, Younger, Zenon
    <2>4. line[r] \in Seq(Msg) /\ CleanFrames(line[r])
      BY <1>0, <2>1, ChainTyped, ZenonT(60) DEF CleanAt
    <2>5. w \in Seq(Msg) /\ CleanFrames(w)
      BY <1>b, <2>3, CleanInfo, Zenon
    <2>6. CleanFrames(line[r] \o w)
      BY <2>4, <2>5, CleanJoin, Zenon
    <2> QED  BY <1>2, <1>3, <2>1, <2>2, <2>6, ZenonT(60) DEF CleanAt
  <1> QED  BY <1>0, <1>10, <1>11, <1>12, ZenonT(60) DEF OrderInv

\* Sending the next message of the output queue, or EOT.
LEMMA OutputOrdered ==
    ASSUME TypeOK, OrderInv, NEW s \in Stations, line[s] # <<>>,
           handle_output_queue_msg_and_state(s)
    PROVE  OrderInv'
  <1>1. CASE output_queue[s] = <<>>
    <2>1. /\ Answer(s, <<Simple("EOT")>>, "NEUTRAL")
          /\ UNCHANGED <<output_queue, last_message, input_queue>>
      BY <1>1, Zenon DEF handle_output_queue_msg_and_state
    <2>2. /\ <<Simple("EOT")>> \in Seq(Msg)
          /\ \A i \in 1 .. Len(<<Simple("EOT")>>) : <<Simple("EOT")>>[i].body = 0
          /\ CleanFrames(<<Simple("EOT")>>)
      BY SimplePlain, ReplyPlain, Zenon
    <2> QED  BY <2>1, <2>2, AnswerOrdered, ZenonT(60)
  <1>2. CASE output_queue[s] # <<>>
    <2> DEFINE o == output_queue[s]
               m2 == Head(o)
               o2 == Tail(o)
    <2>1. /\ Answer(s, <<Info(m2)>>, "MASTER_INFO_ACK_RECEIVE")
          /\ last_message' = [last_message EXCEPT ![s] = m2]
          /\ output_queue' = [output_queue EXCEPT ![s] = o2]
          /\ UNCHANGED input_queue
      BY <1>2, Zenon DEF handle_output_queue_msg_and_state, TypeOK
    <2>2. /\ o \in Seq(Nat) /\ o # <<>> /\ o2 \in Seq(Nat) /\ m2 \in Nat
          /\ last_message[s] \in Nat /\ enqueued[s] \in Nat
      BY <1>2, ChainTyped, FrontAndRest, ZenonT(60)
    <2>3. Waiting(o, last_message[s], enqueued[s])
      BY Zenon DEF OrderInv, ChainFrom, Chain
    <2>4. last_message[s] < m2 /\ m2 <= enqueued[s] /\ Waiting(o2, m2, enqueued[s])
      BY <2>2, <2>3, WaitingTail, Zenon
    <2> HIDE DEF o, m2, o2
    <2>5. IF Garbling THEN last_message[s] <= m2 ELSE last_message[s] < m2
      BY <2>2, <2>4
    <2> QED  BY <2>1, <2>2, <2>4, <2>5, PushOrdered, Zenon
  <1> QED  BY <1>1, <1>2, Zenon

\* retransmit(): it answers a NAK, which only a line that garbles carries.
LEMMA RetransmitOrdered ==
    ASSUME TypeOK, OrderInv, NEW s \in Stations, line[s] # <<>>,
           Received(s).type = "NAK", NEW st,
           Answer(s, <<Info(last_message[s])>>, st),
           UNCHANGED <<output_queue, last_message, input_queue>>
    PROVE  OrderInv'
  <1>1. Garbling
    <2> SUFFICES ASSUME ~Garbling  PROVE FALSE
      BY Zenon
    <2>1. CleanFrames(line[s]) /\ line[s] \in Seq(Msg)
      BY ChainTyped, Zenon DEF OrderInv, CleanAt
    <2>2. 1 \in 1 .. Len(line[s]) /\ Received(s) = line[s][1]
      BY <2>1, FirstElement, Zenon DEF Received
    <2> QED  BY <2>1, <2>2, Zenon DEF CleanFrames
  <1>2. last_message[s] \in Nat /\ enqueued[s] \in Nat /\ output_queue[s] \in Seq(Nat)
    BY ChainTyped, Zenon
  <1>3. /\ Waiting(output_queue[s], last_message[s], enqueued[s])
        /\ last_message[s] <= enqueued[s]
    BY ZenonT(60) DEF OrderInv, ChainFrom, Chain
  <1>4. IF Garbling THEN last_message[s] <= last_message[s]
                    ELSE last_message[s] < last_message[s]
    BY <1>1, <1>2, Younger, Zenon
  <1>5. /\ last_message' = [last_message EXCEPT ![s] = last_message[s]]
        /\ output_queue' = [output_queue EXCEPT ![s] = output_queue[s]]
    BY Zenon DEF TypeOK
  <1> QED  BY <1>2, <1>3, <1>4, <1>5, PushOrdered, Zenon

\* The slave accepts an information message.
LEMMA AcceptOrdered ==
    ASSUME TypeOK, OrderInv, NEW s \in Stations, line[s] # <<>>,
           Received(s).type = "INFO", NEW st,
           Answer(s, <<Simple("ACK")>>, st),
           input_queue' = [input_queue EXCEPT
                              ![s] = Append(@, Received(s).body)],
           UNCHANGED <<output_queue, last_message>>
    PROVE  OrderInv'
  <1> DEFINE r == Peer(s)
             w == <<Simple("ACK")>>
             rest == Tail(line[s])
  <1>0. r \in Stations /\ r # s /\ Peer(r) = s /\ Stations = {s, r}
    BY PeerFacts, Zenon
  <1> HIDE DEF r
  <1>1. line' = [line EXCEPT ![s] = rest, ![r] = @ \o w]
    BY Zenon DEF Answer, Rests, r
  <1>2. UNCHANGED <<delivered, enqueued>>
    BY Zenon DEF Answer
  <1>3. line'[s] = rest /\ line'[r] = line[r] \o w
    BY <1>0, <1>1, Zenon DEF TypeOK
  <1>a. /\ input_queue'[s] = Append(input_queue[s], Received(s).body)
        /\ input_queue'[r] = input_queue[r]
    BY <1>0, Zenon DEF TypeOK
  <1>b. /\ w \in Seq(Msg) /\ \A i \in 1 .. Len(w) : w[i].body = 0
        /\ CleanFrames(w)
    BY SimplePlain, ReplyPlain, Zenon
  <1>c. /\ line[s] \in Seq(Msg) /\ rest \in Seq(Msg)
        /\ Received(s) = line[s][1] /\ 1 \in 1 .. Len(line[s])
    BY ChainTyped DEF Received
  <1>d. /\ Payloads(line[s]) \in Seq(Nat) /\ Payloads(line[s]) # <<>>
        /\ Head(Payloads(line[s])) = Received(s).body
        /\ Payloads(rest) = Tail(Payloads(line[s]))
    BY <1>c, PayloadsSplit, PayloadsTyped, ZenonT(60) DEF Received
  <1>4. ChainFrom(r) /\ ChainFrom(s)
    BY <1>0, Zenon DEF OrderInv
  <1>5. Chain(delivered[s], input_queue[s], Payloads(line[s]),
              last_message[r], output_queue[r], enqueued[r])
    BY <1>0, <1>4, ZenonT(60) DEF ChainFrom
  <1>6. Chain(delivered[r], input_queue[r], Payloads(line[r]),
              last_message[s], output_queue[s], enqueued[s])
    BY <1>0, <1>4, ZenonT(60) DEF ChainFrom, r
  <1>7. Chain(delivered[s], Append(input_queue[s], Received(s).body),
              Payloads(rest), last_message[r], output_queue[r], enqueued[r])
    <2> DEFINE b == Payloads(line[s])
    <2>1. b \in Seq(Nat) /\ b # <<>>
      BY <1>d, Zenon
    <2> HIDE DEF b
    <2>2. Chain(delivered[s], input_queue[s], b,
                last_message[r], output_queue[r], enqueued[r])
      BY <1>5, Zenon DEF b
    <2>3. Chain(delivered[s], Append(input_queue[s], Head(b)), Tail(b),
                last_message[r], output_queue[r], enqueued[r])
      BY <1>0, <2>1, <2>2, ChainAccept, ChainTyped, Zenon
    <2> QED  BY <1>d, <2>3, Zenon DEF b
  <1>8. Chain(delivered[r], input_queue[r], Payloads(line[r] \o w),
              last_message[s], output_queue[s], enqueued[s])
    BY <1>0, <1>6, <1>b, WriteKeeps, ChainTyped, ZenonT(60)
  <1>9. ChainFrom(r)'
    BY <1>0, <1>2, <1>3, <1>7, <1>a, Zenon DEF ChainFrom
  <1>10. ChainFrom(s)'
    BY <1>0, <1>2, <1>3, <1>8, <1>a, ZenonT(60) DEF ChainFrom, r
  <1>11. ASSUME ~Garbling  PROVE CleanAt(s)' /\ CleanAt(r)'
    <2>1. CleanAt(s) /\ CleanAt(r)
      BY <1>0, <1>11, ZenonT(60) DEF OrderInv
    <2>2. CleanFrames(rest)
      BY <1>c, <2>1, CleanRest, Zenon DEF CleanAt
    <2>3. CleanFrames(line[r] \o w)
      BY <1>0, <1>b, <2>1, WriteKeeps, ChainTyped, ZenonT(60) DEF CleanAt
    <2>4. Received(s).body # 0
      BY <1>c, <2>1, Zenon DEF CleanAt, CleanFrames
    <2>5. input_queue[s] \in Seq(Nat) /\ Received(s).body \in Nat
      <3>1. line[s][1] \in Msg
        BY <1>c, SMTT(60)
      <3> QED  BY <1>c, <3>1, ChainTyped, Zenon DEF Msg
    <2>6. NoZero(Append(input_queue[s], Received(s).body))
      BY <2>1, <2>4, <2>5 DEF CleanAt, NoZero
    <2> QED  BY <1>2, <1>3, <1>a, <2>1, <2>2, <2>3, <2>6, ZenonT(60) DEF CleanAt
  <1> QED  BY <1>0, <1>9, <1>10, <1>11, ZenonT(60) DEF OrderInv

\* Input that is read and not kept: the process ends, or has ended.
LEMMA DropOrdered ==
    ASSUME TypeOK, OrderInv, NEW s \in Stations, line[s] # <<>>,
           line' = [line EXCEPT ![s] = Tail(@)],
           UNCHANGED <<output_queue, last_message, appVars>>
    PROVE  OrderInv'
  <1> DEFINE r == Peer(s)
             l == line[s]
  <1>0. r \in Stations /\ r # s /\ Peer(r) = s /\ Stations = {s, r}
    BY PeerFacts, Zenon
  <1> HIDE DEF r
  <1>1. line'[s] = Tail(l) /\ line'[r] = line[r]
    BY <1>0, Zenon DEF TypeOK
  <1>2. UNCHANGED <<delivered, enqueued, input_queue>>
    BY Zenon DEF appVars
  <1>3. ChainFrom(r) /\ ChainFrom(s)
    BY <1>0, Zenon DEF OrderInv
  <1>4. l \in Seq(Msg) /\ Payloads(l) \in Seq(Nat) /\ Payloads(l) # <<>>
        /\ Payloads(Tail(l)) = Tail(Payloads(l))
    BY ChainTyped, PayloadsSplit, Zenon
  <1>5. Chain(delivered[s], input_queue[s], Payloads(l),
              last_message[r], output_queue[r], enqueued[r])
    BY <1>0, <1>3, ZenonT(60) DEF ChainFrom
  <1>6. Chain(delivered[s], input_queue[s], Payloads(Tail(l)),
              last_message[r], output_queue[r], enqueued[r])
    <2>1. /\ Sorted(Tail(Payloads(l))) /\ AtMost(Tail(Payloads(l)), last_message[r])
          /\ AllBefore(delivered[s], Tail(Payloads(l)))
          /\ AllBefore(input_queue[s], Tail(Payloads(l)))
      <3>1. /\ Sorted(Payloads(l)) /\ AtMost(Payloads(l), last_message[r])
            /\ AllBefore(delivered[s], Payloads(l))
            /\ AllBefore(input_queue[s], Payloads(l))
        BY <1>5, Zenon DEF Chain
      <3>2. /\ last_message[r] \in Nat
            /\ delivered[s] \in Seq(Nat) /\ input_queue[s] \in Seq(Nat)
        BY <1>0, ChainTyped, ZenonT(60)
      <3> QED  BY <1>4, <3>1, <3>2, TailSorted, TailUpTo, TailBefore, Zenon
    <2> QED  BY <1>4, <1>5, <2>1, Zenon DEF Chain
  <1>7. ChainFrom(r)'
    BY <1>0, <1>1, <1>2, <1>6, ZenonT(60) DEF ChainFrom
  <1>8. ChainFrom(s)'
    BY <1>0, <1>1, <1>2, <1>3, ZenonT(60) DEF ChainFrom, r
  <1>9. ASSUME ~Garbling  PROVE CleanAt(s)' /\ CleanAt(r)'
    <2>1. CleanAt(s) /\ CleanAt(r)
      BY <1>0, <1>9, ZenonT(60) DEF OrderInv
    <2>2. CleanFrames(Tail(l))
      BY <1>4, <2>1 DEF CleanAt, CleanFrames
    <2> QED  BY <1>1, <1>2, <2>1, <2>2, Zenon DEF CleanAt
  <1> QED  BY <1>0, <1>7, <1>8, <1>9, Zenon DEF OrderInv

\* Every step of read_handler keeps the order.
LEMMA ReadOrdered ==
    ASSUME TypeOK, OrderInv, NEW s \in Stations, read_handler(s)
    PROVE  OrderInv'
  <1>0. line[s] # <<>>
    BY ReadHandlerReads, Zenon
  <1>a. ASSUME NEW f \in {Simple("ACK"), Simple("EOT"), Enq("alpha")}, NEW st,
               Answer(s, <<f>>, st),
               UNCHANGED <<output_queue, last_message, input_queue>>
        PROVE  OrderInv'
    <2>1. /\ f \in Msg /\ f.body = 0
          /\ f.type \notin {"NAK", "MALFORMED", "INFO"}
      BY SimplePlain, ZenonT(60)
    <2> QED  BY <1>0, <1>a, <2>1, ReplyPlain, AnswerOrdered, Zenon
  <1>b. ASSUME NEW st, Answer(s, <<>>, st),
               UNCHANGED <<output_queue, last_message, input_queue>>
        PROVE  OrderInv'
    <2> DEFINE none == <<>>
    <2>1. /\ none \in Seq(Msg) /\ CleanFrames(none)
          /\ \A i \in 1 .. Len(none) : none[i].body = 0
      BY DEF CleanFrames
    <2>2. Answer(s, none, st)
      BY <1>b, Zenon
    <2> HIDE DEF none
    <2> QED  BY <1>0, <1>b, <2>1, <2>2, AnswerOrdered, Zenon
  <1>c. ASSUME NEW how, Die(s, how)  PROVE OrderInv'
    BY <1>0, <1>c, DropOrdered, ZenonT(60) DEF Die
  <1>1. CASE handle_message_neutral_state(s)
    BY <1>1, <1>a, <1>b, <1>c, Zenon DEF handle_message_neutral_state, masterVars
  <1>2. CASE handle_message_slave_select_receive_state(s)
    BY <1>2, <1>a, <1>b, <1>c, Zenon
       DEF handle_message_slave_select_receive_state, masterVars
  <1>3. CASE handle_message_master_select_ack_receive_state(s)
    BY <1>0, <1>3, <1>a, <1>b, <1>c, OutputOrdered, ZenonT(60)
       DEF handle_message_master_select_ack_receive_state, masterVars
  <1>4. CASE handle_message_master_info_ack_receive_state(s)
    BY <1>0, <1>4, <1>a, OutputOrdered, RetransmitOrdered, Zenon
       DEF handle_message_master_info_ack_receive_state, masterVars
  <1>5. CASE handle_message_slave_info_receive_state(s)
    <2>1. CASE Received(s).type = "MALFORMED"
      <3>1. /\ Answer(s, <<Simple("NAK")>>, "SLAVE_INFO_RECEIVE")
            /\ UNCHANGED <<output_queue, last_message, input_queue>>
        BY <1>5, <2>1, Zenon DEF handle_message_slave_info_receive_state, masterVars
      <3>2. Garbling
        <4> SUFFICES ASSUME ~Garbling  PROVE FALSE
          BY Zenon
        <4>1. CleanFrames(line[s]) /\ line[s] \in Seq(Msg)
          BY ChainTyped, Zenon DEF OrderInv, CleanAt
        <4>2. 1 \in 1 .. Len(line[s]) /\ Received(s) = line[s][1]
          BY <1>0, <4>1, FirstElement, Zenon DEF Received
        <4> QED  BY <2>1, <4>1, <4>2, Zenon DEF CleanFrames
      <3>3. Simple("NAK") \in Msg /\ Simple("NAK").body = 0
        BY SimplePlain, Zenon
      <3> QED  BY <1>0, <3>1, <3>2, <3>3, ReplyPlain, AnswerOrdered, Zenon
    <2>2. CASE Received(s).type # "MALFORMED"
      BY <1>0, <1>5, <1>b, <1>c, <2>2, AcceptOrdered, ZenonT(60)
         DEF handle_message_slave_info_receive_state, masterVars
    <2> QED  BY <2>1, <2>2, Zenon
  <1>6. CASE parse_input_abort(s) \/ read_handler_abort(s)
    BY <1>6, <1>c, Zenon DEF parse_input_abort, read_handler_abort
  <1> QED  BY <1>1, <1>2, <1>3, <1>4, <1>5, <1>6, Zenon DEF read_handler

\* The line loses or garbles frames: what remains is in order.
LEMMA LineOrdered ==
    ASSUME TypeOK, OrderInv, NEW s \in Stations, NEW l2 \in Seq(Msg),
           line' = [line EXCEPT ![s] = l2],
           UNCHANGED <<output_queue, last_message, appVars>>,
           NEW f \in [1 .. Len(l2) -> 1 .. Len(line[s])],
           \A i, j \in 1 .. Len(l2) : i < j => f[i] < f[j],
           \A i \in 1 .. Len(l2) : \/ Garbling /\ l2[i].body = 0
                                   \/ l2[i] = line[s][f[i]]
    PROVE  OrderInv'
  <1> DEFINE r == Peer(s)
             l == line[s]
             b == Payloads(l)
             b2 == Payloads(l2)
  <1>0. r \in Stations /\ r # s /\ Peer(r) = s /\ Stations = {s, r}
    BY PeerFacts, Zenon
  <1> HIDE DEF r
  <1>1. line'[s] = l2 /\ line'[r] = line[r]
    BY <1>0, Zenon DEF TypeOK
  <1>2. UNCHANGED <<delivered, enqueued, input_queue>>
    BY Zenon DEF appVars
  <1>3. ChainFrom(r) /\ ChainFrom(s)
    BY <1>0, ZenonT(60) DEF OrderInv
  <1>4. Chain(delivered[s], input_queue[s], b,
              last_message[r], output_queue[r], enqueued[r])
    BY <1>0, <1>3, ZenonT(60) DEF ChainFrom
  <1>5. /\ l \in Seq(Msg) /\ b \in Seq(Nat) /\ Len(b) = Len(l)
        /\ b2 \in Seq(Nat) /\ Len(b2) = Len(l2)
        /\ \A i \in 1 .. Len(l) : b[i] = l[i].body
        /\ \A i \in 1 .. Len(l2) : b2[i] = l2[i].body
    BY ChainTyped, PayloadsTyped, Zenon
  <1> HIDE DEF l, b, b2
  <1>6. \A i \in 1 .. Len(l2) : b2[i] = 0 \/ b2[i] = b[f[i]]
    BY <1>5, Zenon DEF l
  <1>7. Chain(delivered[s], input_queue[s], b2,
              last_message[r], output_queue[r], enqueued[r])
    <2>1. /\ f \in [1 .. Len(b2) -> 1 .. Len(b)]
          /\ \A i, j \in 1 .. Len(b2) : i < j => f[i] < f[j]
          /\ \A i \in 1 .. Len(b2) : b2[i] = 0 \/ b2[i] = b[f[i]]
      BY <1>5, <1>6 DEF l
    <2>2. /\ delivered[s] \in Seq(Nat) /\ input_queue[s] \in Seq(Nat)
          /\ last_message[r] \in Nat /\ output_queue[r] \in Seq(Nat)
          /\ enqueued[r] \in Nat /\ b \in Seq(Nat) /\ b2 \in Seq(Nat)
      BY <1>0, <1>5, ChainTyped, ZenonT(60)
    <2> QED  BY <1>4, <2>1, <2>2, ChainThin, ZenonT(90)
  <1>8. ChainFrom(r)'
    BY <1>0, <1>1, <1>2, <1>7, ZenonT(60) DEF ChainFrom, b2
  <1>9. ChainFrom(s)'
    BY <1>0, <1>1, <1>2, <1>3, ZenonT(60) DEF ChainFrom, r
  <1>10. ASSUME ~Garbling  PROVE CleanAt(s)' /\ CleanAt(r)'
    <2>1. CleanAt(s) /\ CleanAt(r)
      BY <1>0, <1>10, Zenon DEF OrderInv
    <2>2. \A i \in 1 .. Len(l2) : f[i] \in 1 .. Len(line[s]) /\ l2[i] = line[s][f[i]]
      BY <1>10, ZenonT(60)
    <2>3. CleanFrames(l2)
      BY <2>1, <2>2, Zenon DEF CleanAt, CleanFrames
    <2> QED  BY <1>1, <1>2, <2>1, <2>3, ZenonT(60) DEF CleanAt
  <1> QED  BY <1>0, <1>8, <1>9, <1>10, ZenonT(60) DEF OrderInv

\* The elements of a concatenation.
LEMMA ConcatOf ==
    ASSUME NEW x \in Seq(Msg), NEW y \in Seq(Msg)
    PROVE  /\ x \o y \in Seq(Msg) /\ Len(x \o y) = Len(x) + Len(y)
           /\ \A i \in 1 .. Len(x) + Len(y) :
                 (x \o y)[i] = IF i <= Len(x) THEN x[i] ELSE y[i - Len(x)]
  <1>1. /\ x \o y \in Seq(Msg) /\ Len(x \o y) = Len(x) + Len(y)
        /\ Len(x) \in Nat /\ Len(y) \in Nat
    OBVIOUS
  <1>2. \A i \in 1 .. Len(x) : (x \o y)[i] = x[i]
    OBVIOUS
  <1>3. \A i \in Len(x) + 1 .. Len(x) + Len(y) : (x \o y)[i] = y[i - Len(x)]
    BY <1>1
  <1> QED  BY <1>1, <1>2, <1>3

\* The steps of the application and of the line keep the order.
LEMMA OthersOrdered ==
    ASSUME TypeOK, OrderInv, NEW s \in Stations,
           \/ enqueue_message(s) \/ get_next_message(s)
           \/ Lose(s) \/ Garble(s) \/ Unread(s)
    PROVE  OrderInv'
  <1> DEFINE r == Peer(s)
             l == line[s]
  <1>0. r \in Stations /\ r # s /\ Peer(r) = s /\ Stations = {s, r}
    BY PeerFacts, Zenon
  <1> HIDE DEF r
  <1>a. ChainFrom(r) /\ ChainFrom(s)
    BY <1>0, Zenon DEF OrderInv
  <1>b. l \in Seq(Msg) /\ Len(l) \in Nat
    BY ChainTyped
  <1>1. CASE enqueue_message(s)
    <2>1. /\ enqueued'[s] = enqueued[s] + 1 /\ enqueued'[r] = enqueued[r]
          /\ output_queue'[s] = Append(output_queue[s], enqueued[s] + 1)
          /\ output_queue'[r] = output_queue[r]
          /\ UNCHANGED <<last_message, input_queue, delivered, line>>
      BY <1>0, <1>1, Zenon DEF enqueue_message, TypeOK, linkVars
    <2>2. Chain(delivered[r], input_queue[r], Payloads(line[r]),
                last_message[s], output_queue[s], enqueued[s])
      BY <1>a, ZenonT(60) DEF ChainFrom, r
    <2>3. Chain(delivered[r], input_queue[r], Payloads(line[r]),
                last_message[s], Append(output_queue[s], enqueued[s] + 1),
                enqueued[s] + 1)
      BY <1>0, <2>2, ChainEnqueue, ChainTyped, ZenonT(60)
    <2>4. ChainFrom(s)' /\ ChainFrom(r)'
      BY <1>0, <1>a, <2>1, <2>3, ZenonT(60) DEF ChainFrom, r
    <2>5. ~Garbling => CleanAt(s)' /\ CleanAt(r)'
      BY <1>0, <2>1, Zenon DEF OrderInv, CleanAt
    <2> QED  BY <1>0, <2>4, <2>5, ZenonT(60) DEF OrderInv
  <1>2. CASE get_next_message(s)
    <2> DEFINE q == input_queue[s]
    <2>1. /\ delivered'[s] = Append(delivered[s], Head(q))
          /\ delivered'[r] = delivered[r]
          /\ input_queue'[s] = Tail(q) /\ input_queue'[r] = input_queue[r]
          /\ UNCHANGED <<last_message, output_queue, enqueued, line>>
          /\ q # <<>>
      BY <1>0, <1>2, Zenon DEF get_next_message, TypeOK, linkVars
    <2>2. Chain(delivered[s], q, Payloads(line[s]),
                last_message[r], output_queue[r], enqueued[r])
      BY <1>0, <1>a, Zenon DEF ChainFrom
    <2>3. Chain(Append(delivered[s], Head(q)), Tail(q), Payloads(line[s]),
                last_message[r], output_queue[r], enqueued[r])
      BY <1>0, <2>1, <2>2, ChainFetch, ChainTyped, ZenonT(60)
    <2>4. ChainFrom(s)' /\ ChainFrom(r)'
      BY <1>0, <1>a, <2>1, <2>3, ZenonT(60) DEF ChainFrom, r
    <2>5. ASSUME ~Garbling  PROVE CleanAt(s)' /\ CleanAt(r)'
      <3>1. CleanAt(s) /\ CleanAt(r)
        BY <1>0, <2>5, Zenon DEF OrderInv
      <3>2. q \in Seq(Nat) /\ delivered[s] \in Seq(Nat)
        BY ChainTyped, ZenonT(60)
      <3>3. NoZero(Tail(q)) /\ NoZero(Append(delivered[s], Head(q)))
        BY <2>1, <3>1, <3>2, NoZeroFetched, Zenon DEF CleanAt
      <3> QED  BY <2>1, <3>1, <3>3, Zenon DEF CleanAt
    <2> QED  BY <1>0, <2>4, <2>5, Zenon DEF OrderInv
  <1>3. CASE Lose(s)
    <2>1. PICK k \in 1 .. Len(l) : line' = [line EXCEPT ![s] = Without(@, k)]
      BY <1>3, Zenon DEF Lose
    <2> DEFINE l2 == Without(l, k)
               f == [i \in 1 .. Len(l2) |-> IF i < k THEN i ELSE i + 1]
    <2>2. line' = [line EXCEPT ![s] = l2]
      BY <2>1, Zenon
    <2>3. /\ SubSeq(l, 1, k - 1) \in Seq(Msg) /\ SubSeq(l, k + 1, Len(l)) \in Seq(Msg)
          /\ Len(SubSeq(l, 1, k - 1)) = k - 1
          /\ Len(SubSeq(l, k + 1, Len(l))) = Len(l) - k
          /\ \A i \in 1 .. k - 1 : SubSeq(l, 1, k - 1)[i] = l[i]
          /\ \A i \in 1 .. Len(l) - k : SubSeq(l, k + 1, Len(l))[i] = l[k + i]
      BY <1>b, SMTT(60)
    <2>4. /\ l2 \in Seq(Msg) /\ Len(l2) = Len(l) - 1
          /\ \A i \in 1 .. Len(l) - 1 :
                l2[i] = IF i < k THEN l[i] ELSE l[i + 1]
      <3> DEFINE x == SubSeq(l, 1, k - 1)
                 y == SubSeq(l, k + 1, Len(l))
      <3>1. l2 = x \o y
        BY Zenon DEF Without
      <3>2. /\ x \in Seq(Msg) /\ y \in Seq(Msg) /\ Len(x) = k - 1
            /\ Len(y) = Len(l) - k /\ k \in 1 .. Len(l)
            /\ \A i \in 1 .. k - 1 : x[i] = l[i]
            /\ \A i \in 1 .. Len(l) - k : y[i] = l[k + i]
        BY <2>3, Zenon
      <3> HIDE DEF x, y, l2
      <3>3. /\ x \o y \in Seq(Msg) /\ Len(x \o y) = Len(l) - 1
            /\ \A i \in 1 .. Len(l) - 1 :
                  (x \o y)[i] = IF i < k THEN x[i] ELSE y[i - (k - 1)]
        <4>1. /\ x \o y \in Seq(Msg) /\ Len(x \o y) = Len(x) + Len(y)
              /\ \A i \in 1 .. Len(x) + Len(y) :
                    (x \o y)[i] = IF i <= Len(x) THEN x[i] ELSE y[i - Len(x)]
          BY <3>2, ConcatOf, Zenon
        <4>2. k \in Nat /\ Len(x) + Len(y) = Len(l) - 1
          BY <1>b, <3>2, SMTT(60)
        <4>3. \A i \in 1 .. Len(l) - 1 : i <= Len(x) <=> i < k
          BY <1>b, <3>2
        <4> QED  BY <3>2, <4>1, <4>2, <4>3, Zenon
      <3>4. ASSUME NEW i \in 1 .. Len(l) - 1
            PROVE  (x \o y)[i] = IF i < k THEN l[i] ELSE l[i + 1]
        <4>1. CASE i < k
          BY <1>b, <3>2, <3>3, <4>1
        <4>2. CASE ~(i < k)
          <5>1. i - (k - 1) \in 1 .. Len(l) - k /\ k + (i - (k - 1)) = i + 1
            BY <1>b, <3>2, <4>2, SMTT(60)
          <5>2. (x \o y)[i] = y[i - (k - 1)]
            BY <3>3, <4>2, Zenon
          <5>3. y[i - (k - 1)] = l[k + (i - (k - 1))]
            BY <3>2, <5>1, ZenonT(60)
          <5> QED  BY <4>2, <5>1, <5>2, <5>3, Zenon
        <4> QED  BY <4>1, <4>2, Zenon
      <3> QED  BY <3>1, <3>3, <3>4
    <2> HIDE DEF l2
    <2>5. /\ f \in [1 .. Len(l2) -> 1 .. Len(l)]
          /\ \A i, j \in 1 .. Len(l2) : i < j => f[i] < f[j]
          /\ \A i \in 1 .. Len(l2) : l2[i] = l[f[i]]
      BY <1>b, <2>4, SMTT(60)
    <2>6. UNCHANGED <<output_queue, last_message, appVars>>
      BY <1>3, Zenon DEF Lose, masterVars
    <2> HIDE DEF f
    <2> QED  BY <2>2, <2>4, <2>5, <2>6, LineOrdered, Zenon
  <1>4. CASE Garble(s)
    <2>1. PICK k \in 1 .. Len(l), g \in GarbledForms :
             line' = [line EXCEPT ![s][k] = g]
      BY <1>4, Zenon DEF Garble
    <2> DEFINE l2 == [l EXCEPT ![k] = g]
               f == [i \in 1 .. Len(l2) |-> i]
    <2>2. g \in Msg /\ g.body = 0
      <3>1. g \in Msg
        BY FramesTyped, Zenon
      <3>2. \/ g = Enq("") \/ g = Info(0)
            \/ \E t \in {"ACK", "NAK", "EOT", "MALFORMED", "DLE"} : g = Simple(t)
        BY Zenon DEF GarbledForms
      <3>3. g.body = 0
        <4>1. /\ \A t \in {"ACK", "NAK", "EOT", "MALFORMED", "DLE"} :
                    Simple(t).body = 0
              /\ Enq("").body = 0 /\ Info(0).body = 0
          BY ZenonT(60) DEF Simple, Enq, Info
        <4> QED  BY <3>2, <4>1, Zenon
      <3> QED  BY <3>1, <3>3, Zenon
    <2>3. /\ l2 \in Seq(Msg) /\ Len(l2) = Len(l)
          /\ \A i \in 1 .. Len(l) : l2[i] = IF i = k THEN g ELSE l[i]
      BY <1>b, <2>2
    <2>4. line' = [line EXCEPT ![s] = l2]
      BY <2>1, Zenon
    <2> HIDE DEF l2
    <2>5. /\ f \in [1 .. Len(l2) -> 1 .. Len(l)]
          /\ \A i, j \in 1 .. Len(l2) : i < j => f[i] < f[j]
          /\ \A i \in 1 .. Len(l2) : l2[i].body = 0 \/ l2[i] = l[f[i]]
      BY <1>b, <2>2, <2>3, Zenon
    <2>6. UNCHANGED <<output_queue, last_message, appVars>> /\ Garbling
      BY <1>4, Zenon DEF Garble, masterVars
    <2> HIDE DEF f
    <2> QED  BY <2>3, <2>4, <2>5, <2>6, LineOrdered, Zenon
  <1>5. CASE Unread(s)
    BY <1>5, DropOrdered, Zenon DEF Unread, masterVars
  <1> QED  BY <1>1, <1>2, <1>3, <1>4, <1>5, Zenon

\* The steps of alpha's timers keep the order.
LEMMA TimersOrdered ==
    ASSUME TypeOK, OrderInv,
           poll \/ Expire \/ on_master_select_no_response_timeout
    PROVE  OrderInv'
  <1>1. ASSUME NEW w \in Seq(Msg), \A i \in 1 .. Len(w) : w[i].body = 0,
               CleanFrames(w), NEW st, Transmit(w, st)
        PROVE  OrderInv'
    <2>0. /\ "alpha" \in Stations /\ "bravo" \in Stations
          /\ Stations = {"alpha", "bravo"}
          /\ Peer("alpha") = "bravo" /\ Peer("bravo") = "alpha"
      BY Zenon DEF Stations, Peer
    <2>1. /\ line'["bravo"] = line["bravo"] \o w /\ line'["alpha"] = line["alpha"]
          /\ UNCHANGED <<output_queue, last_message, input_queue, enqueued,
                         delivered>>
      BY <1>1, <2>0, ZenonT(60) DEF Transmit, TypeOK, appVars
    <2>2. ChainFrom("alpha") /\ ChainFrom("bravo")
      BY <2>0, Zenon DEF OrderInv
    <2>3. Chain(delivered["bravo"], input_queue["bravo"],
                Payloads(line["bravo"] \o w), last_message["alpha"],
                output_queue["alpha"], enqueued["alpha"])
      BY <1>1, <2>0, <2>2, WriteKeeps, ChainTyped, Zenon DEF ChainFrom
    <2>4. ChainFrom("alpha")' /\ ChainFrom("bravo")'
      BY <2>0, <2>1, <2>2, <2>3, Zenon DEF ChainFrom
    <2>5. ASSUME ~Garbling  PROVE CleanAt("alpha")' /\ CleanAt("bravo")'
      <3>1. CleanAt("alpha") /\ CleanAt("bravo")
        BY <2>0, <2>5, Zenon DEF OrderInv
      <3>2. CleanFrames(line["bravo"] \o w)
        BY <1>1, <2>0, <3>1, WriteKeeps, ChainTyped, Zenon DEF CleanAt
      <3> QED  BY <2>1, <3>1, <3>2, Zenon DEF CleanAt
    <2> QED  BY <2>0, <2>4, <2>5, Zenon DEF OrderInv
  <1>2. ASSUME NEW f \in Msg, NEW g \in Msg, NEW h \in Msg,
               f.body = 0, g.body = 0, h.body = 0,
               \A t \in {f.type, g.type, h.type} :
                  t \notin {"NAK", "MALFORMED", "INFO"}
        PROVE  /\ <<f, g>> \in Seq(Msg) /\ <<f, g, h>> \in Seq(Msg)
               /\ \A i \in 1 .. Len(<<f, g>>) : <<f, g>>[i].body = 0
               /\ \A i \in 1 .. Len(<<f, g, h>>) : <<f, g, h>>[i].body = 0
               /\ CleanFrames(<<f, g>>) /\ CleanFrames(<<f, g, h>>)
    BY <1>2 DEF CleanFrames
  <1>3. CASE PollAsMaster
    BY <1>1, <1>2, <1>3, SimplePlain, ZenonT(60) DEF PollAsMaster
  <1>4. CASE PollPeer
    BY <1>1, <1>2, <1>4, SimplePlain, ZenonT(60) DEF PollPeer
  <1>5. CASE on_master_select_no_response_timeout
    BY <1>1, <1>5, SimplePlain, ReplyPlain, ZenonT(60)
       DEF on_master_select_no_response_timeout
  <1>6. CASE Expire
    BY <1>6, Zenon DEF Expire, appVars, linkVars, OrderInv, ChainFrom, CleanAt
  <1> QED  BY <1>3, <1>4, <1>5, <1>6, Zenon DEF poll

\* The chain of every sender's messages, by age, holds for ever.
THEOREM OrderInvariant == Spec => []OrderInv
  <1>1. Init => OrderInv
    <2> SUFFICES ASSUME Init, NEW s \in Stations
                 PROVE  ChainFrom(s) /\ CleanAt(s)
      BY Zenon DEF OrderInv
    <2>1. Peer(s) \in Stations
      BY PeerFacts, Zenon
    <2>2. /\ delivered[Peer(s)] = <<>> /\ input_queue[Peer(s)] = <<>>
          /\ line[Peer(s)] = <<>> /\ last_message[s] = 0
          /\ output_queue[s] = <<>> /\ enqueued[s] = 0
          /\ delivered[s] = <<>> /\ input_queue[s] = <<>> /\ line[s] = <<>>
      BY <2>1, Zenon DEF Init
    <2>3. Payloads(<<>>) = <<>>
      BY DEF Payloads
    <2>4. Chain(<<>>, <<>>, <<>>, 0, <<>>, 0)
      BY DEF Chain, Sorted, AllBefore, AtMost, Waiting
    <2> QED  BY <2>2, <2>3, <2>4 DEF ChainFrom, CleanAt, CleanFrames, NoZero
  <1>2. TypeOK /\ OrderInv /\ [Next]_vars => OrderInv'
    <2> SUFFICES ASSUME TypeOK, OrderInv, [Next]_vars  PROVE OrderInv'
      BY SMTT(60)
    <2>1. CASE UNCHANGED vars
      BY <2>1, Zenon DEF vars, appVars, linkVars, OrderInv, ChainFrom, CleanAt
    <2> QED  BY <2>1, ReadOrdered, OthersOrdered, TimersOrdered, Zenon DEF Next
  <1> QED  BY <1>1, <1>2, TypeCorrect, PTL DEF Spec

\* get_next_message hands messages out in the order of enqueue_message,
\* whatever the line loses or garbles and however late the timers fire.
THEOREM DeliveryInOrder == Spec => []NeverReordered
  <1>1. TypeOK /\ OrderInv => NeverReordered
    <2> SUFFICES ASSUME TypeOK, OrderInv, NEW s \in Stations,
                        NEW i \in DOMAIN delivered[s], NEW j \in DOMAIN delivered[s],
                        i < j, delivered[s][j] # 0
                 PROVE  delivered[s][i] <= delivered[s][j]
      BY Zenon DEF NeverReordered
    <2>1. Sorted(delivered[s])
      <3>1. ChainFrom(Peer(s)) /\ Peer(Peer(s)) = s
        BY PeerFacts, Zenon DEF OrderInv
      <3> QED  BY <3>1, Zenon DEF ChainFrom, Chain
    <2>2. /\ i \in 1 .. Len(delivered[s]) /\ j \in 1 .. Len(delivered[s])
          /\ delivered[s][i] \in Nat /\ delivered[s][j] \in Nat
      BY ChainTyped, SMTT(60)
    <2> QED  BY <2>1, <2>2 DEF Sorted, Before
  <1> QED  BY <1>1, TypeCorrect, OrderInvariant, PTL

\* A line that loses frames but does not garble them never makes
\* get_next_message hand out a message twice.
THEOREM DeliveryAtMostOnce == ASSUME ~Garbling  PROVE Spec => []NoDuplicates
  <1>1. TypeOK /\ OrderInv => NoDuplicates
    <2> SUFFICES ASSUME TypeOK, OrderInv, NEW s \in Stations,
                        NEW i \in DOMAIN delivered[s], NEW j \in DOMAIN delivered[s],
                        i < j
                 PROVE  delivered[s][i] # delivered[s][j]
      BY Zenon DEF NoDuplicates
    <2>1. Sorted(delivered[s]) /\ NoZero(delivered[s])
      <3>1. ChainFrom(Peer(s)) /\ Peer(Peer(s)) = s /\ CleanAt(s)
        BY PeerFacts, Zenon DEF OrderInv
      <3> QED  BY <3>1, Zenon DEF ChainFrom, Chain, CleanAt
    <2>2. /\ i \in 1 .. Len(delivered[s]) /\ j \in 1 .. Len(delivered[s])
          /\ delivered[s][i] \in Nat /\ delivered[s][j] \in Nat
      BY ChainTyped
    <2> QED  BY <2>1, <2>2 DEF Sorted, Before, NoZero
  <1> QED  BY <1>1, TypeCorrect, OrderInvariant, PTL

=============================================================================
