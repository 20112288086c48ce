--------------------------- MODULE HalfDuplexLink ---------------------------
(***************************************************************************)
(* Proofs about the two stations on a line that changes no frame: that     *)
(* bravo can handle every frame under way, that no process ends before a   *)
(* frame is lost, that the protocol implements MessageLink, and that it    *)
(* skips no message while no frame is lost.                                *)
(***************************************************************************)
EXTENDS MCHalfDuplex, HalfDuplexProofs, SequenceFacts

-----------------------------------------------------------------------------
(* What bravo does with the frames under way.                              *)

Phases == {"neutral", "select", "info", "asked"}

\* bravo in state st is in phase p.  Asked for the line, it takes it or not.
At(p, st) ==
    \/ p = "neutral" /\ st = "NEUTRAL"
    \/ p = "select" /\ st = "SLAVE_SELECT_RECEIVE"
    \/ p = "info" /\ st = "SLAVE_INFO_RECEIVE"
    \/ p = "asked" /\ st \in {"NEUTRAL", "MASTER_SELECT_ACK_RECEIVE"}

\* Frame m finds bravo in phase p and leaves it in phase r.
Expects(p, m, r) ==
    \/ m = Simple("EOT") /\ r = "neutral"
    \/ m = Enq("alpha") /\ p = "neutral" /\ r = "select"
    \/ m = Enq("bravo") /\ p = "select" /\ r = "info"
    \/ m = Enq("bravo") /\ p = "neutral" /\ r = "asked"
    \/ m \in {Info(n) : n \in Nat} /\ p = "info" /\ r = "info"

\* The frames q take bravo from phase p to phase r.
Run(q, p, r) ==
    \E run \in [1 .. Len(q) + 1 -> Phases] :
        /\ run[1] = p /\ run[Len(q) + 1] = r
        /\ \A i \in 1 .. Len(q) : Expects(run[i], q[i], run[i + 1])

\* With nothing to read bravo stays in its phase.
LEMMA RunEmpty ==
    ASSUME NEW p \in Phases
    PROVE  Run(<<>>, p, p)
<1> DEFINE run == [i \in 1 .. 1 |-> p]
<1>1. run \in [1 .. Len(<<>>) + 1 -> Phases] /\ run[1] = p /\ run[Len(<<>>) + 1] = p
  OBVIOUS
<1>2. \A i \in 1 .. Len(<<>>) : Expects(run[i], <<>>[i], run[i + 1])
  OBVIOUS
<1> QED
  BY <1>1, <1>2, Zenon DEF Run

\* And in no other.
LEMMA RunOfEmpty ==
    ASSUME NEW p, NEW r, Run(<<>>, p, r)
    PROVE  p = r
BY DEF Run

\* bravo reads the first frame ...
LEMMA RunHead ==
    ASSUME NEW q \in Seq(Msg), q # <<>>, NEW p, NEW r, Run(q, p, r)
    PROVE  \E t \in Phases : Expects(p, Head(q), t) /\ Run(Tail(q), t, r)
<1>1. PICK run \in [1 .. Len(q) + 1 -> Phases] :
         /\ run[1] = p /\ run[Len(q) + 1] = r
         /\ \A i \in 1 .. Len(q) : Expects(run[i], q[i], run[i + 1])
  BY DEF Run
<1>2. /\ Tail(q) \in Seq(Msg) /\ Len(q) \in Nat /\ Len(q) > 0
      /\ Len(Tail(q)) = Len(q) - 1 /\ Head(q) = q[1]
      /\ \A i \in 1 .. Len(q) - 1 : Tail(q)[i] = q[i + 1]
  OBVIOUS
<1> DEFINE rest == [i \in 1 .. Len(q) |-> run[i + 1]]
<1>3. /\ rest \in [1 .. Len(Tail(q)) + 1 -> Phases]
      /\ rest[1] = run[2] /\ rest[Len(Tail(q)) + 1] = r
  BY <1>1, <1>2
<1>4. ASSUME NEW i \in 1 .. Len(Tail(q))
      PROVE  Expects(rest[i], Tail(q)[i], rest[i + 1])
  <2>1. i + 1 \in 1 .. Len(q) /\ i \in 1 .. Len(q) - 1 /\ i \in 1 .. Len(q)
    BY <1>2
  <2>2. rest[i] = run[i + 1] /\ rest[i + 1] = run[(i + 1) + 1] /\ Tail(q)[i] = q[i + 1]
    BY <1>2, <2>1
  <2> HIDE DEF rest
  <2> QED
    BY <1>1, <2>1, <2>2
<1> HIDE DEF rest
<1>5. Run(Tail(q), run[2], r)
  BY <1>3, <1>4, ZenonT(60) DEF Run
<1>6. Expects(p, Head(q), run[2]) /\ run[2] \in Phases
  <2>1. Expects(run[1], q[1], run[1 + 1])
    BY <1>1, <1>2
  <2> QED
    BY <1>1, <1>2, <2>1, SMTT(60)
<1> QED
  BY <1>5, <1>6

\* ... and alpha writes one behind the last.
LEMMA RunAppend ==
    ASSUME NEW q \in Seq(Msg), NEW m \in Msg, NEW p, NEW r, NEW t \in Phases,
           Run(q, p, r), Expects(r, m, t)
    PROVE  Run(q \o <<m>>, p, t)
<1>1. PICK run \in [1 .. Len(q) + 1 -> Phases] :
         /\ run[1] = p /\ run[Len(q) + 1] = r
         /\ \A i \in 1 .. Len(q) : Expects(run[i], q[i], run[i + 1])
  BY DEF Run
<1> DEFINE w == q \o <<m>>
           n == Len(q)
<1>2. /\ w \in Seq(Msg) /\ n \in Nat /\ Len(w) = n + 1 /\ w[n + 1] = m
      /\ \A i \in 1 .. n : w[i] = q[i]
  OBVIOUS
<1> DEFINE more == [i \in 1 .. (n + 1) + 1 |-> IF i = n + 2 THEN t ELSE run[i]]
<1>3. /\ more \in [1 .. Len(w) + 1 -> Phases]
      /\ more[1] = p /\ more[Len(w) + 1] = t
  BY <1>1, <1>2
<1>4. ASSUME NEW i \in 1 .. Len(w)
      PROVE  Expects(more[i], w[i], more[i + 1])
  <2>1. CASE i = n + 1
    <3>1. more[i] = r /\ more[i + 1] = t /\ w[i] = m
      BY <1>1, <1>2, <2>1, SMTT(60)
    <3> HIDE DEF w, more, n
    <3> QED
      BY <3>1
  <2>2. CASE i # n + 1
    <3>1. i \in 1 .. n
      BY <1>2, <2>2, SMTT(60)
    <3>2. more[i] = run[i] /\ more[i + 1] = run[i + 1] /\ w[i] = q[i]
      BY <1>2, <3>1, SMTT(60)
    <3> HIDE DEF w, more
    <3> QED
      BY <1>1, <3>1, <3>2, ZenonT(60)
  <2> QED
    BY <2>1, <2>2
<1> HIDE DEF more, n
<1>5. Run(w, p, t)
  <2> HIDE DEF w
  <2> QED
    BY <1>3, <1>4, ZenonT(60) DEF Run
<1> QED
  BY <1>5
-----------------------------------------------------------------------------
\* Until the line loses or garbles its first frame, bravo's process runs, and
\* every frame under way finds it in the phase that alpha wrote it for; behind
\* the last one bravo is alpha's slave as long as alpha is a master.
Path ==
    /\ up["bravo"] = "running"
    /\ \E p, r \in Phases :
          /\ At(p, state["bravo"])
          /\ Run(line["bravo"], p, r)
          /\ state["alpha"] \in {"MASTER_SELECT_ACK_RECEIVE", "MASTER_INFO_ACK_RECEIVE"}
                => r = "info"

\* Frames put on the line together are put there one after the other.
LEMMA ConcatMore ==
    ASSUME NEW q \in Seq(Msg), NEW a \in Msg, NEW b \in Msg, NEW c \in Msg
    PROVE  /\ q \o <<a, b>> = (q \o <<a>>) \o <<b>>
           /\ q \o <<a, b, c>> = ((q \o <<a>>) \o <<b>>) \o <<c>>
<1>1. q \o <<a>> = Append(q, a) /\ Append(q, a) \in Seq(Msg)
  OBVIOUS
<1>2. Append(q, a) \o <<b>> = Append(Append(q, a), b) /\ Append(Append(q, a), b) \in Seq(Msg)
  OBVIOUS
<1>3. q \o <<a, b>> = Append(Append(q, a), b)
  OBVIOUS
<1>4. q \o <<a, b, c>> = Append(Append(Append(q, a), b), c)
  OBVIOUS
<1>5. ASSUME NEW s \in Seq(Msg) PROVE s \o <<c>> = Append(s, c)
  OBVIOUS
<1> QED
  BY <1>1, <1>2, <1>3, <1>4, <1>5, Zenon

\* The frame that alpha wrote for the phase bravo is in does not end bravo's
\* process, and bravo follows it.
LEMMA BravoFollows ==
    ASSUME NEW st, NEW p, At(p, st), NEW m \in FromAlpha, NEW t, Expects(p, m, t)
    PROVE  /\ ~Refuses(st, m)
           /\ Accepts(st, m) => t = "info"
           /\ \A f, st2 : Follows(st, m, f, st2) => At(t, st2)
<1>1. /\ Simple("EOT").type = "EOT" /\ Enq("alpha").type = "ENQ"
      /\ Enq("bravo").type = "ENQ" /\ Enq("alpha") # Enq("bravo")
      /\ \A x \in {Info(n) : n \in Nat} : x.type = "INFO"
  BY FrameFacts, Zenon DEF Msg_type
<1>2. ~Refuses(st, m) /\ (Accepts(st, m) => t = "info")
  BY <1>1 DEF Refuses, Accepts, Expects, At
<1>3. ASSUME NEW f, NEW st2, Follows(st, m, f, st2) PROVE At(t, st2)
  <2>1. CASE m = Simple("EOT")
    BY <1>1, <1>3, <2>1, ZenonT(60) DEF Follows, Expects, At
  <2>2. CASE m = Enq("alpha")
    BY <1>1, <1>3, <2>2, ZenonT(60) DEF Follows, Expects, At
  <2>3. CASE m = Enq("bravo")
    BY <1>1, <1>3, <2>3, SMTT(60) DEF Follows, Expects, At
  <2> QED
    BY <1>3, <2>1, <2>2, <2>3, ZenonT(60) DEF Follows
<1> QED
  BY <1>2, <1>3

\* Every step keeps the frames under way in step with bravo, until the first fault.
LEMMA NextPath ==
    ASSUME TypeOK, Undamaged => Roles, faults = 0 => Path, [Next]_vars
    PROVE  faults' = 0 => Path'
<1> SUFFICES ASSUME faults' = 0 PROVE Path'
  OBVIOUS
<1>1. /\ Path /\ Roles
      /\ \/ AlphaReadsOne /\ line["alpha"] # <<>>
         \/ BravoReadsOne /\ line["bravo"] # <<>>
         \/ TimersWrite
         \/ NothingSeen
         \/ \E s \in Stations : \/ enqueue_message(s) \/ get_next_message(s)
                                \/ Lose(s) \/ Unread(s)
  BY UndamagedSteps DEF Undamaged
<1>2. /\ line["alpha"] \in Seq(Msg) /\ line["bravo"] \in Seq(Msg)
      /\ Peer("alpha") = "bravo" /\ Peer("bravo") = "alpha"
  BY DEF TypeOK, Stations, Peer
<1>3. PICK p \in Phases, r \in Phases :
         /\ At(p, state["bravo"]) /\ Run(line["bravo"], p, r)
         /\ state["alpha"] \in {"MASTER_SELECT_ACK_RECEIVE", "MASTER_INFO_ACK_RECEIVE"}
               => r = "info"
  BY <1>1 DEF Path
<1>4. up["bravo"] = "running"
  BY <1>1 DEF Path
<1>5. ASSUME NEW m \in Msg, NEW t \in Phases, NEW q \in Seq(Msg), NEW u, Run(q, p, u),
             Expects(u, m, t)
      PROVE  Run(q \o <<m>>, p, t) /\ q \o <<m>> \in Seq(Msg)
  BY <1>5, RunAppend, SMTT(60)
<1>6. /\ \A u : Expects(u, Simple("EOT"), "neutral")
      /\ Expects("neutral", Enq("alpha"), "select")
      /\ Expects("select", Enq("bravo"), "info")
      /\ Expects("neutral", Enq("bravo"), "asked")
      /\ \A n \in Nat : Expects("info", Info(n), "info")
  BY DEF Expects
<1>7. /\ Simple("EOT") \in Msg /\ Enq("alpha") \in Msg /\ Enq("bravo") \in Msg
      /\ \A n \in Nat : Info(n) \in Msg
      /\ {"neutral", "select", "info", "asked"} = Phases
  BY FramesTyped DEF Phases
<1> DEFINE q1 == line["bravo"] \o <<Simple("EOT")>>
<1>8. Run(q1, p, "neutral") /\ q1 \in Seq(Msg)
  BY <1>2, <1>3, <1>5, <1>6, <1>7, Zenon
<1>9. CASE AlphaReadsOne /\ line["alpha"] # <<>>
  <2>1. CASE /\ Reads("alpha", <<>>)
             /\ state'["alpha"] \in {"NEUTRAL", "SLAVE_SELECT_RECEIVE", state["alpha"]}
    <3>1. line'["bravo"] = line["bravo"]
      BY <1>2, <2>1, ConcatEmptySeq, ZenonT(60) DEF Reads
    <3> QED
      BY <1>2, <1>3, <1>4, <2>1, <3>1, ZenonT(60) DEF Reads, Path
  <2>2. CASE Reads("alpha", <<Simple("EOT")>>) /\ state'["alpha"] = "NEUTRAL"
    BY <1>2, <1>3, <1>4, <1>7, <1>8, <2>2, ZenonT(60) DEF Reads, Path
  <2>3. CASE /\ state["alpha"] \in {"MASTER_SELECT_ACK_RECEIVE", "MASTER_INFO_ACK_RECEIVE"}
             /\ output_queue["alpha"] # <<>>
             /\ Reads("alpha", <<Info(Head(output_queue["alpha"]))>>)
    <3> DEFINE m == Info(Head(output_queue["alpha"]))
    <3>1. Head(output_queue["alpha"]) \in Nat
      <4>1. output_queue["alpha"] \in Seq(Nat)
        BY DEF TypeOK, Stations
      <4> QED
        BY <2>3, <4>1, SMTT(60)
    <3>2. m \in Msg /\ Expects("info", m, "info")
      BY <1>6, <1>7, <3>1, SMTT(60)
    <3> HIDE DEF m
    <3>3. Run(line["bravo"] \o <<m>>, p, "info")
      BY <1>2, <1>3, <1>5, <1>7, <2>3, <3>2, ZenonT(60)
    <3> QED
      BY <1>2, <1>3, <1>4, <1>7, <2>3, <3>3, ZenonT(60) DEF Reads, Path, m
  <2> QED
    BY <1>9, <2>1, <2>2, <2>3, ZenonT(60) DEF AlphaReadsOne
<1>10. CASE BravoReadsOne /\ line["bravo"] # <<>>
  <2>1. PICK t \in Phases : Expects(p, Received("bravo"), t) /\ Run(Tail(line["bravo"]), t, r)
    BY <1>2, <1>3, <1>10, RunHead, ZenonT(60) DEF Received
  <2>2. Received("bravo") \in FromAlpha
    BY <1>1, <1>2, <1>10, TailFacts, ZenonT(60) DEF Roles, Received
  <2>3. /\ ~Refuses(state["bravo"], Received("bravo"))
        /\ Accepts(state["bravo"], Received("bravo")) => t = "info"
        /\ \A f, st2 : Follows(state["bravo"], Received("bravo"), f, st2) => At(t, st2)
    BY <1>3, <2>1, <2>2, BravoFollows, ZenonT(60)
  <2>4. At(t, state'["bravo"]) /\ up' = up /\ \E f : Reads("bravo", f)
    BY <1>10, <2>3, ZenonT(60) DEF BravoReadsOne, At
  <2>5. /\ line'["bravo"] = Tail(line["bravo"]) /\ state'["alpha"] = state["alpha"]
    BY <1>2, <2>4, ZenonT(60) DEF Reads
  <2> QED
    BY <1>3, <1>4, <2>1, <2>4, <2>5, ZenonT(60) DEF Path
<1>11. CASE TimersWrite
  <2>1. ASSUME NEW f, NEW st, NEW t \in Phases, TimerWrites(f, st),
               Run(line["bravo"] \o f, p, t),
               st \in {"MASTER_SELECT_ACK_RECEIVE", "MASTER_INFO_ACK_RECEIVE"} => t = "info"
        PROVE  Path'
    BY <1>3, <1>4, <2>1, SMTT(60) DEF TimerWrites, Path
  <2> DEFINE q2 == q1 \o <<Enq("alpha")>>
             f2 == <<Simple("EOT"), Enq("bravo")>>
             f3 == <<Simple("EOT"), Enq("alpha"), Enq("bravo")>>
  <2>2. Run(q2, p, "select") /\ q2 \in Seq(Msg)
    <3> HIDE DEF q1
    <3> QED
      BY <1>5, <1>6, <1>7, <1>8, ZenonT(60)
  <2>3. Run(q2 \o <<Enq("bravo")>>, p, "info")
    <3> HIDE DEF q2
    <3> QED
      BY <1>5, <1>6, <1>7, <2>2, ZenonT(60)
  <2>4. Run(q1 \o <<Enq("bravo")>>, p, "asked")
    <3> HIDE DEF q1
    <3> QED
      BY <1>5, <1>6, <1>7, <1>8, ZenonT(60)
  <2>5. ASSUME NEW a \in Msg, NEW b \in Msg, NEW c \in Msg
        PROVE  /\ line["bravo"] \o <<a, b>> = (line["bravo"] \o <<a>>) \o <<b>>
               /\ line["bravo"] \o <<a, b, c>> = ((line["bravo"] \o <<a>>) \o <<b>>) \o <<c>>
    BY <1>2, ConcatMore, ZenonT(60)
  <2>6. /\ line["bravo"] \o f2 = q1 \o <<Enq("bravo")>>
        /\ line["bravo"] \o f3 = q2 \o <<Enq("bravo")>>
    BY <1>7, <2>5, Zenon
  <2>7. /\ Run(line["bravo"] \o f3, p, "info")
        /\ Run(line["bravo"] \o f2, p, "asked")
        /\ Run(line["bravo"] \o <<Simple("EOT")>>, p, "neutral")
    BY <1>8, <2>3, <2>4, <2>6, Zenon
  <2>8. CASE TimerWrites(f3, "MASTER_SELECT_ACK_RECEIVE")
    BY <1>7, <2>1, <2>7, <2>8, ZenonT(60)
  <2>9. CASE TimerWrites(f2, "SLAVE_SELECT_RECEIVE")
    <3>1. "SLAVE_SELECT_RECEIVE" \notin {"MASTER_SELECT_ACK_RECEIVE", "MASTER_INFO_ACK_RECEIVE"}
      OBVIOUS
    <3> QED
      BY <1>7, <2>1, <2>7, <2>9, <3>1, ZenonT(60)
  <2>10. CASE TimerWrites(<<Simple("EOT")>>, "NEUTRAL")
    <3>1. "NEUTRAL" \notin {"MASTER_SELECT_ACK_RECEIVE", "MASTER_INFO_ACK_RECEIVE"}
      OBVIOUS
    <3> QED
      BY <1>7, <2>1, <2>7, <2>10, <3>1, ZenonT(60)
  <2> QED
    BY <1>11, <2>8, <2>9, <2>10, ZenonT(60) DEF TimersWrite
<1>12. CASE NothingSeen
  BY <1>1, <1>12, ZenonT(60) DEF NothingSeen, Path
<1>13. ASSUME NEW s \in Stations, enqueue_message(s) \/ get_next_message(s) PROVE Path'
  BY <1>1, <1>13, ZenonT(60) DEF enqueue_message, get_next_message, linkVars, Path
<1>14. ASSUME NEW s \in Stations, Lose(s) PROVE FALSE
  BY <1>14 DEF Lose, TypeOK
<1>15. ASSUME NEW s \in Stations, Unread(s) PROVE Path'
  <2>1. s = "alpha" /\ line' = [line EXCEPT ![s] = Tail(@)] /\ UNCHANGED <<up, state>>
    BY <1>4, <1>15, SMTT(60) DEF Unread, Stations
  <2>2. line'["bravo"] = line["bravo"]
    BY <2>1 DEF TypeOK, Stations
  <2> QED
    BY <1>1, <2>1, <2>2, ZenonT(60) DEF Path
<1> QED
  BY <1>1, <1>9, <1>10, <1>11, <1>12, <1>13, <1>14, <1>15, ZenonT(60)

\* Until the first frame is lost or garbled, however late the time-outs come,
\* bravo's process runs and the frames under way suit it.
THEOREM PathKept == Spec => [](faults = 0 => Path)
<1>1. Init => (faults = 0 => Path)
  <2> SUFFICES ASSUME Init PROVE Path
    OBVIOUS
  <2>1. /\ line["bravo"] = <<>> /\ up["bravo"] = "running"
        /\ state["alpha"] = "NEUTRAL" /\ state["bravo"] = "NEUTRAL"
    BY DEF Init, Stations
  <2>2. "neutral" \in Phases /\ At("neutral", "NEUTRAL") /\ Run(<<>>, "neutral", "neutral")
    BY RunEmpty DEF Phases, At
  <2> QED
    BY <2>1, <2>2, SMTT(60) DEF Path
<1>2. /\ TypeOK /\ (Undamaged => Roles) /\ (faults = 0 => Path) /\ [Next]_vars
      => (faults = 0 => Path)'
  BY NextPath
<1> QED
  BY <1>1, <1>2, TypeCorrect, RolesKept, PTL DEF Spec

-----------------------------------------------------------------------------
(* What bravo answers.                                                     *)

\* With a prompt timer alpha survives as well: no request of bravo reaches it
\* while it awaits the answer to its own.
Answered ==
    /\ up["alpha"] = "running"
    /\ state["alpha"] = "MASTER_SELECT_ACK_RECEIVE" =>
          AllIn(line["alpha"], {Simple("ACK"), Simple("EOT")})

\* bravo answers the selection with ACK or EOT, and alpha gets no answer that
\* it cannot handle.
LEMMA NextAnswered ==
    ASSUME TypeOK, Roles, Path, Prompt, Answered, [Next]_vars, faults' = 0
    PROVE  Answered'
<1> DEFINE Good == {Simple("ACK"), Simple("EOT")}
<1>1. \/ AlphaReadsOne /\ line["alpha"] # <<>>
      \/ BravoReadsOne /\ line["bravo"] # <<>>
      \/ TimersWrite
      \/ NothingSeen
      \/ \E s \in Stations : \/ enqueue_message(s) \/ get_next_message(s)
                             \/ Lose(s) \/ Unread(s)
  BY UndamagedSteps DEF Undamaged
<1>2. /\ line["alpha"] \in Seq(Msg) /\ line["bravo"] \in Seq(Msg)
      /\ "alpha" \in Stations /\ "bravo" \in Stations
      /\ Peer("alpha") = "bravo" /\ Peer("bravo") = "alpha"
  BY DEF TypeOK, Stations, Peer
<1>3. /\ up["alpha"] = "running"
      /\ state["alpha"] = "MASTER_SELECT_ACK_RECEIVE" => AllIn(line["alpha"], Good)
  BY DEF Answered
<1>4. state["alpha"] = "NEUTRAL" => line["alpha"] = <<>>
  BY DEF Prompt, Control
<1>5. CASE AlphaReadsOne /\ line["alpha"] # <<>>
  <2>1. /\ state["alpha"] = "MASTER_SELECT_ACK_RECEIVE"
           => Received("alpha") \in Good /\ AllIn(Tail(line["alpha"]), Good)
    BY <1>2, <1>3, <1>5, TailFacts, ZenonT(60) DEF Received
  <2>2. ~Startles(state["alpha"], Received("alpha"))
    <3>1. Simple("ACK").type = "ACK" /\ Simple("EOT").type = "EOT"
      BY FrameFacts, Zenon DEF Msg_type
    <3> QED
      BY <1>4, <1>5, <2>1, <3>1, ZenonT(60) DEF Startles
  <2>3. up' = up
    BY <1>5, <2>2, ZenonT(60) DEF AlphaReadsOne
  <2>4. line'["alpha"] = Tail(line["alpha"])
    BY <1>5 DEF AlphaReadsOne, Reads
  <2>5. state'["alpha"] = "MASTER_SELECT_ACK_RECEIVE" => state["alpha"] = "MASTER_SELECT_ACK_RECEIVE"
    BY <1>5 DEF AlphaReadsOne
  <2> QED
    BY <1>3, <2>1, <2>3, <2>4, <2>5, ZenonT(60) DEF Answered
<1>6. CASE BravoReadsOne /\ line["bravo"] # <<>>
  <2>1. PICK f : /\ Reads("bravo", f)
                 /\ \/ f \in {<<>>, <<Simple("ACK")>>, <<Simple("EOT")>>}
                    \/ /\ f = <<Enq("alpha")>> /\ state["bravo"] = "NEUTRAL"
                       /\ Received("bravo") = Enq("bravo")
    BY <1>6 DEF BravoReadsOne, Follows
  <2>2. /\ line'["alpha"] = line["alpha"] \o f
        /\ state'["alpha"] = state["alpha"] /\ up'["alpha"] = up["alpha"]
    BY <1>2, <2>1, ZenonT(60) DEF Reads
  <2>3. ASSUME state["alpha"] = "MASTER_SELECT_ACK_RECEIVE",
               state["bravo"] = "NEUTRAL", Received("bravo") = Enq("bravo")
        PROVE  FALSE
    <3>1. PICK p \in Phases : At(p, state["bravo"]) /\ Run(line["bravo"], p, "info")
      BY <2>3 DEF Path
    <3>2. PICK t \in Phases : Expects(p, Enq("bravo"), t) /\ Run(Tail(line["bravo"]), t, "info")
      BY <1>2, <1>6, <2>3, <3>1, RunHead, ZenonT(60) DEF Received
    <3>3. Tail(line["bravo"]) = <<>>
      <4>1. Enq("bravo") \notin Unanswered /\ EarlyIn(line["bravo"], Unanswered)
        BY FrameFacts, Zenon DEF Prompt, Control
      <4> QED
        BY <1>2, <1>6, <2>3, <4>1, TailFacts, ZenonT(60) DEF Received
    <3>4. t = "info"
      BY <3>2, <3>3, RunOfEmpty, ZenonT(60)
    <3>5. Enq("bravo") # Simple("EOT") /\ Enq("bravo") # Enq("alpha")
          /\ Enq("bravo") \notin {Info(n) : n \in Nat}
      <4>1. Enq("bravo").type = "ENQ" /\ Simple("EOT").type = "EOT"
            /\ Enq("bravo").prefix = "bravo" /\ Enq("alpha").prefix = "alpha"
            /\ \A n \in Nat : Info(n).type = "INFO"
        BY FrameFacts, Zenon DEF Msg_type
      <4> QED
        BY <4>1
    <3> QED
      BY <2>3, <3>1, <3>2, <3>4, <3>5, ZenonT(60) DEF Expects, At
  <2>4. f \in {<<>>, <<Simple("ACK")>>, <<Simple("EOT")>>}
           => AllIn(f, Good) /\ f \in Seq(Msg)
    <3>1. AllIn(<<>>, Good) /\ AllIn(<<Simple("ACK")>>, Good) /\ AllIn(<<Simple("EOT")>>, Good)
      BY DEF AllIn
    <3>2. <<>> \in Seq(Msg) /\ <<Simple("ACK")>> \in Seq(Msg) /\ <<Simple("EOT")>> \in Seq(Msg)
      BY RepliesTyped
    <3> QED
      BY <3>1, <3>2, Zenon
  <2>5. state["alpha"] = "MASTER_SELECT_ACK_RECEIVE" => AllIn(line["alpha"] \o f, Good)
    BY <1>2, <1>3, <2>1, <2>3, <2>4, WriteFacts, ZenonT(60)
  <2> QED
    BY <1>3, <2>2, <2>5, ZenonT(60) DEF Answered
<1>7. CASE TimersWrite
  <2>1. /\ line'["alpha"] = line["alpha"] /\ up' = up
        /\ state'["alpha"] = "MASTER_SELECT_ACK_RECEIVE" => state["alpha"] = "NEUTRAL"
    BY <1>7 DEF TimersWrite, TimerWrites
  <2>2. AllIn(<<>>, Good)
    BY DEF AllIn
  <2> QED
    BY <1>3, <1>4, <2>1, <2>2, ZenonT(60) DEF Answered
<1>8. CASE NothingSeen
  BY <1>8 DEF NothingSeen, Answered
<1>9. ASSUME NEW s \in Stations, enqueue_message(s) \/ get_next_message(s) PROVE Answered'
  BY <1>9, SMTT(60) DEF enqueue_message, get_next_message, linkVars, Answered
<1>10. ASSUME NEW s \in Stations, Lose(s) PROVE FALSE
  BY <1>10, SMTT(60) DEF Lose, TypeOK
<1>11. ASSUME NEW s \in Stations, Unread(s) PROVE FALSE
  BY <1>3, <1>11, SMTT(60) DEF Unread, Path, Stations
<1> QED
  BY <1>1, <1>5, <1>6, <1>7, <1>8, <1>9, <1>10, <1>11, ZenonT(60)

\* With time-outs that come when nothing travels, neither process ends before
\* the line has lost or garbled a frame, whatever is sent and whenever alpha
\* polls.
THEOREM BothSurvive ==
    ASSUME ~LateTimeouts
    PROVE  Spec => []NobodyDies
<1> DEFINE Clean == faults = 0 => Prompt /\ Answered
<1>1. Init => Clean
  <2> SUFFICES ASSUME Init PROVE Prompt /\ Answered
    OBVIOUS
  <2>1. /\ line["alpha"] = <<>> /\ line["bravo"] = <<>> /\ ~timer_queued
        /\ state["alpha"] = "NEUTRAL" /\ state["bravo"] = "NEUTRAL" /\ up["alpha"] = "running"
    BY DEF Init, Stations
  <2>2. \A S : AllIn(<<>>, S) /\ EarlyIn(<<>>, S)
    BY DEF AllIn, EarlyIn
  <2> QED
    BY <2>1, <2>2, SMTT(60) DEF Prompt, Control, Answered
<1>2. TypeOK /\ (Undamaged => Roles) /\ (faults = 0 => Path) /\ Clean /\ [Next]_vars => Clean'
  <2> SUFFICES ASSUME TypeOK, Undamaged => Roles, faults = 0 => Path, Clean, [Next]_vars, faults' = 0
               PROVE  Prompt' /\ Answered'
    OBVIOUS
  <2>1. Roles /\ faults = 0
    BY UndamagedSteps DEF Undamaged
  <2>2. Prompt'
    BY <2>1, NextPrompt, SMTT(60) DEF Undamaged
  <2>3. Answered'
    BY <2>1, NextAnswered, SMTT(60)
  <2> QED
    BY <2>2, <2>3, SMTT(60)
<1>3. (faults = 0 => Path) /\ Clean => NobodyDies
  BY DEF Path, Answered, NobodyDies, Stations
<1> QED
  BY <1>1, <1>2, <1>3, TypeCorrect, RolesKept, PathKept, PTL DEF Spec

-----------------------------------------------------------------------------
(* The payloads among the frames on the line.                              *)

\* BodiesUpTo is the recursive function it is defined to be.
LEMMA BodiesUpToUnfolds ==
    ASSUME NEW q \in Seq(Msg)
    PROVE  /\ BodiesUpTo(q) \in [0 .. Len(q) -> Seq(Nat)]
           /\ BodiesUpTo(q)[0] = <<>>
           /\ \A n \in 1 .. Len(q) :
                 BodiesUpTo(q)[n] = IF q[n].type = "INFO"
                                    THEN Append(BodiesUpTo(q)[n - 1], q[n].body)
                                    ELSE BodiesUpTo(q)[n - 1]
<1> DEFINE N == Len(q)
           Step(n, b) == IF q[n].type = "INFO" THEN Append(b, q[n].body) ELSE b
           G == [n \in 1 .. N |-> [b \in Seq(Nat) |-> Step(n, b)]]
           Unfolds(f) ==
              f = [n \in 0 .. N |-> IF n = 0 THEN <<>> ELSE Step(n, f[n - 1])]
<1>0. N \in Nat /\ <<>> \in Seq(Nat)
  OBVIOUS
<1>1. ASSUME NEW n \in 1 .. N, NEW b \in Seq(Nat) PROVE Step(n, b) \in Seq(Nat)
  <2>1. q[n] \in Msg
    OBVIOUS
  <2>2. q[n].body \in Nat
    BY <2>1, Zenon DEF Msg
  <2> QED
    BY <2>2
<1>2. BodiesUpTo(q) = CHOOSE h : Unfolds(h)
  BY DEF BodiesUpTo
<1> HIDE DEF N, Step
<1>3. G \in [1 .. N -> [Seq(Nat) -> Seq(Nat)]]
  BY <1>1
<1>4. PICK f : Loop(f, N, Seq(Nat), <<>>, G)
  <2> HIDE DEF G
  <2> QED
    BY <1>0, <1>3, LoopExists, Zenon
<1>5. Unfolds(f)
  <2>1. f \in [0 .. N -> Seq(Nat)] /\ f[0] = <<>>
    BY <1>4 DEF Loop
  <2>2. ASSUME NEW n \in 0 .. N, n # 0 PROVE f[n] = Step(n, f[n - 1])
    <3>1. n \in 1 .. N /\ n - 1 \in 0 .. N
      BY <1>0, <2>2, SMTT(60)
    <3>2. f[n] = G[n][f[n - 1]] /\ f[n - 1] \in Seq(Nat)
      BY <1>4, <2>1, <3>1, ZenonT(60) DEF Loop
    <3> QED
      BY <3>1, <3>2, SMTT(60)
  <2> QED
    BY <2>1, <2>2, SMTT(60)
<1>6. Unfolds(BodiesUpTo(q))
  BY <1>2, <1>5, Zenon
<1> HIDE DEF G
<1>7. /\ BodiesUpTo(q)[0] = <<>>
      /\ \A n \in 1 .. N : BodiesUpTo(q)[n] = Step(n, BodiesUpTo(q)[n - 1])
  BY <1>0, <1>6, SMTT(60)
<1>8. \A n \in 0 .. N : BodiesUpTo(q)[n] \in Seq(Nat)
  <2> DEFINE T == {n \in 0 .. N : BodiesUpTo(q)[n] \in Seq(Nat)}
  <2>1. 0 \in T
    <3>1. 0 \in 0 .. N
      BY <1>0
    <3> QED
      BY <1>0, <1>7, <3>1, Zenon
  <2>2. ASSUME NEW n \in 1 .. N, n - 1 \in T PROVE n \in T
    <3>1. n \in 0 .. N /\ BodiesUpTo(q)[n - 1] \in Seq(Nat)
      BY <1>0, <2>2, SMTT(60)
    <3>2. Step(n, BodiesUpTo(q)[n - 1]) \in Seq(Nat)
      BY <1>1, <3>1, SMTT(60)
    <3> QED
      BY <1>7, <3>1, <3>2, ZenonT(60)
  <2> HIDE DEF T
  <2>3. \A n \in 0 .. N : n \in T
    BY <1>0, <2>1, <2>2, BoundedInduction, ZenonT(60)
  <2> QED
    BY <2>3 DEF T
<1> QED
  BY <1>6, <1>7, <1>8, Zenon DEF N, Step

\* The bodies on a line are message numbers.
LEMMA BodiesTyped ==
    ASSUME NEW q \in Seq(Msg)
    PROVE  Bodies(q) \in Seq(Nat)
BY BodiesUpToUnfolds DEF Bodies

\* An empty line holds no message.
LEMMA BodiesEmpty == Bodies(<<>>) = <<>>
<1>1. <<>> \in Seq(Msg) /\ Len(<<>>) = 0
  OBVIOUS
<1> QED
  BY <1>1, BodiesUpToUnfolds, Zenon DEF Bodies

\* One more frame adds its body if it is an information message.
LEMMA BodiesAppend ==
    ASSUME NEW q \in Seq(Msg), NEW m \in Msg
    PROVE  Bodies(Append(q, m)) = IF m.type = "INFO" THEN Append(Bodies(q), m.body)
                                  ELSE Bodies(q)
<1> DEFINE r == Append(q, m)
           N == Len(q)
<1>1. /\ r \in Seq(Msg) /\ N \in Nat /\ Len(r) = N + 1 /\ r[N + 1] = m
      /\ \A n \in 1 .. N : r[n] = q[n]
  OBVIOUS
<1> HIDE DEF r
<1> DEFINE T == {n \in 0 .. N : BodiesUpTo(r)[n] = BodiesUpTo(q)[n]}
<1>2. 0 \in T
  BY <1>1, BodiesUpToUnfolds, SMTT(60)
<1>3. ASSUME NEW n \in 1 .. N, n - 1 \in T PROVE n \in T
  <2>1. BodiesUpTo(r)[n - 1] = BodiesUpTo(q)[n - 1] /\ n \in 0 .. N /\ n \in 1 .. N + 1
    BY <1>1, <1>3, SMTT(60)
  <2>2. BodiesUpTo(r)[n] = IF r[n].type = "INFO"
                           THEN Append(BodiesUpTo(r)[n - 1], r[n].body)
                           ELSE BodiesUpTo(r)[n - 1]
    BY <1>1, <2>1, BodiesUpToUnfolds, ZenonT(60)
  <2>3. BodiesUpTo(q)[n] = IF q[n].type = "INFO"
                           THEN Append(BodiesUpTo(q)[n - 1], q[n].body)
                           ELSE BodiesUpTo(q)[n - 1]
    BY BodiesUpToUnfolds, SMTT(60)
  <2> QED
    BY <1>1, <2>1, <2>2, <2>3, ZenonT(60)
<1>4. \A n \in 0 .. N : n \in T
  <2> HIDE DEF T, N
  <2> QED
    BY <1>1, <1>2, <1>3, BoundedInduction, Zenon
<1>5. BodiesUpTo(r)[N] = BodiesUpTo(q)[N]
  BY <1>1, <1>4, SMTT(60)
<1>6. BodiesUpTo(r)[N + 1] = IF r[N + 1].type = "INFO"
                             THEN Append(BodiesUpTo(r)[(N + 1) - 1], r[N + 1].body)
                             ELSE BodiesUpTo(r)[(N + 1) - 1]
  <2>1. N + 1 \in 1 .. Len(r)
    BY <1>1
  <2> HIDE DEF N
  <2> QED
    BY <1>1, <2>1, BodiesUpToUnfolds, ZenonT(60)
<1>7. (N + 1) - 1 = N
  BY <1>1
<1> QED
  BY <1>1, <1>5, <1>6, <1>7, ZenonT(60) DEF r, Bodies

\* What two stretches of frames carry, one behind the other.
LEMMA BodiesConcat ==
    ASSUME NEW q \in Seq(Msg), NEW r \in Seq(Msg)
    PROVE  Bodies(q \o r) = Bodies(q) \o Bodies(r)
<1> DEFINE T == {s \in Seq(Msg) : Bodies(q \o s) = Bodies(q) \o Bodies(s)}
<1>0. Bodies(q) \in Seq(Nat)
  BY BodiesTyped
<1>1. <<>> \in T
  BY <1>0, BodiesEmpty, ConcatEmptySeq, SMTT(60)
<1>2. ASSUME NEW s \in Seq(Msg), NEW m \in Msg, s \in T PROVE Append(s, m) \in T
  <2>1. q \o Append(s, m) = Append(q \o s, m) /\ q \o s \in Seq(Msg)
    OBVIOUS
  <2>2. Bodies(q \o s) = Bodies(q) \o Bodies(s) /\ Bodies(s) \in Seq(Nat)
    BY <1>2, BodiesTyped, SMTT(60)
  <2>3. m.body \in Nat
    BY Zenon DEF Msg
  <2>4. Bodies(q) \o Append(Bodies(s), m.body) = Append(Bodies(q) \o Bodies(s), m.body)
    <3>1. \A x, y \in Seq(Nat), e \in Nat : x \o Append(y, e) = Append(x \o y, e)
      BY ConcatAppend, SMTT(60)
    <3>2. Bodies(s) \in Seq(Nat)
      BY <2>2
    <3> QED
      BY <1>0, <2>3, <3>1, <3>2, ZenonT(60)
  <2>5. Bodies(Append(q \o s, m)) = Bodies(q) \o Bodies(Append(s, m))
    BY <2>1, <2>2, <2>4, BodiesAppend, ZenonT(60)
  <2>6. Append(s, m) \in Seq(Msg)
    OBVIOUS
  <2> QED
    BY <2>1, <2>5, <2>6, Zenon
<1>3. Seq(Msg) \subseteq T
  <2> HIDE DEF T
  <2> QED
    BY <1>1, <1>2, SeqInduction, SMTT(60)
<1> QED
  BY <1>3

\* A line of one frame.
LEMMA BodiesOne ==
    ASSUME NEW m \in Msg
    PROVE  Bodies(<<m>>) = IF m.type = "INFO" THEN <<m.body>> ELSE <<>>
<1>1. <<m>> = Append(<<>>, m) /\ <<>> \in Seq(Msg)
  OBVIOUS
<1>2. <<m.body>> = Append(<<>>, m.body)
  OBVIOUS
<1> QED
  BY <1>1, <1>2, BodiesAppend, BodiesEmpty, ZenonT(60)

\* The oldest frame and what the others carry.
LEMMA BodiesHead ==
    ASSUME NEW q \in Seq(Msg), q # <<>>
    PROVE  Bodies(q) = IF Head(q).type = "INFO" THEN <<Head(q).body>> \o Bodies(Tail(q))
                       ELSE Bodies(Tail(q))
<1>1. q = <<Head(q)>> \o Tail(q) /\ Head(q) \in Msg /\ Tail(q) \in Seq(Msg)
  OBVIOUS
<1>2. <<Head(q)>> \in Seq(Msg)
  BY <1>1
<1>3. Bodies(q) = Bodies(<<Head(q)>>) \o Bodies(Tail(q)) /\ Bodies(Tail(q)) \in Seq(Nat)
  BY <1>1, <1>2, BodiesConcat, BodiesTyped, ZenonT(60)
<1> QED
  BY <1>1, <1>3, BodiesOne, ConcatEmptySeq, ZenonT(60)

-----------------------------------------------------------------------------
(* The steps of the stations as steps of a message link.                   *)

\* What the link to station d has been given, carries and has handed over.
Sent(d) == enqueued[Peer(d)]

Pending(d) == Bodies(line[d]) \o output_queue[Peer(d)]

Arrived(d) == delivered[d] \o input_queue[d]

Still(d) ==
    Sent(d)' = Sent(d) /\ Pending(d)' = Pending(d) /\ Arrived(d)' = Arrived(d)

Sends(d) ==
    /\ Sent(d)' = Sent(d) + 1 /\ Pending(d)' = Append(Pending(d), Sent(d) + 1)
    /\ Arrived(d)' = Arrived(d)

Arrives(d) ==
    /\ Pending(d) # <<>> /\ Pending(d)' = Tail(Pending(d))
    /\ Arrived(d)' = Append(Arrived(d), Head(Pending(d))) /\ Sent(d)' = Sent(d)

Drops(d) ==
    Removed(Pending(d), Pending(d)') /\ Sent(d)' = Sent(d) /\ Arrived(d)' = Arrived(d)

\* A frame lost carries a message or does not.
LEMMA BodiesWithout ==
    ASSUME NEW q \in Seq(Msg), NEW i \in 1 .. Len(q)
    PROVE  \/ Bodies(Without(q, i)) = Bodies(q)
           \/ \E a, c \in Seq(Nat), x \in Nat :
                 Bodies(q) = a \o (<<x>> \o c) /\ Bodies(Without(q, i)) = a \o c
<1> DEFINE a == SubSeq(q, 1, i - 1)
           m == q[i]
           c == SubSeq(q, i + 1, Len(q))
<1>1. a \in Seq(Msg) /\ m \in Msg /\ c \in Seq(Msg)
  OBVIOUS
<1>2. q = a \o (<<m>> \o c)
  BY SplitAt, Zenon
<1>3. Without(q, i) = a \o c
  BY DEF Without
<1> HIDE DEF a, m, c
<1>4. /\ <<m>> \in Seq(Msg) /\ <<m>> \o c \in Seq(Msg)
      /\ Bodies(a) \in Seq(Nat) /\ Bodies(c) \in Seq(Nat)
      /\ m.body \in Nat
  <2>1. m.body \in Nat
    BY <1>1, Zenon DEF Msg
  <2> QED
    BY <1>1, <2>1, BodiesTyped, SMTT(60)
<1>5. Bodies(a \o c) = Bodies(a) \o Bodies(c)
  BY <1>1, BodiesConcat, ZenonT(60)
<1>6. Bodies(q) = Bodies(a) \o (Bodies(<<m>>) \o Bodies(c))
  <2>1. Bodies(a \o (<<m>> \o c)) = Bodies(a) \o Bodies(<<m>> \o c)
    BY <1>1, <1>4, BodiesConcat, Zenon
  <2>2. Bodies(<<m>> \o c) = Bodies(<<m>>) \o Bodies(c)
    BY <1>1, <1>4, BodiesConcat, ZenonT(60)
  <2> QED
    BY <1>2, <2>1, <2>2, ZenonT(60)
<1>7. CASE m.type = "INFO"
  BY <1>1, <1>3, <1>4, <1>5, <1>6, <1>7, BodiesOne, ZenonT(60)
<1>8. CASE m.type # "INFO"
  <2>1. Bodies(<<m>>) = <<>> /\ <<>> \o Bodies(c) = Bodies(c)
    BY <1>1, <1>4, <1>8, BodiesOne, ConcatEmptySeq, ZenonT(60)
  <2> QED
    BY <1>3, <1>5, <1>6, <2>1, Zenon
<1> QED
  BY <1>7, <1>8, Zenon

\* What a frame adds to the messages on the line.
LEMMA BodiesWritten ==
    ASSUME NEW q \in Seq(Msg)
    PROVE  /\ Bodies(q \o <<>>) = Bodies(q)
           /\ \A m \in Msg : Bodies(q \o <<m>>) = IF m.type = "INFO" THEN Bodies(q) \o <<m.body>>
                                                  ELSE Bodies(q)
<1>1. q \o <<>> = q
  BY ConcatEmptySeq, Zenon
<1>2. ASSUME NEW m \in Msg
      PROVE  Bodies(q \o <<m>>) = IF m.type = "INFO" THEN Bodies(q) \o <<m.body>> ELSE Bodies(q)
  <2>1. <<m>> \in Seq(Msg)
    OBVIOUS
  <2>2. Bodies(q \o <<m>>) = Bodies(q) \o Bodies(<<m>>)
    BY <2>1, BodiesConcat, Zenon
  <2>3. Bodies(q) \o <<>> = Bodies(q)
    BY BodiesTyped, ConcatEmptySeq, ZenonT(60)
  <2> QED
    BY <2>2, <2>3, BodiesOne, Zenon
<1> QED
  BY <1>1, <1>2, ZenonT(60)

\* A step that leaves what is pending, arrived and sent in one direction.
LEMMA StillIf ==
    ASSUME NEW d \in Stations, Bodies(line'[d]) = Bodies(line[d]),
           output_queue'[Peer(d)] = output_queue[Peer(d)],
           enqueued'[Peer(d)] = enqueued[Peer(d)],
           delivered'[d] \o input_queue'[d] = delivered[d] \o input_queue[d]
    PROVE  Still(d)
BY DEF Still, Sent, Pending, Arrived

\* The types of what the mapping is made of.
LEMMA QueuesTyped ==
    ASSUME TypeOK
    PROVE  /\ "alpha" \in Stations /\ "bravo" \in Stations
           /\ Peer("alpha") = "bravo" /\ Peer("bravo") = "alpha"
           /\ \A d \in Stations :
                 /\ Peer(d) \in Stations /\ Peer(d) # d /\ Peer(Peer(d)) = d
                 /\ line[d] \in Seq(Msg) /\ Bodies(line[d]) \in Seq(Nat)
                 /\ output_queue[d] \in Seq(Nat) /\ input_queue[d] \in Seq(Nat)
                 /\ delivered[d] \in Seq(Nat) /\ enqueued[d] \in Nat
<1>1. /\ "alpha" \in Stations /\ "bravo" \in Stations
      /\ Peer("alpha") = "bravo" /\ Peer("bravo") = "alpha"
      /\ \A d \in Stations : Peer(d) \in Stations /\ Peer(d) # d /\ Peer(Peer(d)) = d
  BY Zenon DEF Stations, Peer
<1>2. ASSUME NEW d \in Stations
      PROVE  /\ line[d] \in Seq(Msg) /\ output_queue[d] \in Seq(Nat)
             /\ input_queue[d] \in Seq(Nat) /\ delivered[d] \in Seq(Nat) /\ enqueued[d] \in Nat
  BY DEF TypeOK
<1> QED
  BY <1>1, <1>2, BodiesTyped, ZenonT(60)

\* alpha's reading changes nothing: a message moves from its output_queue to the line.
LEMMA AlphaLink ==
    ASSUME TypeOK, Roles, AlphaReadsOne, line["alpha"] # <<>>
    PROVE  Still("alpha") /\ Still("bravo")
<1>1. /\ Bodies(Tail(line["alpha"])) = Bodies(line["alpha"])
  <2>1. Head(line["alpha"]) \in FromBravo
    BY QueuesTyped, TailFacts, SMTT(60) DEF Roles
  <2>2. Head(line["alpha"]).type # "INFO"
    BY <2>1, FrameFacts, Zenon
  <2> QED
    BY <2>2, QueuesTyped, BodiesHead, ZenonT(60)
<1>2. \A f : Reads("alpha", f) =>
                /\ Bodies(line'["alpha"]) = Bodies(line["alpha"])
                /\ line'["bravo"] = line["bravo"] \o f
                /\ UNCHANGED <<enqueued, delivered>>
  BY <1>1, QueuesTyped, ZenonT(60) DEF Reads
<1>3. UNCHANGED input_queue
  BY DEF AlphaReadsOne
<1>4. ASSUME NEW f, Reads("alpha", f), output_queue'["bravo"] = output_queue["bravo"]
      PROVE  Still("alpha")
  BY <1>2, <1>3, <1>4, QueuesTyped, StillIf, ZenonT(60)
<1>5. ASSUME NEW f, Reads("alpha", f), UNCHANGED output_queue,
             Bodies(line["bravo"] \o f) = Bodies(line["bravo"])
      PROVE  Still("alpha") /\ Still("bravo")
  BY <1>2, <1>3, <1>4, <1>5, QueuesTyped, StillIf, ZenonT(60)
<1>6. CASE Reads("alpha", <<>>) /\ UNCHANGED output_queue
  BY <1>5, <1>6, QueuesTyped, BodiesWritten, ZenonT(60)
<1>7. CASE Reads("alpha", <<Simple("EOT")>>) /\ UNCHANGED output_queue
  <2>1. Simple("EOT") \in Msg /\ Simple("EOT").type # "INFO"
    BY FramesTyped, FrameFacts, Zenon DEF Msg_type
  <2>2. Bodies(line["bravo"] \o <<Simple("EOT")>>) = Bodies(line["bravo"])
    BY <2>1, QueuesTyped, BodiesWritten, Zenon
  <2> QED
    BY <1>5, <1>7, <2>2, ZenonT(60)
<1>8. CASE /\ output_queue["alpha"] # <<>>
           /\ Reads("alpha", <<Info(Head(output_queue["alpha"]))>>)
           /\ output_queue' = [output_queue EXCEPT !["alpha"] = Tail(@)]
  <2> DEFINE n == Head(output_queue["alpha"])
  <2>1. /\ n \in Nat /\ output_queue'["alpha"] = Tail(output_queue["alpha"])
        /\ output_queue'["bravo"] = output_queue["bravo"]
    <3>1. output_queue["alpha"] \in Seq(Nat)
      BY QueuesTyped, SMTT(60)
    <3>2. n \in Nat
      BY <1>8, <3>1, SMTT(60)
    <3> QED
      BY <1>8, <3>2, ZenonT(60) DEF TypeOK, Stations
  <2> HIDE DEF n
  <2>2. Info(n) \in Msg /\ Info(n).type = "INFO" /\ Info(n).body = n
    BY <2>1, FramesTyped, Zenon DEF Info
  <2>3. Bodies(line["bravo"] \o <<Info(n)>>) = Bodies(line["bravo"]) \o <<n>>
    BY <2>2, QueuesTyped, BodiesWritten, ZenonT(60)
  <2>4. line'["bravo"] = line["bravo"] \o <<Info(n)>>
    BY <1>2, <1>8, Zenon DEF n
  <2>5. (Bodies(line["bravo"]) \o <<n>>) \o Tail(output_queue["alpha"])
           = Bodies(line["bravo"]) \o output_queue["alpha"]
    <3>1. Bodies(line["bravo"]) \in Seq(Nat) /\ output_queue["alpha"] \in Seq(Nat)
      BY QueuesTyped
    <3> QED
      BY <1>8, <3>1, Moved, ZenonT(60) DEF n
  <2>6. Pending("bravo")' = Pending("bravo")
    BY <2>1, <2>3, <2>4, <2>5, QueuesTyped, ZenonT(60) DEF Pending
  <2>7. Still("bravo")
    BY <1>2, <1>3, <1>8, <2>6, QueuesTyped, ZenonT(60) DEF Still, Sent, Arrived
  <2> QED
    BY <1>4, <1>8, <2>1, <2>7, ZenonT(60)
<1> QED
  BY <1>6, <1>7, <1>8, ZenonT(60) DEF AlphaReadsOne

\* bravo reads: an information message arrives, or ends bravo's process.
LEMMA BravoLink ==
    ASSUME TypeOK, Roles, faults = 0 => Path, BravoReadsOne, line["bravo"] # <<>>
    PROVE  /\ Still("alpha")
           /\ \/ Still("bravo") \/ Arrives("bravo")
              \/ Drops("bravo") /\ faults' # 0
<1> DEFINE m == Received("bravo")
           rest == Tail(line["bravo"])
           out == output_queue["alpha"]
<1>1. /\ line["bravo"] \in Seq(Msg) /\ line["alpha"] \in Seq(Msg) /\ out \in Seq(Nat)
      /\ input_queue["bravo"] \in Seq(Nat) /\ delivered["bravo"] \in Seq(Nat)
      /\ "alpha" \in Stations /\ "bravo" \in Stations
      /\ Peer("alpha") = "bravo" /\ Peer("bravo") = "alpha"
  BY QueuesTyped, ZenonT(60)
<1>2. m \in FromAlpha /\ m \in Msg /\ rest \in Seq(Msg)
  BY <1>1, TailFacts, SMTT(60) DEF Roles, Received
<1>3. /\ m.body \in Nat /\ Bodies(rest) \in Seq(Nat)
      /\ Bodies(line["bravo"]) = IF m.type = "INFO" THEN <<m.body>> \o Bodies(rest)
                                 ELSE Bodies(rest)
  <2>1. m.body \in Nat
    BY <1>2, Zenon DEF Msg
  <2> QED
    BY <1>1, <1>2, <2>1, BodiesHead, BodiesTyped, ZenonT(60) DEF Received
<1>4. \A f : Reads("bravo", f) =>
                /\ line'["bravo"] = rest /\ line'["alpha"] = line["alpha"] \o f
                /\ UNCHANGED <<enqueued, delivered, faults>>
  BY <1>1, ZenonT(60) DEF Reads
<1> HIDE DEF m, rest, out
<1>5. UNCHANGED output_queue
  BY SMTT(60) DEF BravoReadsOne
<1>6. ASSUME NEW f, Reads("bravo", f), input_queue'["alpha"] = input_queue["alpha"],
             f = <<>> \/ \E x \in Msg : f = <<x>> /\ x.type # "INFO"
      PROVE  Still("alpha")
  <2>1. Bodies(line["alpha"] \o f) = Bodies(line["alpha"])
    BY <1>1, <1>6, BodiesWritten, ZenonT(60)
  <2> QED
    BY <1>1, <1>4, <1>5, <1>6, <2>1, StillIf, Zenon
<1>7. /\ Simple("ACK") \in Msg /\ Simple("ACK").type # "INFO"
      /\ Simple("EOT") \in Msg /\ Simple("EOT").type # "INFO"
      /\ Enq("alpha") \in Msg /\ Enq("alpha").type # "INFO"
      /\ Enq("bravo").type # "INFO"
  BY FramesTyped, FrameFacts, ZenonT(60) DEF Msg_type
<1>8. ASSUME m.type = "INFO"
      PROVE  /\ Pending("bravo") = <<m.body>> \o (Bodies(rest) \o out)
             /\ Bodies(rest) \o out \in Seq(Nat)
  <2>1. <<m.body>> \in Seq(Nat) /\ Bodies(rest) \o out \in Seq(Nat)
    BY <1>1, <1>3, SMTT(60)
  <2> DEFINE b == <<m.body>>
  <2> HIDE DEF b
  <2>2. (b \o Bodies(rest)) \o out = b \o (Bodies(rest) \o out)
    BY <1>1, <1>3, <2>1, ConcatAssociative, SMTT(60) DEF b
  <2>3. Pending("bravo") = (b \o Bodies(rest)) \o out
    BY <1>1, <1>3, <1>8, ZenonT(60) DEF Pending, b, out
  <2> QED
    BY <2>1, <2>2, <2>3, ZenonT(60) DEF b
<1>9. ASSUME NEW f, Reads("bravo", f)
      PROVE  Pending("bravo")' = Bodies(rest) \o out /\ Sent("bravo")' = Sent("bravo")
  BY <1>1, <1>4, <1>5, <1>9, ZenonT(60) DEF Pending, Sent, out
<1>10. CASE /\ Accepts(state["bravo"], m)
            /\ Reads("bravo", <<Simple("ACK")>>)
            /\ input_queue' = [input_queue EXCEPT !["bravo"] = Append(@, m.body)]
  <2>1. /\ input_queue'["alpha"] = input_queue["alpha"]
        /\ input_queue'["bravo"] = Append(input_queue["bravo"], m.body)
    BY <1>10, ZenonT(60) DEF TypeOK, Stations
  <2>2. Still("alpha")
    BY <1>6, <1>7, <1>10, <2>1, ZenonT(60)
  <2>3. m.type = "INFO"
    BY <1>10, SMTT(60) DEF Accepts
  <2> DEFINE p == Bodies(rest) \o out
  <2>4. p \in Seq(Nat) /\ Pending("bravo") = <<m.body>> \o p /\ Pending("bravo")' = p
    BY <1>8, <1>9, <1>10, <2>3, ZenonT(60)
  <2> HIDE DEF p
  <2>5. Pending("bravo") # <<>> /\ Head(Pending("bravo")) = m.body /\ Tail(Pending("bravo")) = p
    BY <1>3, <2>4, HeadTailOne, ZenonT(60)
  <2>6. delivered["bravo"] \o Append(input_queue["bravo"], m.body)
           = Append(delivered["bravo"] \o input_queue["bravo"], m.body)
    <3> DEFINE a == delivered["bravo"]
               b == input_queue["bravo"]
               x == m.body
    <3>1. a \in Seq(Nat) /\ b \in Seq(Nat) /\ x \in Nat
      BY <1>1, <1>3, ZenonT(60)
    <3> HIDE DEF a, b, x
    <3>2. a \o Append(b, x) = Append(a \o b, x)
      BY <3>1, ConcatAppend, SMTT(60)
    <3> QED
      BY <3>2, ZenonT(60) DEF a, b, x
  <2>7. Arrived("bravo")' = Append(Arrived("bravo"), m.body)
    BY <1>4, <1>10, <2>1, <2>6, ZenonT(60) DEF Arrived
  <2> QED
    BY <1>9, <1>10, <2>2, <2>4, <2>5, <2>7, ZenonT(60) DEF Arrives
<1>11. ASSUME NEW f, Reads("bravo", f), UNCHANGED input_queue, m.type # "INFO"
       PROVE  Still("bravo")
  BY <1>1, <1>3, <1>4, <1>5, <1>11, StillIf, ZenonT(60)
<1>12. ASSUME NEW f \in Seq(Msg), UNCHANGED input_queue, Reads("bravo", f),
              NEW st2, Follows(state["bravo"], m, f, st2)
       PROVE  Still("alpha") /\ Still("bravo")
  <2>1. m.type # "INFO" /\ (f = <<>> \/ \E x \in Msg : f = <<x>> /\ x.type # "INFO")
    BY <1>7, <1>12, ZenonT(60) DEF Follows
  <2> QED
    BY <1>6, <1>11, <1>12, <2>1, ZenonT(60)
<1>13. CASE UNCHANGED input_queue /\ Reads("bravo", <<>>) /\ Refuses(state["bravo"], m)
  <2>1. faults' # 0
    <3>1. Path => ~Refuses(state["bravo"], m)
      <4> SUFFICES ASSUME Path PROVE ~Refuses(state["bravo"], m)
        BY Zenon
      <4>1. PICK p \in Phases, r \in Phases :
                At(p, state["bravo"]) /\ Run(line["bravo"], p, r)
        BY Zenon DEF Path
      <4>2. PICK t \in Phases : Expects(p, m, t)
        BY <1>1, <4>1, RunHead, ZenonT(60) DEF m, Received
      <4> QED
        BY <1>2, <4>1, <4>2, BravoFollows, ZenonT(60)
    <3> QED
      BY <1>4, <1>13, <3>1, ZenonT(60)
  <2>2. Still("alpha")
    <3>1. input_queue'["alpha"] = input_queue["alpha"]
      BY <1>13
    <3> QED
      BY <1>6, <1>13, <3>1, Zenon
  <2>3. CASE m.type # "INFO"
    BY <1>11, <1>13, <2>2, <2>3, ZenonT(60)
  <2>4. CASE m.type = "INFO"
    <3> DEFINE p == Bodies(rest) \o out
    <3>1. p \in Seq(Nat) /\ Pending("bravo") = <<m.body>> \o p /\ Pending("bravo")' = p
      BY <1>8, <1>9, <1>13, <2>4, ZenonT(60)
    <3> HIDE DEF p
    <3>2. <<>> \o (<<m.body>> \o p) = <<m.body>> \o p /\ <<>> \o p = p /\ <<>> \in Seq(Nat)
      BY <1>3, <3>1, SMTT(60)
    <3>3. Removed(<<>> \o (<<m.body>> \o p), <<>> \o p)
      BY <1>3, <3>1, <3>2, RemovedConcat, ZenonT(60)
    <3>4. Removed(Pending("bravo"), Pending("bravo")')
      BY <3>1, <3>2, <3>3, Zenon
    <3>5. Arrived("bravo")' = Arrived("bravo")
      BY <1>4, <1>13, ZenonT(60) DEF Arrived
    <3> QED
      BY <1>9, <1>13, <2>1, <2>2, <3>4, <3>5, ZenonT(60) DEF Drops
  <2> QED
    BY <2>3, <2>4, ZenonT(60)
<1>14. CASE \E f \in Seq(Msg) : /\ UNCHANGED input_queue /\ Reads("bravo", f)
                                /\ Follows(state["bravo"], m, f, state'["bravo"])
  BY <1>12, <1>14, Zenon
<1> QED
  BY <1>10, <1>13, <1>14, ZenonT(60) DEF BravoReadsOne, m

\* alpha's timer handlers write no information message.
LEMMA TimersLink ==
    ASSUME TypeOK, TimersWrite
    PROVE  Still("alpha") /\ Still("bravo")
<1>1. /\ line["bravo"] \in Seq(Msg) /\ "alpha" \in Stations /\ "bravo" \in Stations
  BY QueuesTyped, SMTT(60)
<1>2. ASSUME NEW f, NEW st, TimerWrites(f, st), Bodies(line["bravo"] \o f) = Bodies(line["bravo"])
      PROVE  Still("alpha") /\ Still("bravo")
  BY <1>1, <1>2, StillIf, ZenonT(60) DEF TimerWrites
<1> DEFINE eot == Simple("EOT")
           a == Enq("alpha")
           b == Enq("bravo")
<1>3. /\ eot \in Msg /\ eot.type # "INFO" /\ a \in Msg /\ a.type # "INFO"
      /\ b \in Msg /\ b.type # "INFO"
  BY FramesTyped, FrameFacts, Zenon DEF Msg_type
<1> HIDE DEF eot, a, b
<1>4. ASSUME NEW q \in Seq(Msg), NEW m \in Msg, m.type # "INFO"
      PROVE  Bodies(q \o <<m>>) = Bodies(q) /\ q \o <<m>> \in Seq(Msg)
  <2>1. q \o <<m>> \in Seq(Msg)
    OBVIOUS
  <2> QED
    BY <1>4, <2>1, BodiesWritten, ZenonT(60)
<1> DEFINE q1 == line["bravo"] \o <<eot>>
           q2 == q1 \o <<a>>
<1>5. Bodies(q1) = Bodies(line["bravo"]) /\ q1 \in Seq(Msg)
  BY <1>1, <1>3, <1>4, ZenonT(60)
<1>6. /\ Bodies(q2) = Bodies(line["bravo"]) /\ q2 \in Seq(Msg)
      /\ Bodies(q1 \o <<b>>) = Bodies(line["bravo"])
  <2> HIDE DEF q1
  <2> QED
    BY <1>3, <1>4, <1>5, ZenonT(60)
<1>7. Bodies(q2 \o <<b>>) = Bodies(line["bravo"])
  <2> HIDE DEF q2
  <2> QED
    BY <1>3, <1>4, <1>6, ZenonT(60)
<1>8. ASSUME NEW x \in Msg, NEW y \in Msg, NEW z \in Msg
      PROVE  /\ line["bravo"] \o <<x, y>> = (line["bravo"] \o <<x>>) \o <<y>>
             /\ line["bravo"] \o <<x, y, z>> = ((line["bravo"] \o <<x>>) \o <<y>>) \o <<z>>
  BY <1>1, ConcatMore, ZenonT(60)
<1>9. /\ line["bravo"] \o <<eot, b>> = q1 \o <<b>>
      /\ line["bravo"] \o <<eot, a, b>> = q2 \o <<b>>
  BY <1>3, <1>8, ZenonT(60)
<1>10. /\ Bodies(line["bravo"] \o <<eot, b>>) = Bodies(line["bravo"])
       /\ Bodies(line["bravo"] \o <<eot, a, b>>) = Bodies(line["bravo"])
       /\ Bodies(line["bravo"] \o <<eot>>) = Bodies(line["bravo"])
  BY <1>5, <1>6, <1>7, <1>9, ZenonT(60)
<1>11. CASE TimerWrites(<<eot, a, b>>, "MASTER_SELECT_ACK_RECEIVE")
  BY <1>2, <1>10, <1>11, ZenonT(60)
<1>12. CASE TimerWrites(<<eot, b>>, "SLAVE_SELECT_RECEIVE")
  BY <1>2, <1>10, <1>12, ZenonT(60)
<1>13. CASE TimerWrites(<<eot>>, "NEUTRAL")
  BY <1>2, <1>10, <1>13, ZenonT(60)
<1> QED
  BY <1>11, <1>12, <1>13, ZenonT(60) DEF TimersWrite, eot, a, b

\* The applications send, and take what has arrived.
LEMMA EnqueueLink ==
    ASSUME TypeOK, NEW s \in Stations, enqueue_message(s)
    PROVE  Sends(Peer(s)) /\ Still(s)
<1> DEFINE d == Peer(s)
           n == enqueued[s] + 1
<1>1. /\ d \in Stations /\ d # s /\ Peer(d) = s /\ Bodies(line[d]) \in Seq(Nat)
      /\ output_queue[s] \in Seq(Nat) /\ n \in Nat
  BY QueuesTyped, SMTT(60)
<1>2. /\ enqueued'[s] = n /\ enqueued'[d] = enqueued[d]
      /\ output_queue'[s] = Append(output_queue[s], n)
      /\ output_queue'[d] = output_queue[d]
      /\ UNCHANGED <<line, input_queue, delivered>>
  BY <1>1, SMTT(60) DEF enqueue_message, TypeOK, linkVars
<1> HIDE DEF n
<1>3. Bodies(line[d]) \o Append(output_queue[s], n) = Append(Bodies(line[d]) \o output_queue[s], n)
  <2> DEFINE a == Bodies(line[d])
             b == output_queue[s]
  <2>1. a \in Seq(Nat) /\ b \in Seq(Nat)
    BY <1>1, SMTT(60)
  <2> HIDE DEF a, b
  <2>2. a \o Append(b, n) = Append(a \o b, n)
    BY <1>1, <2>1, ConcatAppend, SMTT(60)
  <2> QED
    BY <2>2, SMTT(60) DEF a, b
<1>4. Sends(d)
  BY <1>1, <1>2, <1>3, ZenonT(60) DEF Sends, Sent, Pending, Arrived, n
<1>5. Still(s)
  BY <1>2, StillIf, SMTT(60)
<1> QED
  BY <1>4, <1>5, ZenonT(60)

\* get_next_message moves a message that has arrived already.
LEMMA GetLink ==
    ASSUME TypeOK, NEW s \in Stations, get_next_message(s)
    PROVE  \A d \in Stations : Still(d)
<1>1. /\ UNCHANGED <<line, output_queue, enqueued>> /\ input_queue[s] # <<>>
      /\ delivered' = [delivered EXCEPT ![s] = Append(@, Head(input_queue[s]))]
      /\ input_queue' = [input_queue EXCEPT ![s] = Tail(@)]
  BY DEF get_next_message, linkVars
<1>2. Append(delivered[s], Head(input_queue[s])) \o Tail(input_queue[s])
         = delivered[s] \o input_queue[s]
  <2> DEFINE a == delivered[s]
             q == input_queue[s]
  <2>1. a \in Seq(Nat) /\ q \in Seq(Nat) /\ q # <<>>
    BY <1>1, QueuesTyped, SMTT(60)
  <2> HIDE DEF a, q
  <2>2. Append(a, Head(q)) \o Tail(q) = a \o q
    BY <2>1, Moved, ZenonT(60)
  <2> QED
    BY <2>2, ZenonT(60) DEF a, q
<1>3. ASSUME NEW d \in Stations
      PROVE  delivered'[d] \o input_queue'[d] = delivered[d] \o input_queue[d]
  BY <1>1, <1>2, Zenon DEF TypeOK
<1> QED
  BY <1>1, <1>3, StillIf, ZenonT(60)

\* Frames lost on the line, or not read.
LEMMA LoseLink ==
    ASSUME TypeOK, NEW s \in Stations, Lose(s)
    PROVE  Still(Peer(s)) /\ (Still(s) \/ Drops(s)) /\ faults' # 0
<1> DEFINE d == Peer(s)
           out == output_queue[d]
<1>1. /\ d \in Stations /\ d # s /\ line[s] \in Seq(Msg) /\ out \in Seq(Nat)
  BY QueuesTyped, SMTT(60)
<1>2. faults' # 0 /\ UNCHANGED <<output_queue, enqueued, delivered, input_queue>>
  BY DEF Lose, TypeOK, masterVars, appVars
<1>3. PICK i \in 1 .. Len(line[s]) : line' = [line EXCEPT ![s] = Without(@, i)]
  BY ZenonT(60) DEF Lose
<1>4. line'[s] = Without(line[s], i) /\ line'[d] = line[d]
  BY <1>1, <1>3, ZenonT(60) DEF TypeOK
<1>5. Still(d)
  BY <1>1, <1>2, <1>4, StillIf, ZenonT(60)
<1>6. CASE Bodies(Without(line[s], i)) = Bodies(line[s])
  BY <1>2, <1>4, <1>5, <1>6, StillIf, ZenonT(60)
<1>7. ASSUME NEW a \in Seq(Nat), NEW c \in Seq(Nat), NEW x \in Nat,
             Bodies(line[s]) = a \o (<<x>> \o c), Bodies(Without(line[s], i)) = a \o c
      PROVE  Drops(s)
  <2>1. Removed(a \o (<<x>> \o (c \o out)), a \o (c \o out))
    <3>1. c \o out \in Seq(Nat)
      BY <1>1, SMTT(60)
    <3> QED
      BY <3>1, RemovedConcat, ZenonT(60)
  <2>2. (a \o c) \o out = a \o (c \o out)
    BY <1>1, NatConcat, ZenonT(60)
  <2>3. (a \o (<<x>> \o c)) \o out = a \o (<<x>> \o (c \o out))
    <3> DEFINE b == <<x>>
    <3>1. b \in Seq(Nat) /\ b \o c \in Seq(Nat)
      OBVIOUS
    <3> HIDE DEF b, out
    <3>2. (a \o (b \o c)) \o out = a \o ((b \o c) \o out)
      BY <1>1, <3>1, NatConcat, ZenonT(60)
    <3>3. (b \o c) \o out = b \o (c \o out)
      BY <1>1, <3>1, NatConcat, ZenonT(60)
    <3> QED
      BY <3>2, <3>3, ZenonT(60) DEF b
  <2>4. Removed(Bodies(line[s]) \o out, Bodies(Without(line[s], i)) \o out)
    BY <1>7, <2>1, <2>2, <2>3, Zenon
  <2>5. Pending(s) = Bodies(line[s]) \o out /\ Pending(s)' = Bodies(Without(line[s], i)) \o out
    BY <1>2, <1>4, ZenonT(60) DEF Pending
  <2> QED
    BY <1>2, <2>4, <2>5, ZenonT(60) DEF Drops, Sent, Arrived
<1> QED
  BY <1>1, <1>2, <1>5, <1>6, <1>7, BodiesWithout, ZenonT(60)

\* What arrives after the end of the process is gone; a message can be among it only
\* after a fault.
LEMMA UnreadLink ==
    ASSUME TypeOK, Roles, faults = 0 => Path, NEW s \in Stations, Unread(s)
    PROVE  Still(Peer(s)) /\ (Still(s) \/ (Drops(s) /\ faults' # 0))
<1> DEFINE d == Peer(s)
           out == output_queue[d]
           rest == Tail(line[s])
           m == Head(line[s])
<1>1. /\ d \in Stations /\ d # s /\ line[s] \in Seq(Msg) /\ out \in Seq(Nat)
  BY QueuesTyped, SMTT(60)
<1>2. /\ line[s] # <<>> /\ line' = [line EXCEPT ![s] = rest] /\ up[s] # "running"
      /\ UNCHANGED <<faults, output_queue, enqueued, delivered, input_queue>>
  BY DEF Unread, masterVars, appVars
<1>3. line'[s] = rest /\ line'[d] = line[d]
  BY <1>1, <1>2, ZenonT(60) DEF TypeOK
<1>4. Still(d)
  BY <1>1, <1>2, <1>3, StillIf, ZenonT(60)
<1>5. /\ m \in Msg /\ rest \in Seq(Msg) /\ Bodies(rest) \in Seq(Nat)
      /\ Bodies(line[s]) = IF m.type = "INFO" THEN <<m.body>> \o Bodies(rest) ELSE Bodies(rest)
  <2>1. m \in Msg /\ rest \in Seq(Msg)
    BY <1>1, <1>2, HeadTailProperties, ZenonT(60)
  <2>2. Bodies(rest) \in Seq(Nat)
    BY <2>1, BodiesTyped, ZenonT(60)
  <2> QED
    BY <1>1, <1>2, <2>1, <2>2, BodiesHead, ZenonT(60)
<1>6. m.body \in Nat
  BY <1>5, ZenonT(60) DEF Msg
<1>7. CASE m.type # "INFO"
  BY <1>2, <1>3, <1>4, <1>5, <1>7, StillIf, ZenonT(60)
<1>8. CASE m.type = "INFO"
  <2>1. s = "bravo"
    <3>1. s = "alpha" => m \in FromBravo
      BY <1>1, <1>2, TailFacts, ZenonT(60) DEF Roles
    <3> QED
      BY <1>8, <3>1, FrameFacts, ZenonT(60) DEF Stations
  <2>2. faults' # 0
    BY <1>2, <2>1, ZenonT(60) DEF Path
  <2> DEFINE b == <<m.body>>
             p == Bodies(rest) \o out
  <2>3. b \in Seq(Nat) /\ p \in Seq(Nat)
    BY <1>1, <1>5, <1>6, SMTT(60)
  <2>4. Pending(s) = (b \o Bodies(rest)) \o out /\ Pending(s)' = p
    BY <1>2, <1>3, <1>5, <1>8, ZenonT(60) DEF Pending
  <2>5. (b \o Bodies(rest)) \o out = b \o p
    <3> HIDE DEF b, rest, out
    <3> QED
      BY <1>1, <1>5, <2>3, NatConcat, ZenonT(60)
  <2> HIDE DEF p
  <2>6. <<>> \o (b \o p) = b \o p /\ <<>> \o p = p /\ <<>> \in Seq(Nat)
    BY <1>6, <2>3, SMTT(60)
  <2>7. Removed(<<>> \o (b \o p), <<>> \o p)
    BY <1>6, <2>3, <2>6, RemovedConcat, ZenonT(60)
  <2>8. Removed(Pending(s), Pending(s)')
    <3> HIDE DEF b
    <3> QED
      BY <2>4, <2>5, <2>6, <2>7, ZenonT(60)
  <2>9. Sent(s)' = Sent(s) /\ Arrived(s)' = Arrived(s)
    BY <1>2, Zenon DEF Sent, Arrived
  <2>10. Drops(s)
    BY <2>8, <2>9, ZenonT(60) DEF Drops
  <2> QED
    BY <1>4, <2>2, <2>10, ZenonT(60)
<1> QED
  BY <1>7, <1>8, ZenonT(60)

\* Each step of the stations and the line is a step of the link: one end
\* sends, one message arrives, one is lost, which takes a fault, or nothing
\* happens that the applications could see.
LEMMA LinkStep ==
    ASSUME TypeOK, Undamaged => Roles, faults = 0 => Path, Undamaged', [Next]_vars
    PROVE  \/ \A d \in Stations : Still(d)
           \/ \E d \in Stations : /\ Still(Peer(d))
                                  /\ Sends(d) \/ Arrives(d) \/ (Drops(d) /\ faults' # 0)
<1>1. /\ Roles
      /\ \/ AlphaReadsOne /\ line["alpha"] # <<>>
         \/ BravoReadsOne /\ line["bravo"] # <<>>
         \/ TimersWrite
         \/ NothingSeen
         \/ \E s \in Stations : \/ enqueue_message(s) \/ get_next_message(s)
                                \/ Lose(s) \/ Unread(s)
  BY UndamagedSteps, ZenonT(60)
<1>2. /\ Stations = {"alpha", "bravo"} /\ Peer("bravo") = "alpha"
      /\ \A s \in Stations : Peer(s) \in Stations /\ Peer(Peer(s)) = s /\ {s, Peer(s)} = Stations
  BY DEF Stations, Peer
<1>3. CASE AlphaReadsOne /\ line["alpha"] # <<>>
  BY <1>1, <1>2, <1>3, AlphaLink, ZenonT(60)
<1>4. CASE BravoReadsOne /\ line["bravo"] # <<>>
  BY <1>1, <1>2, <1>4, BravoLink, ZenonT(60)
<1>5. CASE TimersWrite
  BY <1>2, <1>5, TimersLink, ZenonT(60)
<1>6. CASE NothingSeen
  BY <1>6, StillIf, ZenonT(60) DEF NothingSeen
<1>7. ASSUME NEW s \in Stations, enqueue_message(s)
      PROVE  Sends(Peer(s)) /\ Still(s)
  BY <1>7, EnqueueLink, ZenonT(60)
<1>8. ASSUME NEW s \in Stations, get_next_message(s)
      PROVE  \A d \in Stations : Still(d)
  BY <1>8, GetLink, ZenonT(60)
<1>9. ASSUME NEW s \in Stations, Lose(s) \/ Unread(s)
      PROVE  Still(Peer(s)) /\ (Still(s) \/ (Drops(s) /\ faults' # 0))
  BY <1>1, <1>9, LoseLink, UnreadLink, ZenonT(60)
<1> QED
  BY <1>1, <1>2, <1>3, <1>4, <1>5, <1>6, <1>7, <1>8, <1>9, SMTT(60)

\* The two stations on a line that may lose frames but changes none implement
\* a link that keeps the order and, if no frame is lost, every message:
\* whatever the number of messages, however late the time-outs come, a step of
\* one of the handlers is a step of MessageLink or changes nothing in it.
THEOREM LinkImplemented ==
    ASSUME ~Garbling
    PROVE  Spec => ImplementsLink
<1> DEFINE sent == [d \in Stations |-> Sent(d)]
           pending == [d \in Stations |-> Pending(d)]
           arrived == [d \in Stations |-> Arrived(d)]
<1>1. Init => Link!LinkInit
  <2> SUFFICES ASSUME Init PROVE Link!LinkInit
    BY SMTT(60)
  <2>1. ASSUME NEW d \in Stations
        PROVE  enqueued[Peer(d)] = 0 /\ Bodies(line[d]) \o output_queue[Peer(d)] = <<>>
               /\ delivered[d] \o input_queue[d] = <<>>
    <3>1. /\ enqueued[Peer(d)] = 0 /\ line[d] = <<>> /\ output_queue[Peer(d)] = <<>>
          /\ delivered[d] = <<>> /\ input_queue[d] = <<>>
      BY DEF Init, Stations, Peer
    <3> QED
      BY <3>1, BodiesEmpty, SMTT(60)
  <2> QED
    BY <2>1, SMTT(60) DEF Link!LinkInit
<1>2. ASSUME TypeOK, TypeOK', Undamaged => Roles, faults = 0 => Path, [Next]_vars
      PROVE  [Link!LinkNext]_<<sent, pending, arrived>>
  <2>1. \/ \A d \in Stations : Still(d)
        \/ \E d \in Stations : /\ Still(Peer(d))
                               /\ Sends(d) \/ Arrives(d) \/ (Drops(d) /\ faults' # 0)
    BY <1>2, LinkStep, ZenonT(60) DEF Undamaged
  <2>2. CASE \A d \in Stations : Still(d)
    BY <2>2, SMTT(60) DEF Still
  <2>3. ASSUME NEW d \in Stations, Still(Peer(d)),
               Sends(d) \/ Arrives(d) \/ (Drops(d) /\ faults' # 0)
        PROVE  Link!LinkNext
    <3>1. \A e \in Stations : e = d \/ e = Peer(d)
      BY DEF Stations, Peer
    <3>2. CASE Sends(d)
      <4>1. Link!Send(d)
        BY <2>3, <3>1, <3>2, ZenonT(60) DEF Link!Send, Still, Sends, Sent, Pending, Arrived
      <4> QED
        BY <4>1, SMTT(60) DEF Link!LinkNext
    <3>3. CASE Arrives(d)
      <4>1. Link!Arrive(d)
        BY <2>3, <3>1, <3>3, ZenonT(60) DEF Link!Arrive, Still, Arrives, Sent, Pending, Arrived
      <4> QED
        BY <4>1, SMTT(60) DEF Link!LinkNext
    <3>4. CASE Drops(d) /\ faults' # 0
      <4>1. MaxFaults > 0
        BY <1>2, <3>4, ConstantsAssumption, SMTT(60) DEF TypeOK
      <4>2. /\ sent' = sent /\ arrived' = arrived
            /\ \A e \in Stations : e # d => Pending(e)' = Pending(e)
        BY <2>3, <3>1, <3>4, ZenonT(60) DEF Still, Drops
      <4>3. PICK i \in 1 .. Len(Pending(d)) :
               Pending(d)' = SubSeq(Pending(d), 1, i - 1) \o SubSeq(Pending(d), i + 1, Len(Pending(d)))
        BY <3>4, Zenon DEF Drops, Removed
      <4>4. /\ i \in 1 .. Len(pending[d])
            /\ pending' = [pending EXCEPT ![d] = SubSeq(@, 1, i - 1) \o SubSeq(@, i + 1, Len(@))]
        BY <4>2, <4>3, ZenonT(60)
      <4>5. Link!Drop(d)
        BY <4>1, <4>2, <4>4, ZenonT(60) DEF Link!Drop, Sent, Pending, Arrived
      <4> QED
        BY <4>5, ZenonT(60) DEF Link!LinkNext
    <3> QED
      BY <2>3, <3>2, <3>3, <3>4, ZenonT(60)
  <2> QED
    BY <2>1, <2>2, <2>3, ZenonT(60)
<1> QED
  BY <1>1, <1>2, TypeCorrect, RolesKept, PathKept, PTL
  DEF Spec, ImplementsLink, Link!LinkSpec, Sent, Pending, Arrived

-----------------------------------------------------------------------------
(* Nothing is skipped while no frame is lost.                              *)

UpTo(n) == [i \in 1 .. n |-> i]

InOnePlace == \A d \in Stations : Arrived(d) \o Pending(d) = UpTo(Sent(d))

\* The messages enqueued, after one more.
LEMMA UpToNext ==
    ASSUME NEW n \in Nat
    PROVE  UpTo(n) \in Seq(Nat) /\ Append(UpTo(n), n + 1) = UpTo(n + 1)
<1>1. UpTo(n) \in Seq(Nat) /\ Len(UpTo(n)) = n /\ \A i \in 1 .. n : UpTo(n)[i] = i
  BY DEF UpTo
<1>2. UpTo(n + 1) \in Seq(Nat) /\ Len(UpTo(n + 1)) = n + 1 /\ \A i \in 1 .. n + 1 : UpTo(n + 1)[i] = i
  BY DEF UpTo
<1> DEFINE s == Append(UpTo(n), n + 1)
<1>3. s \in Seq(Nat) /\ Len(s) = n + 1 /\ s[n + 1] = n + 1 /\ \A i \in 1 .. n : s[i] = i
  BY <1>1, SMTT(60)
<1> HIDE DEF s
<1>4. s = UpTo(n + 1)
  BY <1>2, <1>3, SMTT(60)
<1> QED
  BY <1>1, <1>4, ZenonT(60) DEF s

\* The types of the abstract link.
LEMMA LinkTyped ==
    ASSUME TypeOK, NEW d \in Stations
    PROVE  Sent(d) \in Nat /\ Pending(d) \in Seq(Nat) /\ Arrived(d) \in Seq(Nat)
<1>1. /\ Peer(d) \in Stations
      /\ \A e \in Stations : /\ Bodies(line[e]) \in Seq(Nat) /\ output_queue[e] \in Seq(Nat)
                             /\ delivered[e] \in Seq(Nat) /\ input_queue[e] \in Seq(Nat)
                             /\ enqueued[e] \in Nat
  BY QueuesTyped, SMTT(60)
<1>2. \A x, y \in Seq(Nat) : x \o y \in Seq(Nat)
  OBVIOUS
<1> QED
  BY <1>1, <1>2, ZenonT(60) DEF Sent, Pending, Arrived

\* No step loses or doubles a message until the first fault.
LEMMA NextInOnePlace ==
    ASSUME TypeOK, Undamaged => Roles, faults = 0 => Path, faults = 0 => InOnePlace, [Next]_vars
    PROVE  faults' = 0 => InOnePlace'
<1> SUFFICES ASSUME faults' = 0, NEW d \in Stations
             PROVE  Arrived(d)' \o Pending(d)' = UpTo(Sent(d)')
  BY Zenon DEF InOnePlace
<1>1. InOnePlace
  BY UndamagedSteps, ZenonT(60) DEF Undamaged
<1>2. Still(d) \/ Sends(d) \/ Arrives(d)
  <2>1. \/ \A e \in Stations : Still(e)
        \/ \E e \in Stations : Still(Peer(e)) /\ (Sends(e) \/ Arrives(e))
    BY LinkStep, SMTT(60) DEF Undamaged
  <2>2. \A e \in Stations : d = e \/ d = Peer(e)
    BY DEF Stations, Peer
  <2> QED
    BY <2>1, <2>2, ZenonT(60)
<1> DEFINE n == Sent(d)
           p == Pending(d)
           a == Arrived(d)
<1>3. n \in Nat /\ p \in Seq(Nat) /\ a \in Seq(Nat) /\ a \o p = UpTo(n)
  BY <1>1, LinkTyped, ZenonT(60) DEF InOnePlace
<1> HIDE DEF n, p, a
<1>4. CASE Still(d)
  BY <1>3, <1>4, ZenonT(60) DEF Still, n, p, a
<1>5. CASE Sends(d)
  <2>1. a \o Append(p, n + 1) = Append(a \o p, n + 1)
    <3> DEFINE k == n + 1
    <3>1. k \in Nat
      BY <1>3, SMTT(60)
    <3> HIDE DEF k
    <3>2. a \o Append(p, k) = Append(a \o p, k)
      BY <1>3, <3>1, ConcatAppend, SMTT(60)
    <3> QED
      BY <3>2, SMTT(60) DEF k
  <2>2. a \o Append(p, n + 1) = UpTo(n + 1)
    BY <1>3, <2>1, UpToNext, ZenonT(60)
  <2> QED
    BY <1>5, <2>2, ZenonT(60) DEF Sends, n, p, a
<1>6. CASE Arrives(d)
  <2>1. p # <<>>
    BY <1>6, SMTT(60) DEF Arrives, p
  <2>2. Append(a, Head(p)) \o Tail(p) = UpTo(n)
    BY <1>3, <2>1, Moved, ZenonT(60)
  <2> QED
    BY <1>6, <2>2, ZenonT(60) DEF Arrives, n, p, a
<1> QED
  BY <1>2, <1>4, <1>5, <1>6, ZenonT(60)

\* While the line loses and garbles nothing, each message enqueued is in
\* exactly one place and in its turn, on both directions, with any number of
\* messages and with time-outs as late as they like.
THEOREM NoneSkipped == Spec => []NothingSkipped
<1>1. Init => (faults = 0 => InOnePlace)
  <2> SUFFICES ASSUME Init, NEW d \in Stations PROVE Arrived(d) \o Pending(d) = UpTo(Sent(d))
    BY DEF InOnePlace
  <2>1. /\ enqueued[Peer(d)] = 0 /\ line[d] = <<>> /\ output_queue[Peer(d)] = <<>>
        /\ delivered[d] = <<>> /\ input_queue[d] = <<>>
    BY DEF Init, Stations, Peer
  <2>2. Arrived(d) = <<>> /\ Pending(d) = <<>> /\ Sent(d) = 0
    BY <2>1, BodiesEmpty, SMTT(60) DEF Arrived, Pending, Sent
  <2>3. UpTo(0) = <<>> /\ <<>> \o <<>> = <<>>
    BY DEF UpTo
  <2> QED
    BY <2>2, <2>3, ZenonT(60)
<1>2. /\ TypeOK /\ (Undamaged => Roles) /\ (faults = 0 => Path) /\ (faults = 0 => InOnePlace)
      /\ [Next]_vars
      => (faults = 0 => InOnePlace)'
  BY NextInOnePlace, ZenonT(60)
<1>3. TypeOK /\ (faults = 0 => InOnePlace) => NothingSkipped
  <2> SUFFICES ASSUME TypeOK, faults = 0, InOnePlace, NEW d \in Stations
               PROVE  delivered[d] \o input_queue[d] \o Bodies(line[d]) \o output_queue[Peer(d)]
                         = [i \in 1 .. enqueued[Peer(d)] |-> i]
    BY Zenon DEF NothingSkipped
  <2> DEFINE a == delivered[d] \o input_queue[d]
             b == Bodies(line[d])
             c == output_queue[Peer(d)]
  <2>1. a \in Seq(Nat) /\ b \in Seq(Nat) /\ c \in Seq(Nat)
    BY LinkTyped, QueuesTyped, ZenonT(60) DEF Arrived
  <2>2. a \o (b \o c) = UpTo(enqueued[Peer(d)])
    BY Zenon DEF InOnePlace, Arrived, Pending, Sent
  <2> HIDE DEF a, b, c
  <2>3. (a \o b) \o c = UpTo(enqueued[Peer(d)])
    BY <2>1, <2>2, NatConcat, Zenon
  <2> QED
    BY <2>3, ZenonT(60) DEF a, b, c, UpTo
<1> QED
  BY <1>1, <1>2, <1>3, TypeCorrect, RolesKept, PathKept, PTL DEF Spec

=============================================================================
