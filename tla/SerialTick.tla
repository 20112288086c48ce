---------------------------- MODULE SerialTick ----------------------------
(***************************************************************************)
(* The polled Windows serial port of src/udptoserial/Serial_port.cpp.  Two *)
(* overlapped operations, a read and a write, run in the operating system  *)
(* while the program calls serial_port_tick over and over; each operation  *)
(* works on one static buffer and signals one manual-reset event.  A tick  *)
(* first starts the operations that are not outstanding and then waits on  *)
(* the events of those that are, so it is two steps here and the operating *)
(* system may complete an operation before, between or after them.         *)
(***************************************************************************)
EXTENDS ByteStrings

CONSTANTS Incoming,   \* the bytes that arrive on the line, in order
          Outgoing,   \* the vectors the program passes to serial_port_write
          ReadChunk,  \* bytes asked of ReadFile (8 in the code)
          WriteChunk  \* bytes given to WriteFile at most (128 in the code)

ASSUME TickAssumptions ==
    /\ Incoming \in Seq(Nat) /\ Outgoing \in Seq(Seq(Nat))
    /\ ReadChunk \in Nat \ {0} /\ WriteChunk \in Nat \ {0}

VARIABLES
    tick_pc,            \* "init" and "open" until the port is open, then
                        \* "caller", "wait" (inside a tick) or "thrown"
    to_come,            \* what is left of Incoming
    to_give,            \* what is left of Outgoing
    oRead, oWrite,      \* the operations: "idle", "pending" or "signaled"
    read_buffer, write_buffer,
    waiting_on_read, waiting_on_write,
    output_byte_queue,  \* received, not yet taken by serial_port_read
    input_byte_queue,   \* accepted, not yet given to WriteFile
    taken,              \* everything serial_port_read has returned
    given,              \* everything serial_port_write has been given
    finished,           \* the bytes of all the writes that have completed
    missing             \* the places in finished of the bytes that a write which
                        \* came back short did not put on the line

readVars  == <<to_come, oRead, read_buffer, waiting_on_read>>
writeVars == <<oWrite, write_buffer, waiting_on_write, input_byte_queue, finished,
               missing>>
tickVars == <<tick_pc, to_give, given, output_byte_queue, taken, readVars, writeVars>>

TickInit ==
    /\ tick_pc = "init"
    /\ to_come = Incoming /\ to_give = Outgoing
    /\ oRead = "idle" /\ oWrite = "idle"
    /\ read_buffer = <<>> /\ write_buffer = <<>>
    /\ waiting_on_read = FALSE /\ waiting_on_write = FALSE
    /\ output_byte_queue = <<>> /\ input_byte_queue = <<>>
    /\ taken = <<>> /\ given = <<>> /\ finished = <<>> /\ missing = {}

Least(a, b) == IF a < b THEN a ELSE b

(***************************************************************************)
(* Opening the port.  Every failed call of the operating system throws.    *)
(***************************************************************************)
\* The two events are made signaled; ReadFile and WriteFile reset theirs.
serial_port_init ==
    /\ tick_pc = "init" /\ tick_pc' \in {"open", "thrown"}
    /\ UNCHANGED <<to_give, given, output_byte_queue, taken, readVars, writeVars>>

serial_port_open ==
    /\ tick_pc = "open" /\ tick_pc' \in {"caller", "thrown"}
    /\ UNCHANGED <<to_give, given, output_byte_queue, taken, readVars, writeVars>>

(***************************************************************************)
(* The calls of the program between two ticks.                             *)
(***************************************************************************)
\* Mutant: the queue is handed over but not cleared.
read_and_keep ==
    /\ tick_pc = "caller" /\ output_byte_queue # <<>>
    /\ taken' = taken \o output_byte_queue
    /\ UNCHANGED <<tick_pc, to_give, given, output_byte_queue, readVars, writeVars>>

serial_port_read ==
    /\ tick_pc = "caller" /\ output_byte_queue # <<>>
    /\ taken' = taken \o output_byte_queue
    /\ output_byte_queue' = <<>>
    /\ UNCHANGED <<tick_pc, to_give, given, readVars, writeVars>>

serial_port_write ==
    /\ tick_pc = "caller" /\ to_give # <<>>
    /\ input_byte_queue' = input_byte_queue \o Head(to_give)
    /\ to_give' = Tail(to_give)
    /\ given' = given \o Head(to_give)
    /\ UNCHANGED <<tick_pc, output_byte_queue, taken, readVars,
                   oWrite, write_buffer, waiting_on_write, finished, missing>>

(***************************************************************************)
(* The first half of serial_port_tick: start what is not outstanding.      *)
(***************************************************************************)
start_read ==
    \/ /\ waiting_on_read
       /\ UNCHANGED <<readVars, output_byte_queue>>
    \/ /\ ~waiting_on_read                 \* ReadFile completes at once
       /\ \E n \in 0 .. Least(ReadChunk, Len(to_come)) :
             /\ read_buffer' = SubSeq(to_come, 1, n)
             /\ to_come' = Drop(to_come, n)
             /\ output_byte_queue' = output_byte_queue \o SubSeq(to_come, 1, n)
             /\ oRead' = "idle"
       /\ UNCHANGED waiting_on_read
    \/ /\ ~waiting_on_read                 \* ReadFile goes on in the background
       /\ oRead' = "pending" /\ read_buffer' = <<>> /\ waiting_on_read' = TRUE
       /\ UNCHANGED <<to_come, output_byte_queue>>

\* The write_buffer is filled, and the operating system takes its bytes from
\* there: at once, or when the operation completes.
fill_write_buffer ==
    LET bytes_enqueued == Least(WriteChunk, Len(input_byte_queue))
    IN  /\ write_buffer' = SubSeq(input_byte_queue, 1, bytes_enqueued)
        /\ input_byte_queue' = Drop(input_byte_queue, bytes_enqueued)

\* Mutant: waiting_on_write is not looked at.
start_write_always ==
    \/ /\ input_byte_queue = <<>>
       /\ UNCHANGED writeVars
    \/ /\ input_byte_queue # <<>>
       /\ fill_write_buffer
       /\ oWrite' = "pending" /\ waiting_on_write' = TRUE
       /\ UNCHANGED <<finished, missing>>

\* An operation that was given bytes comes back and has written n of them.
finish(bytes, n) ==
    /\ finished' = finished \o bytes
    /\ missing' = missing \cup (Len(finished) + n + 1 .. Len(finished) + Len(bytes))

\* No branch compares the count with the bytes given.  A WriteFile that completes
\* at once is done with whatever it wrote, none included; one that fails is taken
\* to complete later with no bytes.
start_write ==
    \/ /\ waiting_on_write \/ input_byte_queue = <<>>
       /\ UNCHANGED writeVars
    \/ /\ ~waiting_on_write /\ input_byte_queue # <<>>
       /\ fill_write_buffer
       /\ \/ /\ oWrite' = "idle"           \* WriteFile completes at once
             /\ \E n \in 0 .. Len(write_buffer') : finish(write_buffer', n)
             /\ UNCHANGED waiting_on_write
          \/ /\ oWrite' = "pending" /\ waiting_on_write' = TRUE
             /\ UNCHANGED <<finished, missing>>

tick_start ==
    /\ tick_pc = "caller"
    /\ start_read
    /\ start_write
    /\ tick_pc' = "wait"
    /\ UNCHANGED <<to_give, given, taken>>

(***************************************************************************)
(* The second half: wait on the events of the outstanding operations.  A   *)
(* wait on two events answers with the lower index when both are signaled; *)
(* a wait on one event can only answer with index 0.                       *)
(***************************************************************************)
ReadSeen == waiting_on_read /\ oRead = "signaled"

\* Only the branch that waits on both events ever looks at the write.
WriteSeen == waiting_on_read /\ oRead # "signaled"
             /\ waiting_on_write /\ oWrite = "signaled"

TickRead ==
    /\ ReadSeen
    /\ \/ /\ read_buffer # <<>>
          /\ output_byte_queue' = output_byte_queue \o read_buffer
          /\ oRead' = "idle" /\ waiting_on_read' = FALSE
          /\ tick_pc' = "caller"
       \/ /\ read_buffer = <<>>
          /\ tick_pc' = "thrown"
          /\ UNCHANGED <<output_byte_queue, oRead, waiting_on_read>>
    /\ UNCHANGED <<to_give, given, taken, to_come, read_buffer, writeVars>>

\* Mutant: the finished write is forgotten and waited on for ever.
TickWriteAndWait ==
    /\ WriteSeen
    /\ oWrite' = "idle"
    /\ tick_pc' = "caller"
    /\ UNCHANGED <<to_give, given, output_byte_queue, taken, readVars,
                   write_buffer, waiting_on_write, input_byte_queue, finished, missing>>

TickWrite ==
    /\ WriteSeen
    /\ \/ /\ write_buffer # <<>>
          /\ oWrite' = "idle" /\ waiting_on_write' = FALSE
          /\ tick_pc' = "caller"
       \/ /\ write_buffer = <<>>
          /\ tick_pc' = "thrown"
          /\ UNCHANGED <<oWrite, waiting_on_write>>
    /\ UNCHANGED <<to_give, given, output_byte_queue, taken, readVars,
                   write_buffer, input_byte_queue, finished, missing>>

TickNothing ==
    /\ ~ReadSeen /\ ~WriteSeen
    /\ tick_pc' = "caller"
    /\ UNCHANGED <<to_give, given, output_byte_queue, taken, readVars, writeVars>>

tick_wait == tick_pc = "wait" /\ (TickRead \/ TickWrite \/ TickNothing)

(***************************************************************************)
(* The operating system.  The port's time-outs are whatever the port was   *)
(* left with, so a read may come back with fewer bytes than asked for, and *)
(* either operation with none.                                             *)
(***************************************************************************)
ReadCompletes ==
    /\ oRead = "pending" /\ tick_pc # "thrown"
    /\ \E n \in 0 .. Least(ReadChunk, Len(to_come)) :
          /\ read_buffer' = SubSeq(to_come, 1, n)
          /\ to_come' = Drop(to_come, n)
    /\ oRead' = "signaled"
    /\ UNCHANGED <<tick_pc, to_give, given, output_byte_queue, taken, waiting_on_read, writeVars>>

\* The write_buffer is left with what went out: InternalHigh is its length.
WriteCompletes ==
    /\ oWrite = "pending" /\ tick_pc # "thrown"
    /\ \E n \in 0 .. Len(write_buffer) :
          /\ finish(write_buffer, n)
          /\ write_buffer' = SubSeq(write_buffer, 1, n)
    /\ oWrite' = "signaled"
    /\ UNCHANGED <<tick_pc, to_give, given, output_byte_queue, taken, readVars,
                   waiting_on_write, input_byte_queue>>

TickNext == \/ serial_port_init \/ serial_port_open
        \/ serial_port_read \/ serial_port_write \/ tick_start \/ tick_wait
        \/ ReadCompletes \/ WriteCompletes

TickSpec == TickInit /\ [][TickNext]_tickVars

\* The program's loop calls read, write and tick in turn for ever, and a write
\* the operating system has accepted completes.  A read need never complete.
TickFairness ==
    /\ WF_tickVars(serial_port_init) /\ WF_tickVars(serial_port_open)
    /\ SF_tickVars(serial_port_read) /\ SF_tickVars(serial_port_write)
    /\ WF_tickVars(tick_start) /\ WF_tickVars(tick_wait)
    /\ WF_tickVars(WriteCompletes)

FairTickSpec == TickSpec /\ TickFairness

(***************************************************************************)
(* Properties.                                                             *)
(***************************************************************************)
\* Every byte that left the line is in exactly one place, in the order it
\* arrived: returned by serial_port_read, in output_byte_queue, or in the
\* read_buffer of a read that has completed and has not been noticed.  No
\* read_buffer is reused before serial_port_tick has copied it.
ReceivedInOrder ==
    Incoming = taken \o output_byte_queue
               \o (IF oRead = "signaled" THEN read_buffer ELSE <<>>) \o to_come

\* Every byte given to serial_port_write has gone through a completed write, is
\* in the write_buffer of an unfinished one, or is still queued, once and in
\* order: serial_port_tick neither fills the write_buffer again while the
\* operating system is reading it nor queues the rest of a short write again.
\* What went out on the line is finished without the missing bytes, which is all
\* that a write that comes back short can cost.
WrittenInOrder ==
    /\ given = finished \o (IF oWrite = "pending" THEN write_buffer ELSE <<>>)
               \o input_byte_queue
    /\ missing \subseteq DOMAIN finished

\* Whatever is given to serial_port_write goes through a write that completes,
\* unless the program throws, provided that again and again a tick waits while a
\* read is outstanding: only such a tick looks at the event of the write.  When
\* every read returns at once, or is always complete before the tick waits, a
\* finished write is never noticed and what is queued behind it stays there.
EverythingGoesOut ==
    []<><<tick_wait /\ waiting_on_read /\ oRead = "pending">>_tickVars
        => <>((to_give = <<>> /\ finished = given) \/ tick_pc = "thrown")
=============================================================================
