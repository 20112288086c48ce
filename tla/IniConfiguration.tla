-------------------------- MODULE IniConfiguration --------------------------
(***************************************************************************)
(* How the daemon reads udptoserial.ini: ini_parse_stream of ini.cpp goes  *)
(* through the lines, the handler of Configuration.cpp stores settings in  *)
(* a temporary structure, and the constructor copies that structure.       *)
(***************************************************************************)
EXTENDS Integers, Sequences, FiniteSetsExt, IniLines

CONSTANTS Lines,       \* the lines a file is made of
          PortNames,   \* the names that begin with "port"
          MaxPorts,    \* CONFIG_UDP_PORT_COUNT_MAX
          MaxLines     \* bound: lines of a file

ASSUME FileAssumption ==
    /\ MaxPorts \in Nat
    /\ \A line \in Lines : line.kind = "pair" => line.value.number \in Int

VARIABLES file,        \* the lines read so far
          section, prev_name,
          error,       \* the first line refused, 0 if none
          tmp,         \* configuration_tmp
          result       \* <<>>, or the finished Configuration

fileVars == <<file, section, prev_name, error, tmp, result>>

atoi(text) == text.number

\* Mutant: the array of ports may take one port too many.
room_for_one_more(t) == Len(t.udp_port) <= MaxPorts

room_for_port(t) == Len(t.udp_port) < MaxPorts

\* The baud rate is stored by an if of its own, after which the chain of
\* else-ifs goes on and ends in the error return.
handler(t, sec, name, value) ==
    CASE sec = "serial port" /\ name = "baudrate" ->
             [ok |-> FALSE, tmp |-> [t EXCEPT !.baud_rate = atoi(value)]]
      [] sec = "serial port" /\ name = "throttle" ->
             [ok |-> TRUE, tmp |-> [t EXCEPT !.throttle_baud_rate = atoi(value)]]
      [] sec = "serial port" /\ name = "name" ->
             [ok |-> TRUE, tmp |-> [t EXCEPT !.serial_port_name = value]]
      [] sec = "network" /\ name = "local_ip" ->
             [ok |-> TRUE, tmp |-> [t EXCEPT !.localIP = value]]
      [] sec = "network" /\ name = "remote_ip" ->
             [ok |-> TRUE, tmp |-> [t EXCEPT !.remoteIP = value]]
      [] sec = "udp ports" /\ name \in PortNames ->
             [ok |-> TRUE,
              tmp |-> IF room_for_port(t)
                      THEN [t EXCEPT !.udp_port = Append(@, atoi(value))] ELSE t]
      [] OTHER -> [ok |-> FALSE, tmp |-> t]

FileInit ==
    /\ file = <<>> /\ section = "" /\ prev_name = "" /\ error = 0
    /\ tmp = [baud_rate |-> 0, throttle_baud_rate |-> 0, serial_port_name |-> NoText,
              udp_port |-> <<>>, localIP |-> NoText, remoteIP |-> NoText]
    /\ result = <<>>

\* The first line that is refused is remembered; reading goes on.
Refuse(refused) ==
    error' = IF refused /\ error = 0 THEN Len(file) + 1 ELSE error

\* Mutant: nothing is stored any more once a line has been refused.
SettingUntilError(name, value) ==
    LET h == handler(tmp, section, name, value)
    IN  tmp' = (IF error = 0 THEN h.tmp ELSE tmp) /\ Refuse(~h.ok)

\* Call the handler for the current section.
Setting(name, value) ==
    LET h == handler(tmp, section, name, value)
    IN  tmp' = h.tmp /\ Refuse(~h.ok)

\* A line that starts with white space goes on with the setting before it.
IsContinuation(line) == line.indent /\ prev_name # ""

\* The text of a whole line, as the value of the setting it continues.
WholeLine == [id |-> "the whole line", number |-> 0]

\* One turn of the loop in ini_parse_stream.
read_line(line) ==
    /\ result = <<>> /\ Len(file) < MaxLines
    /\ file' = Append(file, line)
    /\ \/ /\ line.kind = "comment"
          /\ UNCHANGED <<section, prev_name, error, tmp>>
       \/ /\ line.kind # "comment" /\ IsContinuation(line)
          /\ Setting(prev_name, WholeLine)
          /\ UNCHANGED <<section, prev_name>>
       \/ /\ line.kind = "section" /\ ~IsContinuation(line) /\ line.closed
          /\ section' = line.name /\ prev_name' = ""
          /\ UNCHANGED <<error, tmp>>
       \/ /\ line.kind = "section" /\ ~IsContinuation(line) /\ ~line.closed
          /\ Refuse(TRUE)
          /\ UNCHANGED <<section, prev_name, tmp>>
       \/ /\ line.kind = "pair" /\ ~IsContinuation(line)
          /\ prev_name' = line.name
          /\ Setting(line.name, line.value)
          /\ UNCHANGED section
       \/ /\ line.kind = "junk" /\ ~IsContinuation(line)
          /\ Refuse(TRUE)
          /\ UNCHANGED <<section, prev_name, tmp>>
    /\ UNCHANGED result

\* The end of the constructor.  ini_parse returns a line number, never a
\* negative number, for a file that can be opened: no error throws.  The
\* initializer baud_rate{9600} is overwritten, and ports become uint16_t.
Configuration ==
    /\ result = <<>>
    /\ result' = <<[serial_port_name |-> tmp.serial_port_name.id,
                    local_ip |-> tmp.localIP.id, remote_ip |-> tmp.remoteIP.id,
                    baud_rate |-> tmp.baud_rate,
                    throttle_baud_rate |-> tmp.throttle_baud_rate,
                    port_numbers |-> [i \in DOMAIN tmp.udp_port |->
                                         tmp.udp_port[i] % 2 ^ 16]]>>
    /\ UNCHANGED <<file, section, prev_name, error, tmp>>

FileNext == (\E line \in Lines : read_line(line)) \/ Configuration
FileSpec == FileInit /\ [][FileNext]_fileVars

(***************************************************************************)
(* Properties.                                                             *)
(***************************************************************************)
\* The section in force at line i of f: the last well-formed header before it.
SectionAt(f, i) ==
    LET heads == {k \in 1 .. i - 1 : f[k].kind = "section" /\ f[k].closed}
    IN  IF heads = {} THEN "" ELSE f[Max(heads)].name

LinesFor(f, sec, names) ==
    {i \in DOMAIN f : f[i].kind = "pair" /\ f[i].name \in names
                      /\ SectionAt(f, i) = sec}

LastValue(f, sec, name) ==
    LET lines == LinesFor(f, sec, {name})
    IN  IF lines = {} THEN NoText ELSE f[Max(lines)].value

NoneIndented(f) == \A i \in DOMAIN f : f[i].kind = "comment" \/ ~f[i].indent

\* In a file without indented lines every setting ends up with the value of
\* the last line that gives it, wherever its section is repeated and whatever
\* lines ini_parse_stream refused on the way.
LastLineWins ==
    result # <<>> /\ NoneIndented(file) =>
        /\ result[1].serial_port_name = LastValue(file, "serial port", "name").id
        /\ result[1].remote_ip = LastValue(file, "network", "remote_ip").id
        /\ result[1].local_ip = LastValue(file, "network", "local_ip").id
        /\ result[1].baud_rate = LastValue(file, "serial port", "baudrate").number
        /\ result[1].throttle_baud_rate = LastValue(file, "serial port", "throttle").number

\* The place of line i among lines.
Rank(lines, i) == Cardinality({k \in lines : k <= i})

\* The ports are those of the first MaxPorts port lines, in the order of the
\* file, and the fixed array of the handler is never written past its end.
FirstPortsKept ==
    /\ Len(tmp.udp_port) <= MaxPorts
    /\ NoneIndented(file) =>
          LET lines == LinesFor(file, "udp ports", PortNames)
          IN  /\ Len(tmp.udp_port) = Min({MaxPorts, Cardinality(lines)})
              /\ \A i \in lines : Rank(lines, i) <= MaxPorts
                    => tmp.udp_port[Rank(lines, i)] = file[i].value.number
=============================================================================
