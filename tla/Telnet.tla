------------------------------- MODULE Telnet -------------------------------
(***************************************************************************)
(* The telnet parser of doorman (doorman/TelnetProtocol.cpp), one per      *)
(* client: it takes the commands out of what the client sends, answers     *)
(* them, and hands whole lines on.  TCP delivers the bytes in pieces, so   *)
(* a command or a line may be split over several reads.                    *)
(*                                                                         *)
(* A byte is a string: a control byte under its telnet name, "CR" or "LF", *)
(* or any other string, which stands for a stretch of text.                *)
(***************************************************************************)
EXTENDS Naturals, Sequences, SequencesExt

CONSTANTS Bytes,         \* what clients may send
          AnsiTerms      \* the terminal types known to support colour

Lines == {"CR", "LF"}

\* The bytes that the parser, or the MUD's answers, tell from others.
Controls == Lines \cup {"IAC", "SE", "AO", "SB", "WILL", "WONT", "DO", "DONT",
                        "TTYPE", "SEND", "NAWS", "ECHO"}

Opposite == [b \in Lines |-> IF b = "CR" THEN "LF" ELSE "CR"]
NoByte == "none"

\* What the MUD did in the midst of what it heard from a client, and so no byte.
Marks == {"echo on", "echo off"}

ASSUME BytesAssumption == Controls \subseteq Bytes /\ Bytes \cap Marks = {}

NewTelnet == [buffer |-> <<>>, got_term |-> FALSE, echo |-> TRUE, ansi |-> FALSE, prev |-> NoByte]

\* IAC and one more byte.  SE and AO (abort output) are not among them.
TwoByte(b) == b \notin {"SE", "AO", "SB", "WILL", "WONT", "DO", "DONT"}

\* What a command takes off the buffer, what it leaves the parser as, and the answer.
Took(n, t, sent) == [n |-> n, t |-> t, sent |-> sent, threw |-> FALSE]
Awaits(t) == Took(0, t, <<>>)

\* The answer to WILL, WONT, DO and DONT, each with its option.
Answer(t, command, option) ==
    CASE command = "WILL" /\ option = "TTYPE" ->
             Took(3, [t EXCEPT !.got_term = TRUE],
                  IF t.got_term THEN <<>> ELSE <<"IAC", "SB", "TTYPE", "SEND", "IAC", "SE">>)
      [] command = "WILL" /\ option = "NAWS" -> Took(3, t, <<>>)
      [] command = "DO" /\ option = "ECHO" ->
             Took(3, [t EXCEPT !.echo = FALSE], IF t.echo THEN <<"IAC", "WILL", "ECHO">> ELSE <<>>)
      [] command = "DONT" /\ option = "ECHO" ->
             Took(3, [t EXCEPT !.echo = TRUE], IF t.echo THEN <<>> ELSE <<"IAC", "WONT", "ECHO">>)
      [] OTHER ->
             Took(3, t, <<"IAC", IF command \in {"WILL", "WONT"} THEN "DONT" ELSE "WONT", option>>)

\* What the client says its terminal is, which the MUD is told of; its size is only logged.
Subcommand(t, option, body) ==
    IF option = "TTYPE" /\ Len(body) > 1
    THEN [t |-> [t EXCEPT !.ansi = body[2] \in AnsiTerms], sent |-> <<"info">>]
    ELSE [t |-> t, sent |-> <<>>]

on_subcommand(t, c) ==
    LET ends == {i \in 4 .. Len(c) - 1 : c[i] = "IAC" /\ c[i + 1] = "SE"}
        end  == CHOOSE i \in ends : \A j \in ends : i <= j
        s    == Subcommand(t, c[3], SubSeq(c, 4, end - 1))
    IN  IF ends = {} THEN Awaits(t) ELSE Took(end + 1, s.t, s.sent)

on_command(t, c) ==
    IF Len(c) >= 2 /\ TwoByte(c[2]) THEN Took(2, t, <<>>)
    ELSE IF Len(c) < 3 THEN Awaits(t)
    ELSE IF c[2] = "SB" THEN on_subcommand(t, c)
    ELSE IF c[2] \in {"SE", "AO"} THEN [Awaits(t) EXCEPT !.threw = TRUE]
    ELSE Answer(t, c[2], c[3])

\* Commands come out of the buffer from its front, up to the first that is not yet complete:
\* "scan" is the text before that one, "rest" what begins with it.
Scanned(b, s, i) ==
    IF s.threw THEN s
    ELSE IF s.skip > 0 THEN [s EXCEPT !.skip = @ - 1]
    ELSE IF s.rest # <<>> THEN [s EXCEPT !.rest = Append(@, b[i])]
    ELSE IF b[i] # "IAC" THEN [s EXCEPT !.scan = Append(@, b[i])]
    ELSE LET c == on_command(s.t, SubSeq(b, i, Len(b)))
         IN  IF c.threw THEN [s EXCEPT !.threw = TRUE]
             ELSE IF c.n = 0 THEN [s EXCEPT !.rest = <<b[i]>>]
             ELSE [s EXCEPT !.t = c.t, !.skip = c.n - 1, !.sent = @ \o c.sent]

interpret_iacs(t, b) ==
    FoldLeftDomain(LAMBDA s, i : Scanned(b, s, i),
                   [t |-> t, scan |-> <<>>, rest |-> <<>>, skip |-> 0, sent |-> <<>>, threw |-> FALSE], b)

\* Whole lines, ended by either separator or by both in either order.
Separated(s, b) ==
    IF b \notin Lines THEN [s EXCEPT !.line = Append(@, b)]
    ELSE IF s.line = <<>> /\ s.prev = Opposite[b] THEN [s EXCEPT !.prev = NoByte]
    ELSE [prev |-> b, line |-> <<>>, lines |-> Append(s.lines, s.line)]

handle_whole_lines(prev, text) == FoldLeft(Separated, [prev |-> prev, line |-> <<>>, lines |-> <<>>], text)

\* Mutant: the last separator is not remembered from one read to the next.
add_data_forgetful(t, data) ==
    LET s == interpret_iacs(t, t.buffer \o data)
        w == handle_whole_lines(t.prev, s.scan)
    IN  IF s.threw THEN [t |-> t, lines |-> <<>>, sent |-> s.sent, threw |-> TRUE]
        ELSE [t |-> [s.t EXCEPT !.buffer = w.line \o s.rest, !.prev = NoByte],
              lines |-> w.lines, sent |-> s.sent, threw |-> FALSE]

\* One read.  An exception leaves before any line is looked for; the channel is closed.
add_data(t, data) ==
    LET s == interpret_iacs(t, t.buffer \o data)
        w == handle_whole_lines(t.prev, s.scan)
    IN  IF s.threw
        THEN [t |-> t, lines |-> <<>>, sent |-> s.sent, threw |-> TRUE]
        ELSE [t |-> [s.t EXCEPT !.buffer = w.line \o s.rest, !.prev = w.prev],
              lines |-> w.lines, sent |-> s.sent, threw |-> FALSE]

\* The MUD turns the client's echo off for a password: it announces that it will echo itself.
EchoIs(on) == <<"IAC", IF on THEN "WONT" ELSE "WILL", "ECHO">>
set_echo(t, on) == [t EXCEPT !.echo = on]

-----------------------------------------------------------------------------
(***************************************************************************)
(* What the parser promises: the lines and the answers that an automaton   *)
(* gives which looks at every byte once, however they were split.  "heard" *)
(* also holds the marks "echo on" and "echo off" where the MUD set it.     *)
(***************************************************************************)
NewHearer == [t |-> NewTelnet, mode |-> "text", option |-> NoByte, body |-> <<>>,
              prev |-> NoByte, line |-> <<>>, lines |-> <<>>, sent |-> <<>>]

Typed(s, b) ==
    IF b \notin Lines THEN [s EXCEPT !.line = Append(@, b)]
    ELSE IF s.line = <<>> /\ s.prev = Opposite[b] THEN [s EXCEPT !.prev = NoByte]
    ELSE [s EXCEPT !.prev = b, !.line = <<>>, !.lines = Append(@, s.line)]

Answered(s, t, sent) == [s EXCEPT !.t = t, !.sent = @ \o sent, !.mode = "text", !.body = <<>>]

\* "echo on" or "echo off": the MUD has set it.
EchoSet(s, mark) ==
    LET on == mark = "echo on" IN [s EXCEPT !.t = set_echo(@, on), !.sent = @ \o EchoIs(on)]

ByteHeard(s, b) ==
    CASE s.mode = "text" -> IF b = "IAC" THEN [s EXCEPT !.mode = "iac"] ELSE Typed(s, b)
      [] s.mode = "iac" ->
             IF TwoByte(b) THEN [s EXCEPT !.mode = "text"]
             ELSE [s EXCEPT !.mode = IF b \in {"SE", "AO"} THEN "lost" ELSE b]
      [] s.mode = "SB" -> [s EXCEPT !.mode = "body", !.option = b]
      [] s.mode = "body" ->
             IF b = "SE" /\ Len(s.body) > 0 /\ s.body[Len(s.body)] = "IAC"
             THEN LET c == Subcommand(s.t, s.option, SubSeq(s.body, 1, Len(s.body) - 1))
                  IN  Answered(s, c.t, c.sent)
             ELSE [s EXCEPT !.body = Append(@, b)]
      [] s.mode \in {"WILL", "WONT", "DO", "DONT"} ->
             LET c == Answer(s.t, s.mode, b) IN Answered(s, c.t, c.sent)
      [] OTHER -> s

Heard(s, b) == IF b \in Marks THEN EchoSet(s, b) ELSE ByteHeard(s, b)

ByteAtATime(heard) == FoldLeft(Heard, NewHearer, heard)
=============================================================================
