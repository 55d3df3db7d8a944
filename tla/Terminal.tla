------------------------------ MODULE Terminal ------------------------------
(***************************************************************************)
(* What goes in and out of a descriptor (Descriptor.cpp): the bytes that   *)
(* doorman's telnet parser turns into lines, the backlog of lines, the     *)
(* main loop that takes one line of everybody and then flushes everybody's *)
(* output, pages, and immortals who snoop.                                 *)
(*                                                                         *)
(* Closing a descriptor writes to others, and writing may close: the calls *)
(* nest.  "stack" holds the calls still to be made, the innermost first,   *)
(* and the main loop waits until it is empty.  Text is counted in units.   *)
(***************************************************************************)
EXTENDS Telnet, FiniteSets

CONSTANTS Terms,         \* channels
          Scenes,        \* who is connected and playing, their levels, and what they will do
          MaxOut,        \* MaxOutputBufSize, in units
          MaxBacklog,    \* MaxInbufBacklog
          MaxLine,       \* MAX_INPUT_LENGTH - 1, in stretches of text
          MaxIncoming,   \* MaxIncomingDataBufferSize, in bytes
          ReadSize,      \* PerSocketReadSize, in bytes
          HelpPages      \* the pages of a help text

ASSUME TerminalAssumption ==
    /\ {MaxOut, MaxBacklog, MaxLine, MaxIncoming, ReadSize, HelpPages} \subseteq Nat \ {0}
    /\ ReadSize < MaxIncoming
    /\ IsFiniteSet(Terms)

ASSUME ScenesAssumption == \A sc \in Scenes : \A d \in Terms : sc.types[d] \in Seq(Bytes)

VARIABLES scene,
          chan,     \* doorman's side of each channel
          desc,     \* the MUD's side
          link,     \* the socket between them: "up", "broken" and not yet noticed, or "closed"
          phase,    \* the part of the main loop: "packets", "commands" or "output"
          todo,     \* whom that part has not yet come to
          stack,
          alive     \* the MUD has not crashed
vars == <<scene, chan, desc, link, phase, todo, stack, alive>>

NewChan == [tel |-> NewTelnet, at |-> 0, open |-> TRUE, heard |-> <<>>, lines |-> <<>>, said |-> <<>>]

NewDesc(d, sc) ==
    [state |-> IF d \in sc.playing THEN "playing" ELSE IF d \in sc.lobby THEN "lobby" ELSE "reaped",
     person |-> d \in sc.playing,
     trust |-> sc.level[d], backlog |-> <<>>, warned |-> FALSE, last |-> <<>>, busy |-> FALSE,
     out |-> 0, pages |-> 0, snooping |-> {}, snoop_by |-> {}, goodbyes |-> 0]

Init ==
    /\ scene \in Scenes
    /\ chan = [d \in Terms |-> NewChan]
    /\ desc = [d \in Terms |-> NewDesc(d, scene)]
    /\ link = "up" /\ phase = "packets" /\ todo = {} /\ stack = <<>> /\ alive = TRUE

Is_closed(d) == desc[d].state \in {"closed", "reaped"}
Playing(d) == desc[d].state = "playing"
Everybody == {d \in Terms : Playing(d) /\ desc[d].person}

-----------------------------------------------------------------------------
(***************************************************************************)
(* The calls.  "each" goes through a set; "current" is the element that    *)
(* its iterator stands on.                                                 *)
(***************************************************************************)
Write(d, n) == [call |-> "write", d |-> d, n |-> n]
Tell(to, n) == [call |-> "tell", to |-> to, n |-> n]
ToSnoopers(d, n) == [call |-> "each", d |-> d, n |-> n, left |-> desc[d].snoop_by, current |-> d]
Call(name, d) == [call |-> name, d |-> d]
Close(d) == Call("close", d)

\* The innermost call is replaced by those it makes.
Makes(calls) == stack' = calls \o Tail(stack)
Keeps == UNCHANGED <<scene, chan, link, phase, todo>>

\* Mutant: what has been written is still there for close() to flush.
write_undropped(c) ==
    /\ desc' = IF Is_closed(c.d) \/ desc[c.d].out + c.n > MaxOut THEN desc ELSE [desc EXCEPT ![c.d].out = @ + c.n]
    /\ Makes(IF ~Is_closed(c.d) /\ desc[c.d].out + c.n > MaxOut THEN <<Close(c.d)>> ELSE <<>>)

\* Too much output closes the descriptor.  Its buffer is dropped first, as close() flushes.
write(c) ==
    LET full == desc[c.d].out + c.n > MaxOut
    IN  IF Is_closed(c.d) THEN Makes(<<>>) /\ UNCHANGED desc
        ELSE /\ desc' = [desc EXCEPT ![c.d].out = IF full THEN 0 ELSE @ + c.n]
             /\ Makes(IF full THEN <<Close(c.d)>> ELSE <<>>)

\* act() and its like, to a set of people.
tell(c) ==
    /\ UNCHANGED desc
    /\ IF c.to = {} THEN Makes(<<>>)
       ELSE \E s \in c.to : Makes(<<Write(s, c.n), [c EXCEPT !.to = @ \ {s}]>>)

\* for (auto *snooper : snoop_by_): an erased element is not met, unless it is the current one.
each(c) ==
    /\ UNCHANGED desc
    /\ LET left == c.left \cap desc[c.d].snoop_by
       IN  IF left = {} THEN Makes(<<>>)
           ELSE \E s \in left : Makes(<<Write(s, c.n), [c EXCEPT !.left = left \ {s}, !.current = s]>>)

flush_output(c) ==
    /\ UNCHANGED desc
    /\ Makes(IF desc[c.d].out = 0 \/ Is_closed(c.d) THEN <<>>
             ELSE (IF desc[c.d].person THEN <<ToSnoopers(c.d, desc[c.d].out + 1)>> ELSE <<>>)
                  \o <<Call("write_direct", c.d)>>)

\* The buffer goes to doorman.  Where that fails, the main loop closes the descriptor.
write_direct(c) ==
    /\ desc' = [desc EXCEPT ![c.d].out = 0]
    /\ Makes(IF link # "up" /\ phase = "output" THEN <<Close(c.d)>> ELSE <<>>)

close(c) ==
    /\ UNCHANGED desc
    /\ Makes(IF Is_closed(c.d) THEN <<>> ELSE <<Call("flush_output", c.d), Call("part", c.d)>>)

\* Mutant: those who snoop are let go, but not those who are snooped on.
part_only(c) ==
    /\ UNCHANGED desc
    /\ IF desc[c.d].snoop_by = {} THEN Makes(<<Call("leave", c.d)>>)
       ELSE \E s \in desc[c.d].snoop_by :
              Makes(<<Write(s, 1), [call |-> "forget", d |-> s, whom |-> c.d], c>>)

\* Those who snoop on it are told, and forget it.
part(c) ==
    /\ UNCHANGED desc
    /\ IF desc[c.d].snoop_by = {} THEN Makes(<<Call("stop_snooping", c.d), Call("leave", c.d)>>)
       ELSE \E s \in desc[c.d].snoop_by :
              Makes(<<Write(s, 1), [call |-> "forget", d |-> s, whom |-> c.d], c>>)

Forgotten(ds, s, d) == [ds EXCEPT ![s].snooping = @ \ {d}, ![d].snoop_by = @ \ {s}]

\* A loop over snoop_by stands on the element that is erased; or part()'s reference is to one
\* that has been erased already, as the snooper's own buffer overflowed.
Torn(s, d) ==
    \/ s \notin desc[d].snoop_by
    \/ \E i \in DOMAIN stack : stack[i].call = "each" /\ stack[i].d = d /\ stack[i].current = s

\* Freed memory is read: by luck it still holds what it did, or the MUD crashes.
forget(c) ==
    /\ desc' = Forgotten(desc, c.d, c.whom)
    /\ Makes(<<>>)
    /\ IF Torn(c.d, c.whom) THEN alive' \in BOOLEAN ELSE alive' = alive

stop_snooping(c) ==
    /\ IF desc[c.d].snooping = {} THEN UNCHANGED desc /\ Makes(<<>>)
       ELSE \E v \in desc[c.d].snooping :
              Makes(<<[call |-> "forget", d |-> c.d, whom |-> v], c>>) /\ UNCHANGED desc

\* "$n has lost $s link." to the room, then the packet: either the connection's end or the
\* acknowledgement of it.
leave(c) ==
    /\ UNCHANGED desc
    /\ Makes((IF desc[c.d].person /\ desc[c.d].state \in {"playing", "disconnecting"}
              THEN <<Tell(Everybody \ {c.d}, 1)>> ELSE <<>>) \o <<Call("closed", c.d)>>)

closed(c) ==
    /\ desc' = [desc EXCEPT ![c.d].state = "closed", ![c.d].person = FALSE,
                            ![c.d].goodbyes = IF link = "up" THEN @ + 1 ELSE @]
    /\ Makes(<<>>)

-----------------------------------------------------------------------------
(***************************************************************************)
(* Commands, once the snoopers have been shown them.                       *)
(***************************************************************************)
\* Those that d snoops on, directly or through others.
Reached(ds, d) ==
    {e \in Terms : \A S \in SUBSET Terms :
        ds[d].snooping \subseteq S /\ (\A s \in S : ds[s].snooping \subseteq S) => e \in S}

\* Mutant: only a loop of two is found.
MetDirectly(ds, d, v) == d \in {v} \cup ds[v].snooping

\* SnoopLoopChecker: a descriptor met twice counts, even where two ways lead to it.
MetTwice(ds, d, v) ==
    \/ d \in {v} \cup Reached(ds, v)
    \/ \E a, b \in {v} \cup Reached(ds, v) : a # b /\ ds[a].snooping \cap ds[b].snooping # {}

try_start_snooping(d, v) ==
    IF Is_closed(d) \/ Is_closed(v) \/ v \in desc[d].snooping \/ MetTwice(desc, d, v) THEN desc
    ELSE [desc EXCEPT ![d].snooping = @ \cup {v}, ![v].snoop_by = @ \cup {d}]

do_snoop(d, v) ==
    /\ desc' = IF v = d \/ v \notin Terms \/ ~Playing(v) \/ ~desc[v].person \/ desc[v].trust >= desc[d].trust
               THEN desc ELSE try_start_snooping(d, v)
    /\ Makes(<<Write(d, 1)>> \o IF v = d THEN <<Call("stop_snooping", d)>> ELSE <<>>)

do_trust(d, v) ==
    /\ Makes(<<>>)
    /\ \E n \in 0 .. desc[d].trust :
         desc' = IF v \in Terms /\ Playing(v) /\ desc[v].person
                 THEN [desc EXCEPT ![v].trust = IF n = 0 THEN scene.level[v] ELSE n]
                 ELSE desc

\* A page is one unit of text, and the prompt is told that more follow.
page_to(d) ==
    IF Is_closed(d) THEN UNCHANGED desc /\ Makes(<<>>)
    ELSE /\ desc' = [desc EXCEPT ![d].pages = HelpPages - 1]
         /\ Makes(<<Write(d, 1)>>)

do_quit(d) ==
    /\ UNCHANGED desc
    /\ Makes(<<Write(d, 1), Tell(Everybody \ {d}, 1), Call("extract_char", d), Close(d)>>)

extract_char(c) ==
    /\ desc' = [desc EXCEPT ![c.d].person = FALSE]
    /\ Makes(<<>>)

\* Whoever was shown the line may by now have been closed, and so may its writer.
do_fun(c) ==
    LET word == c.line[1]
    IN  \/ word = "say" /\ UNCHANGED desc /\ Makes(<<Tell(Everybody, 1)>>)
        \/ word = "help" /\ page_to(c.d)
        \/ word = "quit" /\ do_quit(c.d)
        \/ word = "snoop" /\ do_snoop(c.d, c.line[2])
        \/ word = "trust" /\ do_trust(c.d, c.line[2])

Calls ==
    /\ alive /\ stack # <<>>
    /\ Keeps
    /\ LET c == Head(stack) IN
       \/ /\ UNCHANGED alive
          /\ \/ c.call = "write" /\ write(c)
             \/ c.call = "tell" /\ tell(c)
             \/ c.call = "each" /\ each(c)
             \/ c.call = "flush_output" /\ flush_output(c)
             \/ c.call = "write_direct" /\ write_direct(c)
             \/ c.call = "close" /\ close(c)
             \/ c.call = "part" /\ part(c)
             \/ c.call = "stop_snooping" /\ stop_snooping(c)
             \/ c.call = "leave" /\ leave(c)
             \/ c.call = "closed" /\ closed(c)
             \/ c.call = "extract_char" /\ extract_char(c)
             \/ c.call = "do_fun" /\ do_fun(c)
       \/ c.call = "forget" /\ forget(c)

\* The main loop, with no call going on.
Idle == alive /\ stack = <<>>

-----------------------------------------------------------------------------
(***************************************************************************)
(* Packets: what clients typed is read in pieces, parsed and queued.       *)
(***************************************************************************)
\* A full backlog is emptied; the first time, a "quit" is put in it that is thrown away too.
read_from_descriptor(in, line) ==
    IF Len(in.backlog) >= MaxBacklog
    THEN [in EXCEPT !.warned = TRUE, !.backlog = <<>>]
    ELSE [in EXCEPT !.backlog = Append(@, line)]

Queued(q, lines) ==
    LET in == FoldLeft(read_from_descriptor, [backlog |-> q.backlog, warned |-> q.warned], lines)
    IN  [q EXCEPT !.backlog = in.backlog, !.warned = in.warned]

\* The MUD hears that the client is gone.
Disconnected(d) ==
    IF Is_closed(d) THEN UNCHANGED <<desc, stack>>
    ELSE /\ desc' = [desc EXCEPT ![d].out = 0,
                                 ![d].state = IF Playing(d) THEN "disconnecting" ELSE "disconnecting_np"]
         /\ stack' = <<Close(d)>>

on_data(d) ==
    \E n \in 1 .. ReadSize :
       LET typed == scene.types[d]
           data  == SubSeq(typed, chan[d].at + 1, chan[d].at + n)
           r     == add_data(chan[d].tel, data)
           big   == n + Len(chan[d].tel.buffer) >= MaxIncoming
       IN  /\ chan[d].at + n <= Len(typed)
           /\ IF big \/ r.threw
              THEN /\ chan' = [chan EXCEPT ![d].open = FALSE, ![d].at = @ + n]
                   /\ Disconnected(d)
              ELSE /\ chan' = [chan EXCEPT ![d].tel = r.t, ![d].at = @ + n, ![d].heard = @ \o data,
                                           ![d].lines = @ \o r.lines, ![d].said = @ \o r.sent]
                   /\ desc' = IF desc[d].state = "reaped" THEN desc
                              ELSE [desc EXCEPT ![d] = Queued(@, r.lines)]
                   /\ UNCHANGED stack

Read(d) ==
    /\ Idle /\ phase = "packets" /\ link = "up" /\ chan[d].open
    /\ on_data(d)
    /\ UNCHANGED <<scene, link, phase, todo, alive>>

ClientLeaves(d) ==
    /\ Idle /\ phase = "packets" /\ link = "up" /\ chan[d].open
    /\ d \in scene.leaving
    /\ chan' = [chan EXCEPT ![d].open = FALSE]
    /\ Disconnected(d)
    /\ UNCHANGED <<scene, link, phase, todo, alive>>

\* Doorman breaks off.  Until the MUD reads from it, only its writes fail.
LinkBreaks ==
    /\ Idle /\ link = "up" /\ scene.breaks
    /\ link' = "broken"
    /\ UNCHANGED <<scene, chan, desc, phase, todo, stack, alive>>

doorman_lost ==
    /\ Idle /\ phase = "packets" /\ link = "broken"
    /\ link' = "closed"
    /\ stack' = SetToSeq({Close(d) : d \in {d \in Terms : ~Is_closed(d)}})
    /\ UNCHANGED <<scene, chan, desc, phase, todo, alive>>

-----------------------------------------------------------------------------
(***************************************************************************)
(* The main loop: everybody's next line, in no particular order, and then  *)
(* everybody's output.                                                     *)
(***************************************************************************)
Known(line) ==
    \/ line[1] \in {"say", "help", "quit"} /\ Len(line) = 1
    \/ line[1] \in {"snoop", "trust"} /\ Len(line) = 2

\* "!" asks for the last line again.
Substituted(q, line) == IF line # <<>> /\ line[1] = "!" THEN q.last ELSE line

\* The queue after a line was taken.  One that is too long is dropped with a word to its writer.
pop_incomm(q) ==
    LET line == Head(q.backlog)
    IN  [q EXCEPT !.backlog = Tail(@), !.busy = Len(line) <= MaxLine,
                  !.last = IF Len(line) <= MaxLine THEN Substituted(q, line) ELSE @]

show_next_page(q, line) ==
    [q EXCEPT !.pages = IF line # <<>> \/ ~q.person THEN 0 ELSE @ - 1]

interpret(d, line) ==
    stack' = IF line = <<>> THEN <<>>
             ELSE IF Known(line)
             THEN <<ToSnoopers(d, 1), [call |-> "do_fun", d |-> d, line |-> line]>>
             ELSE <<Write(d, 1)>>

EchoOff(d, on) ==
    chan' = IF chan[d].open
            THEN [chan EXCEPT ![d].tel = set_echo(@, on), ![d].said = @ \o EchoIs(on),
                              ![d].heard = Append(@, IF on THEN "echo on" ELSE "echo off")]
            ELSE chan

\* The lobby, cut down to a name and a password that may be wrong.
nanny(d, q, line) ==
    \/ /\ q.state = "lobby" /\ line = <<>>
       /\ stack' = <<Close(d)>> /\ desc' = [desc EXCEPT ![d] = q] /\ UNCHANGED chan
    \/ /\ q.state = "lobby" /\ line # <<>>
       /\ desc' = [desc EXCEPT ![d] = [q EXCEPT !.state = "password", !.person = TRUE]]
       /\ stack' = <<Write(d, 1)>> /\ EchoOff(d, FALSE)
    \/ /\ q.state = "password"
       /\ \/ /\ desc' = [desc EXCEPT ![d] = [q EXCEPT !.state = "playing"]]
             /\ stack' = <<Write(d, 1)>> /\ EchoOff(d, TRUE)
          \/ /\ desc' = [desc EXCEPT ![d] = q]
             /\ stack' = <<Write(d, 1), Close(d)>> /\ UNCHANGED chan
    \/ /\ q.state \in {"closed", "disconnecting", "disconnecting_np"}
       /\ desc' = [desc EXCEPT ![d] = q] /\ UNCHANGED <<chan, stack>>

\* A line that was typed while a page waits turns that page, or cancels it and is lost.
TakeLine(d) ==
    LET q == pop_incomm(desc[d])
        line == q.last
    IN  IF ~q.busy
        THEN desc' = [desc EXCEPT ![d] = q] /\ UNCHANGED <<chan, stack>>
        ELSE IF q.pages > 0
        THEN /\ desc' = [desc EXCEPT ![d] = show_next_page(q, line)]
             /\ stack' = IF line = <<>> /\ q.person THEN <<Write(d, 1)>> ELSE <<>>
             /\ UNCHANGED chan
        ELSE IF q.state = "playing"
        THEN desc' = [desc EXCEPT ![d] = q] /\ interpret(d, line) /\ UNCHANGED chan
        ELSE nanny(d, q, line)

\* With nothing to read: whoever has been in the lobby too long is sent away.
NoLine(d) ==
    /\ desc' = [desc EXCEPT ![d].busy = FALSE]
    /\ \/ UNCHANGED stack
       \/ desc[d].state \in {"lobby", "password"} /\ stack' = <<Close(d)>>
    /\ UNCHANGED chan

Command(d) ==
    /\ Idle /\ phase = "commands" /\ d \in todo
    /\ IF desc[d].backlog # <<>> THEN TakeLine(d) ELSE NoLine(d)
    /\ todo' = todo \ {d}
    /\ UNCHANGED <<scene, link, phase, alive>>

\* The prompt, or the word that there is another page, and then the flush.
process_output(d) ==
    stack' = (IF desc[d].pages > 0 \/ Playing(d) THEN <<Write(d, 1)>> ELSE <<>>)
             \o <<Call("flush_output", d)>>

\* Mutant: only those who gave a command are shown what was written to them.
OutputOfBusy(d) ==
    /\ Idle /\ phase = "output" /\ d \in todo
    /\ IF ~Is_closed(d) /\ desc[d].busy THEN process_output(d) ELSE UNCHANGED stack
    /\ todo' = todo \ {d}
    /\ UNCHANGED <<scene, chan, desc, link, phase, alive>>

Output(d) ==
    /\ Idle /\ phase = "output" /\ d \in todo
    /\ IF ~Is_closed(d) /\ (desc[d].busy \/ desc[d].out > 0)
       THEN process_output(d) ELSE UNCHANGED stack
    /\ todo' = todo \ {d}
    /\ UNCHANGED <<scene, chan, desc, link, phase, alive>>

\* Closed descriptors are deleted, so nothing may point at them any more.
reap_closed == [d \in Terms |-> IF desc[d].state = "closed"
                                THEN [NewDesc(d, scene) EXCEPT !.state = "reaped", !.person = FALSE,
                                                               !.goodbyes = desc[d].goodbyes]
                                ELSE desc[d]]
Left == {d \in Terms : desc[d].state # "reaped"}

\* From one part of the main loop to the next.  Without a link it waits for doorman.
NextPhase ==
    /\ Idle /\ todo = {}
    /\ \/ /\ phase = "packets" /\ link # "broken" /\ (link = "up" \/ Left # {})
          /\ phase' = "commands" /\ todo' = Left /\ UNCHANGED desc
       \/ /\ phase = "commands" /\ phase' = "output" /\ desc' = reap_closed
          /\ todo' = IF link = "closed" THEN {} ELSE {d \in Left : ~Is_closed(d)}
       \/ phase = "output" /\ phase' = "packets" /\ todo' = {} /\ desc' = reap_closed
    /\ UNCHANGED <<scene, chan, link, stack, alive>>

MainLoop == NextPhase \/ doorman_lost \/ \E d \in Terms : Command(d) \/ Output(d)

Next == Calls \/ MainLoop \/ LinkBreaks \/ \E d \in Terms : Read(d) \/ ClientLeaves(d)

\* The main loop never stops of itself, and a call that was made returns.
Spec == Init /\ [][Next]_vars /\ WF_vars(Calls) /\ WF_vars(MainLoop)

-----------------------------------------------------------------------------
\* The types of the state.
TerminalOK ==
    /\ phase \in {"packets", "commands", "output"} /\ todo \subseteq Terms /\ alive \in BOOLEAN
    /\ link \in {"up", "broken", "closed"}
    /\ \A d \in Terms : /\ desc[d].out \in 0 .. MaxOut /\ Len(desc[d].backlog) <= MaxBacklog
                        /\ desc[d].pages \in 0 .. HelpPages
                        /\ desc[d].snooping \cup desc[d].snoop_by \subseteq Terms

\* However TCP splits what a client types, the lines and the answers are those that reading it a
\* byte at a time gives: a command or a pair of separators across two reads is not lost or taken
\* for text (TelnetProtocol::add_data, interpret_iacs, handle_whole_lines).
SplitReadsAgree ==
    \A d \in Terms : LET r == ByteAtATime(chan[d].heard)
                     IN  chan[d].lines = r.lines /\ chan[d].said = r.sent

\* Who snoops on whom is known on both sides, and nobody that is not there is snooped on or snoops:
\* close() may be called from the middle of somebody else's write().
SnoopLinksAgree ==
    \A d, e \in Terms : /\ e \in desc[d].snooping <=> d \in desc[e].snoop_by
                        /\ e \in desc[d].snooping => ~Is_closed(d) /\ ~Is_closed(e)

\* Nobody snoops on themselves, through any number of others: their output would come back for ever
\* (SnoopLoopChecker).  The trust that keeps mortals from it changes after the fact (do_trust).
NoSnoopLoop == \A d \in Terms : d \notin Reached(desc, d)

\* Doorman is told of the end of a connection at most once, whatever close() calls on the way:
\* the second packet would end whoever has the channel next (Descriptor::close).
EndedOnce == \A d \in Terms : desc[d].goodbyes <= 1

\* Text that was written to somebody is sent while the link is up: also that of somebody who is
\* idle and was only shown it as a snooper, after their own turn in the output loop.
EventuallyShown ==
    \A d \in Terms : desc[d].out > 0 ~> desc[d].out = 0 \/ link = "closed" \/ ~alive
=============================================================================
