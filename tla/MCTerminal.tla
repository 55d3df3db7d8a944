----------------------------- MODULE MCTerminal -----------------------------
(***************************************************************************)
(* The terminals for TLC: three clients, and what each will type.          *)
(***************************************************************************)
EXTENDS Terminal

\* Nobody types; one level each.
Quiet == [playing |-> Terms, lobby |-> {}, types |-> [d \in Terms |-> <<>>], leaving |-> {},
          breaks |-> FALSE, level |-> ("ann" :> 1 @@ "bob" :> 2 @@ "cat" :> 3)]
Alone == [Quiet EXCEPT !.playing = {}, !.lobby = {"ann"}]
Typing(sc, d, bytes) == [sc EXCEPT !.types[d] = bytes]

TType(x) == <<"IAC", "SB", "TTYPE", "IS", x, "IAC", "SE">>

MCScenes == {
    \* telnet: commands in lines, between separators, in sub-commands and in each other
    Typing(Alone, "ann", <<"IAC", "DO", "ECHO", "ann", "CR", "IAC", "WILL", "TTYPE", "LF",
                           "IAC", "DONT", "ECHO", "pass", "LF", "CR", "LF">>),
    Typing(Alone, "ann", TType("xterm") \o <<"IAC", "WILL", "TTYPE">> \o <<"an">> \o TType("other")
                         \o <<"n", "LF", "LF">>),
    Typing(Alone, "ann", <<"IAC", "SB", "NAWS", "IAC", "IAC", "SE", "a", "IAC", "GA", "LF", "CR",
                           "IAC", "WONT", "NAWS", "LF", "IAC", "WILL", "NAWS", "IAC", "IAC", "CR">>),
    Typing(Alone, "ann", <<"a", "LF", "IAC", "DO", "OTHER", "IAC", "SE", "CR", "b", "LF">>),
    Typing(Alone, "ann", <<"a", "b", "c", "d", "e", "f", "g", "h", "i", "j", "k">>),
    \* lines: a flood, "!", a line too long, pages turned and cancelled
    Typing([Quiet EXCEPT !.playing = {"ann"}], "ann",
           <<"say", "LF", "!", "LF", "x", "y", "z", "LF", "help", "LF", "LF", "LF", "say", "LF">>),
    Typing([Quiet EXCEPT !.playing = {"ann"}], "ann",
           <<"help", "LF", "!", "LF", "!", "LF", "quit", "LF", "LF">>),
    \* snooping: a chain, with those in it leaving, quitting and full
    [Typing(Typing(Typing(Quiet, "cat", <<"snoop", "bob", "LF", "snoop", "cat", "LF">>),
            "bob", <<"snoop", "ann", "LF">>), "ann", <<"say", "LF", "quit", "LF">>)
     EXCEPT !.leaving = {"bob"}],
    Typing(Typing(Quiet, "cat", <<"snoop", "bob", "LF", "snoop", "ann", "LF">>),
           "bob", <<"snoop", "ann", "LF", "help", "LF">>),
    \* loops, by way of trust
    Typing(Typing(Typing(Quiet, "cat", <<"snoop", "bob", "LF", "trust", "ann", "LF", "trust", "cat", "LF">>),
           "bob", <<"snoop", "ann", "LF">>), "ann", <<"snoop", "cat", "LF">>),
    \* doorman gone
    [Typing(Typing(Quiet, "cat", <<"snoop", "ann", "LF">>), "ann", <<"say", "LF">>)
     EXCEPT !.breaks = TRUE]}

\* What they type.
MCBytes == Controls \cup UNION {Range(sc.types[d]) : sc \in MCScenes, d \in Terms}
=============================================================================
