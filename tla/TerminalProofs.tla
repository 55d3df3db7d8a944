--------------------------- MODULE TerminalProofs ---------------------------
(***************************************************************************)
(* Theorems about Terminal, for any number of descriptors, scenes and      *)
(* bounds: who snoops on whom is known on both sides and only of           *)
(* descriptors that are open, and nobody snoops on themselves; doorman is  *)
(* told once at most that a connection ends, as long as a buffer holds     *)
(* what the others may say of those who leave (Margin); and the parser     *)
(* makes the same of what a client types however it is split into reads.   *)
(*                                                                         *)
(* close() is a chain of calls: it parts from its snoopers, stops          *)
(* snooping, takes leave, and only then is the descriptor closed.  In      *)
(* between, text is written to others, whose own chains may begin and end. *)
(* What makes it right is that commands, which alone begin to snoop, are   *)
(* called with nothing else under way (Frames).                            *)
(*                                                                         *)
(* A close() within a close() of the same descriptor is what would tell    *)
(* doorman twice.  EndInv says what may be called in the midst of one      *)
(* (Placed), of how many each is there (Single), and how much may have     *)
(* been written to who is being closed by then (Counted).                  *)
(*                                                                         *)
(* The parser keeps what it could not finish, and reads it again with the  *)
(* next bytes; the reader of single bytes keeps a state instead.  What is  *)
(* kept is the line so far and, after it, a command so far: replaying it   *)
(* from a state with an empty line leads where that reader stands (Agrees, *)
(* Retains, Leads).                                                        *)
(***************************************************************************)
EXTENDS Terminal, FoldProofs, SequenceTheorems

Fields == {"state", "person", "trust", "backlog", "warned", "last", "busy", "out", "pages",
           "snooping", "snoop_by", "goodbyes"}

IsDesc(r) == r = [f \in Fields |-> r[f]]

Shut(ds, d) == ds[d].state \in {"closed", "reaped"}

\* Nobody snoops on it, and it snoops on nobody.
Apart(ds, d) == ds[d].snooping = {} /\ ds[d].snoop_by = {}

Links(ds) ==
    /\ ds = [d \in Terms |-> ds[d]]
    /\ \A d \in Terms : /\ IsDesc(ds[d])
                        /\ ds[d].snooping \subseteq Terms /\ ds[d].snoop_by \subseteq Terms
                        /\ Shut(ds, d) => Apart(ds, d)
    /\ \A d, e \in Terms : e \in ds[d].snooping <=> d \in ds[e].snoop_by

IsSeq(s) == \E S : s \in Seq(S)

\* What the calls under way have come to.
Frame(ds, st, i) ==
    /\ IF st[i].call = "tell" THEN st[i].to \subseteq Terms ELSE st[i].d \in Terms
    /\ st[i].call = "do_fun" => i = Len(st)
    /\ st[i].call = "forget" => st[i].whom \in Terms
    /\ st[i].call = "closed" => Apart(ds, st[i].d)
    /\ st[i].call = "leave" =>
          /\ ds[st[i].d].snoop_by = {}
          /\ \/ ds[st[i].d].snooping = {}
             \/ i > 1 /\ st[i - 1].call = "stop_snooping" /\ st[i - 1].d = st[i].d

Frames(ds, st) == IsSeq(st) /\ \A i \in 1 .. Len(st) : Frame(ds, st, i)

LinksInv == Links(desc) /\ Frames(desc, stack)

LoopFree(ds) == \A d \in Terms : d \notin Reached(ds, d)

LoopInv == LinksInv /\ LoopFree(desc)

-----------------------------------------------------------------------------
(***************************************************************************)
(* The stack.                                                              *)
(***************************************************************************)
Pushed(t, s) == t \o Tail(s)

LEMMA PushedSeq ==
    ASSUME NEW s, IsSeq(s), s # <<>>, NEW t, IsSeq(t)
    PROVE  LET u == Pushed(t, s)
           IN  /\ IsSeq(u)
               /\ Len(s) \in Nat \ {0} /\ Len(t) \in Nat /\ Len(u) = Len(t) + Len(s) - 1
               /\ \A i \in 1 .. Len(t) : u[i] = t[i]
               /\ \A j \in 2 .. Len(s) : u[Len(t) + j - 1] = s[j]
<1> DEFINE u == Pushed(t, s)
<1>1. PICK S, T : s \in Seq(S) /\ t \in Seq(T)
    BY DEF IsSeq
<1>2. s \in Seq(S \cup T) /\ t \in Seq(S \cup T)
    BY <1>1
<1>3. Tail(s) \in Seq(S \cup T) /\ Len(s) \in Nat \ {0} /\ Len(Tail(s)) = Len(s) - 1
    BY <1>2
<1>4. u \in Seq(S \cup T) /\ Len(u) = Len(t) + Len(s) - 1
    BY <1>2, <1>3 DEF Pushed
<1>5. \A i \in 1 .. Len(t) : u[i] = t[i]
    BY <1>2, <1>3 DEF Pushed
<1>6. \A j \in 2 .. Len(s) : u[Len(t) + j - 1] = s[j]
    BY <1>2, <1>3, <1>4 DEF Pushed
<1> QED
    BY <1>2, <1>3, <1>4, <1>5, <1>6 DEF IsSeq

\* An edge is gone, or stays what it was.
EdgesKept(ds, es) ==
    \A d \in Terms : es[d].snooping \subseteq ds[d].snooping /\ es[d].snoop_by \subseteq ds[d].snoop_by

\* New calls in front of the rest.  The call before a "leave" must go on or have done its work.
LEMMA PushedFrames ==
    ASSUME NEW ds, NEW st, Frames(ds, st), st # <<>>,
           NEW es, Len(st) = 1 \/ EdgesKept(ds, es),
           NEW t, IsSeq(t), \A i \in 1 .. Len(t) : Frame(es, t, i) /\ t[i].call # "do_fun",
           st[1].call = "stop_snooping" =>
              es[st[1].d].snooping = {} \/ (Len(t) > 0 /\ t[Len(t)] = st[1])
    PROVE  Frames(es, Pushed(t, st))
<1> DEFINE u == Pushed(t, st)
<1>1. /\ IsSeq(u)
      /\ Len(st) \in Nat \ {0} /\ Len(t) \in Nat /\ Len(u) = Len(t) + Len(st) - 1
      /\ \A i \in 1 .. Len(t) : u[i] = t[i]
      /\ \A j \in 2 .. Len(st) : u[Len(t) + j - 1] = st[j]
    BY PushedSeq, ZenonT(60) DEF Frames
<1> HIDE DEF u
<1>2. ASSUME NEW i \in 1 .. Len(t)
      PROVE  Frame(es, u, i)
    <2>1. u[i] = t[i] /\ (i > 1 => u[i - 1] = t[i - 1])
        BY <1>1
    <2> QED
        BY <2>1 DEF Frame
<1>3. ASSUME NEW j \in 2 .. Len(st)
      PROVE  Frame(es, u, Len(t) + j - 1)
    <2> DEFINE i == Len(t) + j - 1
    <2>0. u[i] = st[j]
        BY ONLY <1>1, j \in 2 .. Len(st)
    <2>01. Len(st) \in Nat /\ Len(t) \in Nat /\ Len(u) = Len(t) + Len(st) - 1
        BY <1>1
    <2>02. i \in Nat /\ (j = Len(st) => i = Len(u))
        BY ONLY <2>01, j \in 2 .. Len(st)
    <2>1. u[i] = st[j] /\ i \in Nat /\ (j = Len(st) => i = Len(u))
        BY ONLY <2>0, <2>02
    <2>2. j > 2 => i > 1 /\ u[i - 1] = st[j - 1]
        <3> SUFFICES ASSUME j > 2 PROVE i > 1 /\ u[i - 1] = st[j - 1]
            OBVIOUS
        <3>1. j - 1 \in 2 .. Len(st) /\ i > 1 /\ i - 1 = Len(t) + (j - 1) - 1
            BY <1>1
        <3> QED
            BY <3>1, <1>1
    <2>3. Frame(ds, st, j) /\ j \in 1 .. Len(st)
        BY <1>1 DEF Frames
    <2>4. j = 2 /\ st[1].call = "stop_snooping" =>
             es[st[1].d].snooping = {} \/ (i > 1 /\ u[i - 1] = st[1])
        <3> SUFFICES ASSUME j = 2, Len(t) > 0, t[Len(t)] = st[1]
                     PROVE  i > 1 /\ u[i - 1] = st[1]
            OBVIOUS
        <3>1. i - 1 = Len(t) /\ Len(t) \in 1 .. Len(t) /\ i > 1
            BY <1>1
        <3> QED
            BY <3>1, <1>1
    <2> HIDE DEF i
    <2>5. st[j].call \in {"closed", "leave"} =>
             /\ es[st[j].d].snooping \subseteq ds[st[j].d].snooping
             /\ es[st[j].d].snoop_by \subseteq ds[st[j].d].snoop_by
        BY <2>3 DEF EdgesKept, Frame
    <2>6. st[j].call = "closed" => Apart(es, st[j].d)
        BY <2>3, <2>5 DEF Frame, Apart
    <2>7. st[j].call = "leave" =>
             /\ es[st[j].d].snoop_by = {}
             /\ \/ es[st[j].d].snooping = {}
                \/ i > 1 /\ u[i - 1].call = "stop_snooping" /\ u[i - 1].d = st[j].d
        <3> SUFFICES ASSUME st[j].call = "leave"
                     PROVE  /\ es[st[j].d].snoop_by = {}
                            /\ \/ es[st[j].d].snooping = {}
                               \/ i > 1 /\ u[i - 1].call = "stop_snooping" /\ u[i - 1].d = st[j].d
            OBVIOUS
        <3>1. /\ ds[st[j].d].snoop_by = {}
              /\ \/ ds[st[j].d].snooping = {}
                 \/ j > 1 /\ st[j - 1].call = "stop_snooping" /\ st[j - 1].d = st[j].d
            BY <2>3 DEF Frame
        <3>2. es[st[j].d].snoop_by = {} /\ (ds[st[j].d].snooping = {} => es[st[j].d].snooping = {})
            BY <2>5, <3>1
        <3>3. CASE j = 2 /\ st[1].call = "stop_snooping" /\ st[1].d = st[j].d
            BY <2>4, <3>2, <3>3
        <3>4. CASE j > 2 /\ st[j - 1].call = "stop_snooping" /\ st[j - 1].d = st[j].d
            BY <2>2, <3>2, <3>4
        <3> QED
            BY <3>1, <3>2, <3>3, <3>4
    <2>8. st[j].call = "do_fun" => i = Len(u)
        BY <2>1, <2>3 DEF Frame
    <2>9. /\ IF st[j].call = "tell" THEN st[j].to \subseteq Terms ELSE st[j].d \in Terms
          /\ st[j].call = "forget" => st[j].whom \in Terms
        BY <2>3 DEF Frame
    <2>10. Frame(es, u, i)
        BY <2>1, <2>6, <2>7, <2>8, <2>9 DEF Frame
    <2> QED
        BY <2>10 DEF i
<1>4. ASSUME NEW i \in 1 .. Len(u)
      PROVE  Frame(es, u, i)
    <2>1. CASE i \in 1 .. Len(t)
        BY <2>1, <1>2
    <2>2. CASE i \notin 1 .. Len(t)
        <3>1. i - Len(t) + 1 \in 2 .. Len(st) /\ i = Len(t) + (i - Len(t) + 1) - 1
            BY <2>2, <1>1
        <3> QED
            BY <3>1, <1>3
    <2> QED
        BY <2>1, <2>2
<1> QED
    BY <1>1, <1>4 DEF Frames, u

LEMMA Seq0 == IsSeq(<<>>) /\ Len(<<>>) = 0
<1>1. <<>> \in Seq({})
    OBVIOUS
<1> QED
    BY <1>1 DEF IsSeq

LEMMA Seq1 ==
    ASSUME NEW a
    PROVE  IsSeq(<<a>>) /\ Len(<<a>>) = 1 /\ <<a>>[1] = a
<1>1. <<a>> \in Seq({a})
    OBVIOUS
<1> QED
    BY <1>1 DEF IsSeq

LEMMA Seq2 ==
    ASSUME NEW a, NEW b
    PROVE  IsSeq(<<a, b>>) /\ Len(<<a, b>>) = 2 /\ <<a, b>>[1] = a /\ <<a, b>>[2] = b
<1>1. <<a, b>> \in Seq({a, b})
    OBVIOUS
<1> QED
    BY <1>1 DEF IsSeq

LEMMA Seq3 ==
    ASSUME NEW a, NEW b, NEW c
    PROVE  /\ IsSeq(<<a, b, c>>) /\ Len(<<a, b, c>>) = 3
           /\ <<a, b, c>>[1] = a /\ <<a, b, c>>[2] = b /\ <<a, b, c>>[3] = c
<1>1. <<a, b, c>> \in Seq({a, b, c})
    OBVIOUS
<1> QED
    BY <1>1 DEF IsSeq

LEMMA Seq4 ==
    ASSUME NEW a, NEW b, NEW c, NEW e
    PROVE  /\ IsSeq(<<a, b, c, e>>) /\ Len(<<a, b, c, e>>) = 4
           /\ <<a, b, c, e>>[1] = a /\ <<a, b, c, e>>[2] = b /\ <<a, b, c, e>>[3] = c /\ <<a, b, c, e>>[4] = e
<1>1. <<a, b, c, e>> \in Seq({a, b, c, e})
    OBVIOUS
<1> QED
    BY <1>1 DEF IsSeq

\* A call about which nothing needs to be known.
Plain(c) ==
    /\ c.call \notin {"do_fun", "forget", "closed", "leave"}
    /\ IF c.call = "tell" THEN c.to \subseteq Terms ELSE c.d \in Terms

AllPlain(t) == IsSeq(t) /\ \A i \in 1 .. Len(t) : Plain(t[i])

LEMMA PlainPushed ==
    ASSUME NEW ds, NEW st, Frames(ds, st), st # <<>>, st[1].call # "stop_snooping",
           NEW es, Len(st) = 1 \/ EdgesKept(ds, es), NEW t, AllPlain(t)
    PROVE  Frames(es, Pushed(t, st))
<1>1. \A i \in 1 .. Len(t) : Frame(es, t, i) /\ t[i].call # "do_fun"
    BY DEF AllPlain, Plain, Frame
<1> QED
    BY <1>1, PushedFrames DEF AllPlain

LEMMA PlainOnly ==
    ASSUME NEW ds, NEW t, AllPlain(t)
    PROVE  Frames(ds, t)
    BY DEF AllPlain, Plain, Frame, Frames

-----------------------------------------------------------------------------
(***************************************************************************)
(* The links.                                                              *)
(***************************************************************************)
\* The edges are what they were.
Same(ds, es) ==
    \A d \in Terms : es[d].snooping = ds[d].snooping /\ es[d].snoop_by = ds[d].snoop_by

LEMMA SameKept ==
    ASSUME NEW ds, NEW es, Same(ds, es)
    PROVE  EdgesKept(ds, es)
    BY DEF Same, EdgesKept

LEMMA SameLinks ==
    ASSUME NEW ds, Links(ds), NEW es, es = [d \in Terms |-> es[d]], Same(ds, es),
           \A d \in Terms : IsDesc(es[d]) /\ (Shut(es, d) => Apart(ds, d))
    PROVE  Links(es)
    BY DEF Links, Same, Apart

\* Other fields than the edges are written.
LEMMA Rewritten ==
    ASSUME NEW ds, Links(ds), NEW d \in Terms, NEW r, IsDesc(r),
           r.snooping = ds[d].snooping, r.snoop_by = ds[d].snoop_by,
           r.state \in {"closed", "reaped"} => Apart(ds, d) \/ Shut(ds, d),
           NEW es, es = [ds EXCEPT ![d] = r]
    PROVE  Links(es) /\ Same(ds, es)
<1>1. ds = [x \in Terms |-> ds[x]]
    BY DEF Links
<1>2. es[d] = r /\ \A x \in Terms \ {d} : es[x] = ds[x]
    BY <1>1
<1>3. es = [x \in Terms |-> es[x]]
    BY <1>1
<1>4. Same(ds, es)
    BY <1>2 DEF Same
<1>5. \A x \in Terms : IsDesc(es[x]) /\ (Shut(es, x) => Apart(ds, x))
    BY <1>2 DEF Links, Shut
<1> QED
    BY <1>3, <1>4, <1>5, SameLinks

LEMMA PutField ==
    ASSUME NEW r, IsDesc(r), NEW v
    PROVE  /\ LET q == [r EXCEPT !.out = v]
              IN  IsDesc(q) /\ q.state = r.state /\ q.snooping = r.snooping /\ q.snoop_by = r.snoop_by
           /\ LET q == [r EXCEPT !.person = v]
              IN  IsDesc(q) /\ q.state = r.state /\ q.snooping = r.snooping /\ q.snoop_by = r.snoop_by
           /\ LET q == [r EXCEPT !.state = v]
              IN  IsDesc(q) /\ q.state = v /\ q.snooping = r.snooping /\ q.snoop_by = r.snoop_by
    BY DEF IsDesc, Fields

LEMMA Joined ==
    \A a, b : <<>> \o <<a>> = <<a>> /\ <<a>> \o <<b>> = <<a, b>>
<1> SUFFICES ASSUME NEW a, NEW b
             PROVE  <<>> \o <<a>> = <<a>> /\ <<a>> \o <<b>> = <<a, b>>
    OBVIOUS
<1>1. <<>> \in Seq({a, b}) /\ <<a>> \in Seq({a, b}) /\ <<b>> \in Seq({a, b})
    OBVIOUS
<1>2. <<>> \o <<a>> = <<a>>
    BY <1>1, ConcatEmptySeq
<1>3. <<a>> \o <<b>> \in Seq({a, b}) /\ <<a, b>> \in Seq({a, b})
    BY <1>1
<1>4. /\ Len(<<a>> \o <<b>>) = 2 /\ Len(<<a, b>>) = 2
      /\ (<<a>> \o <<b>>)[1] = a /\ (<<a>> \o <<b>>)[2] = b /\ <<a, b>>[1] = a /\ <<a, b>>[2] = b
    BY <1>1
<1>5. <<a>> \o <<b>> = <<a, b>>
    <2> DEFINE p == <<a>> \o <<b>>
               q == <<a, b>>
    <2>1. p \in Seq({a, b}) /\ q \in Seq({a, b}) /\ Len(p) = 2 /\ Len(q) = 2
        BY <1>3, <1>4
    <2>2. p[1] = q[1] /\ p[2] = q[2]
        BY <1>4
    <2> HIDE DEF p, q
    <2>3. \A i \in 1 .. 2 : i = 1 \/ i = 2
        OBVIOUS
    <2>4. \A i \in 1 .. Len(p) : p[i] = q[i]
        BY <2>1, <2>2, <2>3
    <2>5. p = q
        BY <2>1, <2>4, SeqEqual
    <2> QED
        BY <2>5 DEF p, q
<1> QED
    BY <1>2, <1>5

LEMMA AllPlainOnes ==
    /\ AllPlain(<<>>)
    /\ \A a : Plain(a) => AllPlain(<<a>>)
    /\ \A a, b : Plain(a) /\ Plain(b) => AllPlain(<<a, b>>)
    /\ \A a, b, c : Plain(a) /\ Plain(b) /\ Plain(c) => AllPlain(<<a, b, c>>)
    /\ \A a, b, c, e : Plain(a) /\ Plain(b) /\ Plain(c) /\ Plain(e) => AllPlain(<<a, b, c, e>>)
<1>1. AllPlain(<<>>)
    BY Seq0 DEF AllPlain
<1>2. ASSUME NEW a, Plain(a) PROVE AllPlain(<<a>>)
    BY <1>2, Seq1 DEF AllPlain
<1>3. ASSUME NEW a, NEW b, Plain(a), Plain(b) PROVE AllPlain(<<a, b>>)
    BY <1>3, Seq2 DEF AllPlain
<1>4. ASSUME NEW a, NEW b, NEW c, Plain(a), Plain(b), Plain(c) PROVE AllPlain(<<a, b, c>>)
    BY <1>4, Seq3 DEF AllPlain
<1>5. ASSUME NEW a, NEW b, NEW c, NEW e, Plain(a), Plain(b), Plain(c), Plain(e)
      PROVE  AllPlain(<<a, b, c, e>>)
    BY <1>5, Seq4 DEF AllPlain
<1> QED
    BY <1>1, <1>2, <1>3, <1>4, <1>5

\* The calls that a command or another call begins with.
LEMMA PlainOnes ==
    ASSUME NEW d \in Terms, NEW n, NEW to \in SUBSET Terms
    PROVE  /\ Plain(Write(d, n)) /\ Plain(Tell(to, n)) /\ Plain(ToSnoopers(d, n)) /\ Plain(Close(d))
           /\ \A name \in {"write_direct", "flush_output", "part", "stop_snooping", "extract_char"} :
                 Plain(Call(name, d))
BY DEF Plain, Write, Tell, ToSnoopers, Close, Call

\* The innermost call.
LEMMA Innermost ==
    ASSUME LinksInv, stack # <<>>
    PROVE  Head(stack) = stack[1] /\ Frame(desc, stack, 1) /\ Len(stack) \in Nat \ {0}
<1>1. PICK S : stack \in Seq(S)
    BY DEF LinksInv, Frames, IsSeq
<1>2. Head(stack) = stack[1] /\ Len(stack) \in Nat \ {0}
    BY <1>1
<1>3. 1 \in 1 .. Len(stack)
    BY <1>2
<1> QED
    BY <1>2, <1>3 DEF LinksInv, Frames

\* A call makes others about which nothing needs to be known, and no edges.
LEMMA PlainCall ==
    ASSUME LinksInv, stack # <<>>, Head(stack).call # "stop_snooping",
           Links(desc'), EdgesKept(desc, desc'), NEW t, AllPlain(t), Makes(t)
    PROVE  LinksInv' /\ EdgesKept(desc, desc')
<1>1. stack' = Pushed(t, stack)
    BY DEF Makes, Pushed
<1>2. Frames(desc, stack) /\ stack[1].call # "stop_snooping"
    BY Innermost DEF LinksInv
<1>3. Frames(desc', Pushed(t, stack))
    BY <1>2, PlainPushed
<1> QED
    BY <1>1, <1>3 DEF LinksInv

LEMMA Unwritten ==
    ASSUME LinksInv, UNCHANGED desc
    PROVE  Links(desc') /\ Same(desc, desc') /\ EdgesKept(desc, desc')
BY DEF LinksInv, Same, EdgesKept

\* What is written, or whose it is, leaves the edges alone.
LEMMA FieldWritten ==
    ASSUME LinksInv, NEW d \in Terms, NEW v,
           \/ desc' = [desc EXCEPT ![d].out = v]
           \/ desc' = [desc EXCEPT ![d].person = v]
    PROVE  Links(desc') /\ Same(desc, desc') /\ EdgesKept(desc, desc')
<1>1. Links(desc) /\ IsDesc(desc[d])
    BY DEF LinksInv, Links
<1>2. CASE desc' = [desc EXCEPT ![d].out = v]
    <2> DEFINE q == [desc[d] EXCEPT !.out = v]
    <2>1. /\ IsDesc(q) /\ q.state = desc[d].state
          /\ q.snooping = desc[d].snooping /\ q.snoop_by = desc[d].snoop_by
        BY <1>1, PutField
    <2>2. desc' = [desc EXCEPT ![d] = q]
        BY <1>2
    <2> HIDE DEF q
    <2>3. Links(desc') /\ Same(desc, desc')
        BY <1>1, <2>1, <2>2, Rewritten DEF Shut
    <2> QED
        BY <2>3, SameKept
<1>3. CASE desc' = [desc EXCEPT ![d].person = v]
    <2> DEFINE q == [desc[d] EXCEPT !.person = v]
    <2>1. /\ IsDesc(q) /\ q.state = desc[d].state
          /\ q.snooping = desc[d].snooping /\ q.snoop_by = desc[d].snoop_by
        BY <1>1, PutField
    <2>2. desc' = [desc EXCEPT ![d] = q]
        BY <1>3
    <2> HIDE DEF q
    <2>3. Links(desc') /\ Same(desc, desc')
        BY <1>1, <2>1, <2>2, Rewritten DEF Shut
    <2> QED
        BY <2>3, SameKept
<1> QED
    BY <1>2, <1>3

-----------------------------------------------------------------------------
(***************************************************************************)
(* The calls, one by one.                                                  *)
(***************************************************************************)
LEMMA WriteStep ==
    ASSUME LinksInv, stack # <<>>, Head(stack).call = "write", write(Head(stack))
    PROVE  LinksInv' /\ EdgesKept(desc, desc')
<1> DEFINE c == Head(stack)
<1>1. c.d \in Terms
    BY Innermost DEF Frame
<1>2. Plain(Close(c.d)) /\ AllPlain(<<>>) /\ (Plain(Close(c.d)) => AllPlain(<<Close(c.d)>>))
    BY <1>1, PlainOnes, AllPlainOnes
<1>3. CASE Is_closed(c.d)
    BY <1>2, <1>3, Unwritten, PlainCall DEF write
<1>4. CASE ~Is_closed(c.d)
    <2>1. PICK v : desc' = [desc EXCEPT ![c.d].out = v]
        BY <1>4 DEF write
    <2>2. Links(desc') /\ EdgesKept(desc, desc')
        BY <1>1, <2>1, FieldWritten
    <2>3. Makes(<<Close(c.d)>>) \/ Makes(<<>>)
        BY <1>4 DEF write
    <2> QED
        BY <1>2, <2>2, <2>3, PlainCall
<1> QED
    BY <1>3, <1>4

LEMMA TellStep ==
    ASSUME LinksInv, stack # <<>>, Head(stack).call = "tell", tell(Head(stack))
    PROVE  LinksInv' /\ EdgesKept(desc, desc')
<1> DEFINE c == Head(stack)
<1>1. c.to \subseteq Terms
    BY Innermost DEF Frame
<1>2. CASE Makes(<<>>)
    BY <1>2, AllPlainOnes, Unwritten, PlainCall DEF tell
<1>3. ASSUME NEW s \in c.to, Makes(<<Write(s, c.n), [c EXCEPT !.to = @ \ {s}]>>)
      PROVE  LinksInv' /\ EdgesKept(desc, desc')
    <2> DEFINE e == [c EXCEPT !.to = @ \ {s}]
    <2>1. e.call = "tell" /\ e.to \subseteq Terms
        BY <1>1
    <2>2. Plain(e) /\ Plain(Write(s, c.n))
        BY <1>1, <2>1, PlainOnes DEF Plain
    <2>3. AllPlain(<<Write(s, c.n), e>>)
        BY <2>2, AllPlainOnes
    <2> QED
        BY <1>3, <2>3, Unwritten, PlainCall DEF tell
<1> QED
    BY <1>2, <1>3 DEF tell

LEMMA EachStep ==
    ASSUME LinksInv, stack # <<>>, Head(stack).call = "each", each(Head(stack))
    PROVE  LinksInv' /\ EdgesKept(desc, desc')
<1> DEFINE c == Head(stack)
           left == c.left \cap desc[c.d].snoop_by
<1>1. c.d \in Terms /\ left \subseteq Terms
    BY Innermost DEF Frame, LinksInv, Links
<1>2. CASE Makes(<<>>)
    BY <1>2, AllPlainOnes, Unwritten, PlainCall DEF each
<1>3. ASSUME NEW s \in left, Makes(<<Write(s, c.n), [c EXCEPT !.left = left \ {s}, !.current = s]>>)
      PROVE  LinksInv' /\ EdgesKept(desc, desc')
    <2> DEFINE e == [c EXCEPT !.left = left \ {s}, !.current = s]
    <2>1. e.call = "each" /\ e.d = c.d
        OBVIOUS
    <2>2. Plain(e) /\ Plain(Write(s, c.n))
        BY <1>1, <2>1, PlainOnes DEF Plain
    <2>3. AllPlain(<<Write(s, c.n), e>>)
        BY <2>2, AllPlainOnes
    <2> QED
        BY <1>3, <2>3, Unwritten, PlainCall DEF each
<1> QED
    BY <1>2, <1>3 DEF each

LEMMA FlushStep ==
    ASSUME LinksInv, stack # <<>>, Head(stack).call = "flush_output", flush_output(Head(stack))
    PROVE  LinksInv' /\ EdgesKept(desc, desc')
<1> DEFINE c == Head(stack)
           a == ToSnoopers(c.d, desc[c.d].out + 1)
           b == Call("write_direct", c.d)
<1>1. Plain(a) /\ Plain(b)
    BY Innermost, PlainOnes DEF Frame
<1>2. AllPlain(<<>>) /\ AllPlain(<<b>>) /\ AllPlain(<<a, b>>)
    BY <1>1, AllPlainOnes
<1>3. <<>> \o <<b>> = <<b>> /\ <<a>> \o <<b>> = <<a, b>>
    BY Joined
<1>4. Makes(<<>>) \/ Makes(<<b>>) \/ Makes(<<a, b>>)
    BY <1>3 DEF flush_output
<1> QED
    BY <1>2, <1>4, Unwritten, PlainCall DEF flush_output

LEMMA WriteDirectStep ==
    ASSUME LinksInv, stack # <<>>, Head(stack).call = "write_direct", write_direct(Head(stack))
    PROVE  LinksInv' /\ EdgesKept(desc, desc')
<1> DEFINE c == Head(stack)
<1>1. c.d \in Terms
    BY Innermost DEF Frame
<1>2. AllPlain(<<>>) /\ AllPlain(<<Close(c.d)>>)
    BY <1>1, PlainOnes, AllPlainOnes
<1>3. Links(desc') /\ EdgesKept(desc, desc')
    BY <1>1, FieldWritten DEF write_direct
<1>4. Makes(<<Close(c.d)>>) \/ Makes(<<>>)
    BY DEF write_direct
<1> QED
    BY <1>2, <1>3, <1>4, PlainCall

LEMMA CloseStep ==
    ASSUME LinksInv, stack # <<>>, Head(stack).call = "close", close(Head(stack))
    PROVE  LinksInv' /\ EdgesKept(desc, desc')
<1> DEFINE c == Head(stack)
<1>1. c.d \in Terms
    BY Innermost DEF Frame
<1>2. AllPlain(<<>>) /\ AllPlain(<<Call("flush_output", c.d), Call("part", c.d)>>)
    BY <1>1, PlainOnes, AllPlainOnes
<1> QED
    BY <1>2, Unwritten, PlainCall DEF close

LEMMA ExtractStep ==
    ASSUME LinksInv, stack # <<>>, Head(stack).call = "extract_char", extract_char(Head(stack))
    PROVE  LinksInv' /\ EdgesKept(desc, desc')
<1>1. Head(stack).d \in Terms
    BY Innermost DEF Frame
<1>2. Links(desc') /\ EdgesKept(desc, desc')
    BY <1>1, FieldWritten DEF extract_char
<1> QED
    BY <1>2, AllPlainOnes, PlainCall DEF extract_char

\* A call makes others, and may take edges away.
LEMMA BusyCall ==
    ASSUME LinksInv, stack # <<>>, Links(desc'), EdgesKept(desc, desc'),
           NEW t, IsSeq(t), \A i \in 1 .. Len(t) : Frame(desc', t, i) /\ t[i].call # "do_fun", Makes(t),
           stack[1].call = "stop_snooping" =>
              desc'[stack[1].d].snooping = {} \/ (Len(t) > 0 /\ t[Len(t)] = stack[1])
    PROVE  LinksInv' /\ EdgesKept(desc, desc')
<1>1. stack' = Pushed(t, stack)
    BY DEF Makes, Pushed
<1>2. Frames(desc, stack)
    BY DEF LinksInv
<1>3. Frames(desc', Pushed(t, stack))
    BY <1>2, PushedFrames
<1> QED
    BY <1>1, <1>3 DEF LinksInv

LEMMA PartStep ==
    ASSUME LinksInv, stack # <<>>, Head(stack).call = "part", part(Head(stack))
    PROVE  LinksInv' /\ EdgesKept(desc, desc')
<1> DEFINE c == Head(stack)
<1>1. c.d \in Terms /\ stack[1].call # "stop_snooping" /\ Links(desc') /\ EdgesKept(desc, desc') /\ desc' = desc
    BY Innermost, Unwritten DEF Frame, part
<1>2. CASE desc[c.d].snoop_by = {}
    <2> DEFINE a == Call("stop_snooping", c.d)
               b == Call("leave", c.d)
               t == <<a, b>>
    <2>1. a.call = "stop_snooping" /\ a.d = c.d /\ b.call = "leave" /\ b.d = c.d
        BY DEF Call
    <2>2. Makes(t)
        BY <1>2 DEF part
    <2> HIDE DEF a, b
    <2>3. IsSeq(t) /\ Len(t) = 2 /\ t[1] = a /\ t[2] = b
        BY Seq2
    <2> HIDE DEF t
    <2>4. Frame(desc', t, 1)
        BY <1>1, <2>1, <2>3 DEF Frame
    <2>5. Frame(desc', t, 2)
        BY <1>1, <1>2, <2>1, <2>3 DEF Frame
    <2>6. \A i \in 1 .. Len(t) : Frame(desc', t, i) /\ t[i].call # "do_fun"
        BY <2>1, <2>3, <2>4, <2>5
    <2> QED
        BY <1>1, <2>2, <2>3, <2>6, BusyCall
<1>3. ASSUME NEW s \in desc[c.d].snoop_by,
             Makes(<<Write(s, 1), [call |-> "forget", d |-> s, whom |-> c.d], c>>)
      PROVE  LinksInv' /\ EdgesKept(desc, desc')
    <2> DEFINE a == Write(s, 1)
               b == [call |-> "forget", d |-> s, whom |-> c.d]
               t == <<a, b, c>>
    <2>1. s \in Terms
        BY <1>1 DEF LinksInv, Links
    <2>2. /\ a.call = "write" /\ a.d \in Terms
          /\ b.call = "forget" /\ b.d \in Terms /\ b.whom \in Terms
        BY <1>1, <2>1 DEF Write
    <2>3. Makes(t)
        BY <1>3
    <2> HIDE DEF a, b, c
    <2>4. IsSeq(t) /\ Len(t) = 3 /\ t[1] = a /\ t[2] = b /\ t[3] = c
        BY Seq3
    <2> HIDE DEF t
    <2>5. c.call = "part" /\ c.d \in Terms
        BY <1>1 DEF c
    <2>6. \A i \in 1 .. Len(t) : Frame(desc', t, i) /\ t[i].call # "do_fun"
        BY <2>2, <2>4, <2>5 DEF Frame
    <2> QED
        BY <1>1, <2>3, <2>4, <2>6, BusyCall
<1> QED
    BY <1>2, <1>3 DEF part

LEMMA StopSnoopingStep ==
    ASSUME LinksInv, stack # <<>>, Head(stack).call = "stop_snooping", stop_snooping(Head(stack))
    PROVE  LinksInv' /\ EdgesKept(desc, desc')
<1> DEFINE c == Head(stack)
<1>1. c.d \in Terms /\ c = stack[1]
    BY Innermost DEF Frame
<1>2. desc' = desc
    BY DEF stop_snooping
<1>3. Links(desc') /\ EdgesKept(desc, desc')
    BY <1>2, Unwritten
<1>4. CASE desc[c.d].snooping = {}
    <2>1. Makes(<<>>) /\ desc'[stack[1].d].snooping = {}
        BY <1>1, <1>2, <1>4 DEF stop_snooping
    <2> QED
        BY <1>3, <2>1, Seq0, BusyCall
<1>5. ASSUME NEW v \in desc[c.d].snooping,
             Makes(<<[call |-> "forget", d |-> c.d, whom |-> v], c>>)
      PROVE  LinksInv' /\ EdgesKept(desc, desc')
    <2> DEFINE b == [call |-> "forget", d |-> c.d, whom |-> v]
               t == <<b, c>>
    <2>1. b.call = "forget" /\ b.d \in Terms /\ b.whom \in Terms
        BY <1>1 DEF LinksInv, Links
    <2>2. Makes(t)
        BY <1>5
    <2>3. c.call = "stop_snooping"
        OBVIOUS
    <2> HIDE DEF b, c
    <2>4. IsSeq(t) /\ Len(t) = 2 /\ t[1] = b /\ t[2] = c
        BY Seq2
    <2> HIDE DEF t
    <2>5. \A i \in 1 .. Len(t) : Frame(desc', t, i) /\ t[i].call # "do_fun"
        BY <1>1, <2>1, <2>3, <2>4 DEF Frame
    <2>6. Len(t) > 0 /\ t[Len(t)] = stack[1]
        BY <1>1, <2>4
    <2> QED
        BY <1>3, <2>2, <2>4, <2>5, <2>6, BusyCall
<1> QED
    BY <1>4, <1>5 DEF stop_snooping

\* After a "leave" comes "closed": by then its descriptor is apart from all others.
LEMMA LeaveStep ==
    ASSUME LinksInv, stack # <<>>, Head(stack).call = "leave", leave(Head(stack))
    PROVE  LinksInv' /\ EdgesKept(desc, desc')
<1> DEFINE c == Head(stack)
           a == Tell(Everybody \ {c.d}, 1)
           b == Call("closed", c.d)
<1>1. c.d \in Terms /\ Apart(desc, c.d) /\ stack[1].call # "stop_snooping"
    BY Innermost DEF Frame, Apart
<1>2. Links(desc') /\ EdgesKept(desc, desc') /\ desc' = desc
    BY Unwritten DEF leave
<1>3. a.call = "tell" /\ a.to \subseteq Terms /\ b.call = "closed" /\ b.d = c.d
    BY DEF Tell, Call, Everybody
<1>4. Makes(<<>> \o <<b>>) \/ Makes(<<a>> \o <<b>>)
    BY DEF leave
<1> HIDE DEF a, b
<1>5. Makes(<<b>>) \/ Makes(<<a, b>>)
    BY <1>4, Joined
<1>6. CASE Makes(<<b>>)
    <2> DEFINE t == <<b>>
    <2>1. IsSeq(t) /\ Len(t) = 1 /\ t[1] = b /\ Makes(t)
        BY <1>6, Seq1
    <2> HIDE DEF t
    <2>2. \A i \in 1 .. Len(t) : Frame(desc', t, i) /\ t[i].call # "do_fun"
        BY <1>1, <1>2, <1>3, <2>1 DEF Frame
    <2> QED
        BY <1>1, <1>2, <2>1, <2>2, BusyCall
<1>7. CASE Makes(<<a, b>>)
    <2> DEFINE t == <<a, b>>
    <2>1. IsSeq(t) /\ Len(t) = 2 /\ t[1] = a /\ t[2] = b /\ Makes(t)
        BY <1>7, Seq2
    <2> HIDE DEF t
    <2>2. \A i \in 1 .. Len(t) : Frame(desc', t, i) /\ t[i].call # "do_fun"
        BY <1>1, <1>2, <1>3, <2>1, SMTT(40) DEF Frame
    <2> QED
        BY <1>1, <1>2, <2>1, <2>2, BusyCall
<1> QED
    BY <1>5, <1>6, <1>7

LEMMA ClosedStep ==
    ASSUME LinksInv, stack # <<>>, Head(stack).call = "closed", closed(Head(stack))
    PROVE  LinksInv' /\ EdgesKept(desc, desc')
<1> DEFINE d == Head(stack).d
           n == IF link = "up" THEN desc[d].goodbyes + 1 ELSE desc[d].goodbyes
           r == [desc[d] EXCEPT !.state = "closed", !.person = FALSE, !.goodbyes = n]
<1>1. d \in Terms /\ Apart(desc, d) /\ Links(desc) /\ IsDesc(desc[d])
    BY Innermost DEF Frame, LinksInv, Links
<1>2. desc' = [desc EXCEPT ![d] = r]
    BY DEF closed
<1> HIDE DEF n
<1>3. IsDesc(r) /\ r.snooping = desc[d].snooping /\ r.snoop_by = desc[d].snoop_by
    BY <1>1 DEF IsDesc, Fields
<1> HIDE DEF d, r
<1>4. Links(desc') /\ Same(desc, desc')
    BY <1>1, <1>2, <1>3, Rewritten
<1> QED
    BY <1>4, SameKept, AllPlainOnes, PlainCall DEF closed

\* The edge goes from both its ends.
LEMMA ForgottenLinks ==
    ASSUME NEW ds, Links(ds), NEW s \in Terms, NEW d \in Terms
    PROVE  LET es == Forgotten(ds, s, d)
           IN  Links(es) /\ EdgesKept(ds, es)
<1> DEFINE es == Forgotten(ds, s, d)
           a == [ds[s] EXCEPT !.snooping = @ \ {d}]
           fs == [ds EXCEPT ![s] = a]
           b == [fs[d] EXCEPT !.snoop_by = @ \ {s}]
<1>1. ds = [x \in Terms |-> ds[x]] /\ \A x \in Terms : IsDesc(ds[x])
    BY DEF Links
<1>2. es = [fs EXCEPT ![d] = b]
    BY DEF Forgotten
<1>3. /\ IsDesc(a) /\ a.state = ds[s].state
      /\ a.snooping = ds[s].snooping \ {d} /\ a.snoop_by = ds[s].snoop_by
    BY <1>1 DEF IsDesc, Fields
<1> HIDE DEF a
<1>4. fs[s] = a /\ (\A x \in Terms \ {s} : fs[x] = ds[x]) /\ fs = [x \in Terms |-> fs[x]]
    BY <1>1
<1> HIDE DEF fs
<1>5. IsDesc(fs[d])
    BY <1>1, <1>3, <1>4
<1>6. /\ IsDesc(b) /\ b.state = fs[d].state
      /\ b.snooping = fs[d].snooping /\ b.snoop_by = fs[d].snoop_by \ {s}
    BY <1>5 DEF IsDesc, Fields
<1> HIDE DEF b
<1>7. es[d] = b /\ (\A x \in Terms \ {d} : es[x] = fs[x]) /\ es = [x \in Terms |-> es[x]]
    BY <1>2, <1>4
<1> HIDE DEF es
<1>8. ASSUME NEW x \in Terms
      PROVE  /\ IsDesc(es[x]) /\ es[x].state = ds[x].state
             /\ es[x].snooping = IF x = s THEN ds[x].snooping \ {d} ELSE ds[x].snooping
             /\ es[x].snoop_by = IF x = d THEN ds[x].snoop_by \ {s} ELSE ds[x].snoop_by
    <2>1. /\ IsDesc(fs[x]) /\ fs[x].state = ds[x].state /\ fs[x].snoop_by = ds[x].snoop_by
          /\ fs[x].snooping = IF x = s THEN ds[x].snooping \ {d} ELSE ds[x].snooping
        BY <1>1, <1>3, <1>4
    <2>2. CASE x = d
        BY <1>6, <1>7, <2>1, <2>2
    <2>3. CASE x # d
        BY <1>7, <2>1, <2>3
    <2> QED
        BY <2>2, <2>3
<1>9. ASSUME NEW x \in Terms, NEW y \in Terms
      PROVE  y \in es[x].snooping <=> x \in es[y].snoop_by
    <2>1. y \in ds[x].snooping <=> x \in ds[y].snoop_by
        BY DEF Links
    <2>2. es[x].snooping = IF x = s THEN ds[x].snooping \ {d} ELSE ds[x].snooping
        BY <1>8
    <2>3. es[y].snoop_by = IF y = d THEN ds[y].snoop_by \ {s} ELSE ds[y].snoop_by
        BY <1>8
    <2> QED
        BY ONLY <2>1, <2>2, <2>3
<1>10. EdgesKept(ds, es)
    BY <1>8 DEF EdgesKept
<1>11. \A x \in Terms : /\ es[x].snooping \subseteq Terms /\ es[x].snoop_by \subseteq Terms
                        /\ Shut(es, x) => Apart(es, x)
    BY <1>8, <1>10, ZenonT(60) DEF Links, Shut, Apart, EdgesKept
<1> QED
    BY <1>7, <1>8, <1>9, <1>10, <1>11 DEF Links, es

LEMMA ForgetStep ==
    ASSUME LinksInv, stack # <<>>, Head(stack).call = "forget", forget(Head(stack))
    PROVE  LinksInv' /\ EdgesKept(desc, desc')
<1>1. Head(stack).d \in Terms /\ Head(stack).whom \in Terms /\ Links(desc)
    BY Innermost DEF Frame, LinksInv
<1>2. Links(desc') /\ EdgesKept(desc, desc')
    BY <1>1, ForgottenLinks DEF forget
<1> QED
    BY <1>2, AllPlainOnes, PlainCall DEF forget

-----------------------------------------------------------------------------
(***************************************************************************)
(* Whom one reaches.                                                       *)
(***************************************************************************)
Snooped(ds, S) == \A s \in S : ds[s].snooping \subseteq S

LEMMA ReachedClosed ==
    ASSUME NEW ds, NEW d \in Terms, \A x \in Terms : ds[x].snooping \subseteq Terms
    PROVE  /\ Reached(ds, d) \subseteq Terms /\ ds[d].snooping \subseteq Reached(ds, d)
           /\ Snooped(ds, Reached(ds, d))
<1> DEFINE R == Reached(ds, d)
<1>1. R \subseteq Terms
    BY DEF Reached
<1>2. ds[d].snooping \subseteq R
    BY DEF Reached
<1>3. ASSUME NEW s \in R, NEW e \in ds[s].snooping
      PROVE  e \in R
    <2>1. e \in Terms
        BY <1>1
    <2>2. ASSUME NEW S \in SUBSET Terms, ds[d].snooping \subseteq S, \A x \in S : ds[x].snooping \subseteq S
          PROVE  e \in S
        <3>1. s \in S
            BY <2>2 DEF Reached
        <3> QED
            BY <2>2, <3>1
    <2> QED
        BY <2>1, <2>2 DEF Reached
<1> QED
    BY <1>1, <1>2, <1>3 DEF Snooped

LEMMA ReachedLeast ==
    ASSUME NEW ds, NEW d \in Terms, NEW S \in SUBSET Terms, ds[d].snooping \subseteq S, Snooped(ds, S)
    PROVE  Reached(ds, d) \subseteq S
BY DEF Reached, Snooped

\* With fewer edges fewer are reached.
LEMMA FewerLoops ==
    ASSUME NEW ds, \A x \in Terms : ds[x].snooping \subseteq Terms, LoopFree(ds),
           NEW es, EdgesKept(ds, es)
    PROVE  LoopFree(es)
<1> SUFFICES ASSUME NEW d \in Terms
             PROVE  d \notin Reached(es, d)
    BY DEF LoopFree
<1> DEFINE R == Reached(ds, d)
<1>1. R \subseteq Terms /\ ds[d].snooping \subseteq R /\ Snooped(ds, R) /\ d \notin R
    BY ReachedClosed DEF LoopFree
<1> HIDE DEF R
<1>2. es[d].snooping \subseteq R /\ Snooped(es, R)
    BY <1>1 DEF EdgesKept, Snooped
<1>3. Reached(es, d) \subseteq R
    BY <1>1, <1>2, ReachedLeast
<1> QED
    BY <1>1, <1>3

\* An edge to somebody from whom one is not reached closes no loop.
LEMMA NoNewLoop ==
    ASSUME NEW ds, \A x \in Terms : ds[x].snooping \subseteq Terms, LoopFree(ds),
           NEW d \in Terms, NEW v \in Terms, d \notin {v} \cup Reached(ds, v), NEW es,
           \A x \in Terms : es[x].snooping = IF x = d THEN ds[x].snooping \cup {v} ELSE ds[x].snooping
    PROVE  LoopFree(es)
<1> SUFFICES ASSUME NEW x \in Terms
             PROVE  x \notin Reached(es, x)
    BY DEF LoopFree
<1> DEFINE R == {v} \cup Reached(ds, v)
           S0 == Reached(ds, x)
<1>1. R \subseteq Terms /\ v \in R /\ Snooped(ds, R) /\ d \notin R
    BY ReachedClosed DEF Snooped
<1>2. S0 \subseteq Terms /\ ds[x].snooping \subseteq S0 /\ Snooped(ds, S0) /\ x \notin S0
    BY ReachedClosed DEF LoopFree
<1>3. x \in R => S0 \subseteq R
    BY <1>1, ReachedLeast DEF Snooped
<1> HIDE DEF R, S0
<1>4. CASE x = d
    <2>1. es[x].snooping \subseteq S0 \cup R /\ Snooped(es, S0 \cup R) /\ S0 \cup R \in SUBSET Terms
        BY <1>1, <1>2, <1>4 DEF Snooped
    <2>2. Reached(es, x) \subseteq S0 \cup R
        BY <2>1, ReachedLeast
    <2> QED
        BY <1>1, <1>2, <1>4, <2>2
<1>5. CASE x # d /\ d \in S0
    <2>1. es[x].snooping \subseteq S0 \cup R /\ Snooped(es, S0 \cup R) /\ S0 \cup R \in SUBSET Terms
        BY <1>1, <1>2, <1>5 DEF Snooped
    <2>2. Reached(es, x) \subseteq S0 \cup R
        BY <2>1, ReachedLeast
    <2> QED
        BY <1>1, <1>2, <1>3, <1>5, <2>2
<1>6. CASE x # d /\ d \notin S0
    <2>1. es[x].snooping \subseteq S0 /\ Snooped(es, S0) /\ S0 \in SUBSET Terms
        BY <1>2, <1>6 DEF Snooped
    <2>2. Reached(es, x) \subseteq S0
        BY <2>1, ReachedLeast
    <2> QED
        BY <1>2, <2>2
<1> QED
    BY <1>4, <1>5, <1>6

-----------------------------------------------------------------------------
(***************************************************************************)
(* Commands: the only steps that add an edge.                              *)
(***************************************************************************)
WithEdge(ds, d, v) == [ds EXCEPT ![d].snooping = @ \cup {v}, ![v].snoop_by = @ \cup {d}]

\* The edge is entered at both its ends, and is the only new one.
LEMMA SnoopingLinks ==
    ASSUME Links(desc), NEW d \in Terms, NEW v \in Terms, ~Shut(desc, d), ~Shut(desc, v),
           desc' = WithEdge(desc, d, v)
    PROVE  /\ Links(desc')
           /\ \A x \in Terms : desc'[x].snooping =
                 IF x = d THEN desc[x].snooping \cup {v} ELSE desc[x].snooping
<1> DEFINE a == [desc[d] EXCEPT !.snooping = @ \cup {v}]
           fs == [desc EXCEPT ![d] = a]
           b == [fs[v] EXCEPT !.snoop_by = @ \cup {d}]
<1>1. desc = [x \in Terms |-> desc[x]] /\ \A x \in Terms : IsDesc(desc[x])
    BY DEF Links
<1>2. desc' = [fs EXCEPT ![v] = b]
    BY DEF WithEdge
<1>3. /\ IsDesc(a) /\ a.state = desc[d].state
      /\ a.snooping = desc[d].snooping \cup {v} /\ a.snoop_by = desc[d].snoop_by
    BY <1>1 DEF IsDesc, Fields
<1> HIDE DEF a
<1>4. fs[d] = a /\ (\A x \in Terms \ {d} : fs[x] = desc[x]) /\ fs = [x \in Terms |-> fs[x]]
    BY <1>1
<1> HIDE DEF fs
<1>5. IsDesc(fs[v])
    BY <1>1, <1>3, <1>4
<1>6. /\ IsDesc(b) /\ b.state = fs[v].state
      /\ b.snooping = fs[v].snooping /\ b.snoop_by = fs[v].snoop_by \cup {d}
    BY <1>5 DEF IsDesc, Fields
<1> HIDE DEF b
<1>7. desc'[v] = b /\ (\A x \in Terms \ {v} : desc'[x] = fs[x]) /\ desc' = [x \in Terms |-> desc'[x]]
    BY <1>2, <1>4
<1>8. ASSUME NEW x \in Terms
      PROVE  /\ IsDesc(desc'[x]) /\ desc'[x].state = desc[x].state
             /\ desc'[x].snooping = IF x = d THEN desc[x].snooping \cup {v} ELSE desc[x].snooping
             /\ desc'[x].snoop_by = IF x = v THEN desc[x].snoop_by \cup {d} ELSE desc[x].snoop_by
    <2>1. /\ IsDesc(fs[x]) /\ fs[x].state = desc[x].state /\ fs[x].snoop_by = desc[x].snoop_by
          /\ fs[x].snooping = IF x = d THEN desc[x].snooping \cup {v} ELSE desc[x].snooping
        BY <1>1, <1>3, <1>4
    <2>2. CASE x = v
        BY <1>6, <1>7, <2>1, <2>2
    <2>3. CASE x # v
        BY <1>7, <2>1, <2>3
    <2> QED
        BY <2>2, <2>3
<1>9. ASSUME NEW x \in Terms, NEW y \in Terms
      PROVE  y \in desc'[x].snooping <=> x \in desc'[y].snoop_by
    <2>1. y \in desc[x].snooping <=> x \in desc[y].snoop_by
        BY DEF Links
    <2>2. desc'[x].snooping = IF x = d THEN desc[x].snooping \cup {v} ELSE desc[x].snooping
        BY <1>8
    <2>3. desc'[y].snoop_by = IF y = v THEN desc[y].snoop_by \cup {d} ELSE desc[y].snoop_by
        BY <1>8
    <2> QED
        BY ONLY <2>1, <2>2, <2>3
<1>10. ASSUME NEW x \in Terms
       PROVE  /\ desc'[x].snooping \subseteq Terms /\ desc'[x].snoop_by \subseteq Terms
              /\ Shut(desc', x) => Apart(desc', x)
    <2>1. /\ desc[x].snooping \subseteq Terms /\ desc[x].snoop_by \subseteq Terms
          /\ Shut(desc, x) => Apart(desc, x)
        BY DEF Links
    <2>2. Shut(desc', x) => x # d /\ x # v /\ Shut(desc, x)
        BY <1>8 DEF Shut
    <2>3. Shut(desc', x) => desc'[x].snooping = {} /\ desc'[x].snoop_by = {}
        BY <1>8, <2>1, <2>2 DEF Apart
    <2>4. desc'[x].snooping \subseteq Terms /\ desc'[x].snoop_by \subseteq Terms
        BY <1>8, <2>1
    <2> QED
        BY <2>3, <2>4 DEF Apart
<1> QED
    BY <1>7, <1>8, <1>9, <1>10 DEF Links

\* A descriptor is written to, in fields other than its edges.
LEMMA Renewed ==
    ASSUME LinksInv, NEW d \in Terms, NEW r, IsDesc(r),
           r.snooping = desc[d].snooping, r.snoop_by = desc[d].snoop_by,
           r.state \in {"closed", "reaped"} => Shut(desc, d), desc' = [desc EXCEPT ![d] = r]
    PROVE  Links(desc') /\ EdgesKept(desc, desc')
<1>1. Links(desc)
    BY DEF LinksInv
<1>2. Links(desc') /\ Same(desc, desc')
    BY <1>1, Rewritten
<1> QED
    BY <1>2, SameKept

\* The only call there is makes others, whatever becomes of the edges.
LEMMA LastCall ==
    ASSUME LinksInv, stack # <<>>, Head(stack).call = "do_fun", Links(desc'), NEW t, AllPlain(t), Makes(t)
    PROVE  LinksInv'
<1>1. stack' = Pushed(t, stack)
    BY DEF Makes, Pushed
<1>2. Frames(desc, stack) /\ stack[1].call # "stop_snooping" /\ Len(stack) = 1
    BY Innermost DEF LinksInv, Frame
<1>3. Frames(desc', Pushed(t, stack))
    BY <1>2, PlainPushed
<1> QED
    BY <1>1, <1>3 DEF LinksInv

LEMMA SnoopStep ==
    ASSUME LinksInv, stack # <<>>, Head(stack).call = "do_fun", NEW d \in Terms, NEW v, do_snoop(d, v)
    PROVE  LinksInv' /\ (LoopFree(desc) => LoopFree(desc'))
<1> DEFINE a == Write(d, 1)
           b == Call("stop_snooping", d)
<1>1. Plain(a) /\ Plain(b)
    BY PlainOnes
<1>2. AllPlain(<<a>>) /\ AllPlain(<<a, b>>)
    BY <1>1, AllPlainOnes
<1> HIDE DEF a, b
<1>3. <<a>> \o <<>> = <<a>> /\ <<a>> \o <<b>> = <<a, b>>
    <2>1. <<a>> \in Seq({a})
        OBVIOUS
    <2> QED
        BY <2>1, ConcatEmptySeq, Joined
<1>4. Makes(<<a>> \o <<b>>) \/ Makes(<<a>> \o <<>>)
    BY DEF do_snoop, a, b
<1>5. Makes(<<a, b>>) \/ Makes(<<a>>)
    BY <1>3, <1>4
<1>6. CASE desc' = desc
    BY <1>2, <1>5, <1>6, Unwritten, LastCall
<1>7. CASE desc' # desc
    <2>1. /\ v \in Terms /\ ~Shut(desc, d) /\ ~Shut(desc, v) /\ ~MetTwice(desc, d, v)
          /\ desc' = [desc EXCEPT ![d].snooping = @ \cup {v}, ![v].snoop_by = @ \cup {d}]
        BY <1>7 DEF do_snoop, try_start_snooping, Is_closed, Shut
    <2>2. Links(desc)
        BY DEF LinksInv
    <2>3. /\ Links(desc')
          /\ \A x \in Terms : desc'[x].snooping =
                IF x = d THEN desc[x].snooping \cup {v} ELSE desc[x].snooping
        <3>1. /\ Links(desc) /\ d \in Terms /\ v \in Terms /\ ~Shut(desc, d) /\ ~Shut(desc, v)
              /\ desc' = WithEdge(desc, d, v)
            BY <2>1, <2>2 DEF WithEdge
        <3> QED
            BY <3>1, SnoopingLinks
    <2>4. LinksInv'
        BY <1>2, <1>5, <2>3, LastCall
    <2>5. d \notin {v} \cup Reached(desc, v)
        BY <2>1 DEF MetTwice
    <2>6. \A x \in Terms : desc[x].snooping \subseteq Terms
        BY <2>2 DEF Links
    <2>7. LoopFree(desc) => LoopFree(desc')
        <3> SUFFICES ASSUME LoopFree(desc)
                     PROVE  LoopFree(desc')
            OBVIOUS
        <3>1. /\ d \in Terms /\ v \in Terms
              /\ \A x \in Terms : desc'[x].snooping =
                    IF x = d THEN desc[x].snooping \cup {v} ELSE desc[x].snooping
            BY <2>1, <2>3
        <3> QED
            BY ONLY LoopFree(desc), <2>5, <2>6, <3>1, NoNewLoop
    <2> QED
        BY <2>4, <2>7
<1> QED
    BY <1>6, <1>7

LEMMA FewerSnoop ==
    ASSUME LinksInv, EdgesKept(desc, desc'), LoopFree(desc)
    PROVE  LoopFree(desc')
<1>1. \A x \in Terms : desc[x].snooping \subseteq Terms
    BY DEF LinksInv, Links
<1> QED
    BY <1>1, FewerLoops

LEMMA TrustStep ==
    ASSUME LinksInv, stack # <<>>, Head(stack).call = "do_fun", NEW d \in Terms, NEW v, do_trust(d, v)
    PROVE  LinksInv' /\ EdgesKept(desc, desc')
<1>1. CASE desc' = desc
    BY <1>1, Unwritten, AllPlainOnes, LastCall DEF do_trust
<1>2. ASSUME v \in Terms, NEW n, desc' = [desc EXCEPT ![v].trust = n]
      PROVE  LinksInv' /\ EdgesKept(desc, desc')
    <2> DEFINE r == [desc[v] EXCEPT !.trust = n]
    <2>1. IsDesc(desc[v])
        BY <1>2 DEF LinksInv, Links
    <2>2. /\ IsDesc(r) /\ r.state = desc[v].state
          /\ r.snooping = desc[v].snooping /\ r.snoop_by = desc[v].snoop_by
        BY <2>1 DEF IsDesc, Fields
    <2>3. desc' = [desc EXCEPT ![v] = r]
        BY <1>2
    <2> HIDE DEF r
    <2>4. Links(desc') /\ EdgesKept(desc, desc')
        BY <1>2, <2>2, <2>3, Renewed DEF Shut
    <2> QED
        BY <2>4, AllPlainOnes, LastCall DEF do_trust
<1>3. PICK n : desc' = IF v \in Terms /\ Playing(v) /\ desc[v].person
                       THEN [desc EXCEPT ![v].trust = IF n = 0 THEN scene.level[v] ELSE n]
                       ELSE desc
    BY DEF do_trust
<1> QED
    BY <1>1, <1>2, <1>3

LEMMA PageStep ==
    ASSUME LinksInv, stack # <<>>, Head(stack).call = "do_fun", NEW d \in Terms, page_to(d)
    PROVE  LinksInv' /\ EdgesKept(desc, desc')
<1>1. CASE Is_closed(d)
    BY <1>1, Unwritten, AllPlainOnes, LastCall DEF page_to
<1>2. CASE ~Is_closed(d)
    <2> DEFINE r == [desc[d] EXCEPT !.pages = HelpPages - 1]
    <2>1. IsDesc(desc[d])
        BY DEF LinksInv, Links
    <2>2. /\ IsDesc(r) /\ r.state = desc[d].state
          /\ r.snooping = desc[d].snooping /\ r.snoop_by = desc[d].snoop_by
        BY <2>1 DEF IsDesc, Fields
    <2>3. desc' = [desc EXCEPT ![d] = r]
        BY <1>2 DEF page_to
    <2> HIDE DEF r
    <2>4. Links(desc') /\ EdgesKept(desc, desc')
        BY <2>2, <2>3, Renewed DEF Shut
    <2>5. Makes(<<Write(d, 1)>>) /\ AllPlain(<<Write(d, 1)>>)
        BY <1>2, PlainOnes, AllPlainOnes DEF page_to
    <2> QED
        BY <2>4, <2>5, LastCall
<1> QED
    BY <1>1, <1>2

LEMMA QuitStep ==
    ASSUME LinksInv, stack # <<>>, Head(stack).call = "do_fun", NEW d \in Terms, do_quit(d)
    PROVE  LinksInv' /\ EdgesKept(desc, desc')
<1> DEFINE t == <<Write(d, 1), Tell(Everybody \ {d}, 1), Call("extract_char", d), Close(d)>>
<1>1. Everybody \ {d} \in SUBSET Terms
    BY DEF Everybody
<1>2. Plain(Write(d, 1)) /\ Plain(Tell(Everybody \ {d}, 1)) /\ Plain(Call("extract_char", d)) /\ Plain(Close(d))
    BY <1>1, PlainOnes
<1>3. AllPlain(t) /\ Makes(t)
    BY <1>2, AllPlainOnes DEF do_quit
<1> HIDE DEF t
<1> QED
    BY <1>3, Unwritten, LastCall DEF do_quit

LEMMA CommandStep ==
    ASSUME LinksInv, stack # <<>>, Head(stack).call = "do_fun", do_fun(Head(stack))
    PROVE  LinksInv' /\ (LoopFree(desc) => LoopFree(desc'))
<1> DEFINE c == Head(stack)
           word == c.line[1]
<1>1. c.d \in Terms
    BY Innermost DEF Frame
<1>2. CASE UNCHANGED desc /\ Makes(<<Tell(Everybody, 1)>>)
    <2>1. AllPlain(<<Tell(Everybody, 1)>>)
        BY <1>1, PlainOnes, AllPlainOnes DEF Everybody
    <2> QED
        BY <1>2, <2>1, Unwritten, LastCall
<1>3. CASE page_to(c.d)
    BY <1>1, <1>3, PageStep, FewerSnoop
<1>4. CASE do_quit(c.d)
    BY <1>1, <1>4, QuitStep, FewerSnoop
<1>5. CASE do_snoop(c.d, c.line[2])
    BY <1>1, <1>5, SnoopStep
<1>6. CASE do_trust(c.d, c.line[2])
    BY <1>1, <1>6, TrustStep, FewerSnoop
<1> QED
    BY <1>2, <1>3, <1>4, <1>5, <1>6 DEF do_fun

LEMMA CallsKeep ==
    ASSUME LinksInv, Calls
    PROVE  LinksInv' /\ (LoopFree(desc) => LoopFree(desc'))
<1> DEFINE c == Head(stack)
<1>1. stack # <<>>
    BY DEF Calls
<1>2. CASE c.call = "write" /\ write(c)
    BY <1>1, <1>2, WriteStep, FewerSnoop
<1>3. CASE c.call = "tell" /\ tell(c)
    BY <1>1, <1>3, TellStep, FewerSnoop
<1>4. CASE c.call = "each" /\ each(c)
    BY <1>1, <1>4, EachStep, FewerSnoop
<1>5. CASE c.call = "flush_output" /\ flush_output(c)
    BY <1>1, <1>5, FlushStep, FewerSnoop
<1>6. CASE c.call = "write_direct" /\ write_direct(c)
    BY <1>1, <1>6, WriteDirectStep, FewerSnoop
<1>7. CASE c.call = "close" /\ close(c)
    BY <1>1, <1>7, CloseStep, FewerSnoop
<1>8. CASE c.call = "part" /\ part(c)
    BY <1>1, <1>8, PartStep, FewerSnoop
<1>9. CASE c.call = "stop_snooping" /\ stop_snooping(c)
    BY <1>1, <1>9, StopSnoopingStep, FewerSnoop
<1>10. CASE c.call = "leave" /\ leave(c)
    BY <1>1, <1>10, LeaveStep, FewerSnoop
<1>11. CASE c.call = "closed" /\ closed(c)
    BY <1>1, <1>11, ClosedStep, FewerSnoop
<1>12. CASE c.call = "extract_char" /\ extract_char(c)
    BY <1>1, <1>12, ExtractStep, FewerSnoop
<1>13. CASE c.call = "do_fun" /\ do_fun(c)
    BY <1>1, <1>13, CommandStep
<1>14. CASE c.call = "forget" /\ forget(c)
    BY <1>1, <1>14, ForgetStep, FewerSnoop
<1> QED
    BY <1>2, <1>3, <1>4, <1>5, <1>6, <1>7, <1>8, <1>9, <1>10, <1>11, <1>12, <1>13, <1>14 DEF Calls

-----------------------------------------------------------------------------
(***************************************************************************)
(* The main loop, which has no call going on.                              *)
(***************************************************************************)
LEMMA SeqOfSet ==
    ASSUME NEW S, IsFiniteSet(S)
    PROVE  LET s == SetToSeq(S)
           IN  IsSeq(s) /\ \A i \in 1 .. Len(s) : s[i] \in S
<1> DEFINE n == Cardinality(S)
           s == SetToSeq(S)
<1>1. n \in Nat /\ ExistsBijection(1 .. n, S)
    BY FS_CardinalityType
<1>2. \E f \in [1 .. n -> S] : IsInjective(f)
    BY <1>1 DEF ExistsBijection, Bijection, Injection
<1>3. s \in [1 .. n -> S]
    BY <1>2 DEF SetToSeq
<1>4. s \in Seq(S)
    BY <1>1, <1>3
<1> QED
    BY <1>4 DEF IsSeq

LEMMA ClosesFinite ==
    ASSUME NEW D \in SUBSET Terms
    PROVE  IsFiniteSet({Close(d) : d \in D})
<1> DEFINE S == {Close(d) : d \in D}
<1>1. IsFiniteSet(D)
    BY TerminalAssumption, FS_Subset
<1>2. PICK n \in Nat : ExistsSurjection(1 .. n, D)
    BY <1>1, FS_NatSurjection
<1>3. PICK f \in Surjection(1 .. n, D) : TRUE
    BY <1>2 DEF ExistsSurjection
<1> DEFINE g == [i \in 1 .. n |-> Close(f[i])]
<1>4. f \in [1 .. n -> D] /\ \A d \in D : \E i \in 1 .. n : f[i] = d
    BY <1>3 DEF Surjection
<1>5. g \in [1 .. n -> S] /\ \A c \in S : \E i \in 1 .. n : g[i] = c
    BY <1>4
<1>6. g \in Surjection(1 .. n, S)
    BY <1>5 DEF Surjection
<1>7. ExistsSurjection(1 .. n, S)
    BY <1>6 DEF ExistsSurjection
<1> QED
    BY <1>7, FS_NatSurjection

\* Calls begin.
LEMMA Begun ==
    ASSUME Links(desc'), EdgesKept(desc, desc'), AllPlain(stack')
    PROVE  LinksInv' /\ EdgesKept(desc, desc')
BY PlainOnly DEF LinksInv

LEMMA NothingBegun ==
    ASSUME LinksInv, stack = <<>>, UNCHANGED desc, UNCHANGED stack
    PROVE  LinksInv' /\ EdgesKept(desc, desc')
BY Unwritten DEF LinksInv

LEMMA LostStep ==
    ASSUME LinksInv, doorman_lost
    PROVE  LinksInv' /\ EdgesKept(desc, desc')
<1> DEFINE D == {d \in Terms : ~Is_closed(d)}
           S == {Close(d) : d \in D}
<1>1. IsFiniteSet(S)
    BY ClosesFinite
<1>2. \A c \in S : Plain(c)
    BY PlainOnes
<1>3. stack' = SetToSeq(S) /\ UNCHANGED desc
    BY DEF doorman_lost
<1> HIDE DEF S
<1>4. AllPlain(stack')
    BY <1>1, <1>2, <1>3, SeqOfSet DEF AllPlain
<1> QED
    BY <1>3, <1>4, Unwritten, Begun

LEMMA DisconnectedStep ==
    ASSUME LinksInv, Idle, NEW d \in Terms, Disconnected(d)
    PROVE  LinksInv' /\ EdgesKept(desc, desc')
<1>1. stack = <<>>
    BY DEF Idle
<1>2. CASE Is_closed(d)
    BY <1>1, <1>2, NothingBegun DEF Disconnected
<1>3. CASE ~Is_closed(d)
    <2> DEFINE w == IF Playing(d) THEN "disconnecting" ELSE "disconnecting_np"
               r == [desc[d] EXCEPT !.out = 0, !.state = w]
    <2>1. IsDesc(desc[d])
        BY DEF LinksInv, Links
    <2>2. desc' = [desc EXCEPT ![d] = r]
        BY <1>3 DEF Disconnected
    <2>3. w \notin {"closed", "reaped"}
        OBVIOUS
    <2> HIDE DEF w
    <2>4. IsDesc(r) /\ r.state = w /\ r.snooping = desc[d].snooping /\ r.snoop_by = desc[d].snoop_by
        BY <2>1 DEF IsDesc, Fields
    <2> HIDE DEF r
    <2>5. Links(desc') /\ EdgesKept(desc, desc')
        BY <2>2, <2>3, <2>4, Renewed
    <2>6. stack' = <<Close(d)>> /\ AllPlain(<<Close(d)>>)
        BY <1>3, PlainOnes, AllPlainOnes DEF Disconnected
    <2> QED
        BY <2>5, <2>6, Begun
<1> QED
    BY <1>2, <1>3

LEMMA ReadStep ==
    ASSUME LinksInv, NEW d \in Terms, Read(d)
    PROVE  LinksInv' /\ EdgesKept(desc, desc')
<1>1. Idle /\ stack = <<>> /\ on_data(d)
    BY DEF Read, Idle
<1>2. CASE Disconnected(d)
    BY <1>1, <1>2, DisconnectedStep
<1>3. CASE UNCHANGED desc /\ UNCHANGED stack
    BY <1>1, <1>3, NothingBegun
<1>4. ASSUME NEW lines, desc' = [desc EXCEPT ![d] = Queued(@, lines)], UNCHANGED stack
      PROVE  LinksInv' /\ EdgesKept(desc, desc')
    <2> DEFINE r == Queued(desc[d], lines)
    <2>1. IsDesc(desc[d])
        BY DEF LinksInv, Links
    <2>2. PICK b, w : r = [desc[d] EXCEPT !.backlog = b, !.warned = w]
        BY DEF Queued
    <2>3. desc' = [desc EXCEPT ![d] = r]
        BY <1>4
    <2> HIDE DEF r
    <2>4. /\ IsDesc(r) /\ r.state = desc[d].state
          /\ r.snooping = desc[d].snooping /\ r.snoop_by = desc[d].snoop_by
        BY <2>1, <2>2 DEF IsDesc, Fields
    <2>5. Links(desc') /\ EdgesKept(desc, desc')
        BY <2>3, <2>4, Renewed DEF Shut
    <2>6. AllPlain(stack')
        BY <1>1, <1>4, AllPlainOnes
    <2> QED
        BY <2>5, <2>6, Begun
<1> QED
    BY <1>1, <1>2, <1>3, <1>4 DEF on_data

LEMMA OutputStep ==
    ASSUME LinksInv, NEW d \in Terms, Output(d)
    PROVE  LinksInv' /\ EdgesKept(desc, desc')
<1> DEFINE a == Write(d, 1)
           b == Call("flush_output", d)
<1>1. stack = <<>> /\ UNCHANGED desc
    BY DEF Output, Idle
<1>2. AllPlain(<<>>) /\ AllPlain(<<b>>) /\ AllPlain(<<a, b>>)
    BY PlainOnes, AllPlainOnes
<1>3. <<>> \o <<b>> = <<b>> /\ <<a>> \o <<b>> = <<a, b>>
    BY Joined
<1>4. stack' = <<>> \/ stack' = <<b>> \/ stack' = <<a, b>>
    BY <1>1, <1>3 DEF Output, process_output
<1> QED
    BY <1>1, <1>2, <1>4, Unwritten, Begun

LEMMA InterpretFrames ==
    ASSUME NEW d \in Terms, NEW line, stack = <<>>, interpret(d, line)
    PROVE  Frames(desc', stack')
<1>1. CASE stack' = <<>>
    BY <1>1, AllPlainOnes, PlainOnly
<1>2. CASE stack' = <<Write(d, 1)>>
    BY <1>2, PlainOnes, AllPlainOnes, PlainOnly
<1>3. CASE stack' = <<ToSnoopers(d, 1), [call |-> "do_fun", d |-> d, line |-> line]>>
    <2> DEFINE a == ToSnoopers(d, 1)
               b == [call |-> "do_fun", d |-> d, line |-> line]
               t == <<a, b>>
    <2>1. a.call = "each" /\ a.d = d /\ b.call = "do_fun" /\ b.d = d
        BY DEF ToSnoopers
    <2>2. stack' = t
        BY <1>3
    <2> HIDE DEF a, b
    <2>3. IsSeq(t) /\ Len(t) = 2 /\ t[1] = a /\ t[2] = b
        BY Seq2
    <2> HIDE DEF t
    <2>4. \A i \in 1 .. Len(t) : Frame(desc', t, i)
        BY <2>1, <2>3 DEF Frame
    <2> QED
        BY <2>2, <2>3, <2>4 DEF Frames
<1> QED
    BY <1>1, <1>2, <1>3 DEF interpret

LEMMA LineRewrites ==
    ASSUME NEW q0, IsDesc(q0), NEW line
    PROVE  LET q == pop_incomm(q0)
               p == show_next_page(q, line)
           IN  /\ IsDesc(q) /\ q.state = q0.state /\ q.snooping = q0.snooping /\ q.snoop_by = q0.snoop_by
               /\ IsDesc(p) /\ p.state = q0.state /\ p.snooping = q0.snooping /\ p.snoop_by = q0.snoop_by
<1> DEFINE q == pop_incomm(q0)
           p == show_next_page(q, line)
<1>1. PICK b, u, l : q = [q0 EXCEPT !.backlog = b, !.busy = u, !.last = l]
    BY DEF pop_incomm
<1> HIDE DEF q
<1>2. IsDesc(q) /\ q.state = q0.state /\ q.snooping = q0.snooping /\ q.snoop_by = q0.snoop_by
    BY <1>1 DEF IsDesc, Fields
<1>3. PICK n : p = [q EXCEPT !.pages = n]
    BY DEF show_next_page
<1> HIDE DEF p
<1>4. IsDesc(p) /\ p.state = q.state /\ p.snooping = q.snooping /\ p.snoop_by = q.snoop_by
    BY <1>2, <1>3 DEF IsDesc, Fields
<1> QED
    BY <1>2, <1>4 DEF q, p

\* The lobby moves a descriptor on, but closes it by a call only.
LEMMA NannyStep ==
    ASSUME LinksInv, stack = <<>>, NEW d \in Terms, NEW q, NEW line, IsDesc(q), q.state = desc[d].state,
           q.snooping = desc[d].snooping, q.snoop_by = desc[d].snoop_by, nanny(d, q, line)
    PROVE  LinksInv' /\ EdgesKept(desc, desc')
<1>1. AllPlain(stack')
    <2>1. /\ Plain(Close(d)) /\ Plain(Write(d, 1))
          /\ AllPlain(<<>>) /\ AllPlain(<<Close(d)>>) /\ AllPlain(<<Write(d, 1)>>)
          /\ AllPlain(<<Write(d, 1), Close(d)>>)
        BY PlainOnes, AllPlainOnes
    <2> QED
        BY <2>1 DEF nanny
<1>2. ASSUME NEW r, IsDesc(r), r.snooping = q.snooping, r.snoop_by = q.snoop_by,
             r.state \in {"closed", "reaped"} => Shut(desc, d), desc' = [desc EXCEPT ![d] = r]
      PROVE  LinksInv' /\ EdgesKept(desc, desc')
    <2>1. Links(desc') /\ EdgesKept(desc, desc')
        BY <1>2, Renewed
    <2> QED
        BY <1>1, <2>1, Begun
<1>3. CASE desc' = [desc EXCEPT ![d] = q]
    BY <1>2, <1>3 DEF Shut
<1>4. CASE desc' = [desc EXCEPT ![d] = [q EXCEPT !.state = "password", !.person = TRUE]]
    <2> DEFINE r == [q EXCEPT !.state = "password", !.person = TRUE]
    <2>1. IsDesc(r) /\ r.state = "password" /\ r.snooping = q.snooping /\ r.snoop_by = q.snoop_by
        BY DEF IsDesc, Fields
    <2>2. desc' = [desc EXCEPT ![d] = r]
        BY <1>4
    <2> HIDE DEF r
    <2> QED
        BY <1>2, <2>1, <2>2
<1>5. CASE desc' = [desc EXCEPT ![d] = [q EXCEPT !.state = "playing"]]
    <2> DEFINE r == [q EXCEPT !.state = "playing"]
    <2>1. IsDesc(r) /\ r.state = "playing" /\ r.snooping = q.snooping /\ r.snoop_by = q.snoop_by
        BY DEF IsDesc, Fields
    <2>2. desc' = [desc EXCEPT ![d] = r]
        BY <1>5
    <2> HIDE DEF r
    <2> QED
        BY <1>2, <2>1, <2>2
<1> QED
    BY <1>3, <1>4, <1>5 DEF nanny

LEMMA TakeLineStep ==
    ASSUME LinksInv, stack = <<>>, NEW d \in Terms, TakeLine(d)
    PROVE  LinksInv' /\ EdgesKept(desc, desc')
<1> DEFINE q == pop_incomm(desc[d])
           line == q.last
           p == show_next_page(q, line)
<1>1. IsDesc(desc[d]) /\ (desc[d].state \in {"closed", "reaped"} => Shut(desc, d))
    BY DEF LinksInv, Links, Shut
<1>2. /\ IsDesc(q) /\ q.state = desc[d].state /\ q.snooping = desc[d].snooping /\ q.snoop_by = desc[d].snoop_by
      /\ IsDesc(p) /\ p.state = desc[d].state /\ p.snooping = desc[d].snooping /\ p.snoop_by = desc[d].snoop_by
    BY <1>1, LineRewrites
<1>3. /\ AllPlain(<<>>) /\ AllPlain(<<Write(d, 1)>>)
      /\ Frames(desc', <<>>) /\ Frames(desc', <<Write(d, 1)>>)
    BY PlainOnes, AllPlainOnes, PlainOnly
<1>4. \/ desc' = [desc EXCEPT ![d] = q] /\ stack' = <<>>
      \/ desc' = [desc EXCEPT ![d] = p] /\ (stack' = <<>> \/ stack' = <<Write(d, 1)>>)
      \/ desc' = [desc EXCEPT ![d] = q] /\ interpret(d, line)
      \/ nanny(d, q, line)
    BY DEF TakeLine
<1> HIDE DEF q, p, line
<1>5. CASE desc' = [desc EXCEPT ![d] = q] /\ stack' = <<>>
    <2>1. Links(desc') /\ EdgesKept(desc, desc')
        BY <1>1, <1>2, <1>5, Renewed
    <2> QED
        BY <1>3, <1>5, <2>1, Begun
<1>6. CASE desc' = [desc EXCEPT ![d] = p] /\ (stack' = <<>> \/ stack' = <<Write(d, 1)>>)
    <2>1. Links(desc') /\ EdgesKept(desc, desc')
        BY <1>1, <1>2, <1>6, Renewed
    <2> QED
        BY <1>3, <1>6, <2>1, Begun
<1>7. CASE desc' = [desc EXCEPT ![d] = q] /\ interpret(d, line)
    <2>1. Links(desc') /\ EdgesKept(desc, desc')
        BY <1>1, <1>2, <1>7, Renewed
    <2>2. Frames(desc', stack')
        BY <1>7, InterpretFrames
    <2> QED
        BY <2>1, <2>2 DEF LinksInv
<1>8. CASE nanny(d, q, line)
    BY <1>2, <1>8, NannyStep
<1> QED
    BY <1>4, <1>5, <1>6, <1>7, <1>8

LEMMA NoLineStep ==
    ASSUME LinksInv, stack = <<>>, NEW d \in Terms, NoLine(d)
    PROVE  LinksInv' /\ EdgesKept(desc, desc')
<1> DEFINE r == [desc[d] EXCEPT !.busy = FALSE]
<1>1. IsDesc(desc[d])
    BY DEF LinksInv, Links
<1>2. /\ IsDesc(r) /\ r.state = desc[d].state
      /\ r.snooping = desc[d].snooping /\ r.snoop_by = desc[d].snoop_by
    BY <1>1 DEF IsDesc, Fields
<1>3. desc' = [desc EXCEPT ![d] = r]
    BY DEF NoLine
<1> HIDE DEF r
<1>4. Links(desc') /\ EdgesKept(desc, desc')
    BY <1>2, <1>3, Renewed DEF Shut
<1>5. AllPlain(<<>>) /\ AllPlain(<<Close(d)>>)
    BY PlainOnes, AllPlainOnes
<1>6. stack' = <<>> \/ stack' = <<Close(d)>>
    BY DEF NoLine
<1> QED
    BY <1>4, <1>5, <1>6, Begun

\* What is deleted had no edges, and what takes its place has none.
LEMMA ReapLinks ==
    ASSUME Links(desc), desc' = reap_closed
    PROVE  Links(desc') /\ EdgesKept(desc, desc')
<1> DEFINE New(d) == [NewDesc(d, scene) EXCEPT !.state = "reaped", !.person = FALSE,
                                               !.goodbyes = desc[d].goodbyes]
<1>1. ASSUME NEW d \in Terms
      PROVE  /\ IsDesc(New(d)) /\ New(d).state = "reaped"
             /\ New(d).snooping = {} /\ New(d).snoop_by = {}
    BY ZenonT(60) DEF NewDesc, IsDesc, Fields
<1>2. desc' = [d \in Terms |-> IF desc[d].state = "closed" THEN New(d) ELSE desc[d]]
    BY DEF reap_closed
<1> HIDE DEF New
<1>3. desc' = [d \in Terms |-> desc'[d]]
    BY <1>2
<1>4. ASSUME NEW d \in Terms
      PROVE  /\ IsDesc(desc'[d]) /\ (Shut(desc', d) => Apart(desc, d))
             /\ desc'[d].snooping = desc[d].snooping /\ desc'[d].snoop_by = desc[d].snoop_by
    <2>1. IsDesc(desc[d]) /\ (Shut(desc, d) => Apart(desc, d))
        BY DEF Links
    <2>2. CASE desc[d].state = "closed"
        BY <1>1, <1>2, <2>1, <2>2 DEF Shut, Apart
    <2>3. CASE desc[d].state # "closed"
        BY <1>2, <2>1, <2>3 DEF Shut
    <2> QED
        BY <2>2, <2>3
<1>5. Same(desc, desc')
    BY <1>4 DEF Same
<1> QED
    BY <1>3, <1>4, <1>5, SameLinks, SameKept

LEMMA NextPhaseStep ==
    ASSUME LinksInv, NextPhase
    PROVE  LinksInv' /\ EdgesKept(desc, desc')
<1>1. stack = <<>> /\ stack' = <<>> /\ Links(desc)
    BY DEF NextPhase, Idle, LinksInv
<1>2. desc' = desc \/ desc' = reap_closed
    BY DEF NextPhase
<1>3. Links(desc') /\ EdgesKept(desc, desc')
    BY <1>1, <1>2, Unwritten, ReapLinks
<1> QED
    BY <1>1, <1>3, AllPlainOnes, Begun

-----------------------------------------------------------------------------
(***************************************************************************)
(* The theorems.                                                           *)
(***************************************************************************)
LEMMA InitLinks ==
    ASSUME Init
    PROVE  LinksInv /\ LoopFree(desc)
<1>1. desc = [d \in Terms |-> NewDesc(d, scene)]
    BY DEF Init
<1>2. \A d \in Terms : IsDesc(desc[d]) /\ desc[d].snooping = {} /\ desc[d].snoop_by = {}
    BY <1>1 DEF NewDesc, IsDesc, Fields
<1>3. Links(desc)
    BY <1>1, <1>2 DEF Links, Apart
<1>4. Frames(desc, stack)
    BY AllPlainOnes, PlainOnly DEF Init
<1>5. ASSUME NEW d \in Terms
      PROVE  d \notin Reached(desc, d)
    <2>1. desc[d].snooping \subseteq {} /\ Snooped(desc, {}) /\ {} \in SUBSET Terms
        BY <1>2 DEF Snooped
    <2> QED
        BY <2>1, ReachedLeast
<1> QED
    BY <1>3, <1>4, <1>5 DEF LinksInv, LoopFree

LEMMA NextKeeps ==
    ASSUME LinksInv, Next
    PROVE  LinksInv' /\ (LoopFree(desc) => LoopFree(desc'))
<1>1. CASE Calls
    BY <1>1, CallsKeep
<1>2. CASE NextPhase
    BY <1>2, NextPhaseStep, FewerSnoop
<1>3. CASE doorman_lost
    BY <1>3, LostStep, FewerSnoop
<1>4. ASSUME NEW d \in Terms, Command(d)
      PROVE  LinksInv' /\ (LoopFree(desc) => LoopFree(desc'))
    BY <1>4, TakeLineStep, NoLineStep, FewerSnoop DEF Command, Idle
<1>5. ASSUME NEW d \in Terms, Output(d)
      PROVE  LinksInv' /\ (LoopFree(desc) => LoopFree(desc'))
    BY <1>5, OutputStep, FewerSnoop
<1>6. CASE LinkBreaks
    BY <1>6, NothingBegun, FewerSnoop DEF LinkBreaks, Idle
<1>7. ASSUME NEW d \in Terms, Read(d)
      PROVE  LinksInv' /\ (LoopFree(desc) => LoopFree(desc'))
    BY <1>7, ReadStep, FewerSnoop
<1>8. ASSUME NEW d \in Terms, ClientLeaves(d)
      PROVE  LinksInv' /\ (LoopFree(desc) => LoopFree(desc'))
    BY <1>8, DisconnectedStep, FewerSnoop DEF ClientLeaves
<1> QED
    BY <1>1, <1>2, <1>3, <1>4, <1>5, <1>6, <1>7, <1>8 DEF Next, MainLoop

LEMMA TerminalInvariant == Spec => []LoopInv
<1>1. Init => LoopInv
    BY InitLinks DEF LoopInv
<1>2. LoopInv /\ [Next]_vars => LoopInv'
    <2> SUFFICES ASSUME LoopInv, [Next]_vars
                 PROVE  LoopInv'
        OBVIOUS
    <2>1. CASE Next
        BY <2>1, NextKeeps DEF LoopInv
    <2>2. CASE UNCHANGED vars
        BY <2>2 DEF vars, LoopInv, LinksInv, Links, Frames, Frame, LoopFree, Reached, IsSeq, IsDesc, Shut, Apart
    <2> QED
        BY <2>1, <2>2
<1> QED
    BY <1>1, <1>2, PTL DEF Spec

\* Who snoops on whom is known on both sides and only of open descriptors, whatever closes whom in
\* the middle of whose output (Descriptor::close, stop_snooping, try_start_snooping).
THEOREM SnoopingStaysAgreed == Spec => []SnoopLinksAgree
<1>1. LoopInv => SnoopLinksAgree
    <2> SUFFICES ASSUME LoopInv, NEW d \in Terms, NEW e \in Terms
                 PROVE  /\ e \in desc[d].snooping <=> d \in desc[e].snoop_by
                        /\ e \in desc[d].snooping => ~Is_closed(d) /\ ~Is_closed(e)
        BY DEF SnoopLinksAgree
    <2>1. Links(desc)
        BY DEF LoopInv, LinksInv
    <2>2. e \in desc[d].snooping <=> d \in desc[e].snoop_by
        BY <2>1 DEF Links
    <2>3. (Shut(desc, d) => desc[d].snooping = {}) /\ (Shut(desc, e) => desc[e].snoop_by = {})
        BY <2>1 DEF Links, Apart
    <2> QED
        BY <2>2, <2>3 DEF Shut, Is_closed
<1> QED
    BY <1>1, TerminalInvariant, PTL

\* Nobody's output comes back to them through a chain of snoopers, though trust may change after a
\* snooper began (SnoopLoopChecker, do_trust).
THEOREM SnoopersAreLoopFree == Spec => []NoSnoopLoop
<1>1. LoopInv => NoSnoopLoop
    BY DEF LoopInv, LoopFree, NoSnoopLoop
<1> QED
    BY <1>1, TerminalInvariant, PTL
-----------------------------------------------------------------------------
(***************************************************************************)
(* Whose close() is under way.                                             *)
(***************************************************************************)
\* What is left to do of a close().
Ends(c) == c.call \in {"part", "leave", "closed"}

Closing(st, d) == \E i \in 1 .. Len(st) : Ends(st[i]) /\ st[i].d = d

\* A call that was made in the course of a close().
Inside(st, i) == \E j \in i + 1 .. Len(st) : Ends(st[j])

\* Its flush, if there is something to flush, is not shown to anybody.
Unseen(r) == r.out = 0 \/ ~r.person \/ r.snoop_by = {}

\* What such a call may be.
Nested(ds, st, i) ==
    LET c == st[i]
    IN  \/ Ends(c) \/ c.call \in {"stop_snooping", "forget"}
        \/ c.call = "tell" /\ c.n = 1 /\ st[i + 1].call = "closed" /\ st[i + 1].d \notin c.to
        \/ c.call = "write" /\ i = 1 /\ c.n = 1
        \/ c.call = "close" /\ i = 1 /\ ~Closing(st, c.d)
        \/ /\ c.call = "flush_output" /\ i = 1 /\ st[2].call = "part" /\ st[2].d = c.d
           /\ Unseen(ds[c.d])
        \/ /\ c.call = "each" /\ i = 1 /\ st[2].call = "write_direct" /\ st[2].d = c.d
           /\ ds[c.d].snoop_by = {}
        \/ /\ c.call = "write_direct" /\ st[i + 1].call = "part" /\ st[i + 1].d = c.d
           /\ \/ i = 1
              \/ i = 2 /\ st[1].call = "each" /\ st[1].d = c.d

\* A close() that is about to be called flushes nothing that anybody snoops on.
Readied(ds, st, i) ==
    LET d == st[i].d
    IN  \/ i = 1 /\ ds[d].out = 0
        \/ ~ds[d].person \/ ds[d].snoop_by = {}
        \/ i > 1 /\ st[i - 1].call = "extract_char" /\ st[i - 1].d = d

\* An edge is forgotten by one of its ends in the loop that goes over them.
InLoop(st, i) ==
    /\ i + 1 \in 1 .. Len(st)
    /\ \/ i = 1 /\ st[2].call = "stop_snooping" /\ st[2].d = st[1].d
       \/ st[i + 1].call = "part" /\ st[i + 1].d = st[i].whom

Placed(ds, st, i) ==
    /\ Ends(st[i]) => ~Shut(ds, st[i].d)
    /\ Inside(st, i) => Nested(ds, st, i)
    /\ st[i].call = "close" => Readied(ds, st, i)
    /\ st[i].call = "forget" => InLoop(st, i)

\* Of each descriptor one close() is under way at most.
Single(st) == \A i, j \in 1 .. Len(st) : Ends(st[i]) /\ Ends(st[j]) /\ st[i].d = st[j].d => i = j

(***************************************************************************)
(* What is written to a descriptor while it is closed: each other one may  *)
(* tell it once that it parts from its snoopers, and once that it leaves.  *)
(***************************************************************************)
\* Those who have parted from d, or are about to, or will not.
Parted(ds, st, d) ==
    {e \in Terms \ {d} :
        \/ d \notin ds[e].snoop_by
        \/ \E i \in 1 .. Len(st) : st[i].call = "forget" /\ st[i].d = d /\ st[i].whom = e}

\* Those whose leave d has been told of.
Gone(ds, st, d) ==
    {e \in Terms \ {d} :
        \/ Shut(ds, e)
        \/ \E i \in 1 .. Len(st) : /\ st[i].call = "closed" /\ st[i].d = e
                                   /\ ~(i > 1 /\ st[i - 1].call = "tell" /\ d \in st[i - 1].to)}

Room(ds, st, d) == Cardinality(Parted(ds, st, d)) + Cardinality(Gone(ds, st, d))

\* Its own flush is still to be made.
Flushing(st, d) == st[1].call \in {"flush_output", "each", "write_direct"} /\ st[1].d = d

Due(ds, st, d) == ds[d].out + (IF st[1].call = "write" /\ st[1].d = d THEN 1 ELSE 0)

Counted(ds, st, d) ==
    Closing(st, d) /\ ~Flushing(st, d) => ds[d].out \in Nat /\ Due(ds, st, d) <= Room(ds, st, d)

\* Nobody has been said goodbye to who is open, and nobody snoops on the lobby.
Polite(ds) ==
    \A d \in Terms : /\ ds[d].goodbyes \in {0, 1} /\ (ds[d].goodbyes = 1 => Shut(ds, d))
                     /\ ds[d].state \in {"lobby", "password"} => ds[d].snoop_by = {}

Ended(ds, st) ==
    /\ Polite(ds) /\ Single(st)
    /\ \A i \in 1 .. Len(st) : Placed(ds, st, i)
    /\ \A d \in Terms : Counted(ds, st, d)

\* A buffer holds what all others may say.
Margin == MaxOut >= 2 * (Cardinality(Terms) - 1)

EndInv == LoopInv /\ (\A d \in Terms : desc[d].goodbyes \in {0, 1}) /\ (link = "up" => Ended(desc, stack))

LEMMA RoomIs ==
    ASSUME NEW ds, NEW st, NEW d \in Terms
    PROVE  /\ IsFiniteSet(Parted(ds, st, d)) /\ IsFiniteSet(Gone(ds, st, d))
           /\ Cardinality(Parted(ds, st, d)) \in Nat /\ Cardinality(Gone(ds, st, d)) \in Nat
           /\ Room(ds, st, d) \in Nat /\ Cardinality(Terms) \in Nat
           /\ Room(ds, st, d) <= 2 * (Cardinality(Terms) - 1)
<1> DEFINE p == Parted(ds, st, d)
           g == Gone(ds, st, d)
           o == Terms \ {d}
<1>1. p \subseteq o /\ g \subseteq o
    BY DEF Parted, Gone
<1>2. IsFiniteSet(Terms)
    BY TerminalAssumption
<1>3. IsFiniteSet(o) /\ Cardinality(o) = Cardinality(Terms) - 1 /\ Cardinality(Terms) \in Nat
    BY <1>2, FS_RemoveElement, FS_CardinalityType
<1> HIDE DEF p, g, o
<1>4. /\ IsFiniteSet(p) /\ Cardinality(p) <= Cardinality(o)
      /\ IsFiniteSet(g) /\ Cardinality(g) <= Cardinality(o)
    BY <1>1, <1>3, FS_Subset
<1>5. Cardinality(p) \in Nat /\ Cardinality(g) \in Nat
    BY <1>4, FS_CardinalityType
<1>6. Room(ds, st, d) = Cardinality(p) + Cardinality(g)
    BY DEF Room, p, g
<1> QED
    BY <1>3, <1>4, <1>5, <1>6 DEF p, g

LEMMA MoreOf ==
    ASSUME NEW S, NEW T, IsFiniteSet(T), S \subseteq T
    PROVE  /\ Cardinality(S) \in Nat /\ Cardinality(T) \in Nat /\ Cardinality(S) <= Cardinality(T)
           /\ \A e \in T \ S : Cardinality(S) + 1 <= Cardinality(T)
<1>1. IsFiniteSet(S) /\ Cardinality(S) <= Cardinality(T)
    BY FS_Subset
<1>2. Cardinality(S) \in Nat /\ Cardinality(T) \in Nat
    BY <1>1, FS_CardinalityType
<1>3. ASSUME NEW e \in T \ S
      PROVE  Cardinality(S) + 1 <= Cardinality(T)
    <2>1. IsFiniteSet(T \ {e}) /\ Cardinality(T \ {e}) = Cardinality(T) - 1
        BY <1>3, FS_RemoveElement
    <2>2. S \subseteq T \ {e}
        BY <1>3
    <2>3. Cardinality(S) <= Cardinality(T \ {e})
        BY <2>1, <2>2, FS_Subset
    <2> QED
        BY <1>2, <2>1, <2>3
<1> QED
    BY <1>1, <1>2, <1>3

\* No less room, and more where somebody is added.
LEMMA RoomGrows ==
    ASSUME NEW ds, NEW st, NEW es, NEW u, NEW d \in Terms,
           Parted(ds, st, d) \subseteq Parted(es, u, d), Gone(ds, st, d) \subseteq Gone(es, u, d)
    PROVE  /\ Room(ds, st, d) \in Nat /\ Room(es, u, d) \in Nat
           /\ Room(ds, st, d) <= Room(es, u, d)
           /\ Parted(ds, st, d) # Parted(es, u, d) \/ Gone(ds, st, d) # Gone(es, u, d)
                 => Room(ds, st, d) + 1 <= Room(es, u, d)
<1> DEFINE p == Parted(ds, st, d)
           g == Gone(ds, st, d)
           q == Parted(es, u, d)
           h == Gone(es, u, d)
<1>1. IsFiniteSet(q) /\ IsFiniteSet(h) /\ p \subseteq q /\ g \subseteq h
    BY RoomIs
<1>2. Room(ds, st, d) = Cardinality(p) + Cardinality(g) /\ Room(es, u, d) = Cardinality(q) + Cardinality(h)
    BY DEF Room
<1> HIDE DEF p, g, q, h
<1>3. /\ Cardinality(p) \in Nat /\ Cardinality(q) \in Nat /\ Cardinality(p) <= Cardinality(q)
      /\ p # q => Cardinality(p) + 1 <= Cardinality(q)
    BY <1>1, MoreOf
<1>4. /\ Cardinality(g) \in Nat /\ Cardinality(h) \in Nat /\ Cardinality(g) <= Cardinality(h)
      /\ g # h => Cardinality(g) + 1 <= Cardinality(h)
    BY <1>1, MoreOf
<1> QED
    BY <1>2, <1>3, <1>4 DEF p, g, q, h

(***************************************************************************)
(* A call is replaced by those it makes.                                   *)
(***************************************************************************)
\* What a call may do to the descriptors, and which calls it may make.
Follows(ds, st, es, t) ==
    LET u == Pushed(t, st)
    IN  /\ IsSeq(t) /\ Polite(es)
        /\ \A d \in Terms : /\ es[d].snoop_by \subseteq ds[d].snoop_by
                            /\ ~ds[d].person => ~es[d].person
                            /\ Shut(ds, d) => Shut(es, d)
                            /\ Shut(es, d) => Shut(ds, d) \/ (Ends(st[1]) /\ st[1].d = d)
        /\ st[1].call = "extract_char" => ~es[st[1].d].person
        /\ st[1].call = "each" /\ Inside(st, 1) => Len(t) = 0
        /\ st[1].call = "forget" => st[1].d \notin es[st[1].whom].snoop_by
        /\ st[1].call = "closed" => Shut(es, st[1].d)
        /\ Len(t) > 0 /\ t[Len(t)].call = "tell" => st[1].call = "tell" /\ t[Len(t)].to \subseteq st[1].to
        /\ \A i \in 1 .. Len(t) : /\ Placed(es, u, i)
                                  /\ Ends(t[i]) => \/ Ends(st[1]) /\ t[i].d = st[1].d
                                                   \/ ~Closing(st, t[i].d)
        /\ \A i, j \in 1 .. Len(t) : Ends(t[i]) /\ Ends(t[j]) => i = j

\* The stack before and after.
Stacks(st, t, u) ==
    /\ IsSeq(u) /\ Len(st) \in Nat \ {0} /\ Len(t) \in Nat /\ Len(u) = Len(t) + Len(st) - 1
    /\ \A i \in 1 .. Len(t) : u[i] = t[i]
    /\ \A j \in 2 .. Len(st) : u[Len(t) + j - 1] = st[j]
    /\ \A k \in 1 .. Len(u) : k > Len(t) => k - Len(t) + 1 \in 2 .. Len(st) /\ u[k] = st[k - Len(t) + 1]

LEMMA StacksAre ==
    ASSUME NEW st, IsSeq(st), st # <<>>, NEW t, IsSeq(t)
    PROVE  Stacks(st, t, Pushed(t, st))
<1> DEFINE u == Pushed(t, st)
<1>1. /\ IsSeq(u)
      /\ Len(st) \in Nat \ {0} /\ Len(t) \in Nat /\ Len(u) = Len(t) + Len(st) - 1
      /\ \A i \in 1 .. Len(t) : u[i] = t[i]
      /\ \A j \in 2 .. Len(st) : u[Len(t) + j - 1] = st[j]
    BY PushedSeq
<1> HIDE DEF u
<1>2. ASSUME NEW k \in 1 .. Len(u), k > Len(t)
      PROVE  k - Len(t) + 1 \in 2 .. Len(st) /\ u[k] = st[k - Len(t) + 1]
    <2> DEFINE j == k - Len(t) + 1
    <2>1. j \in 2 .. Len(st) /\ Len(t) + j - 1 = k
        BY <1>1, <1>2
    <2>2. u[Len(t) + j - 1] = st[j]
        BY <1>1, <2>1
    <2> QED
        BY <2>1, <2>2
<1> QED
    BY <1>1, <1>2 DEF Stacks, u

\* What is within a close() afterwards, further down, was so before.
LEMMA WithinRest ==
    ASSUME NEW st, NEW t, NEW u, Stacks(st, t, u), NEW j \in 2 .. Len(st), Inside(u, Len(t) + j - 1)
    PROVE  Inside(st, j) /\ Inside(st, 1) /\ j + 1 \in 2 .. Len(st) /\ u[Len(t) + (j + 1) - 1] = st[j + 1]
<1>0. Len(st) \in Nat \ {0} /\ Len(t) \in Nat /\ Len(u) = Len(t) + Len(st) - 1
    BY DEF Stacks
<1>1. PICK m \in (Len(t) + j - 1) + 1 .. Len(u) : Ends(u[m])
    BY DEF Inside
<1>2. m \in 1 .. Len(u) /\ m > Len(t)
    BY <1>0, <1>1
<1>3. u[m] = st[m - Len(t) + 1]
    BY <1>2 DEF Stacks
<1>4. m - Len(t) + 1 \in j + 1 .. Len(st) /\ m - Len(t) + 1 \in 1 + 1 .. Len(st) /\ j + 1 \in 2 .. Len(st)
    BY <1>0, <1>1
<1>5. Inside(st, j) /\ Inside(st, 1)
    BY <1>1, <1>3, <1>4 DEF Inside
<1> QED
    BY <1>4, <1>5 DEF Stacks

LEMMA RestPlaced ==
    ASSUME NEW ds, NEW st, Frames(ds, st), st # <<>>, Ended(ds, st), NEW es, NEW t, Follows(ds, st, es, t),
           NEW j \in 2 .. Len(st)
    PROVE  Placed(es, Pushed(t, st), Len(t) + j - 1)
<1> DEFINE u == Pushed(t, st)
           k == Len(t) + j - 1
<1>1. Stacks(st, t, u)
    BY StacksAre DEF Frames, Follows
<1> HIDE DEF u
<1>2. Len(st) \in Nat \ {0} /\ Len(t) \in Nat /\ Len(u) = Len(t) + Len(st) - 1
    BY <1>1 DEF Stacks
<1>3. u[k] = st[j] /\ j \in 1 .. Len(st) /\ 1 \in 1 .. Len(st) /\ j # 1
    BY <1>1, <1>2 DEF Stacks
<1>4. j > 2 => j - 1 \in 2 .. Len(st) /\ k - 1 = Len(t) + (j - 1) - 1 /\ k > 1
    BY <1>2
<1>5. j > 2 => k > 1 /\ u[k - 1] = st[j - 1]
    BY <1>1, <1>4 DEF Stacks
<1>6. Placed(ds, st, j) /\ Frame(ds, st, j)
    BY <1>3 DEF Ended, Frames
<1>7. Single(st)
    BY DEF Ended
<1>8. k + 1 = Len(t) + (j + 1) - 1 /\ (j + 1 \in 1 .. Len(st) => j + 1 \in 2 .. Len(st) /\ k + 1 \in 1 .. Len(u))
    BY <1>2
<1>9. j + 1 \in 1 .. Len(st) => k + 1 \in 1 .. Len(u) /\ u[k + 1] = st[j + 1]
    BY <1>1, <1>8 DEF Stacks
<1> HIDE DEF k
<1>10. Ends(st[j]) => ~Shut(es, st[j].d)
    <2> SUFFICES ASSUME Ends(st[j]), Shut(es, st[j].d)
                 PROVE  FALSE
        OBVIOUS
    <2>1. st[j].d \in Terms
        BY <1>6 DEF Frame, Ends
    <2>2. ~Shut(ds, st[j].d)
        BY <1>6 DEF Placed
    <2>3. Ends(st[1]) /\ st[1].d = st[j].d
        BY <2>1, <2>2 DEF Follows
    <2> QED
        BY <1>3, <1>7, <2>3 DEF Single
<1>11. st[j].call = "close" => Readied(es, u, k)
    <2> SUFFICES ASSUME st[j].call = "close"
                 PROVE  Readied(es, u, k)
        OBVIOUS
    <2> DEFINE d == st[j].d
    <2>1. d \in Terms /\ Readied(ds, st, j)
        BY <1>6 DEF Frame, Placed
    <2>2. CASE ~ds[d].person
        BY <1>3, <2>1, <2>2 DEF Follows, Readied
    <2>3. CASE ds[d].snoop_by = {}
        BY <1>3, <2>1, <2>3 DEF Follows, Readied
    <2>4. CASE st[j - 1].call = "extract_char" /\ st[j - 1].d = d
        <3>1. CASE j > 2
            BY <1>3, <1>5, <2>4, <3>1 DEF Readied
        <3>2. CASE j = 2
            <4>1. j - 1 = 1
                BY <3>2
            <4>2. ~es[d].person
                BY <2>4, <4>1 DEF Follows
            <4> QED
                BY <1>3, <4>2 DEF Readied
        <3> QED
            BY <3>1, <3>2
    <2> QED
        BY <1>3, <2>1, <2>2, <2>3, <2>4 DEF Readied
<1>12. st[j].call = "forget" => InLoop(u, k)
    BY <1>3, <1>6, <1>9 DEF Placed, InLoop
<1>13. Inside(u, k) => Nested(es, u, k)
    <2> SUFFICES ASSUME Inside(u, k)
                 PROVE  Nested(es, u, k)
        OBVIOUS
    <2>1. Inside(st, j) /\ Inside(st, 1) /\ u[k + 1] = st[j + 1]
        BY <1>1, <1>8, WithinRest DEF k
    <2>2. Nested(ds, st, j)
        BY <1>6, <2>1 DEF Placed
    <2>3. CASE Ends(st[j]) \/ st[j].call \in {"stop_snooping", "forget"}
        BY <1>3, <2>3 DEF Nested
    <2>4. CASE st[j].call = "tell" /\ st[j].n = 1 /\ st[j + 1].call = "closed" /\ st[j + 1].d \notin st[j].to
        BY <1>3, <2>1, <2>4 DEF Nested
    <2>5. CASE /\ st[j].call = "write_direct" /\ st[j + 1].call = "part" /\ st[j + 1].d = st[j].d
               /\ j = 2 /\ st[1].call = "each" /\ st[1].d = st[j].d
        <3>1. Len(t) = 0
            BY <2>1, <2>5 DEF Follows
        <3>2. k = 1
            BY <2>5, <3>1 DEF k
        <3> QED
            BY <1>3, <2>1, <2>5, <3>2 DEF Nested
    <2> QED
        BY <1>3, <2>2, <2>3, <2>4, <2>5 DEF Nested
<1>14. Placed(es, u, k)
    BY <1>3, <1>10, <1>11, <1>12, <1>13 DEF Placed
<1> QED
    BY <1>14 DEF u, k

LEMMA PushedPlaced ==
    ASSUME NEW ds, NEW st, Frames(ds, st), st # <<>>, Ended(ds, st), NEW es, NEW t, Follows(ds, st, es, t)
    PROVE  \A i \in 1 .. Len(Pushed(t, st)) : Placed(es, Pushed(t, st), i)
<1> DEFINE u == Pushed(t, st)
<1> HIDE DEF u
<1>1. Stacks(st, t, u)
    BY StacksAre DEF Frames, Follows, u
<1> SUFFICES ASSUME NEW i \in 1 .. Len(u)
             PROVE  Placed(es, u, i)
    BY DEF u
<1>2. Len(t) \in Nat
    BY <1>1 DEF Stacks
<1>3. CASE i \in 1 .. Len(t)
    BY <1>3 DEF Follows, u
<1>4. CASE i > Len(t)
    <2>1. i - Len(t) + 1 \in 2 .. Len(st)
        BY <1>1, <1>4 DEF Stacks
    <2>2. Placed(es, u, Len(t) + (i - Len(t) + 1) - 1)
        BY <2>1, RestPlaced DEF u
    <2>3. Len(t) + (i - Len(t) + 1) - 1 = i
        BY <1>2
    <2> QED
        BY <2>2, <2>3
<1> QED
    BY <1>2, <1>3, <1>4

LEMMA PushedSingle ==
    ASSUME NEW ds, NEW st, Frames(ds, st), st # <<>>, Ended(ds, st), NEW es, NEW t, Follows(ds, st, es, t)
    PROVE  Single(Pushed(t, st))
<1> DEFINE u == Pushed(t, st)
<1>1. Stacks(st, t, u)
    BY StacksAre DEF Frames, Follows
<1> HIDE DEF u
<1>2. Len(st) \in Nat \ {0} /\ Len(t) \in Nat /\ 1 \in 1 .. Len(st)
    BY <1>1 DEF Stacks
<1>3. Single(st)
    BY DEF Ended
<1>4. ASSUME NEW i \in 1 .. Len(u), NEW j \in 1 .. Len(u), i <= Len(t), j > Len(t),
             Ends(u[i]), Ends(u[j]), u[i].d = u[j].d
      PROVE  FALSE
    <2> DEFINE m == j - Len(t) + 1
    <2>1. m \in 2 .. Len(st) /\ u[j] = st[m]
        BY <1>1, <1>4 DEF Stacks
    <2>2. i \in 1 .. Len(t) /\ u[i] = t[i]
        BY <1>1, <1>2, <1>4 DEF Stacks
    <2> HIDE DEF m
    <2>3. m \in 1 .. Len(st) /\ m # 1
        BY <1>2, <2>1
    <2>4. Closing(st, t[i].d)
        BY <1>4, <2>1, <2>2, <2>3 DEF Closing
    <2>5. Ends(st[1]) /\ t[i].d = st[1].d
        BY <1>4, <2>2, <2>4 DEF Follows
    <2> QED
        BY <1>2, <1>3, <1>4, <2>1, <2>2, <2>3, <2>5 DEF Single
<1>5. ASSUME NEW i \in 1 .. Len(u), NEW j \in 1 .. Len(u), Ends(u[i]), Ends(u[j]), u[i].d = u[j].d
      PROVE  i = j
    <2>1. CASE i <= Len(t) /\ j <= Len(t)
        <3>1. i \in 1 .. Len(t) /\ j \in 1 .. Len(t)
            BY <1>2, <2>1
        <3>2. u[i] = t[i] /\ u[j] = t[j]
            BY <1>1, <3>1 DEF Stacks
        <3> QED
            BY <1>5, <3>1, <3>2 DEF Follows
    <2>2. CASE i > Len(t) /\ j > Len(t)
        <3>1. /\ i - Len(t) + 1 \in 1 .. Len(st) /\ u[i] = st[i - Len(t) + 1]
              /\ j - Len(t) + 1 \in 1 .. Len(st) /\ u[j] = st[j - Len(t) + 1]
            BY <1>1, <1>2, <2>2 DEF Stacks
        <3>2. i - Len(t) + 1 = j - Len(t) + 1
            BY <1>3, <1>5, <3>1 DEF Single
        <3> QED
            BY <1>2, <3>2
    <2>3. CASE i <= Len(t) /\ j > Len(t)
        BY <1>4, <1>5, <2>3
    <2>4. CASE j <= Len(t) /\ i > Len(t)
        BY <1>4, <1>5, <2>4
    <2> QED
        BY <1>2, <2>1, <2>2, <2>3, <2>4
<1> QED
    BY <1>5 DEF Single, u

\* A descriptor that is being closed has room for what it is told.
Paid(ds, st, es, u, d) ==
    \/ es[d].out = 0 /\ ~(u[1].call = "write" /\ u[1].d = d)
    \/ /\ Closing(st, d) /\ ~Flushing(st, d) /\ es[d].out \in Nat
       /\ \/ Due(es, u, d) <= Due(ds, st, d)
          \/ /\ Due(es, u, d) <= Due(ds, st, d) + 1
             /\ Parted(ds, st, d) # Parted(es, u, d) \/ Gone(ds, st, d) # Gone(es, u, d)

LEMMA PartedGrows ==
    ASSUME NEW ds, NEW st, Frames(ds, st), st # <<>>, NEW es, NEW t, Follows(ds, st, es, t), NEW d \in Terms
    PROVE  Parted(ds, st, d) \subseteq Parted(es, Pushed(t, st), d)
<1> DEFINE u == Pushed(t, st)
<1>1. Stacks(st, t, u)
    BY StacksAre DEF Frames, Follows
<1> HIDE DEF u
<1>2. Len(st) \in Nat \ {0} /\ Len(t) \in Nat /\ Len(u) = Len(t) + Len(st) - 1
    BY <1>1 DEF Stacks
<1> SUFFICES ASSUME NEW e \in Terms \ {d}, e \in Parted(ds, st, d)
             PROVE  e \in Parted(es, u, d)
    BY DEF Parted, u
<1>3. CASE d \notin ds[e].snoop_by
    BY <1>3 DEF Parted, Follows
<1>4. ASSUME NEW i \in 1 .. Len(st), st[i].call = "forget", st[i].d = d, st[i].whom = e
      PROVE  e \in Parted(es, u, d)
    <2>1. CASE i = 1
        BY <1>4, <2>1 DEF Parted, Follows
    <2>2. CASE i # 1
        <3> DEFINE k == Len(t) + i - 1
        <3>1. i \in 2 .. Len(st) /\ k \in 1 .. Len(u)
            BY <1>2, <2>2
        <3>2. u[k] = st[i]
            BY <1>1, <3>1 DEF Stacks
        <3> QED
            BY <1>4, <3>1, <3>2 DEF Parted
    <2> QED
        BY <2>1, <2>2
<1> QED
    BY <1>3, <1>4 DEF Parted

LEMMA GoneGrows ==
    ASSUME NEW ds, NEW st, Frames(ds, st), st # <<>>, NEW es, NEW t, Follows(ds, st, es, t), NEW d \in Terms
    PROVE  Gone(ds, st, d) \subseteq Gone(es, Pushed(t, st), d)
<1> DEFINE u == Pushed(t, st)
<1>1. Stacks(st, t, u)
    BY StacksAre DEF Frames, Follows
<1> HIDE DEF u
<1>2. Len(st) \in Nat \ {0} /\ Len(t) \in Nat /\ Len(u) = Len(t) + Len(st) - 1
    BY <1>1 DEF Stacks
<1> SUFFICES ASSUME NEW e \in Terms \ {d}, e \in Gone(ds, st, d)
             PROVE  e \in Gone(es, u, d)
    BY DEF Gone, u
<1>3. CASE Shut(ds, e)
    BY <1>3 DEF Gone, Follows
<1>4. ASSUME NEW i \in 1 .. Len(st), st[i].call = "closed", st[i].d = e,
             ~(i > 1 /\ st[i - 1].call = "tell" /\ d \in st[i - 1].to)
      PROVE  e \in Gone(es, u, d)
    <2>1. CASE i = 1
        BY <1>4, <2>1 DEF Gone, Follows
    <2>2. CASE i # 1
        <3> DEFINE k == Len(t) + i - 1
        <3>1. i \in 2 .. Len(st) /\ k \in 1 .. Len(u)
            BY <1>2, <2>2
        <3>2. u[k] = st[i]
            BY <1>1, <3>1 DEF Stacks
        <3>3. ASSUME k > 1, u[k - 1].call = "tell", d \in u[k - 1].to
              PROVE  FALSE
            <4>1. CASE i = 2
                <5>1. Len(t) \in 1 .. Len(t) /\ k - 1 = Len(t) /\ Len(t) > 0
                    BY <1>2, <3>3, <4>1
                <5>2. u[k - 1] = t[Len(t)]
                    BY <1>1, <5>1 DEF Stacks
                <5>3. st[1].call = "tell" /\ d \in st[1].to
                    BY <3>3, <5>1, <5>2 DEF Follows
                <5> QED
                    BY <1>4, <4>1, <5>3
            <4>2. CASE i > 2
                <5>1. i - 1 \in 2 .. Len(st) /\ k - 1 = Len(t) + (i - 1) - 1 /\ i > 1
                    BY <1>2, <4>2
                <5>2. u[k - 1] = st[i - 1]
                    BY <1>1, <5>1 DEF Stacks
                <5> QED
                    BY <1>4, <3>3, <5>1, <5>2
            <4> QED
                BY <3>1, <4>1, <4>2
        <3> HIDE DEF k
        <3> QED
            BY <1>4, <3>1, <3>2, <3>3 DEF Gone
    <2> QED
        BY <2>1, <2>2
<1> QED
    BY <1>3, <1>4 DEF Gone

LEMMA PushedEnded ==
    ASSUME NEW ds, NEW st, Frames(ds, st), st # <<>>, Ended(ds, st), NEW es, NEW t, Follows(ds, st, es, t),
           NEW u, u = Pushed(t, st),
           \A d \in Terms : Closing(u, d) /\ ~Flushing(u, d) => Paid(ds, st, es, u, d)
    PROVE  Ended(es, u)
<1>1. Polite(es)
    BY DEF Follows
<1>2. Single(u)
    BY PushedSingle
<1>3. \A i \in 1 .. Len(u) : Placed(es, u, i)
    BY PushedPlaced
<1>4. ASSUME NEW d \in Terms, Closing(u, d), ~Flushing(u, d)
      PROVE  es[d].out \in Nat /\ Due(es, u, d) <= Room(es, u, d)
    <2>1. Paid(ds, st, es, u, d)
        BY <1>4
    <2>2. /\ Room(ds, st, d) \in Nat /\ Room(es, u, d) \in Nat /\ Room(ds, st, d) <= Room(es, u, d)
          /\ Parted(ds, st, d) # Parted(es, u, d) \/ Gone(ds, st, d) # Gone(es, u, d)
                => Room(ds, st, d) + 1 <= Room(es, u, d)
        BY PartedGrows, GoneGrows, RoomGrows
    <2>3. CASE es[d].out = 0 /\ ~(u[1].call = "write" /\ u[1].d = d)
        BY <2>2, <2>3 DEF Due
    <2>4. CASE /\ Closing(st, d) /\ ~Flushing(st, d) /\ es[d].out \in Nat
               /\ \/ Due(es, u, d) <= Due(ds, st, d)
                  \/ /\ Due(es, u, d) <= Due(ds, st, d) + 1
                     /\ Parted(ds, st, d) # Parted(es, u, d) \/ Gone(ds, st, d) # Gone(es, u, d)
        <3>1. Counted(ds, st, d)
            BY DEF Ended
        <3>2. ds[d].out \in Nat /\ Due(ds, st, d) <= Room(ds, st, d)
            BY <2>4, <3>1 DEF Counted
        <3>3. Due(ds, st, d) \in Nat /\ Due(es, u, d) \in Nat
            BY <2>4, <3>2 DEF Due
        <3> QED
            BY <2>2, <2>4, <3>2, <3>3
    <2> QED
        BY <2>1, <2>3, <2>4 DEF Paid
<1> QED
    BY <1>1, <1>2, <1>3, <1>4 DEF Ended, Counted

\* A close() that is under way below the innermost call.
LEMMA ClosingBelow ==
    ASSUME NEW st, NEW t, NEW u, Stacks(st, t, u), NEW d, Closing(u, d),
           \A i \in 1 .. Len(t) : ~(Ends(t[i]) /\ t[i].d = d)
    PROVE  Closing(st, d) /\ Inside(st, 1) /\ 2 \in 1 .. Len(st) /\ u[Len(t) + 1] = st[2] /\ Len(t) + 1 \in 1 .. Len(u)
<1>1. Len(st) \in Nat \ {0} /\ Len(t) \in Nat /\ Len(u) = Len(t) + Len(st) - 1
    BY DEF Stacks
<1>2. PICK k \in 1 .. Len(u) : Ends(u[k]) /\ u[k].d = d
    BY DEF Closing
<1>3. k > Len(t)
    <2>1. ~(k \in 1 .. Len(t))
        BY <1>2 DEF Stacks
    <2> QED
        BY <1>1, <2>1
<1> DEFINE j == k - Len(t) + 1
<1>4. j \in 2 .. Len(st) /\ u[k] = st[j]
    BY <1>3 DEF Stacks
<1> HIDE DEF j
<1>5. j \in 1 .. Len(st) /\ j \in 1 + 1 .. Len(st) /\ 2 \in 2 .. Len(st) /\ 2 \in 1 .. Len(st)
    BY <1>1, <1>4
<1>6. Closing(st, d) /\ Inside(st, 1)
    BY <1>2, <1>4, <1>5 DEF Closing, Inside
<1>7. u[Len(t) + 2 - 1] = st[2] /\ Len(t) + 2 - 1 = Len(t) + 1 /\ Len(t) + 1 \in 1 .. Len(u)
    BY <1>1, <1>5 DEF Stacks
<1> QED
    BY <1>5, <1>6, <1>7

\* Writes are not made one after the other.
LEMMA NextNoWrite ==
    ASSUME NEW ds, NEW st, Ended(ds, st), NEW t, NEW u, Stacks(st, t, u), Len(t) = 0, NEW d, Closing(u, d)
    PROVE  u[1].call # "write"
<1>1. Len(st) \in Nat \ {0} /\ Len(u) = Len(st) - 1
    BY DEF Stacks
<1>2. 2 \in 1 .. Len(st) /\ u[1] = st[2]
    BY ClosingBelow
<1>3. PICK k \in 1 .. Len(u) : Ends(u[k])
    BY DEF Closing
<1>4. CASE k = 1
    BY <1>3, <1>4 DEF Ends
<1>5. CASE k > 1
    <2>1. k + 1 \in 2 + 1 .. Len(st) /\ k > Len(t) /\ k - Len(t) + 1 = k + 1
        BY <1>1, <1>5
    <2>2. u[k] = st[k + 1]
        BY <2>1 DEF Stacks
    <2>3. Inside(st, 2)
        BY <1>3, <2>1, <2>2 DEF Inside
    <2>4. Nested(ds, st, 2)
        BY <1>2, <2>3 DEF Ended, Placed
    <2> QED
        BY <1>2, <2>4 DEF Nested, Ends
<1> QED
    BY <1>3, <1>4, <1>5

-----------------------------------------------------------------------------
(***************************************************************************)
(* The calls again, and what they do to those that are being closed.       *)
(***************************************************************************)
\* Nothing about a descriptor but what is written to it, and it may lose its person and its edges.
Fades(ds, es) ==
    \A d \in Terms : /\ es[d].state = ds[d].state /\ es[d].goodbyes = ds[d].goodbyes
                     /\ es[d].snoop_by \subseteq ds[d].snoop_by
                     /\ ~ds[d].person => ~es[d].person

LEMMA Faded ==
    ASSUME NEW ds, Polite(ds), NEW es, Fades(ds, es)
    PROVE  /\ Polite(es)
           /\ \A d \in Terms : /\ es[d].snoop_by \subseteq ds[d].snoop_by
                               /\ ~ds[d].person => ~es[d].person
                               /\ Shut(ds, d) <=> Shut(es, d)
BY DEF Polite, Fades, Shut

\* A call ends.
LEMMA Returns ==
    ASSUME NEW ds, NEW st, Frames(ds, st), st # <<>>, Ended(ds, st), NEW es, Fades(ds, es),
           st[1].call = "extract_char" => ~es[st[1].d].person,
           st[1].call = "forget" => st[1].d \notin es[st[1].whom].snoop_by,
           st[1].call # "closed",
           NEW u, u = Pushed(<<>>, st),
           \A d \in Terms : Closing(st, d) =>
              \/ es[d].out = 0
              \/ es[d].out \in Nat /\ ~Flushing(st, d) /\ es[d].out <= Due(ds, st, d)
              \/ Flushing(u, d)
    PROVE  Ended(es, u)
<1>1. IsSeq(<<>>) /\ Len(<<>>) = 0
    BY Seq0
<1> DEFINE t == <<>>
<1>2. IsSeq(t) /\ Len(t) = 0
    BY <1>1
<1>3. u = Pushed(t, st)
    OBVIOUS
<1> HIDE DEF t
<1>4. Follows(ds, st, es, t)
    <2>1. Polite(ds)
        BY DEF Ended
    <2> QED
        BY <1>2, <2>1, Faded DEF Follows
<1>5. Stacks(st, t, u)
    BY <1>2, <1>3, StacksAre DEF Frames
<1>6. ASSUME NEW d \in Terms, Closing(u, d), ~Flushing(u, d)
      PROVE  Paid(ds, st, es, u, d)
    <2>1. u[1].call # "write"
        BY <1>2, <1>5, <1>6, NextNoWrite
    <2>2. Closing(st, d)
        BY <1>2, <1>5, <1>6, ClosingBelow
    <2>3. CASE es[d].out = 0
        BY <2>1, <2>3 DEF Paid
    <2>4. CASE es[d].out \in Nat /\ ~Flushing(st, d) /\ es[d].out <= Due(ds, st, d)
        <3>1. Due(es, u, d) = es[d].out
            BY <2>1, <2>4 DEF Due
        <3> QED
            BY <2>2, <2>4, <3>1 DEF Paid
    <2> QED
        BY <1>6, <2>2, <2>3, <2>4
<1> QED
    BY <1>3, <1>4, <1>6, PushedEnded

\* What has been written to a descriptor that is being closed is a number, and there is room for it.
LEMMA ClosingRoom ==
    ASSUME NEW ds, NEW st, Ended(ds, st), NEW d \in Terms, Closing(st, d), ~Flushing(st, d)
    PROVE  /\ ds[d].out \in Nat /\ ds[d].out <= Due(ds, st, d)
           /\ Due(ds, st, d) <= 2 * (Cardinality(Terms) - 1)
           /\ Due(ds, st, d) \in Nat /\ Cardinality(Terms) \in Nat
<1>1. ds[d].out \in Nat /\ Due(ds, st, d) <= Room(ds, st, d)
    BY DEF Ended, Counted
<1>2. Due(ds, st, d) \in Nat /\ ds[d].out <= Due(ds, st, d)
    BY <1>1 DEF Due
<1>3. Room(ds, st, d) \in Nat /\ Cardinality(Terms) \in Nat /\ Room(ds, st, d) <= 2 * (Cardinality(Terms) - 1)
    BY RoomIs
<1> QED
    BY <1>1, <1>2, <1>3

\* A call that is not itself the last part of a close() is made in the course of every close() there is.
LEMMA ClosingWithin ==
    ASSUME NEW st, Len(st) \in Nat, NEW d, Closing(st, d), ~Ends(st[1]) \/ st[1].d # d
    PROVE  Inside(st, 1)
<1>1. PICK i \in 1 .. Len(st) : Ends(st[i]) /\ st[i].d = d
    BY DEF Closing
<1>2. i \in 1 + 1 .. Len(st)
    BY <1>1
<1> QED
    BY <1>1, <1>2 DEF Inside

\* What is known of the innermost call while the link is up.
LEMMA Top ==
    ASSUME LoopInv, Ended(desc, stack), stack # <<>>
    PROVE  /\ Head(stack) = stack[1] /\ Len(stack) \in Nat \ {0} /\ Frames(desc, stack)
           /\ Frame(desc, stack, 1) /\ Placed(desc, stack, 1)
           /\ (Inside(stack, 1) => 2 \in 1 .. Len(stack))
<1>1. Head(stack) = stack[1] /\ Frame(desc, stack, 1) /\ Len(stack) \in Nat \ {0}
    BY Innermost DEF LoopInv
<1>2. 1 \in 1 .. Len(stack)
    BY <1>1
<1>3. Inside(stack, 1) => 2 \in 1 .. Len(stack)
    <2> SUFFICES ASSUME Inside(stack, 1) PROVE 2 \in 1 .. Len(stack)
        OBVIOUS
    <2>1. PICK i \in 1 + 1 .. Len(stack) : TRUE
        BY DEF Inside
    <2> QED
        BY <1>1, <2>1
<1> QED
    BY <1>1, <1>2, <1>3 DEF Ended, LoopInv, LinksInv

LEMMA SameFades ==
    ASSUME NEW ds
    PROVE  Fades(ds, ds)
BY DEF Fades

\* What is put in one field.
LEMMA OutFades ==
    ASSUME Links(desc), NEW d \in Terms, NEW v, desc' = [desc EXCEPT ![d].out = v]
    PROVE  Fades(desc, desc') /\ desc'[d].out = v /\ \A e \in Terms \ {d} : desc'[e].out = desc[e].out
<1> DEFINE r == [desc[d] EXCEPT !.out = v]
<1>1. desc = [x \in Terms |-> desc[x]] /\ IsDesc(desc[d])
    BY DEF Links
<1>2. /\ r.state = desc[d].state /\ r.goodbyes = desc[d].goodbyes /\ r.snoop_by = desc[d].snoop_by
      /\ r.person = desc[d].person /\ r.out = v
    BY <1>1 DEF IsDesc, Fields
<1>3. desc' = [desc EXCEPT ![d] = r]
    OBVIOUS
<1> HIDE DEF r
<1>4. desc'[d] = r /\ \A e \in Terms \ {d} : desc'[e] = desc[e]
    BY <1>1, <1>3
<1> QED
    BY <1>2, <1>4 DEF Fades

LEMMA PersonFades ==
    ASSUME Links(desc), NEW d \in Terms, desc' = [desc EXCEPT ![d].person = FALSE]
    PROVE  Fades(desc, desc') /\ ~desc'[d].person /\ \A e \in Terms : desc'[e].out = desc[e].out
<1> DEFINE r == [desc[d] EXCEPT !.person = FALSE]
<1>1. desc = [x \in Terms |-> desc[x]] /\ IsDesc(desc[d])
    BY DEF Links
<1>2. /\ r.state = desc[d].state /\ r.goodbyes = desc[d].goodbyes /\ r.snoop_by = desc[d].snoop_by
      /\ ~r.person /\ r.out = desc[d].out
    BY <1>1 DEF IsDesc, Fields
<1>3. desc' = [desc EXCEPT ![d] = r]
    OBVIOUS
<1> HIDE DEF r
<1>4. desc'[d] = r /\ \A e \in Terms \ {d} : desc'[e] = desc[e]
    BY <1>1, <1>3
<1> QED
    BY <1>2, <1>4 DEF Fades

LEMMA WriteEnds ==
    ASSUME LoopInv, Margin, Ended(desc, stack), stack # <<>>, Head(stack).call = "write", write(Head(stack))
    PROVE  Ended(desc', stack')
<1> DEFINE c == stack[1]
           full == desc[c.d].out + c.n > MaxOut
<1>1. /\ Head(stack) = c /\ c.call = "write" /\ c.d \in Terms /\ Len(stack) \in Nat \ {0}
      /\ Frames(desc, stack) /\ Placed(desc, stack, 1)
    BY Top DEF Frame
<1>2. Links(desc) /\ desc = [x \in Terms |-> desc[x]]
    BY DEF LoopInv, LinksInv, Links
<1>3. \A d : ~Flushing(stack, d) /\ ~Ends(c)
    BY <1>1 DEF Flushing, Ends
<1>4. ASSUME NEW d \in Terms, Closing(stack, d)
      PROVE  /\ desc[d].out \in Nat /\ desc[d].out <= Due(desc, stack, d) /\ c.n = 1
             /\ Due(desc, stack, d) <= MaxOut /\ Due(desc, stack, d) \in Nat
    <2>1. Inside(stack, 1)
        BY <1>1, <1>3, <1>4, ClosingWithin
    <2>2. c.n = 1
        BY <1>1, <1>3, <2>1 DEF Placed, Nested
    <2>3. MaxOut \in Nat
        BY TerminalAssumption
    <2> QED
        BY <1>3, <1>4, <2>2, <2>3, ClosingRoom DEF Margin
<1>5. CASE desc' = desc /\ Makes(<<>>)
    <2>1. stack' = Pushed(<<>>, stack) /\ Fades(desc, desc')
        BY <1>5, SameFades DEF Makes, Pushed
    <2> QED
        BY <1>1, <1>3, <1>4, <1>5, <2>1, Returns
<1>6. CASE ~full /\ desc' = [desc EXCEPT ![c.d].out = @ + c.n] /\ Makes(<<>>)
    <2> DEFINE v == desc[c.d].out + c.n
    <2>0. v = desc[c.d].out + c.n
        OBVIOUS
    <2>1. desc' = [desc EXCEPT ![c.d].out = v]
        BY <1>6
    <2> HIDE DEF v
    <2>2. Fades(desc, desc') /\ desc'[c.d].out = v /\ \A e \in Terms \ {c.d} : desc'[e].out = desc[e].out
        BY <1>1, <1>2, <2>1, OutFades
    <2>3. stack' = Pushed(<<>>, stack)
        BY <1>6 DEF Makes, Pushed
    <2>4. ASSUME NEW d \in Terms, Closing(stack, d)
          PROVE  desc'[d].out \in Nat /\ desc'[d].out <= Due(desc, stack, d)
        <3>1. CASE d = c.d
            <4>1. Due(desc, stack, d) = desc[d].out + 1 /\ c.n = 1 /\ desc[d].out \in Nat
                BY <1>1, <1>4, <2>4, <3>1 DEF Due
            <4>2. v = desc[d].out + 1
                BY <2>0, <3>1, <4>1
            <4> QED
                BY <2>2, <3>1, <4>1, <4>2
        <3>2. CASE d # c.d
            BY <1>4, <2>2, <2>4, <3>2
        <3> QED
            BY <3>1, <3>2
    <2> QED
        BY <1>1, <1>3, <2>2, <2>3, <2>4, Returns
<1>7. CASE full /\ desc' = [desc EXCEPT ![c.d].out = 0] /\ Makes(<<Close(c.d)>>)
    <2> DEFINE a == Close(c.d)
               t == <<a>>
               u == Pushed(t, stack)
    <2>1. Fades(desc, desc') /\ desc'[c.d].out = 0 /\ \A e \in Terms \ {c.d} : desc'[e].out = desc[e].out
        BY <1>1, <1>2, <1>7, OutFades
    <2>2. stack' = u
        BY <1>7 DEF Makes, Pushed
    <2>3. a.call = "close" /\ a.d = c.d
        BY DEF Close, Call
    <2> HIDE DEF a
    <2>4. IsSeq(t) /\ Len(t) = 1 /\ t[1] = a
        BY Seq1
    <2> HIDE DEF t
    <2>5. Stacks(stack, t, u)
        BY <1>1, <2>4, StacksAre DEF Frames
    <2>6. u[1] = a
        BY <2>4, <2>5 DEF Stacks
    <2>7. ~Closing(stack, c.d)
        <3> SUFFICES ASSUME Closing(stack, c.d) PROVE FALSE
            OBVIOUS
        <3>1. Due(desc, stack, c.d) = desc[c.d].out + c.n
            BY <1>1, <1>4 DEF Due
        <3> QED
            BY <1>1, <1>4, <1>7, <3>1, TerminalAssumption
    <2> HIDE DEF u
    <2>8. \A d \in Terms : Closing(u, d) => Closing(stack, d)
        BY <2>3, <2>4, <2>5, ClosingBelow DEF Ends
    <2>9. Placed(desc', u, 1)
        BY <1>1, <2>1, <2>3, <2>6, <2>7, <2>8 DEF Placed, Nested, Readied, Ends
    <2>10. Follows(desc, stack, desc', t)
        <3>1. Polite(desc)
            BY DEF Ended
        <3> QED
            BY <1>1, <2>1, <2>3, <2>4, <2>9, <3>1, Faded DEF Follows, Ends, u
    <2>11. ASSUME NEW d \in Terms, Closing(u, d)
           PROVE  Paid(desc, stack, desc', u, d)
        <3>1. Closing(stack, d) /\ d # c.d
            BY <2>7, <2>8, <2>11
        <3>2. Due(desc', u, d) = desc'[d].out /\ desc'[d].out = desc[d].out
            BY <1>4, <2>1, <2>3, <2>6, <3>1 DEF Due
        <3> QED
            BY <1>3, <1>4, <3>1, <3>2 DEF Paid
    <2> QED
        BY <1>1, <2>2, <2>10, <2>11, PushedEnded DEF u
<1>8. CASE Is_closed(c.d)
    BY <1>1, <1>5, <1>8 DEF write
<1>9. CASE ~Is_closed(c.d)
    BY <1>1, <1>6, <1>7, <1>9 DEF write
<1> QED
    BY <1>8, <1>9

LEMMA TellEnds ==
    ASSUME LoopInv, Ended(desc, stack), stack # <<>>, Head(stack).call = "tell", tell(Head(stack))
    PROVE  Ended(desc', stack')
<1> DEFINE c == stack[1]
<1>1. /\ Head(stack) = c /\ c.call = "tell" /\ c.to \subseteq Terms /\ Len(stack) \in Nat \ {0}
      /\ Frames(desc, stack) /\ Placed(desc, stack, 1) /\ desc' = desc
      /\ (Inside(stack, 1) => 2 \in 1 .. Len(stack))
    BY Top DEF Frame, tell
<1>2. \A d : ~Flushing(stack, d) /\ ~Ends(c)
    BY <1>1 DEF Flushing, Ends
<1>3. ASSUME NEW d \in Terms, Closing(stack, d)
      PROVE  desc[d].out \in Nat /\ desc[d].out <= Due(desc, stack, d) /\ Inside(stack, 1)
    BY <1>1, <1>2, <1>3, ClosingRoom, ClosingWithin
<1>4. CASE Makes(<<>>)
    <2>1. stack' = Pushed(<<>>, stack) /\ Fades(desc, desc')
        BY <1>1, <1>4, SameFades DEF Makes, Pushed
    <2> QED
        BY <1>1, <1>2, <1>3, <2>1, Returns
<1>5. ASSUME NEW s \in c.to, Makes(<<Write(s, c.n), [c EXCEPT !.to = @ \ {s}]>>)
      PROVE  Ended(desc', stack')
    <2> DEFINE a == Write(s, c.n)
               b == [c EXCEPT !.to = @ \ {s}]
               t == <<a, b>>
               u == Pushed(t, stack)
    <2>1. a.call = "write" /\ a.d = s /\ a.n = c.n
        BY DEF Write
    <2>2. b.call = "tell" /\ b.n = c.n /\ b.to \subseteq c.to /\ s \notin b.to
        BY <1>1
    <2>3. stack' = u
        BY <1>5 DEF Makes, Pushed
    <2> HIDE DEF a, b
    <2>4. IsSeq(t) /\ Len(t) = 2 /\ t[1] = a /\ t[2] = b
        BY Seq2
    <2> HIDE DEF t
    <2>5. Stacks(stack, t, u)
        BY <1>1, <2>4, StacksAre DEF Frames
    <2> HIDE DEF u
    <2>6. u[1] = a /\ u[2] = b /\ Len(u) = Len(stack) + 1
        BY <2>4, <2>5 DEF Stacks
    <2>7. ASSUME Inside(u, 1) \/ Inside(u, 2)
          PROVE  Inside(stack, 1) /\ u[3] = stack[2] /\ 2 \in 1 .. Len(stack)
        <3>1. PICK k \in 1 .. Len(u) : Ends(u[k]) /\ k > 1
            BY <2>6, <2>7 DEF Inside
        <3>2. k # 2 /\ k > Len(t)
            BY <2>2, <2>4, <2>6, <3>1 DEF Ends
        <3>3. Closing(u, u[k].d)
            BY <3>1 DEF Closing
        <3>4. \A i \in 1 .. Len(t) : ~Ends(t[i])
            BY <2>1, <2>2, <2>4 DEF Ends
        <3>5. Inside(stack, 1) /\ u[Len(t) + 1] = stack[2] /\ 2 \in 1 .. Len(stack)
            BY <2>5, <3>3, <3>4, ClosingBelow
        <3> QED
            BY <2>4, <3>5
    <2>8. Inside(stack, 1) => c.n = 1 /\ stack[2].call = "closed" /\ stack[2].d \notin c.to
        BY <1>1, <1>2 DEF Placed, Nested
    <2>9. Placed(desc', u, 1)
        BY <2>1, <2>6, <2>7, <2>8 DEF Placed, Nested, Ends
    <2>10. Placed(desc', u, 2)
        BY <2>2, <2>6, <2>7, <2>8 DEF Placed, Nested, Ends
    <2>11. Follows(desc, stack, desc', t)
        <3>1. Polite(desc) /\ Fades(desc, desc')
            BY <1>1, SameFades DEF Ended
        <3>2. \A i \in 1 .. Len(t) : Placed(desc', u, i) /\ ~Ends(t[i])
            BY <2>1, <2>2, <2>4, <2>9, <2>10 DEF Ends
        <3> QED
            BY <1>1, <2>2, <2>4, <3>1, <3>2, Faded DEF Follows, u
    <2>12. ASSUME NEW d \in Terms, Closing(u, d)
           PROVE  Paid(desc, stack, desc', u, d)
        <3>1. Closing(stack, d) /\ Inside(stack, 1) /\ u[3] = stack[2] /\ 2 \in 1 .. Len(stack)
            <4>1. \A i \in 1 .. Len(t) : ~Ends(t[i])
                BY <2>1, <2>2, <2>4 DEF Ends
            <4>2. Closing(stack, d) /\ Inside(stack, 1) /\ u[Len(t) + 1] = stack[2] /\ 2 \in 1 .. Len(stack)
                BY <2>5, <2>12, <4>1, ClosingBelow
            <4> QED
                BY <2>4, <4>2
        <3>2. desc'[d].out = desc[d].out /\ Due(desc, stack, d) = desc[d].out /\ desc[d].out \in Nat
            BY <1>1, <1>3, <3>1 DEF Due
        <3>3. CASE d # s
            <4>1. Due(desc', u, d) = desc[d].out
                BY <2>1, <2>6, <3>2, <3>3 DEF Due
            <4> QED
                BY <1>2, <3>1, <3>2, <4>1 DEF Paid
        <3>4. CASE d = s
            <4> DEFINE e == stack[2].d
            <4>1. Due(desc', u, d) = desc[d].out + 1
                BY <2>1, <2>6, <3>2, <3>4 DEF Due
            <4>2. stack[2].call = "closed" /\ e \notin c.to /\ e # d
                BY <2>8, <3>1, <3>4, <1>5
            <4>3. Frame(desc, stack, 2) /\ Placed(desc, stack, 2)
                BY <3>1 DEF LoopInv, LinksInv, Frames, Ended
            <4>4. e \in Terms \ {d} /\ ~Shut(desc, e)
                BY <4>2, <4>3 DEF Frame, Placed, Ends
            <4>5. e \in Gone(desc', u, d)
                <5>1. 3 \in 1 .. Len(u) /\ u[3].call = "closed" /\ u[3].d = e
                    BY <1>1, <2>6, <3>1, <4>2
                <5>2. ~(u[3 - 1].call = "tell" /\ d \in u[3 - 1].to)
                    BY <2>2, <2>6, <3>4
                <5> QED
                    BY <4>4, <5>1, <5>2 DEF Gone
            <4>6. e \notin Gone(desc, stack, d)
                <5>1. ASSUME NEW i \in 1 .. Len(stack), stack[i].call = "closed", stack[i].d = e
                      PROVE  i = 2
                    BY <3>1, <4>2, <5>1 DEF Ended, Single, Ends
                <5>2. stack[2 - 1].call = "tell" /\ d \in stack[2 - 1].to
                    BY <1>1, <1>5, <3>4
                <5> QED
                    BY <4>4, <5>1, <5>2 DEF Gone
            <4> HIDE DEF e
            <4>7. Gone(desc, stack, d) # Gone(desc', u, d)
                BY <4>5, <4>6
            <4> QED
                BY <1>2, <3>1, <3>2, <4>1, <4>7 DEF Paid
        <3> QED
            BY <3>3, <3>4
    <2> QED
        BY <1>1, <2>3, <2>11, <2>12, PushedEnded DEF u
<1> QED
    BY <1>1, <1>4, <1>5 DEF tell

LEMMA EachEnds ==
    ASSUME LoopInv, Ended(desc, stack), stack # <<>>, Head(stack).call = "each", each(Head(stack))
    PROVE  Ended(desc', stack')
<1> DEFINE c == stack[1]
           left == c.left \cap desc[c.d].snoop_by
<1>1. /\ Head(stack) = c /\ c.call = "each" /\ c.d \in Terms /\ Len(stack) \in Nat \ {0}
      /\ Frames(desc, stack) /\ Placed(desc, stack, 1) /\ desc' = desc
      /\ (Inside(stack, 1) => 2 \in 1 .. Len(stack))
    BY Top DEF Frame, each
<1>2. ~Ends(c) /\ \A d : Flushing(stack, d) => d = c.d
    BY <1>1 DEF Flushing, Ends
<1>3. Inside(stack, 1) => stack[2].call = "write_direct" /\ stack[2].d = c.d /\ desc[c.d].snoop_by = {}
    BY <1>1, <1>2 DEF Placed, Nested
<1>4. CASE Makes(<<>>)
    <2>1. stack' = Pushed(<<>>, stack) /\ Fades(desc, desc')
        BY <1>1, <1>4, SameFades DEF Makes, Pushed
    <2>2. ASSUME NEW d \in Terms, Closing(stack, d)
          PROVE  \/ desc[d].out \in Nat /\ ~Flushing(stack, d) /\ desc[d].out <= Due(desc, stack, d)
                 \/ Flushing(stack', d)
        <3>1. Inside(stack, 1) /\ 2 \in 1 .. Len(stack)
            BY <1>1, <1>2, <2>2, ClosingWithin
        <3>2. CASE d = c.d
            <4>1. IsSeq(<<>>) /\ Len(<<>>) = 0
                BY Seq0
            <4>2. Stacks(stack, <<>>, stack')
                BY <1>1, <2>1, <4>1, StacksAre DEF Frames
            <4>3. 2 \in 2 .. Len(stack) /\ Len(<<>>) + 2 - 1 = 1
                BY <1>1, <3>1, <4>1
            <4>4. stack'[1] = stack[2]
                BY <4>2, <4>3 DEF Stacks
            <4> QED
                BY <1>3, <3>1, <3>2, <4>4 DEF Flushing
        <3>3. CASE d # c.d
            BY <1>2, <2>2, <3>3, ClosingRoom
        <3> QED
            BY <3>2, <3>3
    <2> QED
        BY <1>1, <2>1, <2>2, Returns
<1>5. ASSUME NEW s \in left, Makes(<<Write(s, c.n), [c EXCEPT !.left = left \ {s}, !.current = s]>>)
      PROVE  Ended(desc', stack')
    <2> DEFINE a == Write(s, c.n)
               b == [c EXCEPT !.left = left \ {s}, !.current = s]
               t == <<a, b>>
               u == Pushed(t, stack)
    <2>1. a.call = "write" /\ b.call = "each"
        BY <1>1 DEF Write
    <2>2. stack' = u
        BY <1>5 DEF Makes, Pushed
    <2> HIDE DEF a, b
    <2>3. IsSeq(t) /\ Len(t) = 2 /\ t[1] = a /\ t[2] = b
        BY Seq2
    <2> HIDE DEF t
    <2>4. Stacks(stack, t, u)
        BY <1>1, <2>3, StacksAre DEF Frames
    <2> HIDE DEF u
    <2>5. ~Inside(stack, 1)
        BY <1>3, <1>5
    <2>6. ASSUME NEW k \in 1 .. Len(u), Ends(u[k])
          PROVE  FALSE
        <3>1. Closing(u, u[k].d)
            BY <2>6 DEF Closing
        <3>2. \A i \in 1 .. Len(t) : ~Ends(t[i])
            BY <2>1, <2>3 DEF Ends
        <3> QED
            BY <2>4, <2>5, <3>1, <3>2, ClosingBelow
    <2>7. u[1] = a /\ u[2] = b /\ Len(u) \in Nat
        BY <2>3, <2>4 DEF Stacks
    <2>8. ~Inside(u, 1) /\ ~Inside(u, 2)
        BY <2>6, <2>7 DEF Inside
    <2>9. Follows(desc, stack, desc', t)
        <3>1. Polite(desc) /\ Fades(desc, desc')
            BY <1>1, SameFades DEF Ended
        <3>2. \A i \in 1 .. Len(t) : Placed(desc', u, i) /\ ~Ends(t[i])
            BY <2>1, <2>3, <2>7, <2>8 DEF Ends, Placed
        <3> QED
            BY <1>1, <2>1, <2>3, <2>5, <3>1, <3>2, Faded DEF Follows, u
    <2>10. \A d \in Terms : ~Closing(u, d)
        BY <2>6 DEF Closing
    <2> QED
        BY <1>1, <2>2, <2>9, <2>10, PushedEnded DEF u
<1> QED
    BY <1>1, <1>4, <1>5 DEF each

LEMMA FlushEnds ==
    ASSUME LoopInv, Ended(desc, stack), stack # <<>>, Head(stack).call = "flush_output",
           flush_output(Head(stack))
    PROVE  Ended(desc', stack')
<1> DEFINE c == stack[1]
           a == ToSnoopers(c.d, desc[c.d].out + 1)
           b == Call("write_direct", c.d)
<1>1. /\ Head(stack) = c /\ c.call = "flush_output" /\ c.d \in Terms /\ Len(stack) \in Nat \ {0}
      /\ Frames(desc, stack) /\ Placed(desc, stack, 1) /\ desc' = desc
      /\ (Inside(stack, 1) => 2 \in 1 .. Len(stack))
    BY Top DEF Frame, flush_output
<1>2. ~Ends(c) /\ \A d : Flushing(stack, d) => d = c.d
    BY <1>1 DEF Flushing, Ends
<1>3. Inside(stack, 1) => stack[2].call = "part" /\ stack[2].d = c.d /\ Unseen(desc[c.d]) /\ ~Shut(desc, c.d)
    <2> SUFFICES ASSUME Inside(stack, 1)
                 PROVE  stack[2].call = "part" /\ stack[2].d = c.d /\ Unseen(desc[c.d]) /\ ~Shut(desc, c.d)
        OBVIOUS
    <2>1. stack[2].call = "part" /\ stack[2].d = c.d /\ Unseen(desc[c.d])
        BY <1>1, <1>2 DEF Placed, Nested
    <2>2. Placed(desc, stack, 2)
        BY <1>1 DEF Ended
    <2> QED
        BY <2>1, <2>2 DEF Placed, Ends
<1>4. ASSUME NEW d \in Terms, Closing(stack, d)
      PROVE  Inside(stack, 1) /\ (d # c.d => desc[d].out \in Nat /\ ~Flushing(stack, d) /\ desc[d].out <= Due(desc, stack, d))
    BY <1>1, <1>2, <1>4, ClosingRoom, ClosingWithin
<1>5. a.call = "each" /\ a.d = c.d /\ b.call = "write_direct" /\ b.d = c.d
    BY DEF ToSnoopers, Call
<1>6. \/ (desc[c.d].out = 0 \/ Is_closed(c.d)) /\ Makes(<<>>)
      \/ ~desc[c.d].person /\ Makes(<<>> \o <<b>>)
      \/ desc[c.d].out # 0 /\ desc[c.d].person /\ Makes(<<a>> \o <<b>>)
    BY <1>1 DEF flush_output
<1> HIDE DEF a, b
<1>7. \/ (desc[c.d].out = 0 \/ Is_closed(c.d)) /\ Makes(<<>>)
      \/ Makes(<<b>>)
      \/ desc[c.d].out # 0 /\ desc[c.d].person /\ Makes(<<a, b>>)
    BY <1>6, Joined
<1>8. CASE (desc[c.d].out = 0 \/ Is_closed(c.d)) /\ Makes(<<>>)
    <2>1. stack' = Pushed(<<>>, stack) /\ Fades(desc, desc')
        BY <1>1, <1>8, SameFades DEF Makes, Pushed
    <2>2. Inside(stack, 1) => desc[c.d].out = 0
        BY <1>3, <1>8 DEF Shut, Is_closed
    <2>3. \A d \in Terms : Closing(stack, d) =>
              \/ desc'[d].out = 0
              \/ desc'[d].out \in Nat /\ ~Flushing(stack, d) /\ desc'[d].out <= Due(desc, stack, d)
        BY <1>1, <1>4, <2>2
    <2> QED
        BY <1>1, <2>1, <2>3, Returns
\* The rest of the close(), where there is one, comes next.
<1>9. ASSUME NEW t, IsSeq(t), Len(t) > 0, \A i \in 1 .. Len(t) : t[i] \in {a, b},
             t[1] = a \/ t[1] = b, t[Len(t)] = b, Makes(t),
             \A i \in 1 .. Len(t) : Placed(desc', Pushed(t, stack), i)
      PROVE  Ended(desc', stack')
    <2> DEFINE u == Pushed(t, stack)
    <2>1. stack' = u
        BY <1>9 DEF Makes, Pushed
    <2>2. Stacks(stack, t, u)
        BY <1>1, <1>9, StacksAre DEF Frames
    <2>3. \A i \in 1 .. Len(t) : Placed(desc', u, i)
        BY <1>9
    <2> HIDE DEF u
    <2>4. u[1] = t[1] /\ Len(t) \in Nat
        BY <1>9, <2>2 DEF Stacks
    <2>5. \A i \in 1 .. Len(t) : ~Ends(t[i]) /\ t[i].call # "tell"
        BY <1>5, <1>9 DEF Ends
    <2>6. Len(t) \in 1 .. Len(t)
        BY <1>9, <2>4
    <2>7. Follows(desc, stack, desc', t)
        <3>1. Polite(desc) /\ Fades(desc, desc')
            BY <1>1, SameFades DEF Ended
        <3> QED
            BY <1>1, <1>9, <2>3, <2>5, <2>6, <3>1, Faded DEF Follows, u
    <2>8. ASSUME NEW d \in Terms, Closing(u, d), ~Flushing(u, d)
          PROVE  Paid(desc, stack, desc', u, d)
        <3>1. Closing(stack, d)
            BY <2>2, <2>5, <2>8, ClosingBelow
        <3>2. d # c.d
            BY <1>5, <1>9, <2>4, <2>8 DEF Flushing
        <3>3. Due(desc', u, d) = desc[d].out
            BY <1>1, <1>4, <1>5, <1>9, <2>4, <3>1, <3>2 DEF Due
        <3> QED
            BY <1>1, <1>4, <3>1, <3>2, <3>3 DEF Paid
    <2> QED
        BY <1>1, <2>1, <2>7, <2>8, PushedEnded DEF u
<1>10. CASE Makes(<<b>>)
    <2> DEFINE t == <<b>>
               u == Pushed(t, stack)
    <2>1. IsSeq(t) /\ Len(t) = 1 /\ t[1] = b /\ Makes(t)
        BY <1>10, Seq1
    <2> HIDE DEF t
    <2>2. Stacks(stack, t, u)
        BY <1>1, <2>1, StacksAre DEF Frames
    <2> HIDE DEF u
    <2>3. u[1] = b
        BY <2>1, <2>2 DEF Stacks
    <2>4. Inside(u, 1) => Inside(stack, 1) /\ u[2] = stack[2] /\ 2 \in 1 .. Len(stack)
        <3> SUFFICES ASSUME Inside(u, 1)
                     PROVE  Inside(stack, 1) /\ u[2] = stack[2] /\ 2 \in 1 .. Len(stack)
            OBVIOUS
        <3>1. PICK k \in 1 .. Len(u) : Ends(u[k])
            BY DEF Inside
        <3>2. Closing(u, u[k].d) /\ \A i \in 1 .. Len(t) : ~Ends(t[i])
            BY <1>5, <2>1, <3>1 DEF Closing, Ends
        <3>3. Inside(stack, 1) /\ u[Len(t) + 1] = stack[2] /\ 2 \in 1 .. Len(stack)
            BY <2>2, <3>2, ClosingBelow
        <3> QED
            BY <2>1, <3>3
    <2>5. Placed(desc', u, 1)
        BY <1>1, <1>3, <1>5, <2>3, <2>4 DEF Placed, Nested, Ends
    <2>6. /\ Len(t) > 0 /\ t[Len(t)] = b /\ t[1] = b
          /\ \A i \in 1 .. Len(t) : t[i] \in {a, b} /\ Placed(desc', Pushed(t, stack), i)
        BY <2>1, <2>5 DEF u
    <2> QED
        BY <1>9, <2>1, <2>6
<1>11. CASE desc[c.d].out # 0 /\ desc[c.d].person /\ Makes(<<a, b>>)
    <2> DEFINE t == <<a, b>>
               u == Pushed(t, stack)
    <2>1. IsSeq(t) /\ Len(t) = 2 /\ t[1] = a /\ t[2] = b /\ Makes(t)
        BY <1>11, Seq2
    <2> HIDE DEF t
    <2>2. Stacks(stack, t, u)
        BY <1>1, <2>1, StacksAre DEF Frames
    <2> HIDE DEF u
    <2>3. u[1] = a /\ u[2] = b
        BY <2>1, <2>2 DEF Stacks
    <2>4. ASSUME Inside(u, 1) \/ Inside(u, 2)
          PROVE  Inside(stack, 1) /\ u[3] = stack[2] /\ 2 \in 1 .. Len(stack)
        <3>1. PICK k \in 1 .. Len(u) : Ends(u[k])
            BY <2>4 DEF Inside
        <3>2. Closing(u, u[k].d) /\ \A i \in 1 .. Len(t) : ~Ends(t[i])
            BY <1>5, <2>1, <3>1 DEF Closing, Ends
        <3>3. Inside(stack, 1) /\ u[Len(t) + 1] = stack[2] /\ 2 \in 1 .. Len(stack)
            BY <2>2, <3>2, ClosingBelow
        <3> QED
            BY <2>1, <3>3
    <2>5. Inside(stack, 1) => desc[c.d].snoop_by = {}
        BY <1>3, <1>11 DEF Unseen
    <2>6. Placed(desc', u, 1)
        BY <1>1, <1>3, <1>5, <2>3, <2>4, <2>5 DEF Placed, Nested, Ends
    <2>7. Placed(desc', u, 2)
        BY <1>1, <1>3, <1>5, <2>3, <2>4, <2>5 DEF Placed, Nested, Ends
    <2>8. /\ Len(t) > 0 /\ t[Len(t)] = b /\ t[1] = a
          /\ \A i \in 1 .. Len(t) : t[i] \in {a, b} /\ Placed(desc', Pushed(t, stack), i)
        BY <2>1, <2>6, <2>7 DEF u
    <2> QED
        BY <1>9, <2>1, <2>8
<1> QED
    BY <1>7, <1>8, <1>10, <1>11

LEMMA WriteDirectEnds ==
    ASSUME LoopInv, link = "up", Ended(desc, stack), stack # <<>>, Head(stack).call = "write_direct",
           write_direct(Head(stack))
    PROVE  Ended(desc', stack')
<1> DEFINE c == stack[1]
<1>1. /\ Head(stack) = c /\ c.call = "write_direct" /\ c.d \in Terms /\ Len(stack) \in Nat \ {0}
      /\ Frames(desc, stack) /\ Links(desc)
    BY Top DEF Frame, LoopInv, LinksInv
<1>2. ~Ends(c) /\ \A d : Flushing(stack, d) => d = c.d
    BY <1>1 DEF Flushing, Ends
<1>3. desc' = [desc EXCEPT ![c.d].out = 0] /\ Makes(<<>>)
    BY <1>1 DEF write_direct
<1>4. Fades(desc, desc') /\ desc'[c.d].out = 0 /\ \A e \in Terms \ {c.d} : desc'[e].out = desc[e].out
    BY <1>1, <1>3, OutFades
<1>5. stack' = Pushed(<<>>, stack)
    BY <1>3 DEF Makes, Pushed
<1>6. ASSUME NEW d \in Terms, Closing(stack, d), d # c.d
      PROVE  desc'[d].out \in Nat /\ ~Flushing(stack, d) /\ desc'[d].out <= Due(desc, stack, d)
    BY <1>2, <1>4, <1>6, ClosingRoom
<1> QED
    BY <1>1, <1>4, <1>5, <1>6, Returns

LEMMA CloseEnds ==
    ASSUME LoopInv, Ended(desc, stack), stack # <<>>, Head(stack).call = "close", close(Head(stack))
    PROVE  Ended(desc', stack')
<1> DEFINE c == stack[1]
<1>1. /\ Head(stack) = c /\ c.call = "close" /\ c.d \in Terms /\ Len(stack) \in Nat \ {0}
      /\ Frames(desc, stack) /\ Placed(desc, stack, 1) /\ desc' = desc
    BY Top DEF Frame, close
<1>2. ~Ends(c) /\ \A d : ~Flushing(stack, d)
    BY <1>1 DEF Flushing, Ends
<1>3. ASSUME NEW d \in Terms, Closing(stack, d)
      PROVE  desc[d].out \in Nat /\ desc[d].out <= Due(desc, stack, d)
    BY <1>2, <1>3, ClosingRoom
<1>4. CASE Makes(<<>>)
    <2>1. stack' = Pushed(<<>>, stack) /\ Fades(desc, desc')
        BY <1>1, <1>4, SameFades DEF Makes, Pushed
    <2> QED
        BY <1>1, <1>2, <1>3, <2>1, Returns
<1>5. CASE ~Is_closed(c.d) /\ Makes(<<Call("flush_output", c.d), Call("part", c.d)>>)
    <2> DEFINE a == Call("flush_output", c.d)
               b == Call("part", c.d)
               t == <<a, b>>
               u == Pushed(t, stack)
    <2>1. a.call = "flush_output" /\ a.d = c.d /\ b.call = "part" /\ b.d = c.d
        BY DEF Call
    <2>2. stack' = u
        BY <1>5 DEF Makes, Pushed
    <2> HIDE DEF a, b
    <2>3. IsSeq(t) /\ Len(t) = 2 /\ t[1] = a /\ t[2] = b
        BY Seq2
    <2> HIDE DEF t
    <2>4. Stacks(stack, t, u)
        BY <1>1, <2>3, StacksAre DEF Frames
    <2> HIDE DEF u
    <2>5. u[1] = a /\ u[2] = b
        BY <2>3, <2>4 DEF Stacks
    <2>6. ~Shut(desc, c.d) /\ Unseen(desc[c.d])
        BY <1>1, <1>5 DEF Shut, Is_closed, Placed, Readied, Unseen
    <2>7. ~Closing(stack, c.d)
        <3> SUFFICES ASSUME Closing(stack, c.d) PROVE FALSE
            OBVIOUS
        <3>1. Inside(stack, 1)
            BY <1>1, <1>2, ClosingWithin
        <3> QED
            BY <1>1, <1>2, <3>1 DEF Placed, Nested
    <2>8. Placed(desc', u, 1)
        BY <1>1, <2>1, <2>5, <2>6 DEF Placed, Nested, Ends
    <2>9. Placed(desc', u, 2)
        BY <1>1, <2>1, <2>5, <2>6 DEF Placed, Nested, Ends
    <2>10. Follows(desc, stack, desc', t)
        <3>1. Polite(desc) /\ Fades(desc, desc')
            BY <1>1, SameFades DEF Ended
        <3>2. \A i \in 1 .. Len(t) : (i = 1 \/ i = 2) /\ Placed(desc', u, i) /\ (Ends(t[i]) => i = 2 /\ ~Closing(stack, t[i].d))
            BY <2>1, <2>3, <2>7, <2>8, <2>9 DEF Ends
        <3> QED
            BY <1>1, <2>1, <2>3, <3>1, <3>2, Faded DEF Follows, u
    <2>11. ASSUME NEW d \in Terms, Closing(u, d), ~Flushing(u, d)
           PROVE  Paid(desc, stack, desc', u, d)
        <3>1. d # c.d
            BY <2>1, <2>5, <2>11 DEF Flushing
        <3>2. \A i \in 1 .. Len(t) : ~(Ends(t[i]) /\ t[i].d = d)
            BY <2>1, <2>3, <3>1 DEF Ends
        <3>3. Closing(stack, d)
            BY <2>4, <2>11, <3>2, ClosingBelow
        <3>4. Due(desc', u, d) = desc[d].out
            BY <1>1, <1>3, <2>1, <2>5, <3>3 DEF Due
        <3> QED
            BY <1>1, <1>2, <1>3, <3>3, <3>4 DEF Paid
    <2> QED
        BY <1>1, <2>2, <2>10, <2>11, PushedEnded DEF u
<1> QED
    BY <1>1, <1>4, <1>5 DEF close

\* The rest of a close() goes on, and writes nothing yet.
LEMMA GoesOn ==
    ASSUME LoopInv, Ended(desc, stack), stack # <<>>, desc' = desc,
           stack[1].call \in {"part", "leave", "stop_snooping"},
           NEW t, IsSeq(t), Len(t) > 0, t[1].call # "write", t[Len(t)].call # "tell",
           \A i \in 1 .. Len(t) : Ends(t[i]) => i = Len(t) /\ Ends(stack[1]) /\ t[i].d = stack[1].d,
           \A i \in 1 .. Len(t) : Placed(desc, Pushed(t, stack), i)
    PROVE  Ended(desc', Pushed(t, stack))
<1> DEFINE u == Pushed(t, stack)
<1>1. Frames(desc, stack) /\ Len(stack) \in Nat \ {0} /\ \A d : ~Flushing(stack, d)
    BY Top DEF Flushing
<1>2. Stacks(stack, t, u)
    BY <1>1, StacksAre DEF Frames
<1>3. u[1] = t[1]
    BY <1>2 DEF Stacks
<1> HIDE DEF u
<1>4. Follows(desc, stack, desc', t)
    <2>1. Polite(desc) /\ Fades(desc, desc')
        BY SameFades DEF Ended
    <2> QED
        BY <2>1, Faded DEF Follows
<1>5. ASSUME NEW d \in Terms, Closing(u, d)
      PROVE  Paid(desc, stack, desc', u, d)
    <2>1. Closing(stack, d)
        <3>1. CASE \A i \in 1 .. Len(t) : ~(Ends(t[i]) /\ t[i].d = d)
            BY <1>2, <1>5, <3>1, ClosingBelow
        <3>2. CASE \E i \in 1 .. Len(t) : Ends(t[i]) /\ t[i].d = d
            <4>1. Ends(stack[1]) /\ stack[1].d = d /\ 1 \in 1 .. Len(stack)
                BY <1>1, <3>2
            <4> QED
                BY <4>1 DEF Closing
        <3> QED
            BY <3>1, <3>2
    <2>2. desc[d].out \in Nat /\ desc[d].out <= Due(desc, stack, d)
        BY <1>1, <2>1, ClosingRoom
    <2>3. Due(desc', u, d) = desc[d].out
        BY <1>3, <2>2 DEF Due
    <2> QED
        BY <1>1, <2>1, <2>2, <2>3 DEF Paid
<1> QED
    BY <1>1, <1>4, <1>5, PushedEnded DEF u

LEMMA PartEnds ==
    ASSUME LoopInv, Ended(desc, stack), stack # <<>>, Head(stack).call = "part", part(Head(stack))
    PROVE  Ended(desc', stack')
<1> DEFINE c == stack[1]
<1>1. /\ Head(stack) = c /\ c.call = "part" /\ c.d \in Terms /\ Len(stack) \in Nat \ {0}
      /\ Frames(desc, stack) /\ Placed(desc, stack, 1) /\ desc' = desc
    BY Top DEF Frame, part
<1>2. Ends(c) /\ ~Shut(desc, c.d) /\ \A d : ~Flushing(stack, d)
    BY <1>1 DEF Flushing, Ends, Placed
<1>3. Closing(stack, c.d) /\ Single(stack) /\ 1 \in 1 .. Len(stack)
    BY <1>1, <1>2 DEF Closing, Ended
<1>4. CASE Makes(<<Call("stop_snooping", c.d), Call("leave", c.d)>>)
    <2> DEFINE a == Call("stop_snooping", c.d)
               b == Call("leave", c.d)
               t == <<a, b>>
               u == Pushed(t, stack)
    <2>1. a.call = "stop_snooping" /\ a.d = c.d /\ b.call = "leave" /\ b.d = c.d
        BY DEF Call
    <2>2. stack' = u
        BY <1>4 DEF Makes, Pushed
    <2> HIDE DEF a, b
    <2>3. IsSeq(t) /\ Len(t) = 2 /\ t[1] = a /\ t[2] = b
        BY Seq2
    <2> HIDE DEF t
    <2>4. Stacks(stack, t, u)
        BY <1>1, <2>3, StacksAre DEF Frames
    <2> HIDE DEF u
    <2>5. u[1] = a /\ u[2] = b
        BY <2>3, <2>4 DEF Stacks
    <2>6. Placed(desc, u, 1)
        BY <2>1, <2>5 DEF Placed, Nested, Ends
    <2>7. Placed(desc, u, 2)
        BY <1>2, <2>1, <2>5 DEF Placed, Nested, Ends
    <2>8. \A i \in 1 .. Len(t) : Placed(desc, u, i) /\ (Ends(t[i]) => i = Len(t) /\ t[i].d = c.d)
        BY <2>1, <2>3, <2>6, <2>7 DEF Ends
    <2>9. stack[1].call \in {"part", "leave", "stop_snooping"} /\ desc' = desc
        BY <1>1
    <2>10. IsSeq(t) /\ Len(t) > 0 /\ t[1].call # "write" /\ t[Len(t)].call # "tell"
        BY <2>1, <2>3
    <2>11. \A i \in 1 .. Len(t) : Ends(t[i]) => i = Len(t) /\ Ends(stack[1]) /\ t[i].d = stack[1].d
        BY <1>2, <2>8
    <2>12. \A i \in 1 .. Len(t) : Placed(desc, Pushed(t, stack), i)
        BY <1>2, <2>8 DEF u
    <2>13. Ended(desc', Pushed(t, stack))
        BY <2>9, <2>10, <2>11, <2>12, GoesOn
    <2> QED
        BY <2>2, <2>13 DEF u
<1>5. ASSUME NEW s \in desc[c.d].snoop_by,
             Makes(<<Write(s, 1), [call |-> "forget", d |-> s, whom |-> c.d], c>>)
      PROVE  Ended(desc', stack')
    <2> DEFINE a == Write(s, 1)
               b == [call |-> "forget", d |-> s, whom |-> c.d]
               t == <<a, b, c>>
               u == Pushed(t, stack)
    <2>1. a.call = "write" /\ a.d = s /\ a.n = 1 /\ b.call = "forget" /\ b.d = s /\ b.whom = c.d
        BY DEF Write
    <2>2. stack' = u
        BY <1>5 DEF Makes, Pushed
    <2> HIDE DEF a, b, c
    <2>3. IsSeq(t) /\ Len(t) = 3 /\ t[1] = a /\ t[2] = b /\ t[3] = c
        BY Seq3
    <2> HIDE DEF t
    <2>4. Stacks(stack, t, u)
        BY <1>1, <2>3, StacksAre DEF Frames
    <2> HIDE DEF u
    <2>5. u[1] = a /\ u[2] = b /\ u[3] = c /\ Len(u) \in Nat /\ Len(u) >= 3
        BY <1>1, <2>3, <2>4 DEF Stacks
    <2>6. Placed(desc', u, 1)
        BY <2>1, <2>5 DEF Placed, Nested, Ends
    <2>7. Placed(desc', u, 2)
        <3>1. InLoop(u, 2)
            BY <1>1, <2>1, <2>5 DEF InLoop
        <3> QED
            BY <2>1, <2>5, <3>1 DEF Placed, Nested, Ends
    <2>8. Placed(desc', u, 3)
        BY <1>1, <1>2, <2>5 DEF Placed, Nested
    <2>9. \A i \in 1 .. Len(t) : Placed(desc', u, i) /\ (Ends(t[i]) => i = 3 /\ t[i].d = c.d)
        BY <2>1, <2>3, <2>6, <2>7, <2>8 DEF Ends
    <2>10. Follows(desc, stack, desc', t)
        <3>1. Polite(desc) /\ Fades(desc, desc')
            BY <1>1, SameFades DEF Ended
        <3> QED
            BY <1>1, <1>2, <2>3, <2>9, <3>1, Faded DEF Follows, u, c
    <2>11. s \in Terms /\ s # c.d
        <3>1. Links(desc) /\ LoopFree(desc)
            BY DEF LoopInv, LinksInv
        <3>2. s \in Terms /\ c.d \in desc[s].snooping
            BY <1>1, <1>5, <3>1 DEF Links
        <3>3. c.d \in Reached(desc, s)
            BY <3>1, <3>2, ReachedClosed DEF Links
        <3> QED
            BY <3>1, <3>2, <3>3 DEF LoopFree
    <2>12. ASSUME NEW d \in Terms, Closing(u, d)
           PROVE  Paid(desc, stack, desc', u, d)
        <3>1. Closing(stack, d)
            <4>1. CASE d = c.d
                BY <1>3, <4>1
            <4>2. CASE d # c.d
                BY <2>4, <2>9, <2>12, <4>2, ClosingBelow
            <4> QED
                BY <4>1, <4>2
        <3>2. desc[d].out \in Nat /\ Due(desc, stack, d) = desc[d].out
            <4>1. desc[d].out \in Nat
                BY <1>2, <3>1, ClosingRoom
            <4> QED
                BY <1>1, <4>1 DEF Due, c
        <3>3. CASE d # s
            <4>1. Due(desc', u, d) = desc[d].out
                BY <1>1, <2>1, <2>5, <3>2, <3>3 DEF Due
            <4> QED
                BY <1>1, <1>2, <3>1, <3>2, <4>1 DEF Paid
        <3>4. CASE d = s
            <4>1. Due(desc', u, d) = desc[d].out + 1
                BY <1>1, <2>1, <2>5, <3>2, <3>4 DEF Due
            <4>2. c.d \in Parted(desc', u, d)
                <5>1. 2 \in 1 .. Len(u) /\ u[2].call = "forget" /\ u[2].d = d /\ u[2].whom = c.d
                    BY <2>1, <2>5, <3>4
                <5> QED
                    BY <1>1, <2>11, <3>4, <5>1 DEF Parted
            <4>3. c.d \notin Parted(desc, stack, d)
                <5>1. d \in desc[c.d].snoop_by
                    BY <1>5, <3>4
                <5>2. ASSUME NEW i \in 1 .. Len(stack),
                             stack[i].call = "forget", stack[i].d = d, stack[i].whom = c.d
                      PROVE  FALSE
                    <6>1. Placed(desc, stack, i) /\ i # 1
                        BY <1>1, <5>2 DEF Ended, c
                    <6>2. i + 1 \in 1 .. Len(stack) /\ stack[i + 1].call = "part" /\ stack[i + 1].d = c.d
                        BY <5>2, <6>1 DEF Placed, InLoop
                    <6>3. i + 1 = 1
                        BY <1>2, <1>3, <6>2 DEF Single, Ends, c
                    <6> QED
                        BY <6>3
                <5> QED
                    BY <5>1, <5>2 DEF Parted
            <4>4. Parted(desc, stack, d) # Parted(desc', u, d)
                BY <4>2, <4>3
            <4> QED
                BY <1>1, <1>2, <3>1, <3>2, <4>1, <4>4 DEF Paid
        <3> QED
            BY <3>3, <3>4
    <2> QED
        BY <1>1, <2>2, <2>10, <2>12, PushedEnded DEF u
<1> QED
    BY <1>1, <1>4, <1>5 DEF part

LEMMA StopSnoopingEnds ==
    ASSUME LoopInv, Ended(desc, stack), stack # <<>>, Head(stack).call = "stop_snooping",
           stop_snooping(Head(stack))
    PROVE  Ended(desc', stack')
<1> DEFINE c == stack[1]
<1>1. /\ Head(stack) = c /\ c.call = "stop_snooping" /\ c.d \in Terms /\ Len(stack) \in Nat \ {0}
      /\ Frames(desc, stack) /\ Placed(desc, stack, 1) /\ desc' = desc
    BY Top DEF Frame, stop_snooping
<1>2. ~Ends(c) /\ \A d : ~Flushing(stack, d)
    BY <1>1 DEF Flushing, Ends
<1>3. CASE Makes(<<>>)
    <2>1. stack' = Pushed(<<>>, stack) /\ Fades(desc, desc')
        BY <1>1, <1>3, SameFades DEF Makes, Pushed
    <2>2. ASSUME NEW d \in Terms, Closing(stack, d)
          PROVE  desc[d].out \in Nat /\ desc[d].out <= Due(desc, stack, d)
        BY <1>2, <2>2, ClosingRoom
    <2> QED
        BY <1>1, <1>2, <2>1, <2>2, Returns
<1>4. ASSUME NEW v \in desc[c.d].snooping, Makes(<<[call |-> "forget", d |-> c.d, whom |-> v], c>>)
      PROVE  Ended(desc', stack')
    <2> DEFINE a == [call |-> "forget", d |-> c.d, whom |-> v]
               t == <<a, c>>
               u == Pushed(t, stack)
    <2>1. a.call = "forget" /\ a.d = c.d
        OBVIOUS
    <2>2. stack' = u
        BY <1>4 DEF Makes, Pushed
    <2> HIDE DEF a, c
    <2>3. IsSeq(t) /\ Len(t) = 2 /\ t[1] = a /\ t[2] = c
        BY Seq2
    <2> HIDE DEF t
    <2>4. Stacks(stack, t, u)
        BY <1>1, <2>3, StacksAre DEF Frames
    <2> HIDE DEF u
    <2>5. u[1] = a /\ u[2] = c /\ Len(u) \in Nat /\ Len(u) >= 2
        BY <1>1, <2>3, <2>4 DEF Stacks
    <2>6. Placed(desc, u, 1)
        <3>1. InLoop(u, 1)
            BY <1>1, <2>1, <2>5 DEF InLoop
        <3> QED
            BY <2>1, <2>5, <3>1 DEF Placed, Nested, Ends
    <2>7. Placed(desc, u, 2)
        BY <1>1, <1>2, <2>5 DEF Placed, Nested
    <2>8. \A i \in 1 .. Len(t) : Placed(desc, u, i) /\ ~Ends(t[i])
        BY <1>2, <2>1, <2>3, <2>6, <2>7 DEF Ends
    <2>9. stack[1].call \in {"part", "leave", "stop_snooping"} /\ desc' = desc
        BY <1>1 DEF c
    <2>10. IsSeq(t) /\ Len(t) > 0 /\ t[1].call # "write" /\ t[Len(t)].call # "tell"
        BY <1>1, <2>1, <2>3 DEF c
    <2>11. \A i \in 1 .. Len(t) : Ends(t[i]) => i = Len(t) /\ Ends(stack[1]) /\ t[i].d = stack[1].d
        BY <2>8
    <2>12. \A i \in 1 .. Len(t) : Placed(desc, Pushed(t, stack), i)
        BY <2>8 DEF u
    <2>13. Ended(desc', Pushed(t, stack))
        BY <2>9, <2>10, <2>11, <2>12, GoesOn
    <2> QED
        BY <2>2, <2>13 DEF u
<1> QED
    BY <1>1, <1>3, <1>4 DEF stop_snooping

LEMMA LeaveEnds ==
    ASSUME LoopInv, Ended(desc, stack), stack # <<>>, Head(stack).call = "leave", leave(Head(stack))
    PROVE  Ended(desc', stack')
<1> DEFINE c == stack[1]
           a == Tell(Everybody \ {c.d}, 1)
           b == Call("closed", c.d)
<1>1. /\ Head(stack) = c /\ c.call = "leave" /\ c.d \in Terms /\ Len(stack) \in Nat \ {0}
      /\ Frames(desc, stack) /\ Placed(desc, stack, 1) /\ desc' = desc
    BY Top DEF Frame, leave
<1>2. Ends(c) /\ ~Shut(desc, c.d)
    BY <1>1 DEF Ends, Placed
<1>3. a.call = "tell" /\ a.n = 1 /\ c.d \notin a.to /\ b.call = "closed" /\ b.d = c.d
    BY DEF Tell, Call
<1>4. Makes(<<>> \o <<b>>) \/ Makes(<<a>> \o <<b>>)
    BY <1>1 DEF leave
<1> HIDE DEF a, b
<1>5. Makes(<<b>>) \/ Makes(<<a, b>>)
    BY <1>4, Joined
<1>6. CASE Makes(<<b>>)
    <2> DEFINE t == <<b>>
               u == Pushed(t, stack)
    <2>1. IsSeq(t) /\ Len(t) = 1 /\ t[1] = b /\ stack' = u
        BY <1>6, Seq1 DEF Makes, Pushed
    <2> HIDE DEF t
    <2>2. Stacks(stack, t, u)
        BY <1>1, <2>1, StacksAre DEF Frames
    <2> HIDE DEF u
    <2>3. u[1] = b
        BY <2>1, <2>2 DEF Stacks
    <2>4. Placed(desc, u, 1)
        BY <1>2, <1>3, <2>3 DEF Placed, Nested, Ends
    <2>5. \A i \in 1 .. Len(t) : i = Len(t) /\ Placed(desc, u, i) /\ t[i].d = c.d
        BY <1>3, <2>1, <2>4
    <2>6. stack[1].call \in {"part", "leave", "stop_snooping"} /\ desc' = desc
        BY <1>1
    <2>7. IsSeq(t) /\ Len(t) > 0 /\ t[1].call # "write" /\ t[Len(t)].call # "tell"
        BY <1>3, <2>1
    <2>8. \A i \in 1 .. Len(t) : Ends(t[i]) => i = Len(t) /\ Ends(stack[1]) /\ t[i].d = stack[1].d
        BY <1>2, <2>5
    <2>9. \A i \in 1 .. Len(t) : Placed(desc, Pushed(t, stack), i)
        BY <1>2, <2>5 DEF u
    <2>10. Ended(desc', Pushed(t, stack))
        BY <2>6, <2>7, <2>8, <2>9, GoesOn
    <2> QED
        BY <2>1, <2>10 DEF u
<1>7. CASE Makes(<<a, b>>)
    <2> DEFINE t == <<a, b>>
               u == Pushed(t, stack)
    <2>1. IsSeq(t) /\ Len(t) = 2 /\ t[1] = a /\ t[2] = b /\ stack' = u
        BY <1>7, Seq2 DEF Makes, Pushed
    <2> HIDE DEF t
    <2>2. Stacks(stack, t, u)
        BY <1>1, <2>1, StacksAre DEF Frames
    <2> HIDE DEF u
    <2>3. u[1] = a /\ u[2] = b
        BY <2>1, <2>2 DEF Stacks
    <2>4. Placed(desc, u, 1)
        BY <1>3, <2>3 DEF Placed, Nested, Ends
    <2>5. Placed(desc, u, 2)
        BY <1>2, <1>3, <2>3 DEF Placed, Nested, Ends
    <2>6. \A i \in 1 .. Len(t) : Placed(desc, u, i) /\ (Ends(t[i]) => i = Len(t) /\ t[i].d = c.d)
        BY <1>3, <2>1, <2>4, <2>5 DEF Ends
    <2>7. stack[1].call \in {"part", "leave", "stop_snooping"} /\ desc' = desc
        BY <1>1
    <2>8. IsSeq(t) /\ Len(t) > 0 /\ t[1].call # "write" /\ t[Len(t)].call # "tell"
        BY <1>3, <2>1
    <2>9. \A i \in 1 .. Len(t) : Ends(t[i]) => i = Len(t) /\ Ends(stack[1]) /\ t[i].d = stack[1].d
        BY <1>2, <2>6
    <2>10. \A i \in 1 .. Len(t) : Placed(desc, Pushed(t, stack), i)
        BY <1>2, <2>6 DEF u
    <2>11. Ended(desc', Pushed(t, stack))
        BY <2>7, <2>8, <2>9, <2>10, GoesOn
    <2> QED
        BY <2>1, <2>11 DEF u
<1> QED
    BY <1>5, <1>6, <1>7

LEMMA ExtractEnds ==
    ASSUME LoopInv, Ended(desc, stack), stack # <<>>, Head(stack).call = "extract_char",
           extract_char(Head(stack))
    PROVE  Ended(desc', stack')
<1> DEFINE c == stack[1]
<1>1. /\ Head(stack) = c /\ c.call = "extract_char" /\ c.d \in Terms /\ Len(stack) \in Nat \ {0}
      /\ Frames(desc, stack) /\ Links(desc)
    BY Top DEF Frame, LoopInv, LinksInv
<1>2. \A d : ~Flushing(stack, d)
    BY <1>1 DEF Flushing
<1>3. desc' = [desc EXCEPT ![c.d].person = FALSE] /\ Makes(<<>>)
    BY <1>1 DEF extract_char
<1>4. Fades(desc, desc') /\ ~desc'[c.d].person /\ \A e \in Terms : desc'[e].out = desc[e].out
    BY <1>1, <1>3, PersonFades
<1>5. stack' = Pushed(<<>>, stack)
    BY <1>3 DEF Makes, Pushed
<1>6. ASSUME NEW d \in Terms, Closing(stack, d)
      PROVE  desc'[d].out \in Nat /\ desc'[d].out <= Due(desc, stack, d)
    BY <1>2, <1>4, <1>6, ClosingRoom
<1> QED
    BY <1>1, <1>2, <1>4, <1>5, <1>6, Returns

\* What forgetting an edge leaves alone.
LEMMA ForgottenFades ==
    ASSUME Links(desc), NEW s \in Terms, NEW d \in Terms, desc' = Forgotten(desc, s, d)
    PROVE  /\ Fades(desc, desc') /\ s \notin desc'[d].snoop_by
           /\ \A e \in Terms : desc'[e].out = desc[e].out
<1> DEFINE a == [desc[s] EXCEPT !.snooping = @ \ {d}]
           fs == [desc EXCEPT ![s] = a]
           b == [fs[d] EXCEPT !.snoop_by = @ \ {s}]
           Alike(p, q) == /\ p.state = q.state /\ p.goodbyes = q.goodbyes /\ p.person = q.person
                          /\ p.out = q.out /\ p.snoop_by \subseteq q.snoop_by
<1>1. desc = [x \in Terms |-> desc[x]] /\ \A x \in Terms : IsDesc(desc[x])
    BY DEF Links
<1>2. desc' = [fs EXCEPT ![d] = b]
    BY DEF Forgotten
<1>3. IsDesc(a) /\ Alike(a, desc[s])
    BY <1>1 DEF IsDesc, Fields
<1> HIDE DEF a
<1>4. fs[s] = a /\ (\A x \in Terms \ {s} : fs[x] = desc[x]) /\ fs = [x \in Terms |-> fs[x]]
    BY <1>1
<1> HIDE DEF fs
<1>5. IsDesc(fs[d]) /\ \A x \in Terms : Alike(fs[x], desc[x])
    BY <1>1, <1>3, <1>4
<1>6. Alike(b, fs[d]) /\ s \notin b.snoop_by
    BY <1>5 DEF IsDesc, Fields
<1> HIDE DEF b
<1>7. desc'[d] = b /\ \A x \in Terms \ {d} : desc'[x] = fs[x]
    BY <1>2, <1>4
<1>8. \A x \in Terms : Alike(desc'[x], desc[x])
    BY <1>5, <1>6, <1>7
<1> QED
    BY <1>6, <1>7, <1>8 DEF Fades

LEMMA ForgetEnds ==
    ASSUME LoopInv, Ended(desc, stack), stack # <<>>, Head(stack).call = "forget", forget(Head(stack))
    PROVE  Ended(desc', stack')
<1> DEFINE c == stack[1]
<1>1. /\ Head(stack) = c /\ c.call = "forget" /\ c.d \in Terms /\ c.whom \in Terms
      /\ Len(stack) \in Nat \ {0} /\ Frames(desc, stack) /\ Links(desc)
    BY Top DEF Frame, LoopInv, LinksInv
<1>2. \A d : ~Flushing(stack, d)
    BY <1>1 DEF Flushing
<1>3. desc' = Forgotten(desc, c.d, c.whom) /\ Makes(<<>>)
    BY <1>1 DEF forget
<1>4. /\ Fades(desc, desc') /\ c.d \notin desc'[c.whom].snoop_by
      /\ \A e \in Terms : desc'[e].out = desc[e].out
    BY <1>1, <1>3, ForgottenFades
<1>5. stack' = Pushed(<<>>, stack)
    BY <1>3 DEF Makes, Pushed
<1>6. ASSUME NEW d \in Terms, Closing(stack, d)
      PROVE  desc'[d].out \in Nat /\ desc'[d].out <= Due(desc, stack, d)
    BY <1>2, <1>4, <1>6, ClosingRoom
<1> QED
    BY <1>1, <1>2, <1>4, <1>5, <1>6, Returns

\* The descriptor is closed, and doorman told where there is a link.
LEMMA ClosedWrites ==
    ASSUME Links(desc), NEW d \in Terms, Head(stack).d = d, closed(Head(stack))
    PROVE  /\ desc'[d].state = "closed" /\ ~desc'[d].person
           /\ desc'[d].snoop_by = desc[d].snoop_by /\ desc'[d].out = desc[d].out
           /\ desc'[d].goodbyes = IF link = "up" THEN desc[d].goodbyes + 1 ELSE desc[d].goodbyes
           /\ \A e \in Terms \ {d} : desc'[e] = desc[e]
<1> DEFINE n == IF link = "up" THEN desc[d].goodbyes + 1 ELSE desc[d].goodbyes
           r == [desc[d] EXCEPT !.state = "closed", !.person = FALSE, !.goodbyes = n]
<1>1. desc = [x \in Terms |-> desc[x]] /\ IsDesc(desc[d])
    BY DEF Links
<1>2. desc' = [desc EXCEPT ![d] = r]
    BY DEF closed
<1>3. n = IF link = "up" THEN desc[d].goodbyes + 1 ELSE desc[d].goodbyes
    OBVIOUS
<1> HIDE DEF n
<1>4. /\ r.state = "closed" /\ ~r.person /\ r.goodbyes = n
      /\ r.snoop_by = desc[d].snoop_by /\ r.out = desc[d].out
    BY <1>1 DEF IsDesc, Fields
<1> HIDE DEF r
<1>5. desc'[d] = r /\ \A e \in Terms \ {d} : desc'[e] = desc[e]
    BY <1>1, <1>2
<1> QED
    BY <1>3, <1>4, <1>5

\* Doorman has not been told before, as the descriptor was open.
LEMMA ClosedEnds ==
    ASSUME LoopInv, link = "up", Ended(desc, stack), stack # <<>>, Head(stack).call = "closed",
           closed(Head(stack))
    PROVE  Ended(desc', stack')
<1> DEFINE c == stack[1]
           d == c.d
           t == <<>>
           u == Pushed(t, stack)
<1>1. /\ Head(stack) = c /\ c.call = "closed" /\ d \in Terms /\ Len(stack) \in Nat \ {0}
      /\ Frames(desc, stack) /\ Placed(desc, stack, 1) /\ Links(desc)
    BY Top DEF Frame, LoopInv, LinksInv
<1>2. Ends(c) /\ ~Shut(desc, d) /\ \A e : ~Flushing(stack, e)
    BY <1>1 DEF Flushing, Ends, Placed
<1>3. /\ desc'[d].state = "closed" /\ ~desc'[d].person
      /\ desc'[d].snoop_by = desc[d].snoop_by /\ desc'[d].out = desc[d].out
      /\ desc'[d].goodbyes = desc[d].goodbyes + 1
      /\ \A e \in Terms \ {d} : desc'[e] = desc[e]
    BY <1>1, ClosedWrites
<1>4. stack' = u
    BY <1>1 DEF closed, Makes, Pushed
<1>5. IsSeq(t) /\ Len(t) = 0
    BY Seq0
<1> HIDE DEF t
<1>6. Stacks(stack, t, u)
    BY <1>1, <1>5, StacksAre DEF Frames
<1> HIDE DEF u
<1>7. Polite(desc) /\ desc[d].goodbyes = 0
    BY <1>1, <1>2 DEF Ended, Polite
<1>8. Polite(desc')
    <2> SUFFICES ASSUME NEW e \in Terms
                 PROVE  /\ desc'[e].goodbyes \in {0, 1} /\ (desc'[e].goodbyes = 1 => Shut(desc', e))
                        /\ desc'[e].state \in {"lobby", "password"} => desc'[e].snoop_by = {}
        BY DEF Polite
    <2>1. CASE e = d
        BY <1>3, <1>7, <2>1 DEF Shut
    <2>2. CASE e # d
        BY <1>3, <1>7, <2>2 DEF Shut, Polite
    <2> QED
        BY <2>1, <2>2
<1>9. Follows(desc, stack, desc', t)
    <2>1. ASSUME NEW e \in Terms
          PROVE  /\ desc'[e].snoop_by \subseteq desc[e].snoop_by
                 /\ ~desc[e].person => ~desc'[e].person
                 /\ Shut(desc, e) => Shut(desc', e)
                 /\ Shut(desc', e) => Shut(desc, e) \/ (Ends(stack[1]) /\ stack[1].d = e)
        <3>1. CASE e = d
            BY <1>1, <1>2, <1>3, <3>1 DEF Shut
        <3>2. CASE e # d
            BY <1>3, <3>2 DEF Shut
        <3> QED
            BY <3>1, <3>2
    <2>2. Shut(desc', d)
        BY <1>3 DEF Shut
    <2> QED
        BY <1>1, <1>5, <1>8, <2>1, <2>2 DEF Follows
<1>10. ASSUME NEW e \in Terms, Closing(u, e)
       PROVE  Paid(desc, stack, desc', u, e)
    <2>1. u[1].call # "write" /\ Closing(stack, e)
        BY <1>5, <1>6, <1>10, NextNoWrite, ClosingBelow
    <2>2. desc'[e].out = desc[e].out
        BY <1>3
    <2>3. desc[e].out \in Nat /\ desc[e].out <= Due(desc, stack, e)
        BY <1>2, <2>1, ClosingRoom
    <2>4. Due(desc', u, e) = desc[e].out
        BY <2>1, <2>2, <2>3 DEF Due
    <2> QED
        BY <1>2, <2>1, <2>2, <2>3, <2>4 DEF Paid
<1> QED
    BY <1>1, <1>4, <1>9, <1>10, PushedEnded DEF u

-----------------------------------------------------------------------------
(***************************************************************************)
(* Commands, and the main loop: no close() is under way.                   *)
(***************************************************************************)
\* Nothing is said to doorman, nobody comes back, and nobody begins to snoop on the lobby.
Civil(ds, es) ==
    \A d \in Terms : /\ es[d].goodbyes = ds[d].goodbyes
                     /\ Shut(ds, d) => Shut(es, d)
                     /\ es[d].state \in {"lobby", "password"} =>
                           ds[d].state \in {"lobby", "password"} /\ es[d].snoop_by \subseteq ds[d].snoop_by

LEMMA CivilPolite ==
    ASSUME NEW ds, Polite(ds), NEW es, Civil(ds, es)
    PROVE  Polite(es)
BY DEF Polite, Civil

LEMMA FadesCivil ==
    ASSUME NEW ds, NEW es, Fades(ds, es)
    PROVE  Civil(ds, es)
BY DEF Fades, Civil, Shut

LEMMA SameCivil ==
    ASSUME NEW ds
    PROVE  Civil(ds, ds)
BY DEF Civil

LEMMA RenewedCivil ==
    ASSUME Links(desc), NEW d \in Terms, NEW r, desc' = [desc EXCEPT ![d] = r],
           r.goodbyes = desc[d].goodbyes, r.snoop_by = desc[d].snoop_by,
           Shut(desc, d) => r.state \in {"closed", "reaped"},
           r.state \in {"lobby", "password"} => desc[d].state \in {"lobby", "password"}
    PROVE  Civil(desc, desc')
<1>1. desc = [x \in Terms |-> desc[x]]
    BY DEF Links
<1>2. desc'[d] = r /\ \A e \in Terms \ {d} : desc'[e] = desc[e]
    BY <1>1
<1>3. ASSUME NEW e \in Terms
      PROVE  /\ desc'[e].goodbyes = desc[e].goodbyes
             /\ Shut(desc, e) => Shut(desc', e)
             /\ desc'[e].state \in {"lobby", "password"} =>
                   desc[e].state \in {"lobby", "password"} /\ desc'[e].snoop_by \subseteq desc[e].snoop_by
    <2>1. CASE e = d
        BY <1>2, <2>1 DEF Shut
    <2>2. CASE e # d
        BY <1>2, <2>2 DEF Shut
    <2> QED
        BY <2>1, <2>2
<1> QED
    BY <1>3 DEF Civil

\* With no close() under way there is little to know.
Quiet(ds, st, i) ==
    st[i].call \notin {"part", "leave", "closed", "forget"} /\ (st[i].call = "close" => Readied(ds, st, i))

LEMMA QuietEnded ==
    ASSUME NEW ds, Polite(ds), NEW st, \A i \in 1 .. Len(st) : Quiet(ds, st, i), Len(st) \in Nat
    PROVE  Ended(ds, st)
<1>1. \A i \in 1 .. Len(st) : ~Ends(st[i])
    BY DEF Quiet, Ends
<1>2. Single(st) /\ \A d : ~Closing(st, d)
    BY <1>1 DEF Single, Closing
<1>3. ASSUME NEW i \in 1 .. Len(st)
      PROVE  ~Inside(st, i)
    <2>1. \A j \in i + 1 .. Len(st) : j \in 1 .. Len(st)
        OBVIOUS
    <2> QED
        BY <1>1, <2>1 DEF Inside
<1>4. \A i \in 1 .. Len(st) : Placed(ds, st, i)
    BY <1>1, <1>3 DEF Placed, Quiet
<1> QED
    BY <1>2, <1>4 DEF Ended, Counted

\* The stacks with which commands and the main loop begin.
LEMMA QuietOnes ==
    ASSUME NEW ds, Polite(ds), NEW d
    PROVE  /\ Ended(ds, <<>>)
           /\ \A n : Ended(ds, <<Write(d, n)>>)
           /\ ds[d].out = 0 \/ ds[d].snoop_by = {} => Ended(ds, <<Close(d)>>)
           /\ ds[d].snoop_by = {} => \A n : Ended(ds, <<Write(d, n), Close(d)>>)
           /\ Ended(ds, <<Call("flush_output", d)>>)
           /\ \A n : Ended(ds, <<Write(d, n), Call("flush_output", d)>>)
<1> DEFINE f == Call("flush_output", d)
           k == Close(d)
<1>0. f.call = "flush_output" /\ k.call = "close" /\ k.d = d /\ \A n : Write(d, n).call = "write"
    BY DEF Call, Close, Write
<1> HIDE DEF f, k
<1>1. Ended(ds, <<>>)
    BY Seq0, QuietEnded
<1>2. ASSUME NEW a, a.call \in {"write", "flush_output"}
      PROVE  Ended(ds, <<a>>)
    BY <1>2, Seq1, QuietEnded DEF Quiet
<1>3. ASSUME ds[d].out = 0 \/ ds[d].snoop_by = {}
      PROVE  Ended(ds, <<k>>)
    <2> DEFINE s == <<k>>
    <2>1. Len(s) = 1 /\ s[1] = k
        BY Seq1
    <2> HIDE DEF s
    <2>2. Quiet(ds, s, 1)
        BY <1>0, <1>3, <2>1 DEF Quiet, Readied
    <2>3. Len(s) \in Nat /\ \A i \in 1 .. Len(s) : Quiet(ds, s, i)
        BY <2>1, <2>2
    <2>4. Ended(ds, s)
        BY <2>3, QuietEnded
    <2> QED
        BY <2>4 DEF s
<1>4. ASSUME ds[d].snoop_by = {}, NEW n
      PROVE  Ended(ds, <<Write(d, n), k>>)
    <2> DEFINE a == Write(d, n)
               s == <<a, k>>
    <2>0. a.call = "write"
        BY <1>0
    <2> HIDE DEF a
    <2>1. Len(s) = 2 /\ s[1] = a /\ s[2] = k
        BY Seq2
    <2> HIDE DEF s
    <2>2. Quiet(ds, s, 1) /\ Quiet(ds, s, 2)
        BY <1>0, <1>4, <2>0, <2>1 DEF Quiet, Readied
    <2>3. Len(s) \in Nat /\ \A i \in 1 .. Len(s) : Quiet(ds, s, i)
        BY <2>1, <2>2
    <2>4. Ended(ds, s)
        BY <2>3, QuietEnded
    <2> QED
        BY <2>4 DEF s, a
<1>5. ASSUME NEW n
      PROVE  Ended(ds, <<Write(d, n), f>>)
    <2> DEFINE a == Write(d, n)
               s == <<a, f>>
    <2>0. a.call = "write"
        BY <1>0
    <2> HIDE DEF a
    <2>1. Len(s) = 2 /\ s[1] = a /\ s[2] = f
        BY Seq2
    <2> HIDE DEF s
    <2>2. Len(s) \in Nat /\ \A i \in 1 .. Len(s) : Quiet(ds, s, i)
        BY <1>0, <2>0, <2>1 DEF Quiet
    <2>3. Ended(ds, s)
        BY <2>2, QuietEnded
    <2> QED
        BY <2>3 DEF s, a
<1>6. Ended(ds, <<f>>) /\ \A n : Ended(ds, <<Write(d, n)>>)
    BY <1>0, <1>2
<1> QED
    BY <1>1, <1>3, <1>4, <1>5, <1>6 DEF f, k

LEMMA SnoopCivil ==
    ASSUME Links(desc), NEW d \in Terms, NEW v \in Terms, Playing(v), desc' = WithEdge(desc, d, v)
    PROVE  Civil(desc, desc')
<1> DEFINE a == [desc[d] EXCEPT !.snooping = @ \cup {v}]
           fs == [desc EXCEPT ![d] = a]
           b == [fs[v] EXCEPT !.snoop_by = @ \cup {d}]
<1>1. desc = [x \in Terms |-> desc[x]] /\ \A x \in Terms : IsDesc(desc[x])
    BY DEF Links
<1>2. desc' = [fs EXCEPT ![v] = b]
    BY DEF WithEdge
<1>3. /\ IsDesc(a) /\ a.state = desc[d].state /\ a.goodbyes = desc[d].goodbyes
      /\ a.snoop_by = desc[d].snoop_by
    BY <1>1 DEF IsDesc, Fields
<1> HIDE DEF a
<1>4. fs[d] = a /\ (\A x \in Terms \ {d} : fs[x] = desc[x]) /\ fs = [x \in Terms |-> fs[x]]
    BY <1>1
<1> HIDE DEF fs
<1>5. /\ IsDesc(fs[v])
      /\ \A x \in Terms : /\ fs[x].state = desc[x].state /\ fs[x].goodbyes = desc[x].goodbyes
                          /\ fs[x].snoop_by = desc[x].snoop_by
    BY <1>1, <1>3, <1>4
<1>6. b.state = fs[v].state /\ b.goodbyes = fs[v].goodbyes
    BY <1>5 DEF IsDesc, Fields
<1> HIDE DEF b
<1>7. desc'[v] = b /\ \A x \in Terms \ {v} : desc'[x] = fs[x]
    BY <1>2, <1>4
<1>8. \A x \in Terms : /\ desc'[x].state = desc[x].state /\ desc'[x].goodbyes = desc[x].goodbyes
                       /\ x # v => desc'[x].snoop_by = desc[x].snoop_by
    BY <1>5, <1>6, <1>7
<1>9. desc'[v].state = "playing"
    BY <1>8 DEF Playing
<1> QED
    BY <1>8, <1>9 DEF Civil, Shut

\* What commands do to descriptors.
LEMMA CommandCivil ==
    ASSUME LinksInv, stack # <<>>, Head(stack).call = "do_fun", do_fun(Head(stack))
    PROVE  Civil(desc, desc')
<1> DEFINE c == Head(stack)
<1>1. c.d \in Terms /\ Links(desc) /\ \A x \in Terms : IsDesc(desc[x])
    BY Innermost DEF Frame, LinksInv, Links
<1>2. ASSUME NEW v \in Terms, NEW n, \/ desc' = [desc EXCEPT ![v].trust = n]
                                     \/ desc' = [desc EXCEPT ![v].pages = n]
      PROVE  Civil(desc, desc')
    <2>1. CASE desc' = [desc EXCEPT ![v].trust = n]
        <3> DEFINE r == [desc[v] EXCEPT !.trust = n]
        <3>1. r.state = desc[v].state /\ r.goodbyes = desc[v].goodbyes /\ r.snoop_by = desc[v].snoop_by
            BY <1>1 DEF IsDesc, Fields
        <3>2. desc' = [desc EXCEPT ![v] = r]
            BY <2>1
        <3> HIDE DEF r
        <3> QED
            BY <1>1, <3>1, <3>2, RenewedCivil DEF Shut
    <2>2. CASE desc' = [desc EXCEPT ![v].pages = n]
        <3> DEFINE r == [desc[v] EXCEPT !.pages = n]
        <3>1. r.state = desc[v].state /\ r.goodbyes = desc[v].goodbyes /\ r.snoop_by = desc[v].snoop_by
            BY <1>1 DEF IsDesc, Fields
        <3>2. desc' = [desc EXCEPT ![v] = r]
            BY <2>2
        <3> HIDE DEF r
        <3> QED
            BY <1>1, <3>1, <3>2, RenewedCivil DEF Shut
    <2> QED
        BY <1>2, <2>1, <2>2
<1>3. CASE desc' = desc
    BY <1>3, SameCivil
<1>4. CASE page_to(c.d)
    BY <1>1, <1>2, <1>3, <1>4 DEF page_to
<1>5. CASE do_quit(c.d)
    BY <1>3, <1>5 DEF do_quit
<1>6. CASE do_snoop(c.d, c.line[2]) /\ desc' # desc
    <2> DEFINE v == c.line[2]
    <2>1. v \in Terms /\ Playing(v) /\ desc' = try_start_snooping(c.d, v)
        BY <1>6, SMTT(40) DEF do_snoop
    <2>2. desc' = WithEdge(desc, c.d, v)
        BY <1>6, <2>1, SMTT(40) DEF try_start_snooping, WithEdge
    <2> HIDE DEF v, c
    <2> QED
        BY <1>1, <2>1, <2>2, SnoopCivil
<1>7. CASE do_trust(c.d, c.line[2])
    <2>1. PICK n : desc' = IF c.line[2] \in Terms /\ Playing(c.line[2]) /\ desc[c.line[2]].person
                           THEN [desc EXCEPT ![c.line[2]].trust = IF n = 0 THEN scene.level[c.line[2]] ELSE n]
                           ELSE desc
        BY <1>7 DEF do_trust
    <2> QED
        BY <1>2, <1>3, <2>1
<1> QED
    BY <1>3, <1>4, <1>5, <1>6, <1>7 DEF do_fun

\* A command is the only call there is.
LEMMA CommandStack ==
    ASSUME LinksInv, stack # <<>>, Head(stack).call = "do_fun", NEW t, IsSeq(t), Makes(t)
    PROVE  stack' = t
<1>1. Len(stack) = 1
    BY Innermost DEF Frame
<1>2. PICK S, T : stack \in Seq(S) /\ t \in Seq(T)
    BY DEF LinksInv, Frames, IsSeq
<1>3. Tail(stack) \in Seq(S) /\ Len(Tail(stack)) = 0
    BY <1>1, <1>2
<1>4. Tail(stack) = <<>>
    BY <1>3, EmptySeq
<1>5. t \o <<>> = t
    BY <1>2, ConcatEmptySeq
<1> QED
    BY <1>4, <1>5 DEF Makes

LEMMA CommandEnds ==
    ASSUME LinksInv, Polite(desc), stack # <<>>, Head(stack).call = "do_fun", do_fun(Head(stack))
    PROVE  Ended(desc', stack')
<1> DEFINE d == Head(stack).d
<1>1. Polite(desc')
    BY CommandCivil, CivilPolite
\* Quiet calls in any number.
<1>2. ASSUME NEW t, IsSeq(t), Len(t) \in Nat, Makes(t), \A i \in 1 .. Len(t) : Quiet(desc', t, i)
      PROVE  Ended(desc', stack')
    <2>1. stack' = t
        BY <1>2, CommandStack
    <2>2. Ended(desc', t)
        BY <1>1, <1>2, QuietEnded
    <2> QED
        BY <2>1, <2>2
<1>3. ASSUME NEW a, a.call \in {"write", "tell"}, Makes(<<a>>)
      PROVE  Ended(desc', stack')
    <2> DEFINE t == <<a>>
    <2>1. IsSeq(t) /\ Len(t) = 1 /\ t[1] = a /\ Makes(t)
        BY <1>3, Seq1
    <2> HIDE DEF t
    <2>2. Len(t) \in Nat /\ \A i \in 1 .. Len(t) : Quiet(desc', t, i)
        BY <1>3, <2>1 DEF Quiet
    <2> QED
        BY <1>2, <2>1, <2>2
<1>4. CASE Makes(<<>>)
    <2> DEFINE t == <<>>
    <2>1. IsSeq(t) /\ Len(t) = 0 /\ Makes(t)
        BY <1>4, Seq0
    <2> HIDE DEF t
    <2>2. Len(t) \in Nat /\ \A i \in 1 .. Len(t) : Quiet(desc', t, i)
        BY <2>1
    <2> QED
        BY <1>2, <2>1, <2>2
<1>5. CASE Makes(<<Tell(Everybody, 1)>>)
    BY <1>3, <1>5 DEF Tell
<1>6. CASE page_to(d)
    BY <1>3, <1>4, <1>6 DEF page_to, Write
<1>7. CASE do_quit(d)
    <2> DEFINE w == Write(d, 1)
               x == Tell(Everybody \ {d}, 1)
               y == Call("extract_char", d)
               z == Close(d)
               t == <<w, x, y, z>>
    <2>1. /\ w.call = "write" /\ x.call = "tell" /\ y.call = "extract_char" /\ y.d = d
          /\ z.call = "close" /\ z.d = d
        BY DEF Write, Tell, Call, Close
    <2>2. Makes(t)
        BY <1>7 DEF do_quit
    <2> HIDE DEF w, x, y, z
    <2>3. IsSeq(t) /\ Len(t) = 4 /\ t[1] = w /\ t[2] = x /\ t[3] = y /\ t[4] = z
        BY Seq4
    <2> HIDE DEF t
    <2>4. Quiet(desc', t, 1) /\ Quiet(desc', t, 2) /\ Quiet(desc', t, 3)
        BY <2>1, <2>3 DEF Quiet
    <2>5. Readied(desc', t, 4)
        BY <2>1, <2>3 DEF Readied
    <2>6. Quiet(desc', t, 4)
        BY <2>1, <2>3, <2>5 DEF Quiet
    <2>7. \A i \in 1 .. Len(t) : i = 1 \/ i = 2 \/ i = 3 \/ i = 4
        BY <2>3
    <2>8. Len(t) \in Nat /\ \A i \in 1 .. Len(t) : Quiet(desc', t, i)
        BY <2>3, <2>4, <2>6, <2>7
    <2> QED
        BY <1>2, <2>2, <2>3, <2>8
<1>8. ASSUME NEW v, do_snoop(d, v)
      PROVE  Ended(desc', stack')
    <2> DEFINE a == Write(d, 1)
               b == Call("stop_snooping", d)
    <2>1. a.call = "write" /\ b.call = "stop_snooping"
        BY DEF Write, Call
    <2>2. Makes(<<a>> \o <<b>>) \/ Makes(<<a>> \o <<>>)
        BY <1>8 DEF do_snoop
    <2> HIDE DEF a, b
    <2>3. <<a>> \o <<>> = <<a>> /\ <<a>> \o <<b>> = <<a, b>>
        <3>1. <<a>> \in Seq({a})
            OBVIOUS
        <3> QED
            BY <3>1, ConcatEmptySeq, Joined
    <2>4. CASE Makes(<<a>>)
        BY <1>3, <2>1, <2>4
    <2>5. CASE Makes(<<a, b>>)
        <3> DEFINE t == <<a, b>>
        <3>1. IsSeq(t) /\ Len(t) = 2 /\ t[1] = a /\ t[2] = b /\ Makes(t)
            BY <2>5, Seq2
        <3> HIDE DEF t
        <3>2. Quiet(desc', t, 1) /\ Quiet(desc', t, 2)
            BY <2>1, <3>1 DEF Quiet
        <3>3. Len(t) \in Nat /\ \A i \in 1 .. Len(t) : Quiet(desc', t, i)
            BY <3>1, <3>2
        <3> QED
            BY <1>2, <3>1, <3>3
    <2> QED
        BY <2>2, <2>3, <2>4, <2>5
<1>9. ASSUME NEW v, do_trust(d, v)
      PROVE  Ended(desc', stack')
    BY <1>4, <1>9 DEF do_trust
<1> QED
    BY <1>5, <1>6, <1>7, <1>8, <1>9 DEF do_fun

LEMMA CallEnds ==
    ASSUME LoopInv, Margin, link = "up", Ended(desc, stack), Calls
    PROVE  Ended(desc', stack')
<1> DEFINE c == Head(stack)
<1>1. stack # <<>>
    BY DEF Calls
<1>2. CASE c.call = "write" /\ write(c)
    BY <1>1, <1>2, WriteEnds
<1>3. CASE c.call = "tell" /\ tell(c)
    BY <1>1, <1>3, TellEnds
<1>4. CASE c.call = "each" /\ each(c)
    BY <1>1, <1>4, EachEnds
<1>5. CASE c.call = "flush_output" /\ flush_output(c)
    BY <1>1, <1>5, FlushEnds
<1>6. CASE c.call = "write_direct" /\ write_direct(c)
    BY <1>1, <1>6, WriteDirectEnds
<1>7. CASE c.call = "close" /\ close(c)
    BY <1>1, <1>7, CloseEnds
<1>8. CASE c.call = "part" /\ part(c)
    BY <1>1, <1>8, PartEnds
<1>9. CASE c.call = "stop_snooping" /\ stop_snooping(c)
    BY <1>1, <1>9, StopSnoopingEnds
<1>10. CASE c.call = "leave" /\ leave(c)
    BY <1>1, <1>10, LeaveEnds
<1>11. CASE c.call = "closed" /\ closed(c)
    BY <1>1, <1>11, ClosedEnds
<1>12. CASE c.call = "extract_char" /\ extract_char(c)
    BY <1>1, <1>12, ExtractEnds
<1>13. CASE c.call = "do_fun" /\ do_fun(c)
    BY <1>1, <1>13, CommandEnds DEF LoopInv, Ended
<1>14. CASE c.call = "forget" /\ forget(c)
    BY <1>1, <1>14, ForgetEnds
<1> QED
    BY <1>2, <1>3, <1>4, <1>5, <1>6, <1>7, <1>8, <1>9, <1>10, <1>11, <1>12, <1>13, <1>14 DEF Calls

\* Without a link doorman is told nothing.
LEMMA CallTellsNothing ==
    ASSUME LoopInv, link # "up", Calls
    PROVE  \A e \in Terms : desc'[e].goodbyes = desc[e].goodbyes
<1> DEFINE c == Head(stack)
           Nothing == \A e \in Terms : desc'[e].goodbyes = desc[e].goodbyes
<1>1. stack # <<>> /\ Links(desc) /\ LinksInv /\ Frame(desc, stack, 1) /\ c = stack[1]
    BY Innermost DEF Calls, LoopInv, LinksInv
<1>2. CASE desc' = desc
    BY <1>2
<1>3. ASSUME Fades(desc, desc')
      PROVE  Nothing
    BY <1>3 DEF Fades
<1>4. CASE c.call = "write" /\ write(c)
    <2>1. c.d \in Terms
        BY <1>1, <1>4 DEF Frame
    <2>2. desc' = desc \/ \E v : desc' = [desc EXCEPT ![c.d].out = v]
        BY <1>4 DEF write
    <2> HIDE DEF c
    <2> QED
        BY <1>1, <1>2, <1>3, <2>1, <2>2, OutFades
<1>5. CASE c.call = "write_direct" /\ write_direct(c)
    <2>1. c.d \in Terms
        BY <1>1, <1>5 DEF Frame
    <2>2. desc' = [desc EXCEPT ![c.d].out = 0]
        BY <1>5 DEF write_direct
    <2> HIDE DEF c
    <2> QED
        BY <1>1, <1>3, <2>1, <2>2, OutFades
<1>6. CASE c.call = "closed" /\ closed(c)
    <2>1. c.d \in Terms
        BY <1>1, <1>6 DEF Frame
    <2>2. desc'[c.d].goodbyes = desc[c.d].goodbyes /\ \A e \in Terms \ {c.d} : desc'[e] = desc[e]
        BY <1>1, <1>6, <2>1, ClosedWrites
    <2> HIDE DEF c
    <2> QED
        BY <2>2
<1>7. CASE c.call = "extract_char" /\ extract_char(c)
    <2>1. c.d \in Terms
        BY <1>1, <1>7 DEF Frame
    <2>2. desc' = [desc EXCEPT ![c.d].person = FALSE]
        BY <1>7 DEF extract_char
    <2> HIDE DEF c
    <2> QED
        BY <1>1, <1>3, <2>1, <2>2, PersonFades
<1>8. CASE c.call = "forget" /\ forget(c)
    <2>1. c.d \in Terms /\ c.whom \in Terms
        BY <1>1, <1>8 DEF Frame
    <2>2. desc' = Forgotten(desc, c.d, c.whom)
        BY <1>8 DEF forget
    <2> HIDE DEF c
    <2> QED
        BY <1>1, <1>3, <2>1, <2>2, ForgottenFades
<1>9. CASE c.call = "do_fun" /\ do_fun(c)
    <2>1. Civil(desc, desc')
        BY <1>1, <1>9, CommandCivil, SMTT(40)
    <2> QED
        BY <2>1 DEF Civil
<1>10. CASE \/ tell(c) \/ each(c) \/ flush_output(c) \/ close(c) \/ part(c) \/ leave(c)
    BY <1>2, <1>10 DEF tell, each, flush_output, close, part, leave
<1>11. CASE stop_snooping(c)
    BY <1>2, <1>11 DEF stop_snooping
<1> QED
    BY <1>4, <1>5, <1>6, <1>7, <1>8, <1>9, <1>10, <1>11 DEF Calls

\* What the main loop does, with no call going on, is civil, and calls that it makes are quiet.
Loops(d) == Civil(desc, desc') /\ (Polite(desc) => Ended(desc', stack'))

LEMMA DisconnectedEnds ==
    ASSUME LinksInv, Idle, NEW d \in Terms, Disconnected(d)
    PROVE  Loops(d)
<1>1. stack = <<>> /\ Links(desc) /\ IsDesc(desc[d]) /\ desc = [x \in Terms |-> desc[x]]
    BY DEF Idle, LinksInv, Links
<1>2. CASE Is_closed(d)
    <2>1. desc' = desc /\ stack' = <<>>
        BY <1>1, <1>2 DEF Disconnected
    <2> QED
        BY <2>1, SameCivil, QuietOnes DEF Loops
<1>3. CASE ~Is_closed(d)
    <2> DEFINE w == IF Playing(d) THEN "disconnecting" ELSE "disconnecting_np"
               r == [desc[d] EXCEPT !.out = 0, !.state = w]
    <2>1. desc' = [desc EXCEPT ![d] = r] /\ stack' = <<Close(d)>>
        BY <1>3 DEF Disconnected
    <2>2. w \notin {"lobby", "password"}
        OBVIOUS
    <2> HIDE DEF w
    <2>3. r.state = w /\ r.out = 0 /\ r.goodbyes = desc[d].goodbyes /\ r.snoop_by = desc[d].snoop_by
        BY <1>1 DEF IsDesc, Fields
    <2> HIDE DEF r
    <2>4. ~Shut(desc, d)
        BY <1>3 DEF Is_closed, Shut
    <2>5. Civil(desc, desc')
        BY <1>1, <2>1, <2>2, <2>3, <2>4, RenewedCivil
    <2>6. desc'[d].out = 0
        BY <1>1, <2>1, <2>3
    <2>7. Polite(desc) => Ended(desc', stack')
        BY <2>1, <2>5, <2>6, CivilPolite, QuietOnes
    <2> QED
        BY <2>5, <2>7 DEF Loops
<1> QED
    BY <1>2, <1>3

LEMMA ReadEnds ==
    ASSUME LinksInv, NEW d \in Terms, Read(d)
    PROVE  Loops(d)
<1>1. Idle /\ stack = <<>> /\ on_data(d) /\ Links(desc) /\ IsDesc(desc[d])
    BY DEF Read, Idle, LinksInv, Links
<1>2. CASE Disconnected(d)
    BY <1>1, <1>2, DisconnectedEnds
<1>3. CASE UNCHANGED desc /\ UNCHANGED stack
    BY <1>1, <1>3, SameCivil, QuietOnes DEF Loops
<1>4. ASSUME NEW lines, desc' = [desc EXCEPT ![d] = Queued(@, lines)], UNCHANGED stack
      PROVE  Loops(d)
    <2> DEFINE r == Queued(desc[d], lines)
    <2>1. PICK b, w : r = [desc[d] EXCEPT !.backlog = b, !.warned = w]
        BY DEF Queued
    <2>2. desc' = [desc EXCEPT ![d] = r]
        BY <1>4
    <2> HIDE DEF r
    <2>3. r.state = desc[d].state /\ r.goodbyes = desc[d].goodbyes /\ r.snoop_by = desc[d].snoop_by
        BY <1>1, <2>1 DEF IsDesc, Fields
    <2>4. Civil(desc, desc')
        BY <1>1, <2>2, <2>3, RenewedCivil DEF Shut
    <2> QED
        BY <1>1, <1>4, <2>4, CivilPolite, QuietOnes DEF Loops
<1> QED
    BY <1>1, <1>2, <1>3, <1>4 DEF on_data

LEMMA OutputEnds ==
    ASSUME LinksInv, NEW d \in Terms, Output(d)
    PROVE  Loops(d)
<1> DEFINE a == Write(d, 1)
           b == Call("flush_output", d)
<1>1. stack = <<>> /\ desc' = desc
    BY DEF Output, Idle
<1>2. <<>> \o <<b>> = <<b>> /\ <<a>> \o <<b>> = <<a, b>>
    BY Joined
<1>3. stack' = <<>> \/ stack' = <<b>> \/ stack' = <<a, b>>
    BY <1>1, <1>2 DEF Output, process_output
<1>4. Polite(desc) => Ended(desc, <<>>) /\ Ended(desc, <<b>>) /\ Ended(desc, <<a, b>>)
    BY QuietOnes
<1> HIDE DEF a, b
<1> QED
    BY <1>1, <1>3, <1>4, SameCivil DEF Loops

LEMMA InterpretEnds ==
    ASSUME NEW d \in Terms, NEW line, Polite(desc'), interpret(d, line)
    PROVE  Ended(desc', stack')
<1>1. CASE stack' = <<>>
    BY <1>1, QuietOnes
<1>2. CASE stack' = <<Write(d, 1)>>
    BY <1>2, QuietOnes
<1>3. CASE stack' = <<ToSnoopers(d, 1), [call |-> "do_fun", d |-> d, line |-> line]>>
    <2> DEFINE a == ToSnoopers(d, 1)
               b == [call |-> "do_fun", d |-> d, line |-> line]
               t == <<a, b>>
    <2>1. a.call = "each" /\ b.call = "do_fun"
        BY DEF ToSnoopers
    <2>2. stack' = t
        BY <1>3
    <2> HIDE DEF a, b
    <2>3. Len(t) = 2 /\ t[1] = a /\ t[2] = b
        BY Seq2
    <2> HIDE DEF t
    <2>4. Len(t) \in Nat /\ \A i \in 1 .. Len(t) : Quiet(desc', t, i)
        BY <2>1, <2>3 DEF Quiet
    <2>5. Ended(desc', t)
        BY <2>4, QuietEnded
    <2> QED
        BY <2>2, <2>5
<1> QED
    BY <1>1, <1>2, <1>3 DEF interpret

\* Nobody snoops on the lobby, so nobody is shown its last words.
LEMMA NannyEnds ==
    ASSUME LinksInv, stack = <<>>, NEW d \in Terms, NEW q, NEW line, IsDesc(q), q.state = desc[d].state,
           q.goodbyes = desc[d].goodbyes, q.snoop_by = desc[d].snoop_by, nanny(d, q, line)
    PROVE  Loops(d)
<1>1. Links(desc) /\ desc = [x \in Terms |-> desc[x]]
    BY DEF LinksInv, Links
<1>2. ASSUME NEW r, r.goodbyes = q.goodbyes, r.snoop_by = q.snoop_by, desc' = [desc EXCEPT ![d] = r],
             \/ r.state = q.state
             \/ q.state = "lobby" /\ r.state = "password"
             \/ q.state = "password" /\ r.state = "playing"
      PROVE  Civil(desc, desc') /\ desc'[d] = r
    BY <1>1, <1>2, RenewedCivil DEF Shut
<1>3. CASE desc' = [desc EXCEPT ![d] = q] /\ q.state \in {"lobby", "password"}
           /\ (stack' = <<Close(d)>> \/ stack' = <<Write(d, 1), Close(d)>>)
    <2>1. Civil(desc, desc') /\ desc'[d] = q
        BY <1>2, <1>3
    <2>2. Polite(desc) => q.snoop_by = {}
        BY <1>3 DEF Polite
    <2>3. Polite(desc) => Ended(desc', <<Close(d)>>) /\ Ended(desc', <<Write(d, 1), Close(d)>>)
        BY <2>1, <2>2, CivilPolite, QuietOnes
    <2> QED
        BY <1>3, <2>1, <2>3 DEF Loops
<1>4. ASSUME Civil(desc, desc'), stack' = <<Write(d, 1)>> \/ stack' = <<>>
      PROVE  Loops(d)
    BY <1>4, CivilPolite, QuietOnes DEF Loops
<1>5. CASE /\ q.state = "lobby" /\ desc' = [desc EXCEPT ![d] = [q EXCEPT !.state = "password", !.person = TRUE]]
           /\ stack' = <<Write(d, 1)>>
    <2> DEFINE r == [q EXCEPT !.state = "password", !.person = TRUE]
    <2>1. r.state = "password" /\ r.goodbyes = q.goodbyes /\ r.snoop_by = q.snoop_by
        BY DEF IsDesc, Fields
    <2>2. desc' = [desc EXCEPT ![d] = r]
        BY <1>5
    <2> HIDE DEF r
    <2> QED
        BY <1>2, <1>4, <1>5, <2>1, <2>2
<1>6. CASE /\ q.state = "password" /\ desc' = [desc EXCEPT ![d] = [q EXCEPT !.state = "playing"]]
           /\ stack' = <<Write(d, 1)>>
    <2> DEFINE r == [q EXCEPT !.state = "playing"]
    <2>1. r.state = "playing" /\ r.goodbyes = q.goodbyes /\ r.snoop_by = q.snoop_by
        BY DEF IsDesc, Fields
    <2>2. desc' = [desc EXCEPT ![d] = r]
        BY <1>6
    <2> HIDE DEF r
    <2> QED
        BY <1>2, <1>4, <1>6, <2>1, <2>2
<1>7. CASE desc' = [desc EXCEPT ![d] = q] /\ stack' = <<>>
    BY <1>2, <1>4, <1>7
<1> QED
    BY <1>3, <1>5, <1>6, <1>7 DEF nanny

LEMMA LineSays ==
    ASSUME NEW q0, IsDesc(q0), NEW line
    PROVE  pop_incomm(q0).goodbyes = q0.goodbyes
           /\ show_next_page(pop_incomm(q0), line).goodbyes = q0.goodbyes
<1> DEFINE q == pop_incomm(q0)
           p == show_next_page(q, line)
<1>1. PICK b, u, l : q = [q0 EXCEPT !.backlog = b, !.busy = u, !.last = l]
    BY DEF pop_incomm
<1> HIDE DEF q
<1>2. IsDesc(q) /\ q.goodbyes = q0.goodbyes
    BY <1>1 DEF IsDesc, Fields
<1>3. PICK n : p = [q EXCEPT !.pages = n]
    BY DEF show_next_page
<1> HIDE DEF p
<1>4. p.goodbyes = q.goodbyes
    BY <1>2, <1>3 DEF IsDesc, Fields
<1> QED
    BY <1>2, <1>4 DEF q, p

LEMMA TakeLineEnds ==
    ASSUME LinksInv, stack = <<>>, NEW d \in Terms, TakeLine(d)
    PROVE  Loops(d)
<1> DEFINE q == pop_incomm(desc[d])
           line == q.last
           p == show_next_page(q, line)
<1>1. Links(desc) /\ IsDesc(desc[d])
    BY DEF LinksInv, Links
<1>2. /\ IsDesc(q) /\ q.state = desc[d].state /\ q.goodbyes = desc[d].goodbyes /\ q.snoop_by = desc[d].snoop_by
      /\ p.state = desc[d].state /\ p.goodbyes = desc[d].goodbyes /\ p.snoop_by = desc[d].snoop_by
    BY <1>1, LineRewrites, LineSays
<1>3. \/ desc' = [desc EXCEPT ![d] = q] /\ stack' = <<>>
      \/ desc' = [desc EXCEPT ![d] = p] /\ (stack' = <<>> \/ stack' = <<Write(d, 1)>>)
      \/ desc' = [desc EXCEPT ![d] = q] /\ interpret(d, line)
      \/ nanny(d, q, line)
    BY DEF TakeLine
<1> HIDE DEF q, p, line
<1>4. CASE nanny(d, q, line)
    BY <1>2, <1>4, NannyEnds
<1>5. ASSUME NEW r \in {p, q}, desc' = [desc EXCEPT ![d] = r]
      PROVE  Civil(desc, desc') /\ (Polite(desc) => Polite(desc'))
    <2>1. r.state = desc[d].state /\ r.goodbyes = desc[d].goodbyes /\ r.snoop_by = desc[d].snoop_by
        BY <1>2
    <2>2. Civil(desc, desc')
        BY <1>1, <1>5, <2>1, RenewedCivil DEF Shut
    <2> QED
        BY <2>2, CivilPolite
<1>6. CASE desc' = [desc EXCEPT ![d] = q] /\ interpret(d, line)
    <2>1. Civil(desc, desc') /\ (Polite(desc) => Polite(desc'))
        BY <1>5, <1>6
    <2> QED
        BY <1>6, <2>1, InterpretEnds DEF Loops
<1>7. CASE \/ desc' = [desc EXCEPT ![d] = q] /\ stack' = <<>>
           \/ desc' = [desc EXCEPT ![d] = p] /\ (stack' = <<>> \/ stack' = <<Write(d, 1)>>)
    <2>1. Civil(desc, desc') /\ (Polite(desc) => Polite(desc'))
        BY <1>5, <1>7
    <2>2. Polite(desc) => Ended(desc', <<>>) /\ Ended(desc', <<Write(d, 1)>>)
        BY <2>1, QuietOnes
    <2> QED
        BY <1>7, <2>1, <2>2 DEF Loops
<1> QED
    BY <1>3, <1>4, <1>6, <1>7

LEMMA NoLineEnds ==
    ASSUME LinksInv, stack = <<>>, NEW d \in Terms, NoLine(d)
    PROVE  Loops(d)
<1> DEFINE r == [desc[d] EXCEPT !.busy = FALSE]
<1>1. Links(desc) /\ IsDesc(desc[d]) /\ desc = [x \in Terms |-> desc[x]]
    BY DEF LinksInv, Links
<1>2. r.state = desc[d].state /\ r.goodbyes = desc[d].goodbyes /\ r.snoop_by = desc[d].snoop_by
    BY <1>1 DEF IsDesc, Fields
<1>3. /\ desc' = [desc EXCEPT ![d] = r]
      /\ \/ stack' = <<>>
         \/ desc[d].state \in {"lobby", "password"} /\ stack' = <<Close(d)>>
    BY DEF NoLine
<1> HIDE DEF r
<1>4. Civil(desc, desc')
    BY <1>1, <1>2, <1>3, RenewedCivil DEF Shut
<1>5. desc'[d].snoop_by = desc[d].snoop_by
    BY <1>1, <1>2, <1>3
<1>6. ASSUME Polite(desc)
      PROVE  Ended(desc', stack')
    <2>1. Polite(desc')
        BY <1>4, <1>6, CivilPolite
    <2>2. desc[d].state \in {"lobby", "password"} => desc'[d].snoop_by = {}
        BY <1>5, <1>6 DEF Polite
    <2> QED
        BY <1>3, <2>1, <2>2, QuietOnes
<1> QED
    BY <1>4, <1>6 DEF Loops

\* What is deleted has been said goodbye to as often as before.
LEMMA ReapCivil ==
    ASSUME Links(desc), desc' = reap_closed
    PROVE  Civil(desc, desc')
<1> DEFINE New(d) == [NewDesc(d, scene) EXCEPT !.state = "reaped", !.person = FALSE,
                                               !.goodbyes = desc[d].goodbyes]
<1>1. ASSUME NEW d \in Terms
      PROVE  New(d).state = "reaped" /\ New(d).goodbyes = desc[d].goodbyes
    BY DEF NewDesc
<1>2. desc' = [d \in Terms |-> IF desc[d].state = "closed" THEN New(d) ELSE desc[d]]
    BY DEF reap_closed
<1> HIDE DEF New
<1>3. ASSUME NEW d \in Terms
      PROVE  /\ desc'[d].goodbyes = desc[d].goodbyes
             /\ Shut(desc, d) => Shut(desc', d)
             /\ desc'[d].state \in {"lobby", "password"} =>
                   desc[d].state \in {"lobby", "password"} /\ desc'[d].snoop_by \subseteq desc[d].snoop_by
    <2>1. CASE desc[d].state = "closed"
        BY <1>1, <1>2, <2>1 DEF Shut
    <2>2. CASE desc[d].state # "closed"
        <3>1. desc'[d] = desc[d]
            BY <1>2, <2>2
        <3> QED
            BY <3>1 DEF Shut
    <2> QED
        BY <2>1, <2>2
<1> QED
    BY <1>3 DEF Civil

LEMMA NextPhaseEnds ==
    ASSUME LinksInv, NextPhase
    PROVE  Civil(desc, desc') /\ (Polite(desc) => Ended(desc', stack'))
<1>1. stack' = <<>> /\ Links(desc)
    BY DEF NextPhase, Idle, LinksInv
<1>2. desc' = desc \/ desc' = reap_closed
    BY DEF NextPhase
<1>3. Civil(desc, desc')
    BY <1>1, <1>2, SameCivil, ReapCivil
<1> QED
    BY <1>1, <1>3, CivilPolite, QuietOnes

\* Every step of the main loop while the link is up.
LEMMA MainEnds ==
    ASSUME LinksInv, Next, ~Calls, link' = "up"
    PROVE  link = "up" /\ (Polite(desc) => Ended(desc', stack'))
<1>1. CASE NextPhase
    BY <1>1, NextPhaseEnds DEF NextPhase
<1>2. ASSUME NEW d \in Terms, Command(d)
      PROVE  link = "up" /\ (Polite(desc) => Ended(desc', stack'))
    <2>1. Loops(d)
        BY <1>2, TakeLineEnds, NoLineEnds DEF Command, Idle
    <2> QED
        BY <1>2, <2>1 DEF Loops, Command
<1>3. ASSUME NEW d \in Terms, Output(d)
      PROVE  link = "up" /\ (Polite(desc) => Ended(desc', stack'))
    BY <1>3, OutputEnds DEF Loops, Output
<1>4. ASSUME NEW d \in Terms, Read(d)
      PROVE  link = "up" /\ (Polite(desc) => Ended(desc', stack'))
    BY <1>4, ReadEnds DEF Loops, Read
<1>5. ASSUME NEW d \in Terms, ClientLeaves(d)
      PROVE  link = "up" /\ (Polite(desc) => Ended(desc', stack'))
    BY <1>5, DisconnectedEnds DEF Loops, ClientLeaves
<1>6. ~doorman_lost /\ ~LinkBreaks
    BY DEF doorman_lost, LinkBreaks
<1> QED
    BY <1>1, <1>2, <1>3, <1>4, <1>5, <1>6 DEF Next, MainLoop

LEMMA MainTellsNothing ==
    ASSUME LinksInv, Next, ~Calls
    PROVE  \A e \in Terms : desc'[e].goodbyes = desc[e].goodbyes
<1>1. ASSUME Civil(desc, desc')
      PROVE  \A e \in Terms : desc'[e].goodbyes = desc[e].goodbyes
    BY <1>1 DEF Civil
<1>2. CASE NextPhase
    BY <1>1, <1>2, NextPhaseEnds
<1>3. ASSUME NEW d \in Terms, Command(d)
      PROVE  Loops(d)
    BY <1>3, TakeLineEnds, NoLineEnds DEF Command, Idle
<1>4. ASSUME NEW d \in Terms, Output(d)
      PROVE  Loops(d)
    BY <1>4, OutputEnds
<1>5. ASSUME NEW d \in Terms, Read(d)
      PROVE  Loops(d)
    BY <1>5, ReadEnds
<1>6. ASSUME NEW d \in Terms, ClientLeaves(d)
      PROVE  Loops(d)
    BY <1>6, DisconnectedEnds DEF ClientLeaves
<1>7. CASE doorman_lost \/ LinkBreaks
    BY <1>7 DEF doorman_lost, LinkBreaks
<1> QED
    BY <1>1, <1>2, <1>3, <1>4, <1>5, <1>6, <1>7 DEF Next, MainLoop, Loops

LEMMA InitEnds ==
    ASSUME Init
    PROVE  EndInv
<1>1. LoopInv
    BY InitLinks DEF LoopInv
<1>2. desc = [d \in Terms |-> NewDesc(d, scene)] /\ stack = <<>>
    BY DEF Init
<1>3. \A d \in Terms : desc[d].goodbyes = 0 /\ desc[d].snoop_by = {}
    BY <1>2 DEF NewDesc
<1>4. Polite(desc)
    BY <1>3 DEF Polite
<1>5. Ended(desc, stack)
    BY <1>2, <1>4, QuietOnes
<1> QED
    BY <1>1, <1>3, <1>5 DEF EndInv

LEMMA NextEnds ==
    ASSUME Margin, EndInv, Next
    PROVE  EndInv'
<1>1. LoopInv /\ LinksInv /\ LoopInv'
    BY NextKeeps DEF EndInv, LoopInv
<1>2. CASE Calls /\ link = "up"
    <2>1. Ended(desc', stack')
        BY <1>1, <1>2, CallEnds DEF EndInv
    <2>2. \A d \in Terms : desc'[d].goodbyes \in {0, 1}
        BY <2>1 DEF Ended, Polite
    <2> QED
        BY <1>1, <2>1, <2>2 DEF EndInv
<1>3. CASE Calls /\ link # "up"
    <2>1. link' # "up"
        BY <1>3 DEF Calls, Keeps
    <2>2. \A d \in Terms : desc'[d].goodbyes \in {0, 1}
        BY <1>1, <1>3, CallTellsNothing DEF EndInv
    <2> QED
        BY <1>1, <2>1, <2>2 DEF EndInv
<1>4. CASE ~Calls
    <2>1. \A d \in Terms : desc'[d].goodbyes \in {0, 1}
        BY <1>1, <1>4, MainTellsNothing DEF EndInv
    <2>2. link' = "up" => Ended(desc', stack')
        <3> SUFFICES ASSUME link' = "up" PROVE Ended(desc', stack')
            OBVIOUS
        <3>1. link = "up" /\ (Polite(desc) => Ended(desc', stack'))
            BY <1>1, <1>4, MainEnds
        <3> QED
            BY <3>1 DEF EndInv, Ended
    <2> QED
        BY <1>1, <2>1, <2>2 DEF EndInv
<1> QED
    BY <1>2, <1>3, <1>4

\* Doorman is told of the end of a connection at most once while the buffers hold what all others
\* may say of somebody who leaves: a close() in the middle of a close() could only come of an
\* overflow, and a second one of a flush that is shown to snoopers (Descriptor::close, write).
THEOREM EndsOnce == ASSUME Margin PROVE Spec => []EndedOnce
<1>1. Init => EndInv
    BY InitEnds
<1>2. EndInv /\ [Next]_vars => EndInv'
    <2> SUFFICES ASSUME EndInv, [Next]_vars
                 PROVE  EndInv'
        OBVIOUS
    <2>1. CASE Next
        BY <2>1, NextEnds
    <2>2. CASE UNCHANGED vars
        <3>1. LoopInv'
            BY <2>2 DEF vars, EndInv, LoopInv, LinksInv, Links, Frames, Frame, LoopFree, Reached, IsSeq, IsDesc, Shut, Apart
        <3>2. UNCHANGED <<desc, stack, link>>
            BY <2>2 DEF vars
        <3>3. Ended(desc, stack) => Ended(desc', stack')
            BY <3>2
        <3> QED
            BY <3>1, <3>2, <3>3 DEF EndInv
    <2> QED
        BY <2>1, <2>2
<1>3. EndInv => EndedOnce
    <2> SUFFICES ASSUME EndInv, NEW d \in Terms
                 PROVE  desc[d].goodbyes <= 1
        BY DEF EndedOnce
    <2>1. desc[d].goodbyes \in {0, 1}
        BY DEF EndInv
    <2> QED
        BY <2>1
<1> QED
    BY <1>1, <1>2, <1>3, PTL DEF Spec

-----------------------------------------------------------------------------
(***************************************************************************)
(* What a client types, and what the parsers make of it.                   *)
(***************************************************************************)
\* What may stand in a line, and what is sent.
Textual == Bytes \ (Lines \cup {"IAC"})
Words == Bytes \cup {"info"}

Separators == Lines \cup {NoByte}

Tels == [buffer : Seq(Bytes), got_term : BOOLEAN, echo : BOOLEAN, ansi : BOOLEAN, prev : Separators]

Modes == {"text", "iac", "lost", "body", "SB", "WILL", "WONT", "DO", "DONT"}

Hearers == [t : Tels, mode : Modes, option : Bytes \cup {NoByte}, body : Seq(Bytes), prev : Separators,
            line : Seq(Textual), lines : Seq(Seq(Bytes)), sent : Seq(Words)]

\* They have answered alike until now.
Like(t, u) == t.got_term = u.got_term /\ t.echo = u.echo

LEMMA BytesAre ==
    /\ Lines \cup {"IAC", "SE", "AO", "SB", "WILL", "WONT", "DO", "DONT", "TTYPE", "SEND", "NAWS", "ECHO"} \subseteq Bytes
    /\ Bytes \subseteq Words /\ "info" \in Words
    /\ Textual \subseteq Bytes /\ Bytes \cap Marks = {} /\ Lines \subseteq Bytes
    /\ \A b \in Bytes : b \notin Lines /\ b # "IAC" => b \in Textual
    /\ \A S : <<>> \in Seq(S)
    BY BytesAssumption DEF Textual, Words, Controls

LEMMA TelIs ==
    ASSUME NEW t \in Tels, NEW on \in BOOLEAN
    PROVE  /\ [t EXCEPT !.got_term = on] \in Tels /\ [t EXCEPT !.got_term = on].got_term = on
           /\ [t EXCEPT !.got_term = on].echo = t.echo
           /\ [t EXCEPT !.echo = on] \in Tels /\ [t EXCEPT !.echo = on].echo = on
           /\ [t EXCEPT !.echo = on].got_term = t.got_term
           /\ [t EXCEPT !.ansi = on] \in Tels /\ Like([t EXCEPT !.ansi = on], t)
           /\ t.got_term \in BOOLEAN /\ t.echo \in BOOLEAN
    BY DEF Tels, Like

\* There are four answers.
LEMMA AnswerCases ==
    ASSUME NEW t, NEW command, NEW option
    PROVE  LET c == Answer(t, command, option) IN
           /\ command = "WILL" /\ option = "TTYPE" =>
                 c = Took(3, [t EXCEPT !.got_term = TRUE],
                          IF t.got_term THEN <<>> ELSE <<"IAC", "SB", "TTYPE", "SEND", "IAC", "SE">>)
           /\ command = "WILL" /\ option = "NAWS" => c = Took(3, t, <<>>)
           /\ command = "DO" /\ option = "ECHO" =>
                 c = Took(3, [t EXCEPT !.echo = FALSE], IF t.echo THEN <<"IAC", "WILL", "ECHO">> ELSE <<>>)
           /\ command = "DONT" /\ option = "ECHO" =>
                 c = Took(3, [t EXCEPT !.echo = TRUE], IF t.echo THEN <<>> ELSE <<"IAC", "WONT", "ECHO">>)
           /\ ~(command = "WILL" /\ option \in {"TTYPE", "NAWS"}) /\ ~(command \in {"DO", "DONT"} /\ option = "ECHO") =>
                 c = Took(3, t, <<"IAC", IF command \in {"WILL", "WONT"} THEN "DONT" ELSE "WONT", option>>)
    BY DEF Answer

LEMMA AnswerIs ==
    ASSUME NEW t \in Tels, NEW command, NEW option \in Words,
           NEW c, c = Answer(t, command, option)
    PROVE  c.n = 3 /\ ~c.threw /\ c.threw \in BOOLEAN /\ c.t \in Tels /\ c.sent \in Seq(Words)
<1>1. \A x, y \in Words : <<"IAC", x, y>> \in Seq(Words)
    BY BytesAre
<1>2. /\ <<"IAC", "SB", "TTYPE", "SEND", "IAC", "SE">> \in Seq(Words) /\ <<>> \in Seq(Words)
      /\ <<"IAC", "WILL", "ECHO">> \in Seq(Words) /\ <<"IAC", "WONT", "ECHO">> \in Seq(Words)
      /\ <<"IAC", "DONT", option>> \in Seq(Words) /\ <<"IAC", "WONT", option>> \in Seq(Words)
    BY BytesAre
<1>3. ASSUME NEW u \in Tels, NEW sent \in Seq(Words), c = Took(3, u, sent)
      PROVE  c.n = 3 /\ ~c.threw /\ c.threw \in BOOLEAN /\ c.t \in Tels /\ c.sent \in Seq(Words)
    BY <1>3 DEF Took
<1>4. [t EXCEPT !.got_term = TRUE] \in Tels /\ [t EXCEPT !.echo = TRUE] \in Tels /\ [t EXCEPT !.echo = FALSE] \in Tels
    BY DEF Tels
<1>5. CASE command = "WILL" /\ option = "TTYPE"
    <2> DEFINE sent == IF t.got_term THEN <<>> ELSE <<"IAC", "SB", "TTYPE", "SEND", "IAC", "SE">>
    <2>1. c = Took(3, [t EXCEPT !.got_term = TRUE], sent)
        BY <1>5, AnswerCases
    <2>2. sent \in Seq(Words)
        BY <1>2
    <2> HIDE DEF sent
    <2> QED
        BY <1>3, <1>4, <2>1, <2>2
<1>6. CASE command = "WILL" /\ option = "NAWS"
    <2>1. c = Took(3, t, <<>>)
        BY <1>6, AnswerCases
    <2> QED
        BY <1>2, <1>3, <2>1
<1>7. CASE command = "DO" /\ option = "ECHO"
    <2> DEFINE sent == IF t.echo THEN <<"IAC", "WILL", "ECHO">> ELSE <<>>
    <2>1. c = Took(3, [t EXCEPT !.echo = FALSE], sent)
        BY <1>7 DEF Answer
    <2>2. sent \in Seq(Words)
        BY <1>2
    <2> HIDE DEF sent
    <2> QED
        BY <1>3, <1>4, <2>1, <2>2
<1>8. CASE command = "DONT" /\ option = "ECHO"
    <2> DEFINE sent == IF t.echo THEN <<>> ELSE <<"IAC", "WONT", "ECHO">>
    <2>1. c = Took(3, [t EXCEPT !.echo = TRUE], sent)
        BY <1>8 DEF Answer
    <2>2. sent \in Seq(Words)
        BY <1>2
    <2> HIDE DEF sent
    <2> QED
        BY <1>3, <1>4, <2>1, <2>2
<1>9. CASE ~(command = "WILL" /\ option \in {"TTYPE", "NAWS"}) /\ ~(command \in {"DO", "DONT"} /\ option = "ECHO")
    <2> DEFINE sent == <<"IAC", IF command \in {"WILL", "WONT"} THEN "DONT" ELSE "WONT", option>>
    <2>1. c = Took(3, t, sent)
        BY <1>9 DEF Answer
    <2>2. sent \in Seq(Words)
        <3>1. CASE command \in {"WILL", "WONT"}
            BY <1>2, <3>1
        <3>2. CASE command \notin {"WILL", "WONT"}
            BY <1>2, <3>2
        <3> QED
            BY <3>1, <3>2
    <2> HIDE DEF sent
    <2> QED
        BY <1>3, <2>1, <2>2
<1> QED
    BY <1>5, <1>6, <1>7, <1>8, <1>9

LEMMA AnswersAlike ==
    ASSUME NEW t \in Tels, NEW u \in Tels, Like(t, u), NEW command, NEW option,
           NEW c, c = Answer(t, command, option), NEW e, e = Answer(u, command, option)
    PROVE  c.sent = e.sent /\ Like(c.t, e.t)
<1>1. t.got_term = u.got_term /\ t.echo = u.echo
    BY DEF Like
<1>2. /\ Like([t EXCEPT !.got_term = TRUE], [u EXCEPT !.got_term = TRUE])
      /\ Like([t EXCEPT !.echo = TRUE], [u EXCEPT !.echo = TRUE])
      /\ Like([t EXCEPT !.echo = FALSE], [u EXCEPT !.echo = FALSE])
    BY <1>1 DEF Like, Tels
<1>3. ASSUME NEW v, NEW w, Like(v, w), NEW sent, c = Took(3, v, sent), e = Took(3, w, sent)
      PROVE  c.sent = e.sent /\ Like(c.t, e.t)
    BY <1>3 DEF Took
<1>4. CASE command = "WILL" /\ option = "TTYPE"
    <2> DEFINE sent == IF t.got_term THEN <<>> ELSE <<"IAC", "SB", "TTYPE", "SEND", "IAC", "SE">>
    <2>1. c = Took(3, [t EXCEPT !.got_term = TRUE], sent) /\ e = Took(3, [u EXCEPT !.got_term = TRUE], sent)
        BY <1>1, <1>4, AnswerCases, ZenonT(60)
    <2> HIDE DEF sent
    <2> QED
        BY <1>2, <1>3, <2>1
<1>5. CASE command = "DO" /\ option = "ECHO"
    <2> DEFINE sent == IF t.echo THEN <<"IAC", "WILL", "ECHO">> ELSE <<>>
    <2>1. c = Took(3, [t EXCEPT !.echo = FALSE], sent) /\ e = Took(3, [u EXCEPT !.echo = FALSE], sent)
        BY <1>1, <1>5 DEF Answer
    <2> HIDE DEF sent
    <2> QED
        BY <1>2, <1>3, <2>1
<1>6. CASE command = "DONT" /\ option = "ECHO"
    <2> DEFINE sent == IF t.echo THEN <<>> ELSE <<"IAC", "WONT", "ECHO">>
    <2>1. c = Took(3, [t EXCEPT !.echo = TRUE], sent) /\ e = Took(3, [u EXCEPT !.echo = TRUE], sent)
        BY <1>1, <1>6 DEF Answer
    <2> HIDE DEF sent
    <2> QED
        BY <1>2, <1>3, <2>1
<1>7. CASE command = "WILL" /\ option = "NAWS"
    <2>1. c = Took(3, t, <<>>) /\ e = Took(3, u, <<>>)
        BY <1>7, AnswerCases
    <2> QED
        BY <1>3, <2>1
<1>8. CASE ~(command = "WILL" /\ option \in {"TTYPE", "NAWS"}) /\ ~(command \in {"DO", "DONT"} /\ option = "ECHO")
    <2> DEFINE sent == <<"IAC", IF command \in {"WILL", "WONT"} THEN "DONT" ELSE "WONT", option>>
    <2>1. c = Took(3, t, sent) /\ e = Took(3, u, sent)
        BY <1>8 DEF Answer
    <2> HIDE DEF sent
    <2> QED
        BY <1>3, <2>1
<1> QED
    BY <1>4, <1>5, <1>6, <1>7, <1>8

LEMMA SubcommandIs ==
    ASSUME NEW t \in Tels, NEW option, NEW body, NEW c, c = Subcommand(t, option, body)
    PROVE  c.t \in Tels /\ c.sent \in Seq(Words) /\ Like(c.t, t)
           /\ \A u : c.sent = Subcommand(u, option, body).sent
<1>1. <<"info">> \in Seq(Words) /\ <<>> \in Seq(Words)
    BY BytesAre
<1>2. CASE option = "TTYPE" /\ Len(body) > 1
    <2>1. (body[2] \in AnsiTerms) \in BOOLEAN
        OBVIOUS
    <2>2. c = [t |-> [t EXCEPT !.ansi = body[2] \in AnsiTerms], sent |-> <<"info">>]
        BY <1>2 DEF Subcommand
    <2>3. \A u : Subcommand(u, option, body).sent = <<"info">>
        BY <1>2 DEF Subcommand
    <2> DEFINE u == [t EXCEPT !.ansi = body[2] \in AnsiTerms]
    <2>4. u \in Tels /\ Like(u, t)
        BY <2>1, TelIs
    <2>5. c.t = u /\ c.sent = <<"info">>
        BY <2>2
    <2> HIDE DEF u
    <2> QED
        BY <1>1, <2>3, <2>4, <2>5
<1>3. CASE ~(option = "TTYPE" /\ Len(body) > 1)
    BY <1>1, <1>3 DEF Subcommand, Like
<1> QED
    BY <1>2, <1>3


LEMMA HearerIs ==
    ASSUME NEW s \in Hearers
    PROVE  /\ s.t \in Tels /\ s.mode \in Modes /\ s.option \in Bytes \cup {NoByte} /\ s.body \in Seq(Bytes)
           /\ s.prev \in Separators /\ s.line \in Seq(Textual) /\ s.lines \in Seq(Seq(Bytes)) /\ s.sent \in Seq(Words)
    BY DEF Hearers

\* What hearing makes of who hears, one byte at a time.
LEMMA EchoHeard ==
    ASSUME NEW s, NEW b \in Marks
    PROVE  Heard(s, b) = EchoSet(s, b)
    BY DEF Heard

LEMMA MarkHeard ==
    ASSUME NEW s \in Hearers, NEW on \in BOOLEAN, NEW b, b = IF on THEN "echo on" ELSE "echo off"
    PROVE  Heard(s, b) = [s EXCEPT !.t = set_echo(@, on), !.sent = @ \o EchoIs(on)]
<1>1. b \in Marks /\ (b = "echo on") = on
    BY DEF Marks
<1>2. Heard(s, b) = EchoSet(s, b)
    BY <1>1, EchoHeard
<1>3. EchoSet(s, b) = [s EXCEPT !.t = set_echo(@, on), !.sent = @ \o EchoIs(on)]
    BY <1>1 DEF EchoSet
<1> QED
    BY <1>2, <1>3

LEMMA TextHeard ==
    ASSUME NEW s, NEW b \in Bytes, s.mode = "text", b # "IAC"
    PROVE  Heard(s, b) = Typed(s, b)
    BY BytesAre DEF Heard, ByteHeard

LEMMA CommandHeard ==
    ASSUME NEW s, NEW b \in Bytes
    PROVE  /\ s.mode = "text" /\ b = "IAC" => Heard(s, b) = [s EXCEPT !.mode = "iac"]
           /\ s.mode = "iac" /\ TwoByte(b) => Heard(s, b) = [s EXCEPT !.mode = "text"]
           /\ s.mode = "iac" /\ ~TwoByte(b) =>
                 Heard(s, b) = [s EXCEPT !.mode = IF b \in {"SE", "AO"} THEN "lost" ELSE b]
           /\ s.mode = "SB" => Heard(s, b) = [s EXCEPT !.mode = "body", !.option = b]
    BY BytesAre DEF Heard, ByteHeard

\* The second byte of a command, and the option of one with a body.
LEMMA IacHeard ==
    ASSUME NEW s, NEW b \in Bytes, s.mode = "iac", NEW x,
           x = IF TwoByte(b) THEN "text" ELSE IF b \in {"SE", "AO"} THEN "lost" ELSE b
    PROVE  Heard(s, b) = [s EXCEPT !.mode = x]
<1>1. CASE TwoByte(b)
    BY <1>1, CommandHeard, ZenonT(60)
<1>2. CASE ~TwoByte(b)
    BY <1>2, CommandHeard, ZenonT(60)
<1> QED
    BY <1>1, <1>2

LEMMA OptionHeard ==
    ASSUME NEW s, NEW b \in Bytes, s.mode = "SB"
    PROVE  Heard(s, b) = [s EXCEPT !.mode = "body", !.option = b]
    BY CommandHeard, ZenonT(60)

LEMMA AnswerHeard ==
    ASSUME NEW s, NEW b \in Bytes, s.mode \in {"WILL", "WONT", "DO", "DONT"}
    PROVE  Heard(s, b) = Answered(s, Answer(s.t, s.mode, b).t, Answer(s.t, s.mode, b).sent)
    BY BytesAre DEF Heard, ByteHeard

LEMMA BodyHeard ==
    ASSUME NEW s, NEW b \in Bytes, s.mode = "body"
    PROVE  Heard(s, b) = IF b = "SE" /\ Len(s.body) > 0 /\ s.body[Len(s.body)] = "IAC"
                         THEN LET c == Subcommand(s.t, s.option, SubSeq(s.body, 1, Len(s.body) - 1))
                              IN  Answered(s, c.t, c.sent)
                         ELSE [s EXCEPT !.body = Append(@, b)]
    BY BytesAre DEF Heard, ByteHeard

\* The end of a sub-command.
LEMMA BodyEnds ==
    ASSUME NEW s, s.mode = "body", Len(s.body) > 0, s.body[Len(s.body)] = "IAC",
           NEW x, SubSeq(s.body, 1, Len(s.body) - 1) = x, NEW c, c = Subcommand(s.t, s.option, x)
    PROVE  Heard(s, "SE") = Answered(s, c.t, c.sent)
<1>1. "SE" \in Bytes
    BY BytesAre
<1> QED
    BY <1>1, BodyHeard

LEMMA OtherHeard ==
    ASSUME NEW s, NEW b \in Bytes, s.mode \notin {"text", "iac", "SB", "body", "WILL", "WONT", "DO", "DONT"}
    PROVE  Heard(s, b) = s
    BY BytesAre DEF Heard, ByteHeard

LEMMA TypedIn ==
    ASSUME NEW s \in Hearers, NEW b \in Bytes, b # "IAC"
    PROVE  Typed(s, b) \in Hearers
<1>1. CASE b \notin Lines
    <2>1. b \in Textual
        BY <1>1 DEF Textual
    <2>2. Append(s.line, b) \in Seq(Textual)
        BY <2>1, HearerIs
    <2> QED
        BY <1>1, <2>2 DEF Typed, Hearers
<1>2. CASE b \in Lines
    <2>1. Append(s.lines, s.line) \in Seq(Seq(Bytes))
        <3>1. s.line \in Seq(Bytes)
            BY HearerIs, BytesAre, SeqMonotonic
        <3> QED
            BY <3>1, HearerIs
    <2>2. NoByte \in Separators /\ b \in Separators /\ <<>> \in Seq(Textual)
        BY <1>2, BytesAre DEF Separators
    <2> QED
        BY <1>2, <2>1, <2>2 DEF Typed, Hearers
<1> QED
    BY <1>1, <1>2

LEMMA AnsweredIn ==
    ASSUME NEW s \in Hearers, NEW t \in Tels, NEW sent \in Seq(Words)
    PROVE  Answered(s, t, sent) \in Hearers
<1>1. s.sent \o sent \in Seq(Words) /\ "text" \in Modes /\ <<>> \in Seq(Bytes)
    BY HearerIs, BytesAre, ConcatProperties DEF Modes
<1> QED
    BY <1>1 DEF Answered, Hearers

LEMMA HeardIn ==
    ASSUME NEW s \in Hearers, NEW b \in Bytes \cup Marks
    PROVE  Heard(s, b) \in Hearers
<1>1. CASE b \in Marks
    <2>1. PICK on \in BOOLEAN : b = IF on THEN "echo on" ELSE "echo off"
        <3>1. CASE b = "echo on"
            BY <3>1
        <3>2. CASE b = "echo off"
            BY <3>2
        <3> QED
            BY <1>1, <3>1, <3>2 DEF Marks
    <2>2. set_echo(s.t, on) \in Tels
        BY HearerIs, TelIs DEF set_echo
    <2>3. s.sent \o EchoIs(on) \in Seq(Words)
        <3>1. EchoIs(on) \in Seq(Words)
            BY BytesAre DEF EchoIs, Controls
        <3> QED
            BY <3>1, HearerIs
    <2>4. Heard(s, b) = [s EXCEPT !.t = set_echo(@, on), !.sent = @ \o EchoIs(on)]
        BY <2>1, MarkHeard
    <2> QED
        BY <2>2, <2>3, <2>4 DEF Hearers
<1>2. CASE b \in Bytes
    <2> DEFINE m == [s EXCEPT !.mode = "iac"]
               o == [s EXCEPT !.mode = "body", !.option = b]
    <2>0. /\ m \in Hearers /\ \A x \in Modes : [s EXCEPT !.mode = x] \in Hearers
          /\ o \in Hearers
        BY <1>2 DEF Hearers, Modes
    <2>1. CASE s.mode = "text" /\ b # "IAC"
        BY <1>2, <2>1, TextHeard, TypedIn
    <2>2. CASE s.mode = "text" /\ b = "IAC"
        <3>1. Heard(s, b) = m
            BY <1>2, <2>2, CommandHeard
        <3> QED
            BY <2>0, <3>1
    <2>3. CASE s.mode = "iac"
        <3>1. CASE TwoByte(b)
            <4>1. Heard(s, b) = [s EXCEPT !.mode = "text"] /\ "text" \in Modes
                BY <1>2, <2>3, <3>1, CommandHeard DEF Modes
            <4> QED
                BY <2>0, <4>1
        <3>2. CASE ~TwoByte(b)
            <4> DEFINE x == IF b \in {"SE", "AO"} THEN "lost" ELSE b
            <4>1. Heard(s, b) = [s EXCEPT !.mode = x]
                BY <1>2, <2>3, <3>2, CommandHeard
            <4>2. x \in Modes
                BY <3>2 DEF TwoByte, Modes
            <4> HIDE DEF x
            <4> QED
                BY <2>0, <4>1, <4>2
        <3> QED
            BY <3>1, <3>2
    <2>4. CASE s.mode = "SB"
        <3>1. Heard(s, b) = o
            BY <1>2, <2>4, CommandHeard
        <3> QED
            BY <2>0, <3>1
    <2>5. CASE s.mode = "body"
        <3>1. Append(s.body, b) \in Seq(Bytes)
            BY <1>2, HearerIs
        <3>2. [s EXCEPT !.body = Append(@, b)] \in Hearers
            BY <3>1 DEF Hearers
        <3>3. \A x : LET c == Subcommand(s.t, s.option, x) IN Answered(s, c.t, c.sent) \in Hearers
            BY HearerIs, SubcommandIs, AnsweredIn
        <3> QED
            BY <1>2, <2>5, <3>2, <3>3, BodyHeard
    <2>6. CASE s.mode \in {"WILL", "WONT", "DO", "DONT"}
        <3> DEFINE c == Answer(s.t, s.mode, b)
        <3>1. c.t \in Tels /\ c.sent \in Seq(Words)
            BY <1>2, HearerIs, AnswerIs, BytesAre
        <3>2. Heard(s, b) = Answered(s, c.t, c.sent)
            BY <1>2, <2>6, AnswerHeard
        <3> HIDE DEF c
        <3> QED
            BY <3>1, <3>2, AnsweredIn
    <2>7. CASE s.mode \notin {"text", "iac", "SB", "body", "WILL", "WONT", "DO", "DONT"}
        BY <1>2, <2>7, OtherHeard
    <2> QED
        BY <2>1, <2>2, <2>3, <2>4, <2>5, <2>6, <2>7
<1> QED
    BY <1>1, <1>2


-----------------------------------------------------------------------------
(***************************************************************************)
(* A command at the front of what is to be read.                           *)
(***************************************************************************)
\* Where a sub-command ends.
SubEnds(c) == {i \in 4 .. Len(c) - 1 : c[i] = "IAC" /\ c[i + 1] = "SE"}

\* It is not complete.
Waits(c) == /\ Len(c) >= 2 => ~TwoByte(c[2])
            /\ Len(c) >= 3 => c[2] = "SB" /\ SubEnds(c) = {}

IsTwoByte(t, c, oc) == Len(c) >= 2 /\ TwoByte(c[2]) /\ oc = Took(2, t, <<>>)

IsAnswer(t, c, oc) ==
    Len(c) >= 3 /\ c[2] \in {"WILL", "WONT", "DO", "DONT"} /\ oc = Answer(t, c[2], c[3])

IsSub(t, c, oc) ==
    /\ Len(c) >= 3 /\ c[2] = "SB"
    /\ \E end \in SubEnds(c) :
         /\ \A j \in SubEnds(c) : end <= j
         /\ LET s == Subcommand(t, c[3], SubSeq(c, 4, end - 1)) IN oc = Took(end + 1, s.t, s.sent)

LEMMA CommandCases ==
    ASSUME NEW t, NEW c \in Seq(Bytes), Len(c) >= 1, NEW oc, oc = on_command(t, c)
    PROVE  \/ Waits(c) /\ oc = Awaits(t)
           \/ oc = [Awaits(t) EXCEPT !.threw = TRUE]
           \/ IsTwoByte(t, c, oc) \/ IsAnswer(t, c, oc) \/ IsSub(t, c, oc)
<1>0. Len(c) \in Nat
    OBVIOUS
<1>1. CASE Len(c) >= 2 /\ TwoByte(c[2])
    BY <1>1 DEF on_command, IsTwoByte
<1>2. CASE ~(Len(c) >= 2 /\ TwoByte(c[2])) /\ Len(c) < 3
    <2>1. oc = Awaits(t)
        BY <1>2 DEF on_command
    <2>2. Waits(c)
        BY <1>0, <1>2 DEF Waits
    <2> QED
        BY <2>1, <2>2
<1>3. CASE Len(c) >= 3 /\ ~TwoByte(c[2])
    <2>1. ~(Len(c) < 3) /\ ~(Len(c) >= 2 /\ TwoByte(c[2]))
        BY <1>0, <1>3
    <2>2. CASE c[2] = "SB"
        <3>1. oc = on_subcommand(t, c)
            BY <2>1, <2>2 DEF on_command
        <3>2. CASE SubEnds(c) = {}
            <4>1. oc = Awaits(t)
                BY <3>1, <3>2 DEF on_subcommand, SubEnds
            <4>2. Waits(c)
                BY <1>3, <2>2, <3>2 DEF Waits
            <4> QED
                BY <4>1, <4>2
        <3>3. CASE SubEnds(c) # {}
            <4> DEFINE end == CHOOSE i \in SubEnds(c) : \A j \in SubEnds(c) : i <= j
                       s == Subcommand(t, c[3], SubSeq(c, 4, end - 1))
            <4>1. SubEnds(c) \in SUBSET Nat
                BY <1>0 DEF SubEnds
            <4>2. \E i \in SubEnds(c) : \A j \in SubEnds(c) : i <= j
                BY <3>3, <4>1, LeastNumber
            <4>3. end \in SubEnds(c) /\ \A j \in SubEnds(c) : end <= j
                BY <4>2
            <4>4. oc = Took(end + 1, s.t, s.sent)
                BY <3>1, <3>3 DEF on_subcommand, SubEnds
            <4> HIDE DEF end
            <4> QED
                BY <1>3, <2>2, <4>3, <4>4 DEF IsSub
        <3> QED
            BY <3>2, <3>3
    <2>3. CASE c[2] \in {"SE", "AO"}
        BY <2>1, <2>3 DEF on_command
    <2>4. CASE c[2] \in {"WILL", "WONT", "DO", "DONT"}
        BY <1>3, <2>1, <2>4 DEF on_command, IsAnswer
    <2> QED
        BY <1>3, <2>2, <2>3, <2>4 DEF TwoByte
<1> QED
    BY <1>0, <1>1, <1>2, <1>3

LEMMA AwaitsIs ==
    ASSUME NEW t, NEW c, c = Awaits(t) \/ c = [Awaits(t) EXCEPT !.threw = TRUE]
    PROVE  c.n = 0 /\ c.t = t /\ c.sent = <<>> /\ c.threw \in BOOLEAN
<1>1. CASE c = Awaits(t)
    BY <1>1 DEF Awaits, Took
<1>2. CASE c = [Awaits(t) EXCEPT !.threw = TRUE]
    BY <1>2 DEF Awaits, Took
<1> QED
    BY <1>1, <1>2

LEMMA TookIs ==
    ASSUME NEW n, NEW t, NEW sent, NEW c, c = Took(n, t, sent)
    PROVE  c.n = n /\ c.t = t /\ c.sent = sent /\ c.threw \in BOOLEAN /\ ~c.threw
    BY DEF Took

LEMMA CommandIs ==
    ASSUME NEW t \in Tels, NEW c \in Seq(Bytes), Len(c) >= 1, NEW oc, oc = on_command(t, c)
    PROVE  oc.n \in Nat /\ oc.t \in Tels /\ oc.sent \in Seq(Words) /\ oc.threw \in BOOLEAN
<1>0. <<>> \in Seq(Words)
    BY BytesAre
<1>1. CASE oc = Awaits(t) \/ oc = [Awaits(t) EXCEPT !.threw = TRUE]
    <2>1. oc.n = 0 /\ oc.t = t /\ oc.sent = <<>> /\ oc.threw \in BOOLEAN
        BY <1>1, AwaitsIs
    <2> QED
        BY <1>0, <2>1
<1>2. CASE IsTwoByte(t, c, oc)
    <2>1. oc = Took(2, t, <<>>)
        BY <1>2 DEF IsTwoByte
    <2>2. oc.n = 2 /\ oc.t = t /\ oc.sent = <<>> /\ oc.threw \in BOOLEAN
        BY <2>1, TookIs
    <2> QED
        BY <1>0, <2>2
<1>3. CASE IsAnswer(t, c, oc)
    <2>1. oc = Answer(t, c[2], c[3]) /\ c[3] \in Words
        BY <1>3, BytesAre DEF IsAnswer
    <2> QED
        <3>1. oc.n = 3 /\ ~oc.threw /\ oc.t \in Tels /\ oc.sent \in Seq(Words)
            BY <2>1, AnswerIs
        <3>2. oc.threw \in BOOLEAN
            BY <2>1, AnswerIs
        <3> QED
            BY <3>1, <3>2
<1>4. CASE IsSub(t, c, oc)
    <2>1. PICK end \in SubEnds(c) : LET s == Subcommand(t, c[3], SubSeq(c, 4, end - 1)) IN oc = Took(end + 1, s.t, s.sent)
        BY <1>4 DEF IsSub
    <2> DEFINE s == Subcommand(t, c[3], SubSeq(c, 4, end - 1))
    <2>2. s.t \in Tels /\ s.sent \in Seq(Words)
        BY SubcommandIs
    <2>3. oc = Took(end + 1, s.t, s.sent) /\ end + 1 \in Nat
        BY <2>1 DEF SubEnds
    <2> HIDE DEF s
    <2> QED
        <3>1. oc.n = end + 1 /\ oc.t = s.t /\ oc.sent = s.sent /\ oc.threw \in BOOLEAN
            BY <2>3, TookIs
        <3> QED
            BY <2>2, <2>3, <3>1
<1> QED
    BY <1>1, <1>2, <1>3, <1>4, CommandCases


-----------------------------------------------------------------------------
(***************************************************************************)
(* The parsers are folds: what they make of one byte after the other.      *)
(***************************************************************************)
\* The front of a sequence.
Upto(s, i) == SubSeq(s, 1, i)

\* ByteAtATime hears one byte after the other.
Hears(r, h) ==
    /\ r \in [0 .. Len(h) -> Hearers] /\ r[0] = NewHearer /\ r[Len(h)] = ByteAtATime(h)
    /\ \A i \in 1 .. Len(h) : r[i] = Heard(r[i - 1], h[i])

LEMMA NewIs ==
    /\ NewHearer \in Hearers /\ NewTelnet \in Tels /\ NewHearer.t = NewTelnet /\ NewHearer.mode = "text"
    /\ NewHearer.body = <<>> /\ NewHearer.prev = NoByte /\ NewHearer.line = <<>>
    /\ NewHearer.lines = <<>> /\ NewHearer.sent = <<>>
    /\ NewTelnet.buffer = <<>> /\ NewTelnet.prev = NoByte
<1>1. NewTelnet \in Tels
    BY BytesAre DEF NewTelnet, Tels, Separators
<1> QED
    BY <1>1, BytesAre DEF NewHearer, Hearers, Modes, Separators, NewTelnet

LEMMA ByteWalks ==
    ASSUME NEW h \in Seq(Bytes \cup Marks)
    PROVE  \E r : Hears(r, h)
<1> DEFINE n == Len(h)
           G == [p \in (1 .. n) \X Hearers |-> Heard(p[2], h[p[1]])]
           Is(g) == g = [s \in SUBSET (1 .. n) |-> IF s = {} THEN NewHearer ELSE Heard(g[s \ {Max(s)}], h[Max(s)])]
           f == CHOOSE g : Is(g)
<1>1. n \in Nat /\ DOMAIN h = 1 .. n /\ \A i \in 1 .. n : h[i] \in Bytes \cup Marks
    OBVIOUS
<1>2. \A i \in 1 .. n : \A x \in Hearers : G[<<i, x>>] = Heard(x, h[i])
    OBVIOUS
<1> HIDE DEF G
<1>3. Within(G, 1 .. n, Hearers)
    BY <1>1, <1>2, HeardIn DEF Within
<1>4. ByteAtATime(h) = f[1 .. n]
    BY <1>1 DEF ByteAtATime, FoldLeft, MapThenFoldSet
<1> HIDE DEF n
<1>5. PICK g : ListFolded(g, n, NewHearer, G) /\ \A s \in SUBSET (1 .. n) : g[s] \in Hearers
    BY <1>1, <1>3, NewIs, ListExists
<1>6. \A s \in SUBSET (1 .. n) : s # {} => Max(s) \in 1 .. n /\ s \ {Max(s)} \in SUBSET (1 .. n)
    BY <1>1, MaxOf
<1>7. Is(g)
    BY <1>2, <1>5, <1>6 DEF ListFolded
<1>8. Is(f)
    BY <1>7
<1> HIDE DEF f
<1>9. f[{}] = NewHearer /\ \A s \in SUBSET (1 .. n) : s # {} => f[s] = Heard(f[s \ {Max(s)}], h[Max(s)])
    BY <1>8
<1>10. ListFolds(f, n, Hearers, NewHearer, G)
    BY <1>2, <1>6, <1>9 DEF ListFolds
<1>11. PICK r : Walk_(r, n, Hearers, NewHearer, G) /\ r[n] = f[1 .. n]
    BY <1>1, <1>3, <1>10, NewIs, ListWalks
<1>12. r \in [0 .. n -> Hearers] /\ r[0] = NewHearer /\ \A i \in 1 .. n : r[i] = G[<<i, r[i - 1]>>]
    BY <1>11 DEF Walk_
<1>13. \A i \in 1 .. n : r[i - 1] \in Hearers
    BY <1>12, <1>1
<1>14. \A i \in 1 .. n : r[i] = Heard(r[i - 1], h[i])
    BY <1>2, <1>12, <1>13
<1> QED
    BY <1>4, <1>11, <1>12, <1>14 DEF n, Hears

\* What it has heard of nothing, and of one more byte.
LEMMA ByteNone == ByteAtATime(<<>>) = NewHearer
<1>1. <<>> \in Seq(Bytes \cup Marks) /\ Len(<<>>) = 0
    OBVIOUS
<1>2. PICK r : Hears(r, <<>>)
    BY <1>1, ByteWalks
<1> QED
    BY <1>1, <1>2 DEF Hears

LEMMA ByteMore ==
    ASSUME NEW h \in Seq(Bytes \cup Marks), NEW b \in Bytes \cup Marks
    PROVE  /\ ByteAtATime(h) \in Hearers
           /\ ByteAtATime(Append(h, b)) = Heard(ByteAtATime(h), b)
<1> DEFINE k == Append(h, b)
           n == Len(h)
<1>1. /\ k \in Seq(Bytes \cup Marks) /\ Len(k) = n + 1 /\ n \in Nat
      /\ k[n + 1] = b /\ \A i \in 1 .. n : k[i] = h[i]
    OBVIOUS
<1>2. PICK r : Hears(r, h)
    BY ByteWalks
<1>3. PICK q : Hears(q, k)
    BY <1>1, ByteWalks
<1> HIDE DEF k, n
<1> DEFINE T == {i \in 0 .. n : r[i] = q[i]}
<1>4. r \in [0 .. n -> Hearers] /\ r[0] = NewHearer /\ r[n] = ByteAtATime(h) /\ \A i \in 1 .. n : r[i] = Heard(r[i - 1], h[i])
    BY <1>2 DEF Hears, n
<1>5. q[0] = NewHearer /\ q[n + 1] = ByteAtATime(k) /\ \A i \in 1 .. n + 1 : q[i] = Heard(q[i - 1], k[i])
    BY <1>1, <1>3 DEF Hears
<1>6. 0 \in T
    BY <1>1, <1>4, <1>5
<1>7. ASSUME NEW i \in 1 .. n, i - 1 \in T
      PROVE  i \in T
    <2>1. r[i] = Heard(r[i - 1], h[i]) /\ q[i] = Heard(q[i - 1], k[i]) /\ k[i] = h[i]
        BY <1>1, <1>4, <1>5
    <2> QED
        BY <1>7, <2>1
<1> HIDE DEF T
<1>8. 0 .. n \subseteq T
    BY <1>1, <1>6, <1>7, WalkKeeps
<1>9. r[n] = q[n] /\ n \in 0 .. n
    BY <1>1, <1>8 DEF T
<1>10. q[n + 1] = Heard(q[(n + 1) - 1], k[n + 1]) /\ (n + 1) - 1 = n
    BY <1>1, <1>5
<1> QED
    BY <1>1, <1>4, <1>5, <1>9, <1>10 DEF k


\* How the separators part what is left of the text.
Cuts == [prev : Separators, line : Seq(Bytes), lines : Seq(Seq(Bytes))]
NoCut(prev) == [prev |-> prev, line |-> <<>>, lines |-> <<>>]

Parts(r, prev, text) ==
    /\ r \in [0 .. Len(text) -> Cuts] /\ r[0] = NoCut(prev) /\ r[Len(text)] = handle_whole_lines(prev, text)
    /\ \A i \in 1 .. Len(text) : r[i] = Separated(r[i - 1], text[i])

LEMMA SeparatedIn ==
    ASSUME NEW s \in Cuts, NEW b \in Bytes
    PROVE  Separated(s, b) \in Cuts
<1>1. Append(s.line, b) \in Seq(Bytes) /\ Append(s.lines, s.line) \in Seq(Seq(Bytes)) /\ <<>> \in Seq(Bytes)
    BY DEF Cuts
<1>2. NoByte \in Separators /\ (b \in Lines => b \in Separators)
    BY DEF Separators
<1>3. [s EXCEPT !.line = Append(@, b)] \in Cuts /\ [s EXCEPT !.prev = NoByte] \in Cuts
    BY <1>1, <1>2 DEF Cuts
<1>4. ASSUME b \in Lines
      PROVE  [prev |-> b, line |-> <<>>, lines |-> Append(s.lines, s.line)] \in Cuts
    BY <1>1, <1>2, <1>4 DEF Cuts
<1> QED
    BY <1>3, <1>4 DEF Separated

LEMMA NoCutIn ==
    ASSUME NEW prev \in Separators
    PROVE  NoCut(prev) \in Cuts
    BY BytesAre DEF NoCut, Cuts

LEMMA LineWalks ==
    ASSUME NEW prev \in Separators, NEW text \in Seq(Bytes)
    PROVE  \E r : Parts(r, prev, text)
<1> DEFINE n == Len(text)
           u == NoCut(prev)
           G == [p \in (1 .. n) \X Cuts |-> Separated(p[2], text[p[1]])]
           Is(g) == g = [s \in SUBSET (1 .. n) |-> IF s = {} THEN u ELSE Separated(g[s \ {Max(s)}], text[Max(s)])]
           f == CHOOSE g : Is(g)
<1>1. n \in Nat /\ DOMAIN text = 1 .. n /\ \A i \in 1 .. n : text[i] \in Bytes
    OBVIOUS
<1>2. \A i \in 1 .. n : \A x \in Cuts : G[<<i, x>>] = Separated(x, text[i])
    OBVIOUS
<1> HIDE DEF G
<1>3. Within(G, 1 .. n, Cuts)
    BY <1>1, <1>2, SeparatedIn DEF Within
<1>4. handle_whole_lines(prev, text) = f[1 .. n]
    BY <1>1 DEF handle_whole_lines, FoldLeft, MapThenFoldSet, NoCut
<1>a. u \in Cuts
    BY NoCutIn
<1> HIDE DEF n, u
<1>5. PICK g : ListFolded(g, n, u, G) /\ \A s \in SUBSET (1 .. n) : g[s] \in Cuts
    BY <1>1, <1>3, <1>a, ListExists
<1>6. \A s \in SUBSET (1 .. n) : s # {} => Max(s) \in 1 .. n /\ s \ {Max(s)} \in SUBSET (1 .. n)
    BY <1>1, MaxOf
<1>7. Is(g)
    BY <1>2, <1>5, <1>6 DEF ListFolded
<1>8. Is(f)
    BY <1>7
<1> HIDE DEF f
<1>9. f[{}] = u /\ \A s \in SUBSET (1 .. n) : s # {} => f[s] = Separated(f[s \ {Max(s)}], text[Max(s)])
    BY <1>8
<1>10. ListFolds(f, n, Cuts, u, G)
    BY <1>2, <1>6, <1>9 DEF ListFolds
<1>11. PICK r : Walk_(r, n, Cuts, u, G) /\ r[n] = f[1 .. n]
    BY <1>1, <1>3, <1>10, <1>a, ListWalks
<1>12. r \in [0 .. n -> Cuts] /\ r[0] = u /\ \A i \in 1 .. n : r[i] = G[<<i, r[i - 1]>>]
    BY <1>11 DEF Walk_
<1>13. \A i \in 1 .. n : r[i - 1] \in Cuts
    BY <1>12, <1>1
<1>14. \A i \in 1 .. n : r[i] = Separated(r[i - 1], text[i])
    BY <1>2, <1>12, <1>13
<1> QED
    BY <1>4, <1>11, <1>12, <1>14 DEF n, u, Parts

LEMMA LineNone ==
    ASSUME NEW prev \in Separators
    PROVE  handle_whole_lines(prev, <<>>) = NoCut(prev)
<1>1. <<>> \in Seq(Bytes) /\ Len(<<>>) = 0
    OBVIOUS
<1>2. PICK r : Parts(r, prev, <<>>)
    BY <1>1, LineWalks
<1> QED
    BY <1>1, <1>2 DEF Parts

LEMMA LineMore ==
    ASSUME NEW prev \in Separators, NEW h \in Seq(Bytes), NEW b \in Bytes
    PROVE  /\ handle_whole_lines(prev, h) \in Cuts
           /\ handle_whole_lines(prev, Append(h, b)) = Separated(handle_whole_lines(prev, h), b)
<1> DEFINE k == Append(h, b)
           n == Len(h)
           W(x) == handle_whole_lines(prev, x)
<1>1. /\ k \in Seq(Bytes) /\ Len(k) = n + 1 /\ n \in Nat
      /\ k[n + 1] = b /\ \A i \in 1 .. n : k[i] = h[i]
    OBVIOUS
<1>2. PICK r : Parts(r, prev, h)
    BY LineWalks
<1>3. PICK q : Parts(q, prev, k)
    BY <1>1, LineWalks
<1> HIDE DEF k, n
<1> DEFINE T == {i \in 0 .. n : r[i] = q[i]}
<1>4. r \in [0 .. n -> Cuts] /\ r[0] = NoCut(prev) /\ r[n] = W(h) /\ \A i \in 1 .. n : r[i] = Separated(r[i - 1], h[i])
    BY <1>2 DEF Parts, n
<1>5. q[0] = NoCut(prev) /\ q[n + 1] = W(k) /\ \A i \in 1 .. n + 1 : q[i] = Separated(q[i - 1], k[i])
    BY <1>1, <1>3 DEF Parts
<1> HIDE DEF W
<1>6. 0 \in T
    BY <1>1, <1>4, <1>5
<1>7. ASSUME NEW i \in 1 .. n, i - 1 \in T
      PROVE  i \in T
    <2>1. r[i] = Separated(r[i - 1], h[i]) /\ q[i] = Separated(q[i - 1], k[i]) /\ k[i] = h[i]
        BY <1>1, <1>4, <1>5
    <2> QED
        BY <1>7, <2>1
<1> HIDE DEF T
<1>8. 0 .. n \subseteq T
    BY <1>1, <1>6, <1>7, WalkKeeps
<1>9. r[n] = q[n] /\ n \in 0 .. n
    BY <1>1, <1>8 DEF T
<1>10. q[n + 1] = Separated(q[(n + 1) - 1], k[n + 1]) /\ (n + 1) - 1 = n
    BY <1>1, <1>5
<1> QED
    BY <1>1, <1>4, <1>5, <1>9, <1>10 DEF k, W


\* What interpret_iacs does from one byte of the buffer to the next.
Scans == [t : Tels, scan : Seq(Bytes), rest : Seq(Bytes), skip : Nat, sent : Seq(Words), threw : BOOLEAN]
NoScan(t) == [t |-> t, scan |-> <<>>, rest |-> <<>>, skip |-> 0, sent |-> <<>>, threw |-> FALSE]

ScanWalk(r, t, b) ==
    /\ r \in [0 .. Len(b) -> Scans] /\ r[0] = NoScan(t) /\ r[Len(b)] = interpret_iacs(t, b)
    /\ \A i \in 1 .. Len(b) : r[i] = Scanned(b, r[i - 1], i)

LEMMA ScanIs ==
    ASSUME NEW s \in Scans
    PROVE  /\ s.t \in Tels /\ s.scan \in Seq(Bytes) /\ s.rest \in Seq(Bytes) /\ s.skip \in Nat
           /\ s.sent \in Seq(Words) /\ s.threw \in BOOLEAN
    BY DEF Scans

LEMMA FrontIs ==
    ASSUME NEW S, NEW b \in Seq(S), NEW i \in 1 .. Len(b)
    PROVE  /\ SubSeq(b, i, Len(b)) \in Seq(S) /\ Len(SubSeq(b, i, Len(b))) = Len(b) - i + 1
           /\ SubSeq(b, i, Len(b))[1] = b[i]
           /\ \A j \in 1 .. Len(b) - i + 1 : SubSeq(b, i, Len(b))[j] = b[i + j - 1]
    OBVIOUS

\* The six things that are done with a byte.
LEMMA ScannedCases ==
    ASSUME NEW b, NEW s, NEW i, NEW c, c = on_command(s.t, SubSeq(b, i, Len(b)))
    PROVE  /\ s.threw => Scanned(b, s, i) = s
           /\ ~s.threw /\ s.skip > 0 => Scanned(b, s, i) = [s EXCEPT !.skip = @ - 1]
           /\ ~s.threw /\ ~(s.skip > 0) /\ s.rest # <<>> => Scanned(b, s, i) = [s EXCEPT !.rest = Append(@, b[i])]
           /\ ~s.threw /\ ~(s.skip > 0) /\ s.rest = <<>> =>
                 /\ b[i] # "IAC" => Scanned(b, s, i) = [s EXCEPT !.scan = Append(@, b[i])]
                 /\ b[i] = "IAC" =>
                       /\ c.threw => Scanned(b, s, i) = [s EXCEPT !.threw = TRUE]
                       /\ ~c.threw /\ c.n = 0 => Scanned(b, s, i) = [s EXCEPT !.rest = <<b[i]>>]
                       /\ ~c.threw /\ c.n # 0 =>
                             Scanned(b, s, i) = [s EXCEPT !.t = c.t, !.skip = c.n - 1, !.sent = @ \o c.sent]
    BY DEF Scanned

LEMMA ScannedIn ==
    ASSUME NEW b \in Seq(Bytes), NEW s \in Scans, NEW i \in 1 .. Len(b)
    PROVE  Scanned(b, s, i) \in Scans
<1> DEFINE c == on_command(s.t, SubSeq(b, i, Len(b)))
<1>1. b[i] \in Bytes /\ Append(s.rest, b[i]) \in Seq(Bytes) /\ Append(s.scan, b[i]) \in Seq(Bytes) /\ <<b[i]>> \in Seq(Bytes)
    BY ScanIs
<1>2. c.n \in Nat /\ c.t \in Tels /\ c.sent \in Seq(Words) /\ c.threw \in BOOLEAN
    <2>1. SubSeq(b, i, Len(b)) \in Seq(Bytes) /\ Len(SubSeq(b, i, Len(b))) >= 1
        BY FrontIs
    <2> QED
        BY <2>1, ScanIs, CommandIs
<1>7. /\ s.threw => Scanned(b, s, i) = s
      /\ ~s.threw /\ s.skip > 0 => Scanned(b, s, i) = [s EXCEPT !.skip = @ - 1]
      /\ ~s.threw /\ ~(s.skip > 0) /\ s.rest # <<>> => Scanned(b, s, i) = [s EXCEPT !.rest = Append(@, b[i])]
      /\ ~s.threw /\ ~(s.skip > 0) /\ s.rest = <<>> =>
            \/ Scanned(b, s, i) = [s EXCEPT !.scan = Append(@, b[i])]
            \/ Scanned(b, s, i) = [s EXCEPT !.threw = TRUE]
            \/ Scanned(b, s, i) = [s EXCEPT !.rest = <<b[i]>>]
            \/ c.n # 0 /\ Scanned(b, s, i) = [s EXCEPT !.t = c.t, !.skip = c.n - 1, !.sent = @ \o c.sent]
    BY DEF Scanned
<1> HIDE DEF c
<1>3. s.sent \o c.sent \in Seq(Words) /\ (c.n # 0 => c.n - 1 \in Nat) /\ (s.skip > 0 => s.skip - 1 \in Nat)
    BY <1>2, ScanIs
<1>4. /\ [s EXCEPT !.rest = Append(@, b[i])] \in Scans /\ [s EXCEPT !.scan = Append(@, b[i])] \in Scans
      /\ [s EXCEPT !.rest = <<b[i]>>] \in Scans /\ [s EXCEPT !.threw = TRUE] \in Scans
      /\ s.skip > 0 => [s EXCEPT !.skip = @ - 1] \in Scans
    BY <1>1, <1>3 DEF Scans
<1>5. c.n # 0 => [s EXCEPT !.t = c.t, !.skip = c.n - 1, !.sent = @ \o c.sent] \in Scans
    BY <1>2, <1>3 DEF Scans
<1> QED
    BY <1>4, <1>5, <1>7

LEMMA ScanWalks ==
    ASSUME NEW t \in Tels, NEW b \in Seq(Bytes)
    PROVE  \E r : ScanWalk(r, t, b)
<1> DEFINE n == Len(b)
           u == NoScan(t)
           Q == [j \in DOMAIN b |-> j]
           G == [p \in (1 .. n) \X Scans |-> Scanned(b, p[2], p[1])]
           Is(g) == g = [s \in SUBSET (1 .. n) |-> IF s = {} THEN u ELSE Scanned(b, g[s \ {Max(s)}], Q[Max(s)])]
           f == CHOOSE g : Is(g)
<1>1. n \in Nat /\ DOMAIN b = 1 .. n /\ DOMAIN Q = 1 .. n /\ \A i \in 1 .. n : Q[i] = i
    OBVIOUS
<1>2. \A i \in 1 .. n : \A x \in Scans : G[<<i, x>>] = Scanned(b, x, i)
    OBVIOUS
<1> HIDE DEF G
<1>b. \A i \in 1 .. n : \A x \in Scans : Scanned(b, x, i) \in Scans
    BY ScannedIn
<1>3. Within(G, 1 .. n, Scans)
    <2> HIDE DEF n
    <2> QED
        BY <1>2, <1>b DEF Within
<1>4. interpret_iacs(t, b) = f[1 .. n]
    <2> HIDE DEF n, Scanned
    <2> QED
        BY <1>1 DEF interpret_iacs, FoldLeftDomain, FoldLeft, MapThenFoldSet, NoScan
<1>a. u \in Scans
    BY BytesAre DEF NoScan, Scans
<1> HIDE DEF n, u, Q
<1>5. PICK g : ListFolded(g, n, u, G) /\ \A s \in SUBSET (1 .. n) : g[s] \in Scans
    BY <1>1, <1>3, <1>a, ListExists
<1>6. \A s \in SUBSET (1 .. n) : s # {} => Max(s) \in 1 .. n /\ s \ {Max(s)} \in SUBSET (1 .. n) /\ Q[Max(s)] = Max(s)
    BY <1>1, MaxOf
<1>c. \A s \in SUBSET (1 .. n) : s # {} => G[<<Max(s), g[s \ {Max(s)}]>>] = Scanned(b, g[s \ {Max(s)}], Q[Max(s)])
    BY <1>2, <1>5, <1>6
<1>7. Is(g)
    BY <1>5, <1>c DEF ListFolded
<1>8. Is(f)
    BY <1>7
<1> HIDE DEF f
<1>9. f[{}] = u /\ \A s \in SUBSET (1 .. n) : s # {} => f[s] = Scanned(b, f[s \ {Max(s)}], Max(s))
    BY <1>6, <1>8
<1>10. ListFolds(f, n, Scans, u, G)
    BY <1>2, <1>6, <1>9 DEF ListFolds
<1>11. PICK r : Walk_(r, n, Scans, u, G) /\ r[n] = f[1 .. n]
    BY <1>1, <1>3, <1>10, <1>a, ListWalks
<1>12. r \in [0 .. n -> Scans] /\ r[0] = u /\ \A i \in 1 .. n : r[i] = G[<<i, r[i - 1]>>]
    BY <1>11 DEF Walk_
<1>13. \A i \in 1 .. n : r[i - 1] \in Scans
    BY <1>12, <1>1
<1>14. \A i \in 1 .. n : r[i] = Scanned(b, r[i - 1], i)
    BY <1>2, <1>12, <1>13
<1> QED
    BY <1>4, <1>11, <1>12, <1>14 DEF n, u, ScanWalk


-----------------------------------------------------------------------------
(***************************************************************************)
(* A command, as it is heard byte after byte.                              *)
(***************************************************************************)
Tracks(a, b) ==
    a \in [0 .. Len(b) -> Hearers] /\ \A i \in 1 .. Len(b) : a[i] = Heard(a[i - 1], b[i])

\* What a command that is not complete has come to.
ModeOf(p) == IF Len(p) = 0 THEN "text"
             ELSE IF Len(p) = 1 THEN "iac"
             ELSE IF Len(p) >= 3 THEN "body"
             ELSE IF p[2] \in {"SE", "AO"} THEN "lost" ELSE p[2]

Pending(s, p) ==
    [s EXCEPT !.mode = ModeOf(p), !.option = IF Len(p) >= 3 THEN p[3] ELSE @,
              !.body = IF Len(p) >= 3 THEN SubSeq(p, 4, Len(p)) ELSE <<>>]

\* After s, and a command that was answered as c is.
Answers(s, c, r) ==
    /\ r.mode = "text" /\ r.body = <<>> /\ Like(c.t, r.t) /\ r.sent = s.sent \o c.sent
    /\ r.prev = s.prev /\ r.line = s.line /\ r.lines = s.lines

LEMMA PartIs ==
    ASSUME NEW S, NEW c \in Seq(S), NEW m \in Nat, NEW n \in Nat, 1 <= m, m <= n + 1, n <= Len(c)
    PROVE  /\ SubSeq(c, m, n) \in Seq(S) /\ Len(SubSeq(c, m, n)) = n - m + 1
           /\ \A j \in 1 .. n - m + 1 : SubSeq(c, m, n)[j] = c[m + j - 1]
    OBVIOUS

LEMMA PartMore ==
    ASSUME NEW S, NEW c \in Seq(S), NEW m \in Nat, NEW n \in Nat, 1 <= m, m <= n, n <= Len(c)
    PROVE  Append(SubSeq(c, m, n - 1), c[n]) = SubSeq(c, m, n)
<1> DEFINE x == Append(SubSeq(c, m, n - 1), c[n])
           y == SubSeq(c, m, n)
<1>0. n - 1 \in Nat /\ m <= (n - 1) + 1 /\ n - 1 <= Len(c) /\ m <= n + 1 /\ n \in 1 .. Len(c)
    OBVIOUS
<1>1. /\ SubSeq(c, m, n - 1) \in Seq(S) /\ Len(SubSeq(c, m, n - 1)) = n - m
      /\ \A j \in 1 .. n - m : SubSeq(c, m, n - 1)[j] = c[m + j - 1]
    BY <1>0, PartIs
<1>2. y \in Seq(S) /\ Len(y) = n - m + 1 /\ \A j \in 1 .. n - m + 1 : y[j] = c[m + j - 1]
    BY <1>0, PartIs
<1>3. /\ x \in Seq(S) /\ Len(x) = n - m + 1 /\ x[n - m + 1] = c[n]
      /\ \A j \in 1 .. n - m : x[j] = SubSeq(c, m, n - 1)[j]
    <2> DEFINE z == SubSeq(c, m, n - 1)
               k == n - m
    <2>1. c[n] \in S /\ z \in Seq(S) /\ Len(z) = k /\ k \in Nat /\ k + 1 = n - m + 1
        BY <1>0, <1>1
    <2> HIDE DEF z, k
    <2>2. \A q \in Seq(S) : \A e \in S :
             /\ Append(q, e) \in Seq(S) /\ Len(Append(q, e)) = Len(q) + 1 /\ Append(q, e)[Len(q) + 1] = e
             /\ \A j \in 1 .. Len(q) : Append(q, e)[j] = q[j]
        BY AppendProperties
    <2>3. /\ Append(z, c[n]) \in Seq(S) /\ Len(Append(z, c[n])) = k + 1 /\ Append(z, c[n])[k + 1] = c[n]
          /\ \A j \in 1 .. k : Append(z, c[n])[j] = z[j]
        BY <2>1, <2>2
    <2> QED
        BY <2>1, <2>3 DEF z, k
<1> HIDE DEF x, y
<1>4. \A j \in 1 .. n - m + 1 : x[j] = y[j]
    <2> SUFFICES ASSUME NEW j \in 1 .. n - m + 1
                 PROVE  x[j] = y[j]
        OBVIOUS
    <2>1. CASE j = n - m + 1
        <3>1. m + j - 1 = n
            BY <2>1
        <3> QED
            BY <1>2, <1>3, <2>1, <3>1
    <2>2. CASE j # n - m + 1
        <3>1. j \in 1 .. n - m
            BY <2>2
        <3> QED
            BY <1>1, <1>2, <1>3, <3>1
    <2> QED
        BY <2>1, <2>2
<1>5. x = y
    BY <1>2, <1>3, <1>4, SeqEqual
<1> QED
    BY <1>5 DEF x, y

LEMMA ConcatNone == ASSUME NEW S, NEW s \in Seq(S) PROVE s \o <<>> = s /\ <<>> \o s = s
    BY ConcatEmptySeq

\* The first three bytes of a command.
LEMMA CommandBegins ==
    ASSUME NEW c \in Seq(Bytes), Len(c) >= 1, c[1] = "IAC", NEW e, Tracks(e, c), e[0].mode = "text", e[0].body = <<>>
    PROVE  /\ e[1] = [e[0] EXCEPT !.mode = "iac"]
           /\ Len(c) >= 2 /\ TwoByte(c[2]) => e[2] = [e[0] EXCEPT !.mode = "text"]
           /\ Len(c) >= 2 /\ ~TwoByte(c[2]) =>
                 e[2] = [e[0] EXCEPT !.mode = IF c[2] \in {"SE", "AO"} THEN "lost" ELSE c[2]]
           /\ Len(c) >= 3 /\ c[2] = "SB" => e[3] = [e[0] EXCEPT !.mode = "body", !.option = c[3]]
           /\ Len(c) >= 3 /\ c[2] \in {"WILL", "WONT", "DO", "DONT"} =>
                 e[3] = Answered([e[0] EXCEPT !.mode = c[2]], Answer(e[0].t, c[2], c[3]).t, Answer(e[0].t, c[2], c[3]).sent)
<1> DEFINE s == e[0]
<1>0. /\ Len(c) \in Nat /\ s \in Hearers /\ \A i \in 1 .. Len(c) : e[i] = Heard(e[i - 1], c[i]) /\ c[i] \in Bytes
    BY DEF Tracks
<1>1. e[1] = [s EXCEPT !.mode = "iac"]
    <2>1. e[1] = Heard(s, c[1]) /\ c[1] \in Bytes
        BY <1>0
    <2> QED
        BY <2>1, CommandHeard
<1>2. Len(c) >= 2 => e[2] = Heard(e[1], c[2]) /\ c[2] \in Bytes
    <2>1. Len(c) >= 2 => e[2] = Heard(e[2 - 1], c[2]) /\ c[2] \in Bytes
        BY <1>0
    <2> QED
        BY <2>1
<1>3. Len(c) >= 3 => e[3] = Heard(e[2], c[3]) /\ c[3] \in Bytes
    <2>1. Len(c) >= 3 => e[3] = Heard(e[3 - 1], c[3]) /\ c[3] \in Bytes
        BY <1>0
    <2> QED
        BY <2>1
<1> HIDE DEF s
<1>4. e[1].mode = "iac" /\ \A x : [e[1] EXCEPT !.mode = x] = [s EXCEPT !.mode = x]
    BY <1>0, <1>1 DEF Hearers
<1>5. Len(c) >= 2 /\ TwoByte(c[2]) => e[2] = [s EXCEPT !.mode = "text"]
    <2> SUFFICES ASSUME Len(c) >= 2, TwoByte(c[2])
                 PROVE  e[2] = [s EXCEPT !.mode = "text"]
        OBVIOUS
    <2>1. Heard(e[1], c[2]) = [e[1] EXCEPT !.mode = "text"]
        BY <1>2, <1>4, IacHeard
    <2> QED
        BY <1>2, <1>4, <2>1
<1>6. Len(c) >= 2 /\ ~TwoByte(c[2]) => e[2] = [s EXCEPT !.mode = IF c[2] \in {"SE", "AO"} THEN "lost" ELSE c[2]]
    <2> SUFFICES ASSUME Len(c) >= 2, ~TwoByte(c[2])
                 PROVE  e[2] = [s EXCEPT !.mode = IF c[2] \in {"SE", "AO"} THEN "lost" ELSE c[2]]
        OBVIOUS
    <2> DEFINE x == IF c[2] \in {"SE", "AO"} THEN "lost" ELSE c[2]
    <2>1. e[2] = [e[1] EXCEPT !.mode = x]
        <3>1. e[1].mode = "iac" /\ c[2] \in Bytes /\ x = IF TwoByte(c[2]) THEN "text" ELSE IF c[2] \in {"SE", "AO"} THEN "lost" ELSE c[2]
            BY <1>2, <1>4
        <3> HIDE DEF x
        <3>2. Heard(e[1], c[2]) = [e[1] EXCEPT !.mode = x]
            BY <3>1, IacHeard, SMTT(40)
        <3> QED
            BY <1>2, <3>2
    <2>2. [e[1] EXCEPT !.mode = x] = [s EXCEPT !.mode = x]
        <3> HIDE DEF x
        <3> QED
            BY <1>4
    <2> QED
        BY <2>1, <2>2
<1>7. ASSUME Len(c) >= 3, c[2] = "SB"
      PROVE  e[3] = [s EXCEPT !.mode = "body", !.option = c[3]]
    <2>1. e[2] = [s EXCEPT !.mode = "SB"]
        BY <1>0, <1>6, <1>7 DEF TwoByte
    <2>2. e[2].mode = "SB" /\ \A x : [e[2] EXCEPT !.mode = "body", !.option = x] = [s EXCEPT !.mode = "body", !.option = x]
        BY <1>0, <2>1 DEF Hearers
    <2> QED
        <3>1. e[3] = [e[2] EXCEPT !.mode = "body", !.option = c[3]]
            BY <1>3, <1>7, <2>2, OptionHeard, ZenonT(60)
        <3> QED
            BY <2>2, <3>1
<1>8. ASSUME Len(c) >= 3, c[2] \in {"WILL", "WONT", "DO", "DONT"}
      PROVE  e[3] = Answered([s EXCEPT !.mode = c[2]], Answer(s.t, c[2], c[3]).t, Answer(s.t, c[2], c[3]).sent)
    <2>1. e[2] = [s EXCEPT !.mode = c[2]]
        BY <1>0, <1>6, <1>8 DEF TwoByte
    <2>2. e[2].mode = c[2] /\ e[2].t = s.t
        BY <1>0, <2>1 DEF Hearers
    <2>3. e[3] = Answered(e[2], Answer(s.t, c[2], c[3]).t, Answer(s.t, c[2], c[3]).sent)
        BY <1>3, <1>8, <2>2, AnswerHeard
    <2> QED
        BY <2>1, <2>3
<1> QED
    BY <1>1, <1>5, <1>6, <1>7, <1>8 DEF s


\* The inside of a sub-command, up to where it ends.
LEMMA BodyFollows ==
    ASSUME NEW c \in Seq(Bytes), Len(c) >= 3, c[1] = "IAC", c[2] = "SB", NEW e, Tracks(e, c),
           e[0].mode = "text", e[0].body = <<>>,
           NEW i \in 3 .. Len(c), \A j \in SubEnds(c) : j >= i
    PROVE  e[i] = [e[0] EXCEPT !.mode = "body", !.option = c[3], !.body = SubSeq(c, 4, i)]
<1> DEFINE n == Len(c)
           B(k) == [e[0] EXCEPT !.mode = "body", !.option = c[3], !.body = SubSeq(c, 4, k)]
           T == {k \in 0 .. n : k \in 3 .. i => e[k] = B(k)}
<1>0. n \in Nat /\ e[0] \in Hearers /\ \A k \in 1 .. n : e[k] = Heard(e[k - 1], c[k]) /\ c[k] \in Bytes
    BY SMTT(40) DEF Tracks
<1>1. e[3] = B(3)
    <2>1. e[3] = [e[0] EXCEPT !.mode = "body", !.option = c[3]]
        <3>1. Len(c) >= 1
            BY <1>0
        <3> QED
            BY <3>1, CommandBegins
    <2>2. SubSeq(c, 4, 3) = <<>>
        OBVIOUS
    <2>3. e[0] = [e[0] EXCEPT !.body = <<>>]
        BY <1>0 DEF Hearers
    <2> QED
        BY <1>0, <2>1, <2>2, <2>3 DEF Hearers
<1>2. ASSUME NEW k \in 4 .. i, e[k - 1] = B(k - 1)
      PROVE  e[k] = B(k)
    <2>1. k \in 1 .. n /\ k - 1 \in Nat /\ k \in Nat
        BY <1>0
    <2>2. e[k - 1].mode = "body" /\ e[k - 1].body = SubSeq(c, 4, k - 1)
        BY <1>0, <1>2 DEF Hearers
    <2>3. ~(c[k] = "SE" /\ Len(e[k - 1].body) > 0 /\ e[k - 1].body[Len(e[k - 1].body)] = "IAC")
        <3> SUFFICES ASSUME c[k] = "SE", Len(e[k - 1].body) > 0, e[k - 1].body[Len(e[k - 1].body)] = "IAC"
                     PROVE  FALSE
            OBVIOUS
        <3>1. 4 <= (k - 1) + 1 /\ k - 1 <= Len(c)
            BY <1>0
        <3>2. Len(e[k - 1].body) = k - 4
            BY <2>1, <2>2, <3>1, PartIs
        <3>3. k - 4 \in 1 .. (k - 1) - 4 + 1
            BY <1>0, <3>2, SMTT(40)
        <3>4. e[k - 1].body[k - 4] = c[4 + (k - 4) - 1]
            BY <2>1, <2>2, <3>1, <3>3, PartIs
        <3>5. 4 + (k - 4) - 1 = k - 1 /\ c[(k - 1) + 1] = c[k]
            BY <2>1
        <3>6. k - 1 \in SubEnds(c)
            BY <1>0, <2>1, <3>2, <3>3, <3>4, <3>5 DEF SubEnds
        <3> QED
            BY <1>0, <3>6
    <2>4. e[k] = [e[k - 1] EXCEPT !.body = Append(@, c[k])]
        BY <1>0, <2>1, <2>2, <2>3, BodyHeard
    <2>5. Append(SubSeq(c, 4, k - 1), c[k]) = SubSeq(c, 4, k)
        <3>1. 4 \in Nat /\ 1 <= 4 /\ 4 <= k /\ k <= Len(c)
            BY <1>0
        <3> QED
            BY <2>1, <3>1, PartMore
    <2>6. e[k] = [e[k - 1] EXCEPT !.body = SubSeq(c, 4, k)]
        BY <2>2, <2>4, <2>5
    <2> QED
        BY <1>0, <1>2, <2>6, ZenonT(60) DEF Hearers
<1> HIDE DEF B
<1>3. 0 \in T
    BY <1>0
<1>4. ASSUME NEW k \in 1 .. n, k - 1 \in T
      PROVE  k \in T
    <2>1. CASE k \in 4 .. i
        <3>1. k - 1 \in 3 .. i
            BY <2>1
        <3> QED
            BY <1>2, <1>4, <2>1, <3>1
    <2>2. CASE k = 3
        BY <1>0, <1>1, <2>2
    <2>3. CASE k \notin 4 .. i /\ k # 3
        BY <1>0, <2>3
    <2> QED
        BY <2>1, <2>2, <2>3
<1> HIDE DEF T
<1>5. 0 .. n \subseteq T
    BY <1>0, <1>3, <1>4, WalkKeeps
<1>6. i \in T
    BY <1>0, <1>5
<1>7. e[i] = B(i)
    BY <1>6 DEF T
<1> QED
    BY <1>7 DEF B

\* The same, in one name.
BodyGoes(c, e, i) ==
    /\ c \in Seq(Bytes) /\ Len(c) >= 3 /\ c[1] = "IAC" /\ c[2] = "SB" /\ Tracks(e, c)
    /\ e[0].mode = "text" /\ e[0].body = <<>>
    /\ i \in 3 .. Len(c) /\ \A j \in SubEnds(c) : j >= i

BodyAt(c, e, i) == [e[0] EXCEPT !.mode = "body", !.option = c[3], !.body = SubSeq(c, 4, i)]

LEMMA BodyReached ==
    ASSUME NEW c, NEW e, NEW i, BodyGoes(c, e, i)
    PROVE  e[i] = BodyAt(c, e, i)
<1>1. /\ c \in Seq(Bytes) /\ Len(c) >= 3 /\ c[1] = "IAC" /\ c[2] = "SB" /\ Tracks(e, c)
      /\ e[0].mode = "text" /\ e[0].body = <<>>
      /\ i \in 3 .. Len(c) /\ \A j \in SubEnds(c) : j >= i
    BY DEF BodyGoes
<1>2. e[i] = [e[0] EXCEPT !.mode = "body", !.option = c[3], !.body = SubSeq(c, 4, i)]
    BY <1>1, BodyFollows, ZenonT(120)
<1> QED
    BY <1>2, Zenon DEF BodyAt

LEMMA UpToTwo ==
    ASSUME NEW n \in Nat
    PROVE  /\ n = 0 \/ n = 1 \/ n = 2 \/ n >= 3
           /\ n >= 1 => n # 0
           /\ n < 3 <=> ~(n >= 3)
           /\ n = 0 => ~(n >= 3) /\ n # 1
           /\ n = 1 => ~(n >= 3) /\ n # 0
           /\ n = 2 => ~(n >= 3) /\ n # 0 /\ n # 1
           /\ n >= 3 => n # 0 /\ n # 1
    OBVIOUS

LEMMA PendingIs ==
    ASSUME NEW s \in Hearers, s.body = <<>>, s.mode = "text", NEW p \in Seq(Bytes)
    PROVE  /\ Len(p) = 0 => Pending(s, p) = s
           /\ Len(p) = 1 => Pending(s, p) = [s EXCEPT !.mode = "iac"]
           /\ Len(p) = 2 => Pending(s, p) = [s EXCEPT !.mode = IF p[2] \in {"SE", "AO"} THEN "lost" ELSE p[2]]
           /\ Len(p) >= 3 => Pending(s, p) = [s EXCEPT !.mode = "body", !.option = p[3], !.body = SubSeq(p, 4, Len(p))]
<1> DEFINE n == Len(p)
           m == ModeOf(p)
           o == IF n >= 3 THEN p[3] ELSE s.option
           x == IF n >= 3 THEN SubSeq(p, 4, n) ELSE <<>>
<1>0. n \in Nat
    OBVIOUS
<1>1. Pending(s, p) = [s EXCEPT !.mode = m, !.option = o, !.body = x]
    BY DEF Pending
<1>4. m = IF n = 0 THEN "text" ELSE IF n = 1 THEN "iac" ELSE IF n >= 3 THEN "body"
          ELSE IF p[2] \in {"SE", "AO"} THEN "lost" ELSE p[2]
    BY DEF ModeOf
<1> DEFINE y == SubSeq(p, 4, n)
           z == IF p[2] \in {"SE", "AO"} THEN "lost" ELSE p[2]
           w == p[3]
<1>2. o = IF n >= 3 THEN w ELSE s.option
    OBVIOUS
<1>3. x = IF n >= 3 THEN y ELSE <<>>
    OBVIOUS
<1>5. m = IF n = 0 THEN "text" ELSE IF n = 1 THEN "iac" ELSE IF n >= 3 THEN "body" ELSE z
    BY <1>4
<1> HIDE DEF m, o, x, y, z, w, n
<1>6. \A mm : [s EXCEPT !.mode = mm, !.option = s.option, !.body = <<>>] = [s EXCEPT !.mode = mm]
    BY DEF Hearers
<1>7. [s EXCEPT !.mode = "text"] = s
    BY DEF Hearers
<1>8. /\ n = 0 => Pending(s, p) = [s EXCEPT !.mode = "text"]
      /\ n = 1 => Pending(s, p) = [s EXCEPT !.mode = "iac"]
      /\ n = 2 => Pending(s, p) = [s EXCEPT !.mode = z]
      /\ n >= 3 => Pending(s, p) = [s EXCEPT !.mode = "body", !.option = w, !.body = y]
    BY <1>0, <1>1, <1>2, <1>3, <1>5, <1>6, UpToTwo
<1>9. /\ n = 0 => Pending(s, p) = s
      /\ n = 1 => Pending(s, p) = [s EXCEPT !.mode = "iac"]
      /\ n = 2 => Pending(s, p) = [s EXCEPT !.mode = z]
      /\ n >= 3 => Pending(s, p) = [s EXCEPT !.mode = "body", !.option = w, !.body = y]
    BY <1>7, <1>8
<1> QED
    BY <1>9 DEF n, z, w, y

\* A command that is not complete yet.
LEMMA PendingFollows ==
    ASSUME NEW c \in Seq(Bytes), Len(c) >= 1, c[1] = "IAC", NEW e, Tracks(e, c),
           e[0].mode = "text", e[0].body = <<>>, Waits(c)
    PROVE  e[Len(c)] = Pending(e[0], c)
<1>0. Len(c) \in Nat /\ e[0] \in Hearers
    BY DEF Tracks
<1>1. CASE Len(c) = 1
    <2>1. e[1] = [e[0] EXCEPT !.mode = "iac"]
        BY CommandBegins
    <2> QED
        BY <1>0, <1>1, <2>1, PendingIs, ZenonT(60)
<1>2. CASE Len(c) = 2
    <2> DEFINE m == IF c[2] \in {"SE", "AO"} THEN "lost" ELSE c[2]
    <2>0. Len(c) >= 2 /\ ~TwoByte(c[2])
        BY <1>2, SMTT(40) DEF Waits
    <2>1. e[2] = [e[0] EXCEPT !.mode = m]
        BY <2>0, CommandBegins
    <2> HIDE DEF m
    <2>2. Pending(e[0], c) = [e[0] EXCEPT !.mode = m]
        BY <1>0, <1>2, PendingIs DEF m
    <2> QED
        BY <1>2, <2>1, <2>2
<1>3. CASE Len(c) >= 3
    <2>1. c[2] = "SB" /\ SubEnds(c) = {}
        BY <1>3 DEF Waits
    <2>2. e[Len(c)] = [e[0] EXCEPT !.mode = "body", !.option = c[3], !.body = SubSeq(c, 4, Len(c))]
        <3>1. Len(c) \in 3 .. Len(c) /\ \A j \in SubEnds(c) : j >= Len(c)
            BY <1>0, <1>3, <2>1
        <3> QED
            <4>1. BodyGoes(c, e, Len(c))
                BY <1>3, <2>1, <3>1 DEF BodyGoes
            <4>2. e[Len(c)] = BodyAt(c, e, Len(c))
                BY <4>1, BodyReached, SMTT(40)
            <4> QED
                BY <4>2, Zenon DEF BodyAt
    <2> QED
        BY <1>0, <1>3, <2>2, PendingIs
<1> QED
    <2>1. Len(c) # 0 /\ (Len(c) = 0 \/ Len(c) = 1 \/ Len(c) = 2 \/ Len(c) >= 3)
        BY <1>0, UpToTwo
    <2> HIDE DEF Pending, Waits
    <2> QED
        BY <1>1, <1>2, <1>3, <2>1

\* One that is.
LEMMA AnsweredIs ==
    ASSUME NEW s \in Hearers, NEW r \in Hearers, r.line = s.line, r.lines = s.lines, r.prev = s.prev, r.sent = s.sent,
           NEW t, NEW sent, NEW c, c.sent = sent, Like(c.t, t)
    PROVE  Answers(s, c, Answered(r, t, sent))
<1> DEFINE a == Answered(r, t, sent)
<1>1. /\ a.mode = "text" /\ a.body = <<>> /\ a.t = t /\ a.sent = r.sent \o sent
      /\ a.prev = r.prev /\ a.line = r.line /\ a.lines = r.lines
    BY DEF Answered, Hearers
<1> HIDE DEF a
<1> QED
    BY <1>1 DEF Answers, a

LEMMA AnswerFollows ==
    ASSUME NEW c \in Seq(Bytes), Len(c) >= 1, c[1] = "IAC", NEW e, Tracks(e, c),
           e[0].mode = "text", e[0].body = <<>>, NEW t \in Tels, Like(t, e[0].t),
           NEW oc, IsTwoByte(t, c, oc) \/ IsAnswer(t, c, oc) \/ IsSub(t, c, oc)
    PROVE  oc.n \in 1 .. Len(c) /\ ~oc.threw /\ Answers(e[0], oc, e[oc.n])
<1>0. Len(c) \in Nat /\ e[0] \in Hearers /\ e[0].t \in Tels /\ \A i \in 1 .. Len(c) : e[i] \in Hearers /\ c[i] \in Bytes
    <2>1. Len(c) \in Nat /\ e \in [0 .. Len(c) -> Hearers]
        BY DEF Tracks
    <2>2. e[0] \in Hearers
        BY <2>1
    <2> QED
        BY <2>1, <2>2, HearerIs
<1>1. CASE IsTwoByte(t, c, oc)
    <2>1. Len(c) >= 2 /\ TwoByte(c[2]) /\ oc.n = 2 /\ oc.t = t /\ oc.sent = <<>> /\ ~oc.threw
        BY <1>1, TookIs, SMTT(40) DEF IsTwoByte
    <2>2. e[2] = [e[0] EXCEPT !.mode = "text"]
        BY <2>1, CommandBegins
    <2>3. e[0].sent \o <<>> = e[0].sent
        BY <1>0, HearerIs, ConcatNone
    <2> QED
        BY <1>0, <2>1, <2>2, <2>3 DEF Answers, Hearers
<1>2. CASE IsAnswer(t, c, oc)
    <2> DEFINE ea == Answer(e[0].t, c[2], c[3])
    <2>1. Len(c) >= 3 /\ c[2] \in {"WILL", "WONT", "DO", "DONT"} /\ oc = Answer(t, c[2], c[3]) /\ c[3] \in Words
        BY <1>0, <1>2, BytesAre, SMTT(40) DEF IsAnswer
    <2>2. e[3] = Answered([e[0] EXCEPT !.mode = c[2]], ea.t, ea.sent)
        BY <2>1, CommandBegins
    <2>3. oc.sent = ea.sent /\ Like(oc.t, ea.t)
        BY <1>0, <2>1, AnswersAlike
    <2>4. oc.n = 3 /\ ~oc.threw
        BY <2>1, AnswerIs
    <2> HIDE DEF ea
    <2> DEFINE r == [e[0] EXCEPT !.mode = c[2]]
    <2>5. r \in Hearers /\ r.line = e[0].line /\ r.lines = e[0].lines /\ r.prev = e[0].prev /\ r.sent = e[0].sent
        BY <1>0, <2>1 DEF Hearers, Modes
    <2> HIDE DEF r
    <2>6. Answers(e[0], oc, Answered(r, ea.t, ea.sent))
        BY <1>0, <2>3, <2>5, AnsweredIs
    <2> QED
        BY <1>0, <2>1, <2>2, <2>4, <2>6 DEF r
<1>3. CASE IsSub(t, c, oc)
    <2>1. PICK end \in SubEnds(c) :
             /\ \A j \in SubEnds(c) : end <= j
             /\ LET s == Subcommand(t, c[3], SubSeq(c, 4, end - 1)) IN oc = Took(end + 1, s.t, s.sent)
        BY <1>3 DEF IsSub
    <2>2. Len(c) >= 3 /\ c[2] = "SB" /\ end \in 4 .. Len(c) - 1 /\ c[end] = "IAC" /\ c[end + 1] = "SE"
        BY <1>3, <2>1 DEF IsSub, SubEnds
    <2> DEFINE body == SubSeq(c, 4, end)
               inner == SubSeq(c, 4, end - 1)
               s == Subcommand(t, c[3], inner)
               es == Subcommand(e[0].t, c[3], inner)
               r == [e[0] EXCEPT !.mode = "body", !.option = c[3], !.body = body]
    <2>3. e[end] = r
        <3>1. end \in 3 .. Len(c) /\ \A j \in SubEnds(c) : j >= end
            BY <1>0, <2>1, <2>2 DEF SubEnds
        <3> QED
            <4>1. BodyGoes(c, e, end)
                BY <2>2, <3>1 DEF BodyGoes
            <4>2. e[end] = BodyAt(c, e, end)
                BY <4>1, BodyReached, SMTT(40)
            <4> QED
                BY <4>2, Zenon DEF BodyAt
    <2>4. body \in Seq(Bytes) /\ Len(body) = end - 3 /\ body[end - 3] = "IAC" /\ SubSeq(body, 1, Len(body) - 1) = inner
        <3>1. 4 \in Nat /\ end \in Nat /\ 1 <= 4 /\ 4 <= end + 1 /\ end <= Len(c) /\ end - 1 \in Nat /\ 4 <= (end - 1) + 1 /\ end - 1 <= Len(c)
            BY <1>0, <2>2
        <3>2. body \in Seq(Bytes) /\ Len(body) = end - 4 + 1 /\ \A j \in 1 .. end - 4 + 1 : body[j] = c[4 + j - 1]
            BY <3>1, PartIs
        <3>3. inner \in Seq(Bytes) /\ Len(inner) = end - 4 /\ \A j \in 1 .. end - 4 : inner[j] = c[4 + j - 1]
            <4>1. inner \in Seq(Bytes) /\ Len(inner) = (end - 1) - 4 + 1 /\ \A j \in 1 .. (end - 1) - 4 + 1 : inner[j] = c[4 + j - 1]
                BY <3>1, PartIs
            <4>2. (end - 1) - 4 + 1 = end - 4
                BY <3>1
            <4> QED
                BY <4>1, <4>2
        <3>4. body[end - 3] = c[end]
            <4>1. end - 3 \in 1 .. end - 4 + 1 /\ 4 + (end - 3) - 1 = end
                BY <2>2, <3>1
            <4> QED
                BY <3>2, <4>1
        <3> HIDE DEF body, inner
        <3>5. /\ SubSeq(body, 1, Len(body) - 1) \in Seq(Bytes) /\ Len(SubSeq(body, 1, Len(body) - 1)) = end - 4
              /\ \A j \in 1 .. end - 4 : SubSeq(body, 1, Len(body) - 1)[j] = body[j]
            <4>1. Len(body) - 1 = end - 4 /\ end - 4 \in Nat /\ end - 4 <= Len(body) /\ 1 <= (end - 4) + 1 /\ 1 \in Nat
                BY <2>2, <3>1, <3>2
            <4>2. /\ SubSeq(body, 1, end - 4) \in Seq(Bytes) /\ Len(SubSeq(body, 1, end - 4)) = (end - 4) - 1 + 1
                  /\ \A j \in 1 .. (end - 4) - 1 + 1 : SubSeq(body, 1, end - 4)[j] = body[1 + j - 1]
                BY <3>2, <4>1, PartIs, SMTT(40)
            <4>3. (end - 4) - 1 + 1 = end - 4 /\ \A j \in 1 .. end - 4 : 1 + j - 1 = j
                BY <3>1
            <4> QED
                BY <4>1, <4>2, <4>3
        <3>6. \A j \in 1 .. end - 4 : SubSeq(body, 1, Len(body) - 1)[j] = inner[j]
            BY <3>1, <3>2, <3>3, <3>5
        <3>7. SubSeq(body, 1, Len(body) - 1) = inner
            BY <3>3, <3>5, <3>6, SeqEqual
        <3> QED
            BY <2>2, <3>1, <3>2, <3>4, <3>7, SMTT(40)
    <2> HIDE DEF body, inner
    <2>5. /\ r \in Hearers /\ r.mode = "body" /\ r.body = body /\ r.option = c[3] /\ r.t = e[0].t
          /\ r.line = e[0].line /\ r.lines = e[0].lines /\ r.prev = e[0].prev /\ r.sent = e[0].sent
        <3>1. c[3] \in Bytes
            BY <1>0, <2>2
        <3> QED
            BY <1>0, <2>4, <3>1 DEF Hearers, Modes
    <2> HIDE DEF r
    <2>6. e[end + 1] = Answered(r, es.t, es.sent)
        <3>1. e[end + 1] = Heard(e[end], c[end + 1]) /\ c[end + 1] \in Bytes
            <4>1. end + 1 \in 1 .. Len(c) /\ (end + 1) - 1 = end
                BY <1>0, <2>2
            <4> QED
                BY <1>0, <4>1 DEF Tracks
        <3>2. Len(r.body) > 0 /\ r.body[Len(r.body)] = "IAC"
            BY <2>2, <2>4, <2>5
        <3> QED
            <4>1. r.mode = "body" /\ SubSeq(r.body, 1, Len(r.body) - 1) = inner /\ es = Subcommand(r.t, r.option, inner)
                BY <2>4, <2>5
            <4> HIDE DEF es
            <4>2. Heard(r, "SE") = Answered(r, es.t, es.sent)
                BY <3>2, <4>1, BodyEnds, Zenon
            <4> QED
                BY <2>2, <2>3, <3>1, <4>2
    <2>7. oc.n = end + 1 /\ oc.t = s.t /\ oc.sent = s.sent /\ ~oc.threw
        BY <2>1, TookIs DEF inner
    <2>8. s.sent = es.sent /\ Like(s.t, es.t)
        <3>1. Like(s.t, t) /\ Like(es.t, e[0].t) /\ s.sent = es.sent
            BY <1>0, SubcommandIs
        <3> QED
            BY <3>1 DEF Like
    <2> HIDE DEF s, es
    <2>9. Answers(e[0], oc, Answered(r, es.t, es.sent))
        BY <1>0, <2>5, <2>7, <2>8, AnsweredIs
    <2> QED
        BY <1>0, <2>2, <2>6, <2>7, <2>9
<1> QED
    BY <1>1, <1>2, <1>3


-----------------------------------------------------------------------------
(***************************************************************************)
(* The buffer is read as it would be heard, up to a command that waits.    *)
(***************************************************************************)
\* g, what interpret_iacs has come to, and s, the hearer who was z before the buffer.
Matches(g, s, z) ==
    LET w == handle_whole_lines(z.prev, g.scan) IN
    /\ s \in Hearers /\ s.mode = "text" /\ s.body = <<>> /\ Like(g.t, s.t)
    /\ s.sent = z.sent \o g.sent
    /\ s.prev = w.prev /\ s.line = w.line /\ s.lines = z.lines \o w.lines

Scanning(g, i, a, b) ==
    \/ g.threw
    \/ /\ ~g.threw /\ g.rest = <<>> /\ i + g.skip <= Len(b)
       /\ Matches(g, a[i + g.skip], a[0])
    \/ /\ ~g.threw /\ g.rest # <<>> /\ g.skip = 0
       /\ \E k \in 1 .. i : /\ g.rest = SubSeq(b, k, i) /\ b[k] = "IAC" /\ Waits(SubSeq(b, k, Len(b)))
                            /\ Matches(g, a[k - 1], a[0])

LEMMA AppendLast ==
    ASSUME NEW S, NEW s \in Seq(S), NEW u \in Seq(S), NEW x \in S
    PROVE  s \o Append(u, x) = Append(s \o u, x)
<1> DEFINE p == s \o Append(u, x)
           q == Append(s \o u, x)
<1>1. Append(u, x) = u \o <<x>> /\ <<x>> \in Seq(S)
    BY AppendIsConcat
<1>2. s \o u \in Seq(S)
    BY ConcatProperties
<1>3. q = (s \o u) \o <<x>>
    BY <1>2, AppendIsConcat
<1> QED
    BY <1>1, <1>3, ConcatAssociative

\* A byte of text.
LEMMA MatchText ==
    ASSUME NEW z \in Hearers, NEW g \in Scans, NEW s, Matches(g, s, z), NEW b \in Bytes, b # "IAC"
    PROVE  Matches([g EXCEPT !.scan = Append(@, b)], Heard(s, b), z)
<1> DEFINE w == handle_whole_lines(z.prev, g.scan)
           v == handle_whole_lines(z.prev, Append(g.scan, b))
           h == [g EXCEPT !.scan = Append(@, b)]
           q == Heard(s, b)
<1>0. /\ s \in Hearers /\ s.mode = "text" /\ s.body = <<>> /\ Like(g.t, s.t) /\ s.sent = z.sent \o g.sent
      /\ s.prev = w.prev /\ s.line = w.line /\ s.lines = z.lines \o w.lines
    BY DEF Matches
<1>1. w \in Cuts /\ v = Separated(w, b)
    <2>1. z.prev \in Separators /\ g.scan \in Seq(Bytes)
        BY HearerIs, ScanIs
    <2> QED
        BY <2>1, LineMore
<1>2. h.scan = Append(g.scan, b) /\ h.t = g.t /\ h.sent = g.sent
    BY DEF Scans
<1>3. q = Typed(s, b)
    BY <1>0, TextHeard
<1>4. q \in Hearers
    BY <1>0, HeardIn
<1>5. z.lines \in Seq(Seq(Bytes)) /\ w.lines \in Seq(Seq(Bytes)) /\ w.line \in Seq(Bytes)
    BY <1>1, HearerIs DEF Cuts
<1>6. z.lines \o Append(w.lines, w.line) = Append(z.lines \o w.lines, w.line)
    <2>1. \A x, y \in Seq(Seq(Bytes)) : \A u \in Seq(Bytes) : x \o Append(y, u) = Append(x \o y, u)
        BY AppendLast, SMTT(40)
    <2> HIDE DEF w
    <2> QED
        BY <1>5, <2>1
<1> HIDE DEF w, v, h, q
<1>7. CASE b \notin Lines
    <2>1. q = [s EXCEPT !.line = Append(@, b)] /\ v = [w EXCEPT !.line = Append(@, b)]
        BY <1>1, <1>3, <1>7 DEF Typed, Separated
    <2>2. /\ q.mode = "text" /\ q.body = <<>> /\ q.t = s.t /\ q.sent = s.sent
          /\ q.prev = s.prev /\ q.line = Append(s.line, b) /\ q.lines = s.lines
        BY <1>0, <2>1 DEF Hearers
    <2>3. v.prev = w.prev /\ v.line = Append(w.line, b) /\ v.lines = w.lines
        BY <1>1, <2>1 DEF Cuts
    <2> QED
        BY <1>0, <1>2, <1>4, <2>2, <2>3 DEF Matches, h, v, q
<1>8. CASE b \in Lines /\ s.line = <<>> /\ s.prev = Opposite[b]
    <2>1. q = [s EXCEPT !.prev = NoByte] /\ v = [w EXCEPT !.prev = NoByte]
        BY <1>0, <1>1, <1>3, <1>8 DEF Typed, Separated
    <2>2. /\ q.mode = "text" /\ q.body = <<>> /\ q.t = s.t /\ q.sent = s.sent
          /\ q.prev = NoByte /\ q.line = s.line /\ q.lines = s.lines
        BY <1>0, <2>1 DEF Hearers
    <2>3. v.prev = NoByte /\ v.line = w.line /\ v.lines = w.lines
        BY <1>1, <2>1 DEF Cuts
    <2> QED
        BY <1>0, <1>2, <1>4, <2>2, <2>3 DEF Matches, h, v, q
<1>9. CASE b \in Lines /\ ~(s.line = <<>> /\ s.prev = Opposite[b])
    <2>1. /\ q = [s EXCEPT !.prev = b, !.line = <<>>, !.lines = Append(@, s.line)]
          /\ v = [prev |-> b, line |-> <<>>, lines |-> Append(w.lines, w.line)]
        BY <1>0, <1>1, <1>3, <1>9 DEF Typed, Separated
    <2>2. /\ q.mode = "text" /\ q.body = <<>> /\ q.t = s.t /\ q.sent = s.sent
          /\ q.prev = b /\ q.line = <<>> /\ q.lines = Append(s.lines, s.line)
        BY <1>0, <2>1 DEF Hearers
    <2>3. v.prev = b /\ v.line = <<>> /\ v.lines = Append(w.lines, w.line)
        BY <2>1
    <2> QED
        BY <1>0, <1>2, <1>4, <1>6, <2>2, <2>3 DEF Matches, h, v, q
<1> QED
    BY <1>7, <1>8, <1>9 DEF h, q

\* What became of a byte without any text.
LEMMA MatchSame ==
    ASSUME NEW g, NEW h, h.t = g.t, h.scan = g.scan, h.sent = g.sent, NEW s, NEW z, Matches(g, s, z)
    PROVE  Matches(h, s, z)
    BY DEF Matches

\* A command that was answered.
LEMMA MatchCommand ==
    ASSUME NEW z \in Hearers, NEW g \in Scans, NEW s, Matches(g, s, z), NEW c, c.sent \in Seq(Words), NEW n,
           NEW q \in Hearers, Answers(s, c, q)
    PROVE  Matches([g EXCEPT !.t = c.t, !.skip = n, !.sent = @ \o c.sent], q, z)
<1> DEFINE h == [g EXCEPT !.t = c.t, !.skip = n, !.sent = @ \o c.sent]
           w == handle_whole_lines(z.prev, g.scan)
<1>1. h.scan = g.scan /\ h.t = c.t /\ h.sent = g.sent \o c.sent
    BY DEF Scans
<1>2. z.sent \in Seq(Words) /\ g.sent \in Seq(Words)
    BY HearerIs, ScanIs
<1>3. (z.sent \o g.sent) \o c.sent = z.sent \o (g.sent \o c.sent)
    <2>1. \A x, y, u \in Seq(Words) : (x \o y) \o u = x \o (y \o u)
        BY ConcatAssociative, SMTT(40)
    <2> QED
        BY <1>2, <2>1
<1>4. s.sent = z.sent \o g.sent /\ s.prev = w.prev /\ s.line = w.line /\ s.lines = z.lines \o w.lines
    BY DEF Matches
<1>5. /\ q.mode = "text" /\ q.body = <<>> /\ Like(c.t, q.t) /\ q.sent = s.sent \o c.sent
      /\ q.prev = s.prev /\ q.line = s.line /\ q.lines = s.lines
    BY DEF Answers
<1> HIDE DEF h
<1> QED
    BY <1>1, <1>3, <1>4, <1>5 DEF Matches, h

LEMMA FollowsFrom ==
    ASSUME NEW b \in Seq(Bytes), NEW a, Tracks(a, b), NEW i \in 1 .. Len(b)
    PROVE  Tracks([j \in 0 .. Len(b) - i + 1 |-> a[i - 1 + j]], SubSeq(b, i, Len(b)))
<1> DEFINE c == SubSeq(b, i, Len(b))
           e == [j \in 0 .. Len(b) - i + 1 |-> a[i - 1 + j]]
<1>1. c \in Seq(Bytes) /\ Len(c) = Len(b) - i + 1 /\ \A j \in 1 .. Len(b) - i + 1 : c[j] = b[i + j - 1]
    BY FrontIs
<1>2. Len(b) \in Nat /\ a \in [0 .. Len(b) -> Hearers] /\ \A j \in 1 .. Len(b) : a[j] = Heard(a[j - 1], b[j])
    BY DEF Tracks
<1> HIDE DEF c
<1>3. e \in [0 .. Len(b) - i + 1 -> Hearers]
    BY <1>2
<1>4. \A j \in 1 .. Len(b) - i + 1 : e[j] = Heard(e[j - 1], c[j])
    <2> SUFFICES ASSUME NEW j \in 1 .. Len(b) - i + 1
                 PROVE  e[j] = Heard(e[j - 1], c[j])
        OBVIOUS
    <2>1. /\ j \in 0 .. Len(b) - i + 1 /\ j - 1 \in 0 .. Len(b) - i + 1 /\ i + j - 1 \in 1 .. Len(b)
          /\ i - 1 + j = i + j - 1 /\ i - 1 + (j - 1) = (i + j - 1) - 1
        BY <1>2
    <2>2. e[j] = a[i + j - 1] /\ e[j - 1] = a[(i + j - 1) - 1]
        BY <2>1
    <2>3. a[i + j - 1] = Heard(a[(i + j - 1) - 1], b[i + j - 1])
        BY <1>2, <2>1
    <2> QED
        BY <1>1, <2>2, <2>3
<1> HIDE DEF e
<1>5. Tracks(e, c)
    BY <1>1, <1>3, <1>4 DEF Tracks
<1> QED
    BY <1>5 DEF e, c


\* The bytes that are no command's first.
LEMMA ScannedPlain ==
    ASSUME NEW b, NEW s, NEW i
    PROVE  /\ s.threw => Scanned(b, s, i) = s
           /\ ~s.threw /\ s.skip > 0 => Scanned(b, s, i) = [s EXCEPT !.skip = @ - 1]
           /\ ~s.threw /\ ~(s.skip > 0) /\ s.rest # <<>> => Scanned(b, s, i) = [s EXCEPT !.rest = Append(@, b[i])]
           /\ ~s.threw /\ ~(s.skip > 0) /\ s.rest = <<>> /\ b[i] # "IAC" =>
                 Scanned(b, s, i) = [s EXCEPT !.scan = Append(@, b[i])]
    BY DEF Scanned

\* Where a command begins.
LEMMA ScanCommand ==
    ASSUME NEW b \in Seq(Bytes), NEW a, Tracks(a, b), NEW g \in Scans, NEW i \in 1 .. Len(b), b[i] = "IAC",
           ~g.threw, g.rest = <<>>, g.skip = 0, Matches(g, a[i - 1], a[0])
    PROVE  Scanning(Scanned(b, g, i), i, a, b)
<1> DEFINE L == Len(b)
           c == SubSeq(b, i, L)
           oc == on_command(g.t, c)
           e == [j \in 0 .. L - i + 1 |-> a[i - 1 + j]]
           h == Scanned(b, g, i)
<1>1. c \in Seq(Bytes) /\ Len(c) = L - i + 1 /\ c[1] = "IAC" /\ Len(c) >= 1
    BY FrontIs
<1>2. Tracks(e, c) /\ \A j \in 0 .. L - i + 1 : e[j] = a[i - 1 + j]
    BY FollowsFrom
<1>3. L \in Nat /\ e[0] = a[i - 1] /\ a[0] \in Hearers /\ a \in [0 .. L -> Hearers]
    <2>1. 0 \in 0 .. L - i + 1 /\ i - 1 + 0 = i - 1
        OBVIOUS
    <2> QED
        BY <1>2, <2>1 DEF Tracks
<1>4. e[0] \in Hearers /\ e[0].mode = "text" /\ e[0].body = <<>> /\ Like(g.t, e[0].t) /\ g.t \in Tels
    BY <1>3, ScanIs DEF Matches
<1>5. /\ oc.threw => h = [g EXCEPT !.threw = TRUE]
      /\ ~oc.threw /\ oc.n = 0 => h = [g EXCEPT !.rest = <<b[i]>>]
      /\ ~oc.threw /\ oc.n # 0 => h = [g EXCEPT !.t = oc.t, !.skip = oc.n - 1, !.sent = @ \o oc.sent]
    <2>1. ~(g.skip > 0)
        OBVIOUS
    <2> QED
        BY <2>1 DEF Scanned
<1>6. \/ Waits(c) /\ oc = Awaits(g.t)
      \/ oc = [Awaits(g.t) EXCEPT !.threw = TRUE]
      \/ IsTwoByte(g.t, c, oc) \/ IsAnswer(g.t, c, oc) \/ IsSub(g.t, c, oc)
    BY <1>1, CommandCases
<1>7. oc.sent \in Seq(Words)
    BY <1>1, <1>4, CommandIs
<1> HIDE DEF oc, h, e, c, L
<1>8. CASE Waits(c) /\ oc = Awaits(g.t)
    <2>1. oc.n = 0 /\ ~oc.threw
        BY <1>8 DEF Awaits, Took
    <2>2. h = [g EXCEPT !.rest = <<b[i]>>]
        BY <1>5, <2>1
    <2>3. h.threw = g.threw /\ h.rest = <<b[i]>> /\ h.skip = 0 /\ h.t = g.t /\ h.scan = g.scan /\ h.sent = g.sent
        BY <2>2 DEF Scans
    <2>4. h.rest = SubSeq(b, i, i) /\ h.rest # <<>>
        <3>0. i \in Nat /\ i - 1 \in Int /\ i \in Int /\ i - 1 < i /\ 1 <= i /\ i <= i /\ i <= Len(b)
            BY DEF L
        <3>1. SubSeq(b, i, i) = <<b[i]>>
            <4>1. Append(SubSeq(b, i, i - 1), b[i]) = SubSeq(b, i, i)
                BY <3>0, PartMore
            <4>2. SubSeq(b, i, i - 1) = <<>>
                <5>1. \A m, n \in Int : n < m => SubSeq(b, m, n) = <<>>
                    BY SubSeqEmpty
                <5> QED
                    BY <3>0, <5>1
            <4>3. Append(<<>>, b[i]) = <<b[i]>>
                OBVIOUS
            <4> QED
                BY <4>1, <4>2, <4>3
        <3> QED
            BY <2>3, <3>1
    <2>5. Matches(h, a[i - 1], a[0])
        BY <2>3, MatchSame
    <2>6. i \in 1 .. i
        BY DEF L
    <2> QED
        BY <1>8, <2>3, <2>4, <2>5, <2>6 DEF Scanning, h, c, L
<1>9. CASE oc = [Awaits(g.t) EXCEPT !.threw = TRUE]
    <2>1. oc.threw
        BY <1>9 DEF Awaits, Took
    <2>2. h.threw
        BY <1>5, <2>1 DEF Scans
    <2> QED
        BY <2>2 DEF Scanning, h
<1>10. CASE IsTwoByte(g.t, c, oc) \/ IsAnswer(g.t, c, oc) \/ IsSub(g.t, c, oc)
    <2>1. oc.n \in 1 .. Len(c) /\ ~oc.threw /\ Answers(e[0], oc, e[oc.n])
        BY <1>1, <1>2, <1>4, <1>10, AnswerFollows
    <2>2. oc.n \in 1 .. L - i + 1 /\ oc.n # 0 /\ i \in 1 .. L
        BY <1>1, <2>1 DEF L
    <2>3. h = [g EXCEPT !.t = oc.t, !.skip = oc.n - 1, !.sent = @ \o oc.sent]
        BY <1>5, <2>1, <2>2
    <2>4. h.threw = g.threw /\ h.rest = g.rest /\ h.skip = oc.n - 1
        BY <2>3 DEF Scans
    <2>5. /\ i + (oc.n - 1) <= L /\ i + (oc.n - 1) \in 0 .. L
          /\ oc.n \in 0 .. L - i + 1 /\ i - 1 + oc.n = i + (oc.n - 1)
        <3>1. \A n \in 1 .. L - i + 1 : /\ i + (n - 1) <= L /\ i + (n - 1) \in 0 .. L
                                         /\ n \in 0 .. L - i + 1 /\ i - 1 + n = i + (n - 1)
            BY <1>3, <2>2, SMTT(40)
        <3> QED
            BY <2>2, <3>1
    <2>6. e[oc.n] = a[i + (oc.n - 1)] /\ e[oc.n] \in Hearers
        BY <1>2, <1>3, <2>5
    <2>7. Answers(a[i - 1], oc, e[oc.n])
        BY <1>3, <2>1
    <2>8. Matches(h, e[oc.n], a[0])
        BY <1>3, <1>7, <2>3, <2>6, <2>7, MatchCommand
    <2> QED
        BY <2>4, <2>5, <2>6, <2>8 DEF Scanning, h, L
<1> QED
    BY <1>6, <1>8, <1>9, <1>10

LEMMA ScanStep ==
    ASSUME NEW b \in Seq(Bytes), NEW a, Tracks(a, b), NEW g \in Scans, NEW i \in 1 .. Len(b), Scanning(g, i - 1, a, b)
    PROVE  Scanning(Scanned(b, g, i), i, a, b)
<1> DEFINE L == Len(b)
           h == Scanned(b, g, i)
<1>0. /\ L \in Nat /\ a \in [0 .. L -> Hearers] /\ a[0] \in Hearers /\ b[i] \in Bytes
      /\ \A j \in 1 .. L : a[j] = Heard(a[j - 1], b[j])
    BY DEF Tracks
<1>1. CASE g.threw
    <2>1. h = g
        BY <1>1, ScannedPlain
    <2> QED
        BY <1>1, <2>1 DEF Scanning
<1>2. CASE ~g.threw /\ g.rest = <<>> /\ g.skip > 0
    <2>1. h = [g EXCEPT !.skip = @ - 1]
        BY <1>2, ScannedPlain
    <2>2. h.threw = g.threw /\ h.rest = <<>> /\ h.skip = g.skip - 1 /\ h.t = g.t /\ h.scan = g.scan /\ h.sent = g.sent
        BY <1>2, <2>1 DEF Scans
    <2>3. (i - 1) + g.skip <= L /\ Matches(g, a[(i - 1) + g.skip], a[0])
        BY <1>2 DEF Scanning
    <2>4. (i - 1) + g.skip = i + h.skip
        BY <2>2, ScanIs
    <2>5. Matches(h, a[i + h.skip], a[0])
        BY <2>2, <2>3, <2>4, MatchSame
    <2> HIDE DEF h
    <2> QED
        BY <1>2, <2>2, <2>3, <2>4, <2>5 DEF Scanning, h
<1>3. CASE ~g.threw /\ g.rest # <<>>
    <2>1. PICK k \in 1 .. i - 1 :
             /\ g.rest = SubSeq(b, k, i - 1) /\ b[k] = "IAC" /\ Waits(SubSeq(b, k, L)) /\ Matches(g, a[k - 1], a[0])
        BY <1>3 DEF Scanning
    <2>2. g.skip = 0 /\ ~(g.skip > 0)
        BY <1>3 DEF Scanning
    <2>3. h = [g EXCEPT !.rest = Append(@, b[i])]
        BY <1>3, <2>2, ScannedPlain
    <2>4. h.threw = g.threw /\ h.rest = Append(g.rest, b[i]) /\ h.skip = 0 /\ h.t = g.t /\ h.scan = g.scan /\ h.sent = g.sent
        BY <2>2, <2>3 DEF Scans
    <2>5. Append(SubSeq(b, k, i - 1), b[i]) = SubSeq(b, k, i)
        <3>1. k \in Nat /\ i \in Nat /\ 1 <= k /\ k <= i /\ i <= Len(b)
            BY <1>0
        <3> QED
            BY <3>1, PartMore
    <2>6. h.rest # <<>>
        <3>1. g.rest \in Seq(Bytes)
            BY ScanIs
        <3>2. \A x \in Seq(Bytes) : \A y \in Bytes : Append(x, y) # <<>>
            BY AppendProperties
        <3> HIDE DEF h
        <3> QED
            BY <1>0, <2>4, <3>1, <3>2
    <2>7. Matches(h, a[k - 1], a[0])
        BY <2>1, <2>4, MatchSame
    <2>8. k \in 1 .. i
        BY <1>0
    <2> HIDE DEF h
    <2> QED
        BY <1>3, <2>1, <2>4, <2>5, <2>6, <2>7, <2>8 DEF Scanning, h
<1>4. CASE ~g.threw /\ g.rest = <<>> /\ ~(g.skip > 0)
    <2>1. g.skip = 0
        BY <1>4, ScanIs
    <2>2. (i - 1) + g.skip = i - 1 /\ Matches(g, a[i - 1], a[0])
        <3>1. (i - 1) + g.skip = i - 1
            BY <2>1
        <3> QED
            BY <1>4, <3>1 DEF Scanning
    <2>3. CASE b[i] = "IAC"
        BY <1>4, <2>1, <2>2, <2>3, ScanCommand
    <2>4. CASE b[i] # "IAC"
        <3>1. h = [g EXCEPT !.scan = Append(@, b[i])]
            BY <1>4, <2>4, ScannedPlain
        <3>2. h.threw = g.threw /\ h.rest = <<>> /\ h.skip = 0
            BY <1>4, <2>1, <3>1 DEF Scans
        <3>3. a[i] = Heard(a[i - 1], b[i])
            BY <1>0
        <3>4. Matches([g EXCEPT !.scan = Append(@, b[i])], Heard(a[i - 1], b[i]), a[0])
            BY <1>0, <2>2, <2>4, MatchText
        <3>5. Matches(h, a[i], a[0])
            BY <3>1, <3>3, <3>4
        <3>6. i + h.skip = i /\ i <= L
            BY <1>0, <3>2
        <3> HIDE DEF h
        <3> QED
            BY <1>4, <3>2, <3>5, <3>6 DEF Scanning, h
    <2> QED
        BY <2>3, <2>4
<1> QED
    BY <1>1, <1>2, <1>3, <1>4

\* What interpret_iacs and handle_whole_lines leave is what the hearer has come to.
LEMMA ScanHears ==
    ASSUME NEW b \in Seq(Bytes), NEW a, Tracks(a, b), NEW t \in Tels, Like(t, a[0].t),
           a[0].mode = "text", a[0].body = <<>>, a[0].line = <<>>,
           NEW g, g = interpret_iacs(t, b)
    PROVE  /\ g \in Scans
           /\ \/ g.threw
              \/ /\ ~g.threw
                 /\ \E s \in Hearers :
                      /\ Matches(g, s, a[0]) /\ a[Len(b)] = Pending(s, g.rest)
                      /\ g.rest = <<>> \/ (g.rest[1] = "IAC" /\ Waits(g.rest))
<1> DEFINE L == Len(b)
<1>0. L \in Nat /\ a \in [0 .. L -> Hearers] /\ a[0] \in Hearers /\ L \in 0 .. L
    BY DEF Tracks
<1>1. PICK r : ScanWalk(r, t, b)
    BY ScanWalks
<1>2. /\ r \in [0 .. L -> Scans] /\ r[0] = NoScan(t) /\ r[L] = g
      /\ \A i \in 1 .. L : r[i] = Scanned(b, r[i - 1], i)
    BY <1>1 DEF ScanWalk
<1> HIDE DEF L
<1> DEFINE T == {i \in 0 .. L : Scanning(r[i], i, a, b)}
<1>3. 0 \in T
    <2>1. /\ NoScan(t).t = t /\ NoScan(t).scan = <<>> /\ NoScan(t).rest = <<>> /\ NoScan(t).skip = 0
          /\ NoScan(t).sent = <<>> /\ NoScan(t).threw = FALSE
        BY DEF NoScan
    <2>2. handle_whole_lines(a[0].prev, <<>>) = NoCut(a[0].prev)
        BY <1>0, HearerIs, LineNone
    <2>3. NoCut(a[0].prev).prev = a[0].prev /\ NoCut(a[0].prev).line = <<>> /\ NoCut(a[0].prev).lines = <<>>
        BY DEF NoCut
    <2>4. a[0].sent \o <<>> = a[0].sent /\ a[0].lines \o <<>> = a[0].lines
        <3>1. a[0].sent \in Seq(Words) /\ a[0].lines \in Seq(Seq(Bytes))
            BY <1>0, HearerIs
        <3>2. \A x \in Seq(Words) : x \o <<>> = x
            BY ConcatNone
        <3>3. \A x \in Seq(Seq(Bytes)) : x \o <<>> = x
            BY ConcatNone
        <3> QED
            BY <3>1, <3>2, <3>3
    <2>5. Matches(NoScan(t), a[0], a[0])
        BY <1>0, <2>1, <2>2, <2>3, <2>4 DEF Matches
    <2>6. 0 + NoScan(t).skip = 0 /\ 0 <= Len(b) /\ 0 \in 0 .. L
        BY <1>0, <2>1 DEF L
    <2> QED
        BY <1>2, <2>1, <2>5, <2>6 DEF Scanning
<1>4. ASSUME NEW i \in 1 .. L, i - 1 \in T
      PROVE  i \in T
    <2>1. i \in 0 .. L /\ i - 1 \in 0 .. L /\ i \in 1 .. Len(b)
        BY <1>0 DEF L
    <2>2. r[i - 1] \in Scans /\ Scanning(r[i - 1], i - 1, a, b) /\ r[i] = Scanned(b, r[i - 1], i)
        BY <1>2, <1>4, <2>1
    <2>3. Scanning(r[i], i, a, b)
        BY <2>1, <2>2, ScanStep
    <2> QED
        BY <2>1, <2>3
<1> HIDE DEF T
<1>5. 0 .. L \subseteq T
    BY <1>0, <1>3, <1>4, WalkKeeps
<1>6. Scanning(g, L, a, b) /\ g \in Scans
    <2>1. L \in T /\ g \in Scans
        BY <1>0, <1>2, <1>5
    <2> QED
        BY <1>2, <2>1 DEF T
<1>7. CASE ~g.threw /\ g.rest = <<>>
    <2>1. L + g.skip <= L /\ Matches(g, a[L + g.skip], a[0])
        BY <1>6, <1>7 DEF Scanning, L
    <2>2. L + g.skip = L
        BY <1>0, <1>6, <2>1, ScanIs
    <2>3. Matches(g, a[L], a[0])
        BY <2>1, <2>2
    <2>4. a[L] \in Hearers /\ a[L].mode = "text" /\ a[L].body = <<>>
        BY <2>3 DEF Matches
    <2>5. Pending(a[L], <<>>) = a[L]
        <3>1. <<>> \in Seq(Bytes) /\ Len(<<>>) = 0
            OBVIOUS
        <3> QED
            BY <2>4, <3>1, PendingIs
    <2> QED
        BY <1>6, <1>7, <2>3, <2>4, <2>5 DEF L
<1>8. CASE ~g.threw /\ g.rest # <<>>
    <2>1. PICK k \in 1 .. L : /\ g.rest = SubSeq(b, k, L) /\ b[k] = "IAC" /\ Waits(SubSeq(b, k, L))
                              /\ Matches(g, a[k - 1], a[0])
        BY <1>6, <1>8 DEF Scanning, L
    <2> DEFINE c == SubSeq(b, k, L)
               e == [j \in 0 .. L - k + 1 |-> a[k - 1 + j]]
    <2>2. c \in Seq(Bytes) /\ Len(c) = L - k + 1 /\ c[1] = b[k] /\ Len(c) >= 1
        BY FrontIs DEF L
    <2>3. Tracks(e, c) /\ \A j \in 0 .. L - k + 1 : e[j] = a[k - 1 + j]
        BY FollowsFrom DEF L
    <2>4. e[0] = a[k - 1] /\ e[Len(c)] = a[L]
        <3>1. 0 \in 0 .. L - k + 1 /\ k - 1 + 0 = k - 1 /\ L - k + 1 \in 0 .. L - k + 1 /\ k - 1 + (L - k + 1) = L
            BY <1>0
        <3> QED
            BY <2>2, <2>3, <3>1
    <2> HIDE DEF c, e
    <2>5. e[0].mode = "text" /\ e[0].body = <<>> /\ e[0] \in Hearers
        BY <2>1, <2>4 DEF Matches
    <2>6. e[Len(c)] = Pending(e[0], c)
        BY <2>1, <2>2, <2>3, <2>5, PendingFollows DEF c
    <2> QED
        BY <1>6, <1>8, <2>1, <2>2, <2>4, <2>5, <2>6 DEF c, L
<1>9. g.threw \in BOOLEAN
    BY <1>6, ScanIs
<1> QED
    BY <1>6, <1>7, <1>8, <1>9


-----------------------------------------------------------------------------
(***************************************************************************)
(* One read.  The buffer holds an unfinished line and a command that       *)
(* waits; hearing it again leads to where the hearer was.                  *)
(***************************************************************************)
\* Nothing, or a command that is not complete.
Waiting(p) == p = <<>> \/ (p[1] = "IAC" /\ Waits(p))

\* The buffer that m and p leave, with what is read next.
Buffered(m, p, data) == (m.line \o p) \o data

\* Without the line that is being typed.
Unlined(m) == [m EXCEPT !.line = <<>>]

\* s stands in b, after the first n.
Stands(b, n, s) == Len(b) >= n + Len(s) /\ \A j \in 1 .. Len(s) : b[n + j] = s[j]

\* s is the end of b, after the first n.
Ending(b, n, s) == Len(b) = n + Len(s) /\ Stands(b, n, s)

\* Where the walk a is after n, ByteAtATime has come to.
Past(a, n, heard) == a[n] = ByteAtATime(heard)

\* What is heard: bytes, and when the MUD sets the echo.
Hearings == Bytes \cup Marks

\* The parser keeps what s still needs.
Retains(t, s, lines, said) ==
    \E m \in Hearers : \E p \in Seq(Bytes) :
        /\ m.mode = "text" /\ m.body = <<>> /\ s = Pending(m, p)
        /\ Waiting(p)
        /\ t.buffer = m.line \o p /\ t.prev = m.prev /\ Like(t, m.t)
        /\ lines = m.lines /\ said = m.sent

Agrees(c) ==
    /\ c.tel \in Tels /\ c.heard \in Seq(Bytes \cup Marks)
    /\ Retains(c.tel, ByteAtATime(c.heard), c.lines, c.said)

LEMMA HearWalks ==
    ASSUME NEW h \in Seq(Bytes), NEW z \in Hearers
    PROVE  \E a : Tracks(a, h) /\ a[0] = z
<1> DEFINE n == Len(h)
           G == [p \in (1 .. n) \X Hearers |-> Heard(p[2], h[p[1]])]
<1>1. n \in Nat /\ \A i \in 1 .. n : h[i] \in Bytes \cup Marks
    OBVIOUS
<1>2. \A i \in 1 .. n : \A x \in Hearers : G[<<i, x>>] = Heard(x, h[i])
    OBVIOUS
<1> HIDE DEF G, n
<1>3. Within(G, 1 .. n, Hearers)
    BY <1>1, <1>2, HeardIn DEF Within
<1>4. PICK g : ListFolded(g, n, z, G) /\ \A s \in SUBSET (1 .. n) : g[s] \in Hearers
    BY <1>1, <1>3, ListExists
<1>5. ListFolds(g, n, Hearers, z, G)
    <2>1. /\ {} \in SUBSET (1 .. n)
          /\ \A s \in SUBSET (1 .. n) : g[s] = IF s = {} THEN z ELSE G[<<Max(s), g[s \ {Max(s)}]>>]
        BY <1>4 DEF ListFolded
    <2> QED
        BY <2>1 DEF ListFolds
<1>6. PICK a : Walk_(a, n, Hearers, z, G)
    BY <1>1, <1>3, <1>5, ListWalks
<1>7. a \in [0 .. n -> Hearers] /\ a[0] = z /\ \A i \in 1 .. n : a[i] = G[<<i, a[i - 1]>>]
    BY <1>6 DEF Walk_
<1>8. \A i \in 1 .. n : a[i - 1] \in Hearers
    BY <1>1, <1>7
<1>9. \A i \in 1 .. n : a[i] = Heard(a[i - 1], h[i])
    BY <1>2, <1>7, <1>8
<1> QED
    BY <1>7, <1>9 DEF Tracks, n

\* An unfinished line, heard again.
LEMMA LineAgain ==
    ASSUME NEW m \in Hearers, m.mode = "text", NEW b \in Seq(Bytes), Stands(b, 0, m.line),
           NEW a, Tracks(a, b), a[0] = Unlined(m)
    PROVE  a[Len(m.line)] = m
<1> DEFINE x == m.line
           n == Len(m.line)
           U(j) == SubSeq(x, 1, j)
           T == {j \in 0 .. n : a[j] = [m EXCEPT !.line = U(j)]}
<1>1. x \in Seq(Textual) /\ n \in Nat /\ \A j \in 1 .. n : x[j] \in Textual
    BY HearerIs
<1>2. U(0) = <<>> /\ U(n) = x
    <2>1. \A i, j \in Int : j < i => SubSeq(x, i, j) = <<>>
        BY SubSeqEmpty
    <2>2. 0 \in Int /\ 1 \in Int /\ 0 < 1
        OBVIOUS
    <2>3. U(n) = x
        BY <1>1, SubSeqFull
    <2> QED
        BY <2>1, <2>2, <2>3
<1>3. \A j \in 1 .. n : U(j - 1) \in Seq(Textual) /\ Append(U(j - 1), x[j]) = U(j)
    <2> SUFFICES ASSUME NEW j \in 1 .. n
                 PROVE  U(j - 1) \in Seq(Textual) /\ Append(U(j - 1), x[j]) = U(j)
        OBVIOUS
    <2>1. j \in Nat /\ 1 \in Nat /\ 1 <= 1 /\ 1 <= j /\ j <= Len(x) /\ j - 1 \in Nat /\ 1 <= (j - 1) + 1 /\ j - 1 <= Len(x)
        BY <1>1
    <2> QED
        BY <1>1, <2>1, PartIs, PartMore
<1>4. \A j \in 1 .. n : a[j] = Heard(a[j - 1], x[j])
    <2>1. \A j \in 1 .. n : j \in 1 .. Len(b) /\ b[j] = x[j]
        BY <1>1 DEF Stands
    <2> QED
        BY <2>1 DEF Tracks
<1> HIDE DEF x, U
<1>5. 0 \in T
    BY <1>1, <1>2 DEF Unlined
<1>6. ASSUME NEW j \in 1 .. n, j - 1 \in T
      PROVE  j \in T
    <2>1. a[j - 1] = [m EXCEPT !.line = U(j - 1)]
        BY <1>6
    <2>2. a[j - 1].mode = "text" /\ a[j - 1].line = U(j - 1)
        BY <2>1 DEF Hearers
    <2>3. x[j] \in Bytes /\ x[j] # "IAC" /\ x[j] \notin Lines
        BY <1>1 DEF Textual
    <2>4. a[j] = [a[j - 1] EXCEPT !.line = Append(@, x[j])]
        BY <1>4, <2>2, <2>3, TextHeard, ZenonT(60) DEF Typed
    <2>5. a[j] = [a[j - 1] EXCEPT !.line = U(j)]
        BY <1>3, <2>2, <2>4
    <2>6. a[j] = [m EXCEPT !.line = U(j)]
        BY <2>1, <2>5 DEF Hearers
    <2>7. j \in 0 .. n
        BY <1>1
    <2> QED
        BY <2>6, <2>7
<1> HIDE DEF T, n
<1>7. 0 .. n \subseteq T
    BY <1>1, <1>5, <1>6, WalkKeeps
<1>8. a[n] = [m EXCEPT !.line = x]
    BY <1>1, <1>2, <1>7 DEF T
<1>9. [m EXCEPT !.line = m.line] = m
    BY DEF Hearers
<1> QED
    BY <1>8, <1>9 DEF n, x

LEMMA StandsIs ==
    ASSUME NEW b, NEW n, NEW s
    PROVE  Stands(b, n, s) <=> Len(b) >= n + Len(s) /\ \A j \in 1 .. Len(s) : b[n + j] = s[j]
    BY Zenon DEF Stands

\* A command that waits, heard again.
LEMMA PendingAgain ==
    ASSUME NEW p \in Seq(Bytes), Waiting(p),
           NEW b \in Seq(Bytes), NEW n \in Nat, Stands(b, n, p),
           NEW a, Tracks(a, b), a[n].mode = "text", a[n].body = <<>>
    PROVE  a[n + Len(p)] = Pending(a[n], p)
<1> DEFINE q == Len(p)
           e == [j \in 0 .. q |-> a[n + j]]
<1>0. Len(b) >= n + q /\ \A j \in 1 .. q : b[n + j] = p[j]
    BY StandsIs
<1>1. q \in Nat /\ a \in [0 .. Len(b) -> Hearers] /\ \A j \in 1 .. Len(b) : a[j] = Heard(a[j - 1], b[j])
    <2>1. q \in Nat
        OBVIOUS
    <2>2. a \in [0 .. Len(b) -> Hearers] /\ \A j \in 1 .. Len(b) : a[j] = Heard(a[j - 1], b[j])
        BY Zenon DEF Tracks
    <2> QED
        BY <2>1, <2>2
<1>2. \A j \in 0 .. q : n + j \in 0 .. Len(b)
    BY <1>0, <1>1
<1>3. CASE p = <<>>
    <2>1. q = 0 /\ n + q = n /\ a[n] \in Hearers
        <3>1. q = 0
            BY <1>3
        <3>2. 0 \in 0 .. q /\ n + 0 = n
            BY <3>1
        <3> QED
            BY <1>1, <1>2, <3>1, <3>2
    <2> QED
        <3>1. <<>> \in Seq(Bytes) /\ Len(<<>>) = 0
            OBVIOUS
        <3>2. Pending(a[n], <<>>) = a[n]
            BY <2>1, <3>1, PendingIs
        <3> QED
            BY <1>3, <2>1, <3>2
<1>4. CASE p # <<>>
    <2>1. q >= 1
        BY <1>4
    <2>2. e \in [0 .. q -> Hearers] /\ \A j \in 0 .. q : e[j] = a[n + j]
        BY <1>1, <1>2
    <2> HIDE DEF e
    <2>3. \A j \in 1 .. q : e[j] = Heard(e[j - 1], p[j])
        <3> SUFFICES ASSUME NEW j \in 1 .. q
                     PROVE  e[j] = Heard(e[j - 1], p[j])
            OBVIOUS
        <3>1. j \in 0 .. q /\ j - 1 \in 0 .. q /\ n + j \in 1 .. Len(b) /\ n + (j - 1) = (n + j) - 1
            BY <1>0, <1>1, <1>2
        <3> QED
            BY <1>0, <1>1, <2>2, <3>1
    <2>4. Tracks(e, p)
        BY <2>2, <2>3 DEF Tracks
    <2>5. 0 \in 0 .. q /\ q \in 0 .. q /\ n + 0 = n
        BY <1>1
    <2>6. e[0] = a[n] /\ e[q] = a[n + q]
        BY <2>2, <2>5
    <2>7. e[q] = Pending(e[0], p)
        BY <1>4, <2>1, <2>4, <2>6, PendingFollows DEF Waiting
    <2> QED
        BY <2>6, <2>7
<1> QED
    BY <1>3, <1>4

\* What is new, as ByteAtATime hears it.
LEMMA NewAfter ==
    ASSUME NEW heard \in Seq(Hearings), NEW data \in Seq(Bytes),
           NEW b \in Seq(Bytes), NEW n \in Nat, Ending(b, n, data), NEW a, Tracks(a, b), Past(a, n, heard)
    PROVE  /\ heard \o data \in Seq(Hearings)
           /\ a[Len(b)] = ByteAtATime(heard \o data)
<1> DEFINE d == Len(data)
           S == Hearings
           U(j) == SubSeq(data, 1, j)
           T == {j \in 0 .. d : a[n + j] = ByteAtATime(heard \o U(j))}
<1>0. Len(b) = n + d /\ Stands(b, n, data) /\ a[n] = ByteAtATime(heard)
    BY DEF Ending, Past
<1>1. d \in Nat /\ \A j \in 1 .. Len(b) : a[j] = Heard(a[j - 1], b[j])
    BY DEF Tracks
<1>2. data \in Seq(S) /\ heard \o data \in Seq(S)
    <2>1. data \in Seq(S)
        BY SeqMonotonic DEF Hearings
    <2> HIDE DEF S
    <2> QED
        BY <2>1, ConcatProperties DEF S
<1>3. U(0) = <<>> /\ U(d) = data /\ heard \o <<>> = heard
    <2>1. \A i, j \in Int : j < i => SubSeq(data, i, j) = <<>>
        BY SubSeqEmpty
    <2>2. 0 \in Int /\ 1 \in Int /\ 0 < 1
        OBVIOUS
    <2>3. U(d) = data
        BY SubSeqFull
    <2>4. heard \o <<>> = heard
        BY ConcatEmptySeq
    <2> QED
        BY <2>1, <2>2, <2>3, <2>4
<1> HIDE DEF S
<1>4. \A j \in 1 .. d : U(j - 1) \in Seq(S) /\ Append(U(j - 1), data[j]) = U(j) /\ data[j] \in S
    <2> SUFFICES ASSUME NEW j \in 1 .. d
                 PROVE  U(j - 1) \in Seq(S) /\ Append(U(j - 1), data[j]) = U(j) /\ data[j] \in S
        OBVIOUS
    <2>1. /\ j \in Nat /\ 1 \in Nat /\ 1 <= 1 /\ 1 <= j /\ j <= Len(data) /\ j - 1 \in Nat
          /\ 1 <= (j - 1) + 1 /\ j - 1 <= Len(data)
        BY <1>1
    <2> QED
        BY <1>2, <2>1, PartIs, PartMore
<1>5. \A j \in 1 .. d : a[n + j] = Heard(a[n + (j - 1)], data[j])
    <2> SUFFICES ASSUME NEW j \in 1 .. d
                 PROVE  a[n + j] = Heard(a[n + (j - 1)], data[j])
        OBVIOUS
    <2>1. n + j \in 1 .. Len(b) /\ (n + j) - 1 = n + (j - 1)
        BY <1>0, <1>1
    <2>2. a[n + j] = Heard(a[(n + j) - 1], b[n + j])
        BY <1>1, <2>1
    <2>3. b[n + j] = data[j]
        BY <1>0 DEF Stands
    <2> QED
        BY <2>1, <2>2, <2>3
<1> HIDE DEF U
<1>6. 0 \in T
    <2>1. n + 0 = n /\ 0 \in 0 .. d
        BY <1>1
    <2> QED
        BY <1>0, <1>3, <2>1
<1>7. ASSUME NEW j \in 1 .. d, j - 1 \in T
      PROVE  j \in T
    <2>1. a[n + (j - 1)] = ByteAtATime(heard \o U(j - 1))
        BY <1>7
    <2>2. heard \in Seq(S) /\ U(j - 1) \in Seq(S) /\ data[j] \in S /\ Append(U(j - 1), data[j]) = U(j)
        BY <1>4 DEF S
    <2>3. heard \o U(j - 1) \in Seq(S)
        BY <2>2, ConcatProperties
    <2>4. heard \o U(j) = Append(heard \o U(j - 1), data[j])
        <3>1. \A x, y \in Seq(S) : \A u \in S : x \o Append(y, u) = Append(x \o y, u)
            <4> TAKE x, y \in Seq(S)
            <4> TAKE u \in S
            <4> HIDE DEF S, T, d
            <4> QED
                BY AppendLast, SMTT(40)
        <3>2. heard \o Append(U(j - 1), data[j]) = Append(heard \o U(j - 1), data[j])
            <4> HIDE DEF S
            <4> QED
                BY <2>2, <3>1
        <3> QED
            BY <2>2, <3>2
    <2>5. ByteAtATime(Append(heard \o U(j - 1), data[j])) = Heard(ByteAtATime(heard \o U(j - 1)), data[j])
        BY <2>2, <2>3, ByteMore DEF S, Hearings
    <2>6. j \in 0 .. d
        BY <1>1
    <2> QED
        BY <1>5, <2>1, <2>4, <2>5, <2>6
<1> HIDE DEF T
<1>8. 0 .. d \subseteq T
    BY <1>1, <1>6, <1>7, WalkKeeps
<1>9. a[n + d] = ByteAtATime(heard \o U(d)) /\ n + d = Len(b)
    <2>1. d \in T
        BY <1>1, <1>8
    <2> QED
        BY <1>0, <2>1 DEF T
<1>10. a[Len(b)] = ByteAtATime(heard \o data)
    BY <1>3, <1>9
<1> QED
    BY <1>2, <1>10 DEF S


LEMMA PendingKeeps ==
    ASSUME NEW s \in Hearers, NEW p
    PROVE  /\ Pending(s, p).t = s.t /\ Pending(s, p).prev = s.prev /\ Pending(s, p).line = s.line
           /\ Pending(s, p).lines = s.lines /\ Pending(s, p).sent = s.sent
<1> DEFINE m == ModeOf(p)
           o == IF Len(p) >= 3 THEN p[3] ELSE s.option
           x == IF Len(p) >= 3 THEN SubSeq(p, 4, Len(p)) ELSE <<>>
<1>1. Pending(s, p) = [s EXCEPT !.mode = m, !.option = o, !.body = x]
    BY DEF Pending
<1> HIDE DEF m, o, x
<1> QED
    BY <1>1 DEF Hearers

\* What one read makes of the text, and of the lines in it.
ReadOf(t, data) == interpret_iacs(t, t.buffer \o data)
CutOf(t, data) == handle_whole_lines(t.prev, ReadOf(t, data).scan)

LEMMA AddDataIs ==
    ASSUME NEW t, NEW data
    PROVE  /\ ReadOf(t, data).threw => add_data(t, data).threw
           /\ ~ReadOf(t, data).threw =>
                 /\ add_data(t, data).t = [ReadOf(t, data).t EXCEPT !.buffer = CutOf(t, data).line \o ReadOf(t, data).rest,
                                                                   !.prev = CutOf(t, data).prev]
                 /\ add_data(t, data).lines = CutOf(t, data).lines /\ add_data(t, data).sent = ReadOf(t, data).sent
    BY DEF add_data, ReadOf, CutOf

\* What was read before, once more, and then what is new.
\* m is in no command, and with p it is where heard leads to.
Leads(heard, m, p) == m.mode = "text" /\ m.body = <<>> /\ ByteAtATime(heard) = Pending(m, p)

LEMMA BufferAgain ==
    ASSUME NEW m \in Hearers, NEW p \in Seq(Bytes), Waiting(p),
           NEW heard \in Seq(Hearings), Leads(heard, m, p), NEW data \in Seq(Bytes)
    PROVE  /\ Buffered(m, p, data) \in Seq(Bytes) /\ heard \o data \in Seq(Hearings)
           /\ \E a : /\ Tracks(a, Buffered(m, p, data)) /\ a[0] = Unlined(m)
                     /\ a[Len(Buffered(m, p, data))] = ByteAtATime(heard \o data)
<1> DEFINE x == m.line
           n == Len(x)
           q == Len(p)
           d == Len(data)
           b == (x \o p) \o data
           z == [m EXCEPT !.line = <<>>]
<1>1. x \in Seq(Bytes) /\ n \in Nat /\ q \in Nat /\ d \in Nat
    <2>1. x \in Seq(Textual)
        BY HearerIs
    <2>2. x \in Seq(Bytes)
        BY <2>1, BytesAre, SeqMonotonic
    <2> QED
        BY <2>2, LenProperties
<1>2. z \in Hearers
    <2>1. <<>> \in Seq(Textual)
        BY BytesAre
    <2> QED
        BY <2>1 DEF Hearers
<1> HIDE DEF x, z
<1>3. x \o p \in Seq(Bytes) /\ Len(x \o p) = n + q /\ \A j \in 1 .. n + q : (x \o p)[j] = IF j <= n THEN x[j] ELSE p[j - n]
    BY <1>1, ConcatProperties
<1>4. /\ b \in Seq(Bytes) /\ Len(b) = n + q + d
      /\ \A j \in 1 .. n + q + d : b[j] = IF j <= n + q THEN (x \o p)[j] ELSE data[j - (n + q)]
    <2>1. \A y \in Seq(Bytes) : /\ y \o data \in Seq(Bytes) /\ Len(y \o data) = Len(y) + d
                                /\ \A j \in 1 .. Len(y) + d : (y \o data)[j] = IF j <= Len(y) THEN y[j] ELSE data[j - Len(y)]
        BY ConcatProperties
    <2> QED
        BY <1>3, <2>1
<1> HIDE DEF b, n, q, d
<1>5. \A j \in 1 .. n : b[j] = x[j]
    <2> SUFFICES ASSUME NEW j \in 1 .. n
                 PROVE  b[j] = x[j]
        OBVIOUS
    <2>1. j \in 1 .. n + q + d /\ j <= n + q /\ j \in 1 .. n + q /\ j <= n
        BY <1>1
    <2> QED
        BY <1>3, <1>4, <2>1
<1>6. \A j \in 1 .. q : b[n + j] = p[j]
    <2> SUFFICES ASSUME NEW j \in 1 .. q
                 PROVE  b[n + j] = p[j]
        OBVIOUS
    <2>1. n + j \in 1 .. n + q + d /\ n + j <= n + q /\ n + j \in 1 .. n + q /\ ~(n + j <= n) /\ (n + j) - n = j
        BY <1>1
    <2>2. b[n + j] = (x \o p)[n + j]
        BY <1>4, <2>1
    <2>3. (x \o p)[n + j] = p[(n + j) - n]
        BY <1>3, <2>1
    <2> QED
        BY <2>1, <2>2, <2>3
<1>7. \A j \in 1 .. d : b[(n + q) + j] = data[j]
    <2> SUFFICES ASSUME NEW j \in 1 .. d
                 PROVE  b[(n + q) + j] = data[j]
        OBVIOUS
    <2>1. (n + q) + j \in 1 .. n + q + d /\ ~((n + q) + j <= n + q) /\ ((n + q) + j) - (n + q) = j
        BY <1>1
    <2>2. b[(n + q) + j] = data[((n + q) + j) - (n + q)]
        BY <1>4, <2>1
    <2> QED
        BY <2>1, <2>2
<1>8. PICK a : Tracks(a, b) /\ a[0] = z
    BY <1>2, <1>4, HearWalks
<1>9. a[n] = m
    <2>1. Stands(b, 0, x)
        BY <1>1, <1>4, <1>5 DEF Stands, n
    <2>2. a[0] = Unlined(m)
        BY <1>8 DEF Unlined, z
    <2> QED
        BY <1>4, <1>8, <2>1, <2>2, LineAgain DEF n, x, Leads
<1>10. a[n + q] = Pending(m, p)
    <2>1. Stands(b, n, p)
        BY <1>1, <1>4, <1>6 DEF Stands, q
    <2>2. a[n + Len(p)] = Pending(a[n], p)
        BY <1>1, <1>4, <1>8, <1>9, <2>1, PendingAgain DEF Leads
    <2> QED
        BY <1>9, <2>2 DEF q
<1>11. heard \o data \in Seq(Hearings) /\ a[Len(b)] = ByteAtATime(heard \o data)
    <2>1. n + q \in Nat /\ Len(b) = (n + q) + Len(data)
        BY <1>1, <1>4 DEF d
    <2>2. Stands(b, n + q, data)
        BY <1>1, <1>7, <2>1 DEF Stands, d
    <2>3. a[n + q] = ByteAtATime(heard)
        BY <1>10 DEF Leads
    <2>4. b \in Seq(Bytes) /\ Tracks(a, b)
        BY <1>4, <1>8
    <2>5. PICK k \in Nat : Ending(b, k, data) /\ Past(a, k, heard)
        BY <2>1, <2>2, <2>3 DEF Ending, Past
    <2> QED
        BY <2>4, <2>5, NewAfter, Zenon
<1>12. b = Buffered(m, p, data) /\ z = Unlined(m)
    BY DEF b, x, z, Unlined, Buffered
<1> QED
    BY <1>4, <1>8, <1>11, <1>12

LEMMA ReadAgrees ==
    ASSUME NEW c, Agrees(c), NEW data \in Seq(Bytes), NEW r, r = add_data(c.tel, data), ~r.threw,
           NEW h, h.tel = r.t, h.heard = c.heard \o data, h.lines = c.lines \o r.lines, h.said = c.said \o r.sent
    PROVE  Agrees(h)
<1> DEFINE t == c.tel
           hd == c.heard
           y == ByteAtATime(hd)
<1>1. t \in Tels /\ hd \in Seq(Hearings) /\ Retains(t, y, c.lines, c.said)
    BY DEF Agrees, Hearings
<1> HIDE DEF hd
<1> HIDE DEF t, y
<1>2. PICK m \in Hearers, p \in Seq(Bytes) :
         /\ m.mode = "text" /\ m.body = <<>> /\ y = Pending(m, p)
         /\ Waiting(p)
         /\ t.buffer = m.line \o p /\ t.prev = m.prev /\ Like(t, m.t)
         /\ c.lines = m.lines /\ c.said = m.sent
    BY <1>1 DEF Retains
<1> DEFINE b == Buffered(m, p, data)
           z == Unlined(m)
           g == ReadOf(t, data)
           w == CutOf(t, data)
<1>a. Leads(hd, m, p) /\ Waiting(p)
    BY <1>2 DEF y, Leads
<1>b. /\ Buffered(m, p, data) \in Seq(Bytes) /\ hd \o data \in Seq(Hearings)
      /\ \E a : /\ Tracks(a, Buffered(m, p, data)) /\ a[0] = Unlined(m)
                /\ a[Len(Buffered(m, p, data))] = ByteAtATime(hd \o data)
    BY <1>1, <1>a, BufferAgain, Zenon
<1>3. PICK a : Tracks(a, b) /\ a[0] = z /\ a[Len(b)] = ByteAtATime(hd \o data)
    BY <1>b
<1>4. b \in Seq(Bytes) /\ hd \o data \in Seq(Hearings)
    BY <1>b
<1>5. /\ z.mode = "text" /\ z.body = <<>> /\ z.line = <<>> /\ z.t = m.t /\ z.prev = m.prev
      /\ z.lines = m.lines /\ z.sent = m.sent
    BY <1>2 DEF Hearers, Unlined
<1>6. g = interpret_iacs(t, b) /\ w = handle_whole_lines(t.prev, g.scan)
    BY <1>2, SMTT(40) DEF ReadOf, CutOf, Buffered
<1>8. /\ g.threw => r.threw
      /\ ~g.threw => /\ r.t = [g.t EXCEPT !.buffer = w.line \o g.rest, !.prev = w.prev]
                     /\ r.lines = w.lines /\ r.sent = g.sent
    BY AddDataIs DEF t
<1> HIDE DEF b, z, g, w
<1>7. /\ g \in Scans
      /\ \/ g.threw
         \/ /\ ~g.threw
            /\ \E s \in Hearers :
                 /\ Matches(g, s, a[0]) /\ a[Len(b)] = Pending(s, g.rest)
                 /\ Waiting(g.rest)
    <2>1. Like(t, a[0].t) /\ a[0].mode = "text" /\ a[0].body = <<>> /\ a[0].line = <<>>
        BY <1>2, <1>3, <1>5
    <2> QED
        BY <1>1, <1>3, <1>4, <1>6, <2>1, ScanHears, SMTT(40) DEF Waiting
<1>9. ~g.threw
    BY <1>8
<1>10. PICK s \in Hearers :
         /\ Matches(g, s, z) /\ ByteAtATime(hd \o data) = Pending(s, g.rest)
         /\ Waiting(g.rest)
    BY <1>3, <1>7, <1>9
<1>11. g.t \in Tels /\ g.rest \in Seq(Bytes) /\ g.scan \in Seq(Bytes)
    BY <1>7, ScanIs
<1>12. w \in Cuts
    <2>1. t.prev \in Separators
        BY <1>1 DEF Tels
    <2> QED
        BY <1>6, <1>11, <2>1, LineMore, BytesAre
<1>13. /\ s.mode = "text" /\ s.body = <<>> /\ Like(g.t, s.t) /\ s.sent = m.sent \o g.sent
       /\ s.prev = w.prev /\ s.line = w.line /\ s.lines = m.lines \o w.lines
    BY <1>2, <1>5, <1>6, <1>10 DEF Matches
<1>14. r.t = [g.t EXCEPT !.buffer = w.line \o g.rest, !.prev = w.prev] /\ r.lines = w.lines /\ r.sent = g.sent
    BY <1>8, <1>9
<1>15. w.line \in Seq(Bytes) /\ w.prev \in Separators
    BY <1>12 DEF Cuts
<1>16. w.line \o g.rest \in Seq(Bytes)
    BY <1>11, <1>15, ConcatProperties
<1>17. r.t \in Tels /\ r.t.buffer = w.line \o g.rest /\ r.t.prev = w.prev /\ Like(r.t, g.t)
    BY <1>11, <1>14, <1>15, <1>16 DEF Tels, Like
<1>18. Like(r.t, s.t)
    BY <1>13, <1>17 DEF Like
<1>19. h.lines = s.lines /\ h.said = s.sent
    BY <1>2, <1>13, <1>14
<1>20. Retains(h.tel, ByteAtATime(h.heard), h.lines, h.said)
    <2>1. ByteAtATime(h.heard) = Pending(s, g.rest) /\ h.tel = r.t
        BY <1>10 DEF hd
    <2> QED
        BY <1>10, <1>11, <1>13, <1>17, <1>18, <1>19, <2>1 DEF Retains
<1> QED
    BY <1>4, <1>17, <1>20 DEF Agrees, hd, Hearings

LEMMA EchoIn ==
    ASSUME NEW on \in BOOLEAN
    PROVE  EchoIs(on) \in Seq(Words)
<1>1. \A x, y \in Words : <<"IAC", x, y>> \in Seq(Words)
    BY BytesAre
<1>2. <<"IAC", "WILL", "ECHO">> \in Seq(Words) /\ <<"IAC", "WONT", "ECHO">> \in Seq(Words)
    BY BytesAre
<1>3. CASE on
    BY <1>2, <1>3 DEF EchoIs
<1>4. CASE ~on
    BY <1>2, <1>4 DEF EchoIs
<1> QED
    BY <1>3, <1>4

LEMMA EchoLike ==
    ASSUME NEW t \in Tels, NEW u \in Tels, Like(t, u), NEW on \in BOOLEAN
    PROVE  /\ set_echo(t, on) \in Tels /\ set_echo(u, on) \in Tels /\ Like(set_echo(t, on), set_echo(u, on))
           /\ set_echo(t, on).buffer = t.buffer /\ set_echo(t, on).prev = t.prev
    BY DEF set_echo, Like, Tels

\* The MUD sets the echo.
LEMMA EchoAgrees ==
    ASSUME NEW c, Agrees(c), NEW on \in BOOLEAN, NEW h,
           h.tel = set_echo(c.tel, on), h.said = c.said \o EchoIs(on), h.lines = c.lines,
           h.heard = Append(c.heard, IF on THEN "echo on" ELSE "echo off")
    PROVE  Agrees(h)
<1> DEFINE t == c.tel
           y == ByteAtATime(c.heard)
           e == IF on THEN "echo on" ELSE "echo off"
           f == EchoIs(on)
<1>1. t \in Tels /\ c.heard \in Seq(Bytes \cup Marks) /\ Retains(t, y, c.lines, c.said)
    BY DEF Agrees
<1>2. e \in Bytes \cup Marks
    BY DEF Marks
<1>3. f \in Seq(Words)
    BY EchoIn
<1>4. y \in Hearers /\ ByteAtATime(Append(c.heard, e)) = Heard(y, e)
    BY <1>1, <1>2, ByteMore
<1>5. Heard(y, e) = [y EXCEPT !.t = set_echo(@, on), !.sent = @ \o f]
    BY <1>4, MarkHeard
<1>6. Append(c.heard, e) \in Seq(Bytes \cup Marks)
    <2>1. \A S : \A x \in Seq(S) : \A u \in S : Append(x, u) \in Seq(S)
        BY AppendProperties
    <2> HIDE DEF e
    <2> QED
        BY <1>1, <1>2, <2>1
<1> HIDE DEF t, y, e, f
<1>7. PICK m \in Hearers, p \in Seq(Bytes) :
         /\ m.mode = "text" /\ m.body = <<>> /\ y = Pending(m, p)
         /\ Waiting(p)
         /\ t.buffer = m.line \o p /\ t.prev = m.prev /\ Like(t, m.t)
         /\ c.lines = m.lines /\ c.said = m.sent
    BY <1>1 DEF Retains
<1> DEFINE n == [m EXCEPT !.t = set_echo(@, on), !.sent = @ \o f]
<1>8. set_echo(t, on) \in Tels /\ set_echo(m.t, on) \in Tels /\ Like(set_echo(t, on), set_echo(m.t, on))
    BY <1>1, <1>7, HearerIs, EchoLike
<1>9. set_echo(t, on).buffer = t.buffer /\ set_echo(t, on).prev = t.prev
    BY <1>1, <1>7, HearerIs, EchoLike
<1>10. m.sent \o f \in Seq(Words)
    BY <1>3, HearerIs, ConcatProperties
<1>11. n \in Hearers
    BY <1>8, <1>10 DEF Hearers
<1>12. /\ n.mode = "text" /\ n.body = <<>> /\ n.t = set_echo(m.t, on) /\ n.sent = m.sent \o f
       /\ n.line = m.line /\ n.prev = m.prev /\ n.lines = m.lines
    BY <1>7 DEF Hearers
<1>13. Heard(y, e) = Pending(n, p)
    <2> DEFINE i == ModeOf(p)
               o == IF Len(p) >= 3 THEN p[3] ELSE m.option
               x == IF Len(p) >= 3 THEN SubSeq(p, 4, Len(p)) ELSE <<>>
    <2>1. y = [m EXCEPT !.mode = i, !.option = o, !.body = x]
        BY <1>7 DEF Pending
    <2>2. n.option = m.option
        BY DEF Hearers
    <2>3. Pending(n, p) = [n EXCEPT !.mode = i, !.option = o, !.body = x]
        BY <2>2 DEF Pending
    <2> DEFINE te == set_echo(m.t, on)
               se == m.sent \o f
    <2>4. n = [m EXCEPT !.t = te, !.sent = se]
        OBVIOUS
    <2>5. y.t = m.t /\ y.sent = m.sent
        BY <1>7, PendingKeeps
    <2>6. Heard(y, e) = [y EXCEPT !.t = te, !.sent = se]
        BY <1>5, <2>5
    <2> HIDE DEF i, o, x, te, se, n
    <2> QED
        BY <2>1, <2>3, <2>4, <2>6, ZenonT(60) DEF Hearers
<1> HIDE DEF n
<1>14. Retains(h.tel, ByteAtATime(h.heard), h.lines, h.said)
    <2>1. h.tel = set_echo(t, on) /\ ByteAtATime(h.heard) = Pending(n, p) /\ h.lines = n.lines /\ h.said = n.sent
        BY <1>4, <1>7, <1>12, <1>13 DEF e, f, t
    <2>2. h.tel.buffer = n.line \o p /\ h.tel.prev = n.prev /\ Like(h.tel, n.t)
        BY <1>7, <1>8, <1>9, <1>12, <2>1
    <2> QED
        BY <1>7, <1>11, <1>12, <2>1, <2>2 DEF Retains
<1> QED
    BY <1>6, <1>8, <1>14 DEF Agrees, e, t

\* Nothing yet.
LEMMA NewAgrees ==
    ASSUME NEW c, c.tel = NewTelnet, c.heard = <<>>, c.lines = <<>>, c.said = <<>>
    PROVE  Agrees(c)
<1>1. <<>> \in Seq(Bytes) /\ Len(<<>>) = 0 /\ <<>> \in Seq(Bytes \cup Marks) /\ <<>> \o <<>> = <<>>
    OBVIOUS
<1>2. Pending(NewHearer, <<>>) = NewHearer
    BY <1>1, NewIs, PendingIs
<1>3. Retains(c.tel, ByteAtATime(c.heard), c.lines, c.said)
    <2>1. NewHearer.line \o <<>> = <<>> /\ Waiting(<<>>) /\ Like(NewTelnet, NewHearer.t)
        BY <1>1, NewIs DEF Like, Waiting
    <2>2. ByteAtATime(c.heard) = Pending(NewHearer, <<>>)
        BY <1>2, ByteNone
    <2> QED
        BY <1>1, <2>1, <2>2, NewIs DEF Retains
<1> QED
    BY <1>1, <1>3, NewIs DEF Agrees

\* Then nothing that a client typed came out otherwise than byte by byte.
LEMMA AgreesSo ==
    ASSUME NEW c, Agrees(c)
    PROVE  c.lines = ByteAtATime(c.heard).lines /\ c.said = ByteAtATime(c.heard).sent
<1>1. PICK m \in Hearers, p \in Seq(Bytes) :
         ByteAtATime(c.heard) = Pending(m, p) /\ c.lines = m.lines /\ c.said = m.sent
    BY DEF Agrees, Retains
<1> QED
    BY <1>1, PendingKeeps

-----------------------------------------------------------------------------
(***************************************************************************)
(* Every channel's parser agrees with the reader of single bytes.          *)
(***************************************************************************)
ChanFields == {"tel", "at", "open", "heard", "lines", "said"}

IsChan(c) == c = [f \in ChanFields |-> c[f]]

\* A channel, its client's bytes so far read, and what the parser holds of them.
Parsed(c) == IsChan(c) /\ c.at \in Nat /\ Agrees(c)

ReadInv ==
    /\ scene \in Scenes
    /\ chan = [d \in Terms |-> chan[d]]
    /\ \A d \in Terms : Parsed(chan[d])

LEMMA InitReads == Init => ReadInv
<1> SUFFICES ASSUME Init
             PROVE  ReadInv
    OBVIOUS
<1>1. NewChan.tel = NewTelnet /\ NewChan.heard = <<>> /\ NewChan.lines = <<>> /\ NewChan.said = <<>> /\ NewChan.at = 0
    BY DEF NewChan
<1>2. IsChan(NewChan)
    BY DEF NewChan, IsChan, ChanFields
<1>3. Parsed(NewChan)
    BY <1>1, <1>2, NewAgrees DEF Parsed
<1>4. scene \in Scenes /\ chan = [d \in Terms |-> NewChan]
    BY DEF Init
<1> QED
    BY <1>3, <1>4 DEF ReadInv

LEMMA ChanKept ==
    ASSUME ReadInv, scene' = scene, chan' = chan
    PROVE  ReadInv'
    BY DEF ReadInv

LEMMA ChanPut ==
    ASSUME ReadInv, scene' = scene, NEW d \in Terms, NEW c, chan' = [chan EXCEPT ![d] = c], Parsed(c)
    PROVE  ReadInv'
<1>1. chan' = [e \in Terms |-> IF e = d THEN c ELSE chan[e]]
    BY DEF ReadInv
<1> QED
    BY <1>1 DEF ReadInv

\* What becomes of a channel: a read that is its last, a read, and the echo set.
Shutting(c, n) == [c EXCEPT !.open = FALSE, !.at = @ + n]
Reading(c, n, data, r) ==
    [c EXCEPT !.tel = r.t, !.at = @ + n, !.heard = @ \o data, !.lines = @ \o r.lines, !.said = @ \o r.sent]
Echoing(c, on) ==
    [c EXCEPT !.tel = set_echo(@, on), !.said = @ \o EchoIs(on),
              !.heard = Append(@, IF on THEN "echo on" ELSE "echo off")]
Leaving(c) == [c EXCEPT !.open = FALSE]

LEMMA ShutFields ==
    ASSUME NEW c, IsChan(c), NEW n
    PROVE  /\ LET h == Shutting(c, n)
              IN  /\ IsChan(h) /\ h.tel = c.tel /\ h.heard = c.heard
                  /\ h.lines = c.lines /\ h.said = c.said /\ h.at = c.at + n
           /\ LET h == Leaving(c)
              IN  /\ IsChan(h) /\ h.tel = c.tel /\ h.heard = c.heard
                  /\ h.lines = c.lines /\ h.said = c.said /\ h.at = c.at
<1> DEFINE g == Shutting(c, n)
           h == Leaving(c)
<1>1. g = [c EXCEPT !.open = FALSE, !.at = c.at + n] /\ h = [c EXCEPT !.open = FALSE]
    BY DEF Shutting, Leaving
<1> HIDE DEF g, h
<1>2. /\ IsChan(g) /\ g.tel = c.tel /\ g.heard = c.heard /\ g.lines = c.lines /\ g.said = c.said /\ g.at = c.at + n
      /\ IsChan(h) /\ h.tel = c.tel /\ h.heard = c.heard /\ h.lines = c.lines /\ h.said = c.said /\ h.at = c.at
    BY <1>1 DEF IsChan, ChanFields
<1> QED
    BY <1>2 DEF g, h

LEMMA EchoFields ==
    ASSUME NEW c, IsChan(c), NEW on \in BOOLEAN
    PROVE  \A h : h = Echoing(c, on) =>
              /\ IsChan(h) /\ h.tel = set_echo(c.tel, on) /\ h.said = c.said \o EchoIs(on) /\ h.lines = c.lines
              /\ h.heard = Append(c.heard, IF on THEN "echo on" ELSE "echo off") /\ h.at = c.at
<1> DEFINE tel == set_echo(c.tel, on)
           said == c.said \o EchoIs(on)
           heard == Append(c.heard, IF on THEN "echo on" ELSE "echo off")
<1>1. Echoing(c, on) = [c EXCEPT !.tel = tel, !.said = said, !.heard = heard]
    BY Zenon DEF Echoing
<1> HIDE DEF tel, said, heard
<1>2. \A h : h = Echoing(c, on) => /\ IsChan(h) /\ h.tel = tel /\ h.said = said /\ h.lines = c.lines
                                   /\ h.heard = heard /\ h.at = c.at
    BY <1>1, ZenonT(60) DEF IsChan, ChanFields
<1> QED
    BY <1>2, Zenon DEF tel, said, heard

\* The client is gone, or too much was read at once: the parser is left as it is.
LEMMA ChanShut ==
    ASSUME NEW c, Parsed(c), NEW n \in Nat
    PROVE  Parsed(Shutting(c, n)) /\ Parsed(Leaving(c))
<1>1. ASSUME NEW h, IsChan(h), h.tel = c.tel, h.heard = c.heard, h.lines = c.lines, h.said = c.said, h.at \in Nat
      PROVE  Parsed(h)
    BY <1>1 DEF Parsed, Agrees
<1>2. IsChan(c) /\ c.at \in Nat /\ c.at + n \in Nat
    BY DEF Parsed
<1> QED
    BY <1>1, <1>2, ShutFields

\* One read.
LEMMA ChanRead ==
    ASSUME NEW c, Parsed(c), NEW n \in Nat, NEW data \in Seq(Bytes), ~add_data(c.tel, data).threw
    PROVE  Parsed(Reading(c, n, data, add_data(c.tel, data)))
<1> DEFINE r == add_data(c.tel, data)
           h == Reading(c, n, data, r)
<1>1. IsChan(c) /\ c.at \in Nat /\ Agrees(c)
    BY DEF Parsed
<1>2. r = add_data(c.tel, data) /\ ~r.threw
    OBVIOUS
<1>3. h = Reading(c, n, data, r)
    OBVIOUS
<1> HIDE DEF h, r
<1>4. /\ IsChan(h) /\ h.tel = r.t /\ h.heard = c.heard \o data /\ h.lines = c.lines \o r.lines
      /\ h.said = c.said \o r.sent /\ h.at = c.at + n
    BY <1>1, <1>3 DEF Reading, IsChan, ChanFields
<1>5. Agrees(h)
    BY <1>1, <1>2, <1>4, ReadAgrees, Zenon
<1>6. Parsed(h)
    BY <1>1, <1>4, <1>5 DEF Parsed
<1> QED
    BY <1>6 DEF h, r

\* The echo is set.
LEMMA ChanEcho ==
    ASSUME NEW c, Parsed(c), NEW on \in BOOLEAN
    PROVE  Parsed(Echoing(c, on))
<1> DEFINE h == Echoing(c, on)
<1>1. IsChan(c) /\ c.at \in Nat /\ Agrees(c)
    BY DEF Parsed
<1> HIDE DEF h
<1>2. /\ IsChan(h) /\ h.tel = set_echo(c.tel, on) /\ h.said = c.said \o EchoIs(on) /\ h.lines = c.lines
      /\ h.heard = Append(c.heard, IF on THEN "echo on" ELSE "echo off") /\ h.at = c.at
    BY <1>1, EchoFields, Zenon DEF h
<1>3. Agrees(h)
    BY <1>1, <1>2, EchoAgrees, Zenon
<1>4. Parsed(h)
    BY <1>1, <1>2, <1>3, Zenon DEF Parsed
<1> QED
    BY <1>4 DEF h

LEMMA DataReads ==
    ASSUME ReadInv, scene' = scene, NEW d \in Terms, on_data(d)
    PROVE  ReadInv'
<1> DEFINE typed == scene.types[d]
           c == chan[d]
           Data(n) == SubSeq(typed, c.at + 1, c.at + n)
           Result(n) == add_data(c.tel, Data(n))
<1>1. typed \in Seq(Bytes) /\ c.at \in Nat /\ Parsed(c) /\ chan = [e \in Terms |-> chan[e]]
    BY ScenesAssumption DEF ReadInv, Parsed
<1>2. PICK n \in 1 .. ReadSize :
         /\ c.at + n <= Len(typed)
         /\ \/ chan' = [chan EXCEPT ![d].open = FALSE, ![d].at = @ + n]
            \/ /\ ~Result(n).threw
               /\ chan' = [chan EXCEPT ![d].tel = Result(n).t, ![d].at = @ + n, ![d].heard = @ \o Data(n),
                                       ![d].lines = @ \o Result(n).lines, ![d].said = @ \o Result(n).sent]
    BY Zenon DEF on_data
<1>3. n \in Nat
    BY TerminalAssumption
<1>4. \/ chan' = [chan EXCEPT ![d] = Shutting(c, n)]
      \/ ~Result(n).threw /\ chan' = [chan EXCEPT ![d] = Reading(c, n, Data(n), Result(n))]
    BY <1>1, <1>2 DEF Shutting, Reading
<1>5. Data(n) \in Seq(Bytes)
    <2>1. c.at + 1 \in 1 .. Len(typed) + 1 /\ c.at + n \in 0 .. Len(typed) /\ c.at + n <= Len(typed)
        BY <1>1, <1>2, <1>3, LenProperties
    <2> QED
        BY <1>1, <1>2, <1>3, <2>1, SubSeqProperties
<1>6. Parsed(Shutting(c, n))
    BY <1>1, <1>3, ChanShut
<1>7. ~Result(n).threw => Parsed(Reading(c, n, Data(n), Result(n)))
    BY <1>1, <1>3, <1>5, ChanRead
<1> HIDE DEF Data, Result, c, typed
<1> QED
    BY <1>4, <1>6, <1>7, ChanPut

LEMMA EchoReads ==
    ASSUME ReadInv, scene' = scene, NEW d \in Terms, NEW on \in BOOLEAN, EchoOff(d, on)
    PROVE  ReadInv'
<1>1. Parsed(chan[d]) /\ chan = [e \in Terms |-> chan[e]]
    BY DEF ReadInv
<1>2. chan' = chan \/ chan' = [chan EXCEPT ![d] = Echoing(chan[d], on)]
    <2> DEFINE tel == set_echo(chan[d].tel, on)
               said == chan[d].said \o EchoIs(on)
               heard == Append(chan[d].heard, IF on THEN "echo on" ELSE "echo off")
    <2>1. Echoing(chan[d], on) = [chan[d] EXCEPT !.tel = tel, !.said = said, !.heard = heard]
        BY Zenon DEF Echoing
    <2>2. \/ chan' = chan
          \/ chan' = [chan EXCEPT ![d].tel = tel, ![d].said = said, ![d].heard = heard]
        BY Zenon DEF EchoOff
    <2> HIDE DEF tel, said, heard
    <2> QED
        BY <1>1, <2>1, <2>2
<1>3. Parsed(Echoing(chan[d], on))
    BY <1>1, ChanEcho
<1> QED
    BY <1>2, <1>3, ChanKept, ChanPut

LEMMA CommandReads ==
    ASSUME ReadInv, NEW d \in Terms, Command(d)
    PROVE  ReadInv'
<1>1. scene' = scene /\ (TakeLine(d) \/ NoLine(d))
    BY DEF Command
<1>2. CASE NoLine(d)
    BY <1>1, <1>2, ChanKept DEF NoLine
<1>3. CASE TakeLine(d)
    <2>1. chan' = chan \/ \E q, line : nanny(d, q, line)
        BY <1>3 DEF TakeLine
    <2>2. ASSUME NEW q, NEW line, nanny(d, q, line)
          PROVE  chan' = chan \/ EchoOff(d, FALSE) \/ EchoOff(d, TRUE)
        BY <2>2 DEF nanny
    <2>3. chan' = chan \/ EchoOff(d, FALSE) \/ EchoOff(d, TRUE)
        BY <2>1, <2>2
    <2> QED
        BY <1>1, <2>3, ChanKept, EchoReads
<1> QED
    BY <1>1, <1>2, <1>3

LEMMA NextReads ==
    ASSUME ReadInv, Next
    PROVE  ReadInv'
<1>1. CASE Calls
    BY <1>1, ChanKept DEF Calls, Keeps
<1>2. CASE NextPhase \/ doorman_lost \/ LinkBreaks
    BY <1>2, ChanKept DEF NextPhase, doorman_lost, LinkBreaks
<1>3. ASSUME NEW d \in Terms, Output(d)
      PROVE  ReadInv'
    BY <1>3, ChanKept DEF Output
<1>4. ASSUME NEW d \in Terms, Read(d)
      PROVE  ReadInv'
    BY <1>4, DataReads DEF Read
<1>5. ASSUME NEW d \in Terms, ClientLeaves(d)
      PROVE  ReadInv'
    <2>1. Parsed(chan[d]) /\ chan = [e \in Terms |-> chan[e]]
        BY DEF ReadInv
    <2>2. scene' = scene /\ chan' = [chan EXCEPT ![d] = Leaving(chan[d])]
        BY <1>5, <2>1 DEF ClientLeaves, Leaving
    <2>3. Parsed(Leaving(chan[d]))
        <3>1. 0 \in Nat
            OBVIOUS
        <3> QED
            BY <2>1, <3>1, ChanShut
    <2> QED
        BY <2>2, <2>3, ChanPut
<1> QED
    BY <1>1, <1>2, <1>3, <1>4, <1>5, CommandReads DEF Next, MainLoop

\* However TCP cuts up what a client types, and whenever the MUD sets the echo in between: the
\* lines and the answers are those that a reader of one byte at a time finds. A command that one
\* read leaves incomplete is read again, whole, with the next
\* (TelnetProtocol::add_data, interpret_iacs, handle_whole_lines).
THEOREM SplitReadsStayAgreed == Spec => []SplitReadsAgree
<1>1. Init => ReadInv
    BY InitReads
<1>2. ReadInv /\ [Next]_vars => ReadInv'
    <2> SUFFICES ASSUME ReadInv, [Next]_vars
                 PROVE  ReadInv'
        OBVIOUS
    <2>1. CASE Next
        BY <2>1, NextReads
    <2>2. CASE UNCHANGED vars
        BY <2>2, ChanKept DEF vars
    <2> QED
        BY <2>1, <2>2
<1>3. ReadInv => SplitReadsAgree
    <2> SUFFICES ASSUME ReadInv, NEW d \in Terms
                 PROVE  /\ chan[d].lines = ByteAtATime(chan[d].heard).lines
                        /\ chan[d].said = ByteAtATime(chan[d].heard).sent
        BY DEF SplitReadsAgree
    <2>1. Agrees(chan[d])
        BY DEF ReadInv, Parsed
    <2> QED
        BY <2>1, AgreesSo
<1> QED
    BY <1>1, <1>2, <1>3, PTL DEF Spec
=============================================================================
