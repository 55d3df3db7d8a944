--------------------------- MODULE SessionProofs ---------------------------
(***************************************************************************)
(* Theorems about Session, for any number of channels, bodies, names and   *)
(* versions.                                                               *)
(*                                                                         *)
(* Sound holds whatever immortals do: which Chars a descriptor has in      *)
(* which state, and that nobody but the owner of a guest refers to it.     *)
(* Without purge and switch, what a descriptor refers to also refers       *)
(* back (Mutual), from which the links, the persons and the freed          *)
(* bodies follow.  Without delete, whoever is in the game or is about to   *)
(* enter it has a file and its name to itself (Lasting, Sole).             *)
(***************************************************************************)
EXTENDS Session, FiniteSetTheorems, TLAPS

\* The states of the lobby in which a descriptor owns a guest.
Hosts == Lobby \ {"GetName"}

\* What a descriptor refers to, by its state.
Shaped(ds, bs) ==
    \A d \in Descs :
        /\ ds[d].state \in {"none", "Closed", "GetName"} => ds[d] = Blank(ds[d].state)
        /\ ds[d].state \in Hosts =>
              /\ ds[d].guest \in Players
              /\ ds[d].char = ds[d].guest
              /\ ds[d].orig = NoBody
              /\ bs[ds[d].guest].place = "guest"
              /\ bs[ds[d].guest].desc = d
        /\ ds[d].state = "Playing" =>
              /\ ds[d].guest = NoBody
              /\ ds[d].char \in Bodies
              /\ bs[ds[d].char].place # "guest"
              /\ ds[d].orig = NoBody <=> ds[d].char # Mob
              /\ ds[d].orig # NoBody => bs[ds[d].orig].place # "guest"

\* What a body is, by its place; the mobile stays in the world.
Placed(ds, bs) ==
    /\ bs[Mob].place = "world" /\ bs[Mob].name = MobName
    /\ \A b \in Players :
          /\ bs[b].place = "none" => bs[b] = Freed
          /\ bs[b].place # "none" => bs[b].name \in Names
          /\ bs[b].place = "guest" =>
                bs[b].desc \in Descs /\ ds[bs[b].desc].state \in Hosts /\ ds[bs[b].desc].guest = b

\* Who is in the world is played by the descriptor it refers to.
Linked(ds, bs) ==
    \A b \in Bodies :
        bs[b].place = "world" /\ bs[b].desc # NoDesc =>
            ds[bs[b].desc].state = "Playing" /\ ds[bs[b].desc].char = b

\* The descriptor that who was extracted still refers to does not serve anybody else.
Leaving(ds, bs, p) ==
    \A b \in Players :
        bs[b].place = "extracted" /\ bs[b].desc # NoDesc =>
            \/ ds[bs[b].desc].state = "Playing" /\ ds[bs[b].desc].char = b
            \/ ds[bs[b].desc].state = "Closed"
            \/ ds[bs[b].desc].state = "none" /\ p # "input"

Sound(ds, bs, p) ==
    /\ ds \in [Descs -> Descriptor]
    /\ bs \in [Bodies -> Char]
    /\ Shaped(ds, bs)
    /\ Placed(ds, bs)
    /\ Linked(ds, bs)
    /\ Leaving(ds, bs, p)

\* Without purge and switch.
Mutual(ds, bs, p) ==
    /\ \A d \in Descs :
          /\ ds[d].orig = NoBody
          /\ ds[d].char # NoBody =>
                bs[ds[d].char].desc = d /\ bs[ds[d].char].place \in {"guest", "world"}
    /\ p = "input" => \A b \in Players : bs[b].place = "extracted" => bs[b].desc # NoDesc

\* Those whose password was or is to be asked for have a file.
Filed(ds, bs, b) ==
    \/ bs[b].place \in {"world", "extracted"}
    \/ bs[b].place = "guest" /\ ds[bs[b].desc].state \in {"GetOldPassword", "Motd"}

\* Those who are in the world, or enter it without another question.
Claims(ds, bs, b) ==
    \/ bs[b].place = "world"
    \/ bs[b].place = "guest" /\ ds[bs[b].desc].state = "Motd"

\* Without delete.
Lasting(ds, bs, fs) ==
    \A b \in Players : Filed(ds, bs, b) => bs[b].version # 0 /\ fs[bs[b].name] # 0

Sole(ds, bs) ==
    \A a, b \in Players :
        a # b /\ Claims(ds, bs, a) /\ Claims(ds, bs, b) => bs[a].name # bs[b].name

Numbered ==
    /\ pulse \in {"input", "update", "crashed"}
    /\ file \in [Names \cup {MobName} -> 0 .. MaxVersion]
    /\ latest \in [Names -> 0 .. MaxVersion]

SoundInv == Numbered /\ Sound(desc, body, pulse)

MutualInv == SoundInv /\ Mutual(desc, body, pulse)

SoleInv == SoundInv /\ Lasting(desc, body, file) /\ Sole(desc, body)

-----------------------------------------------------------------------------
(***************************************************************************)
(* Soundness: one lemma for each way in which descriptors and bodies are   *)
(* written, for any descriptors ds and bodies bs.                          *)
(***************************************************************************)
\* What Blank and Freed are.
LEMMA Blanks ==
    ASSUME NEW s \in Lobby \cup {"none", "Playing", "Closed"}
    PROVE  /\ Blank(s) \in Descriptor
           /\ Blank(s).state = s
           /\ Blank(s).guest = NoBody
           /\ Blank(s).char = NoBody
           /\ Blank(s).orig = NoBody
    BY DEF Blank, Descriptor

LEMMA FreedBody ==
    /\ Freed \in Char
    /\ Freed.place = "none"
    /\ Freed.desc = NoDesc
    BY SessionAssumption DEF Freed, Char

\* A descriptor goes from one question of the lobby to another.
LEMMA MovesSound ==
    ASSUME NEW ds, NEW bs, NEW p, Sound(ds, bs, p),
           NEW d \in Descs, ds[d].state \in Hosts, NEW s \in Hosts,
           NEW es, es = [ds EXCEPT ![d].state = s]
    PROVE  Sound(es, bs, p)
<1>1. /\ es \in [Descs -> Descriptor]
      /\ \A o \in Descs : /\ es[o].guest = ds[o].guest
                          /\ es[o].char = ds[o].char
                          /\ es[o].orig = ds[o].orig
                          /\ o # d => es[o] = ds[o]
                          /\ o = d => es[o].state = s
    BY DEF Sound, Descriptor, Hosts, Lobby
<1>2. \A t \in Hosts : t \in Lobby \ {"GetName", "none", "Playing", "Closed"}
    BY DEF Hosts, Lobby
<1>3. Shaped(es, bs)
    BY <1>1, <1>2 DEF Sound, Shaped
<1>4. Placed(es, bs)
    BY <1>1, <1>2 DEF Sound, Placed
<1>5. Linked(es, bs)
    BY <1>1, <1>2 DEF Sound, Linked, Bodies
<1>6. Leaving(es, bs, p)
    BY <1>1, <1>2 DEF Sound, Leaving
<1> QED
    BY <1>1, <1>3, <1>4, <1>5, <1>6 DEF Sound

\* try_load_player: a body nobody refers to becomes the guest of a descriptor without any.
LEMMA LoadsSound ==
    ASSUME NEW ds, NEW bs, NEW p, Sound(ds, bs, p),
           NEW d \in Descs, ds[d].state \in {"none", "GetName"}, p = "input",
           NEW s \in Hosts, NEW n \in Names, NEW v \in 0 .. MaxVersion,
           NEW b \in Players, bs[b].place = "none",
           \A o \in Descs : b \notin {ds[o].guest, ds[o].char, ds[o].orig},
           NEW es, es = [ds EXCEPT ![d] = [state |-> s, guest |-> b, char |-> b, orig |-> NoBody]],
           NEW cs, cs = [bs EXCEPT ![b] = [place |-> "guest", name |-> n, desc |-> d, version |-> v]]
    PROVE  Sound(es, cs, p)
<1>1. /\ es \in [Descs -> Descriptor]
      /\ \A o \in Descs : o # d => es[o] = ds[o]
      /\ es[d].state = s /\ es[d].guest = b /\ es[d].char = b /\ es[d].orig = NoBody
    BY DEF Sound, Descriptor, Hosts, Bodies
<1>2. /\ cs \in [Bodies -> Char]
      /\ \A x \in Bodies : x # b => cs[x] = bs[x]
      /\ cs[b].place = "guest" /\ cs[b].name = n /\ cs[b].desc = d
    BY DEF Sound, Char, Bodies
<1>3. s \in Lobby \ {"GetName", "none", "Playing", "Closed"}
    BY DEF Hosts, Lobby
<1>4. \A t \in Hosts : t \notin {"none", "GetName", "Playing", "Closed"}
    BY DEF Hosts, Lobby
<1>5. Shaped(es, cs)
    <2> SUFFICES ASSUME NEW o \in Descs, o # d
                 PROVE  /\ ds[o].state \in Hosts => cs[ds[o].guest] = bs[ds[o].guest]
                        /\ ds[o].state = "Playing" => cs[ds[o].char] = bs[ds[o].char]
                        /\ ds[o].orig # NoBody => cs[ds[o].orig] = bs[ds[o].orig]
        BY <1>1, <1>2, <1>3, SessionAssumption DEF Sound, Shaped, Bodies
    <2> QED
        BY <1>2 DEF Sound, Shaped, Descriptor, Bodies
<1>6. Placed(es, cs)
    BY <1>1, <1>2, <1>3, <1>4, SessionAssumption DEF Sound, Placed, Bodies
<1>7. Linked(es, cs)
    BY <1>1, <1>2, <1>4, SessionAssumption DEF Sound, Shaped, Linked, Bodies, Blank
<1>8. Leaving(es, cs, p)
    BY <1>1, <1>2 DEF Sound, Leaving, Bodies
<1> QED
    BY <1>1, <1>2, <1>5, <1>6, <1>7, <1>8 DEF Sound

\* restart_lobby, and what it has in common with a connection that is taken over: the guest of
\* a descriptor is freed.
LEMMA RestartSound ==
    ASSUME NEW ds, NEW bs, NEW p, Sound(ds, bs, p),
           NEW d \in Descs, ds[d].state \in Hosts,
           NEW es, es = [ds EXCEPT ![d] = Blank("GetName")],
           NEW cs, cs = [bs EXCEPT ![ds[d].guest] = Freed]
    PROVE  Sound(es, cs, p)
<1> DEFINE g == ds[d].guest
<1>1. /\ es \in [Descs -> Descriptor]
      /\ \A o \in Descs : o # d => es[o] = ds[o]
      /\ es[d] = Blank("GetName") /\ es[d].state = "GetName"
    BY Blanks DEF Sound, Lobby
<1>2. g \in Players /\ bs[g].place = "guest" /\ bs[g].desc = d
    BY DEF Sound, Shaped
<1>3. /\ cs \in [Bodies -> Char]
      /\ \A x \in Bodies : x # g => cs[x] = bs[x]
      /\ cs[g] = Freed /\ cs[g].place = "none" /\ cs[g].desc = NoDesc
    BY <1>2, FreedBody DEF Sound, Bodies
<1>4. \A t \in Hosts : t \notin {"none", "GetName", "Playing", "Closed"}
    BY DEF Hosts, Lobby
<1>5. Shaped(es, cs)
    <2> SUFFICES ASSUME NEW o \in Descs, o # d
                 PROVE  /\ ds[o].state \in Hosts => ds[o].guest # g
                        /\ ds[o].state = "Playing" => ds[o].char # g
                        /\ ds[o].state = "Playing" /\ ds[o].orig # NoBody => ds[o].orig # g
        BY <1>1, <1>3, <1>4 DEF Sound, Shaped, Bodies, Descriptor
    <2> QED
        BY <1>2 DEF Sound, Shaped
<1>6. Placed(es, cs)
    BY <1>1, <1>2, <1>3, <1>4, SessionAssumption DEF Sound, Placed, Bodies
<1>7. Linked(es, cs)
    BY <1>1, <1>2, <1>3, <1>4, SessionAssumption DEF Sound, Linked, Bodies
<1>8. Leaving(es, cs, p)
    BY <1>1, <1>2, <1>3, <1>4 DEF Sound, Leaving, Bodies
<1> QED
    BY <1>1, <1>3, <1>5, <1>6, <1>7, <1>8 DEF Sound

\* reconnect_from_lobby: a link-dead character instead of the guest.
LEMMA TakeOverSound ==
    ASSUME NEW ds, NEW bs, NEW p, Sound(ds, bs, p),
           NEW d \in Descs, ds[d].state \in Hosts,
           NEW b \in Players, bs[b].place \in {"world", "extracted"},
           NEW es, es = [ds EXCEPT ![d] = [Blank("Playing") EXCEPT !.char = b]],
           NEW cs, cs = [bs EXCEPT ![ds[d].guest] = Freed, ![b].desc = d]
    PROVE  Sound(es, cs, p)
<1> DEFINE g == ds[d].guest
<1>1. /\ es \in [Descs -> Descriptor]
      /\ \A o \in Descs : o # d => es[o] = ds[o]
      /\ es[d].state = "Playing" /\ es[d].char = b /\ es[d].guest = NoBody /\ es[d].orig = NoBody
    BY DEF Sound, Blank, Descriptor, Bodies
<1>2. g \in Players /\ bs[g].place = "guest" /\ bs[g].desc = d /\ g # b
    BY DEF Sound, Shaped
<1>3. /\ cs \in [Bodies -> Char]
      /\ \A x \in Bodies : x # g /\ x # b => cs[x] = bs[x]
      /\ cs[g] = Freed /\ cs[g].place = "none" /\ cs[g].desc = NoDesc
      /\ cs[b].place = bs[b].place /\ cs[b].name = bs[b].name /\ cs[b].desc = d
    BY <1>2, FreedBody DEF Sound, Bodies, Char
<1>4. \A t \in Hosts : t \notin {"none", "GetName", "Playing", "Closed"}
    BY DEF Hosts, Lobby
<1>5. Shaped(es, cs)
    <2>1. b # Mob /\ b \in Bodies
        BY SessionAssumption DEF Bodies
    <2> SUFFICES ASSUME NEW o \in Descs, o # d
                 PROVE  /\ ds[o].state \in Hosts => ds[o].guest # g /\ ds[o].guest # b
                        /\ ds[o].state = "Playing" => ds[o].char # g
                        /\ ds[o].state = "Playing" /\ ds[o].orig # NoBody => ds[o].orig # g
        BY <1>1, <1>3, <1>4, <2>1 DEF Sound, Shaped, Bodies, Descriptor
    <2> QED
        BY <1>2 DEF Sound, Shaped
<1>6. Placed(es, cs)
    BY <1>1, <1>2, <1>3, <1>4, SessionAssumption DEF Sound, Placed, Bodies
<1>7. Linked(es, cs)
    BY <1>1, <1>2, <1>3, <1>4, SessionAssumption DEF Sound, Linked, Bodies
<1>8. Leaving(es, cs, p)
    BY <1>1, <1>2, <1>3, <1>4 DEF Sound, Leaving, Bodies
<1> QED
    BY <1>1, <1>3, <1>5, <1>6, <1>7, <1>8 DEF Sound

\* Descriptor::close of the descriptors in D.
LEMMA CloseSound ==
    ASSUME NEW p, Sound(desc, body, p), NEW D \in SUBSET Descs
    PROVE  Sound(CloseDescs(D), CloseBodies(D), p)
<1> DEFINE es == CloseDescs(D)
           cs == CloseBodies(D)
           freed(b) == \E d \in D : desc[d].guest = b
           left(b) == \E d \in D : desc[d].state = "Playing" /\ desc[d].char = b
<1>1. /\ es \in [Descs -> Descriptor]
      /\ \A o \in Descs : o \notin D => es[o] = desc[o]
      /\ \A o \in D : es[o] = Blank("Closed") /\ es[o].state = "Closed"
    BY Blanks DEF Sound, CloseDescs
<1>2. \A b \in Bodies :
         /\ freed(b) => cs[b] = Freed
         /\ ~freed(b) /\ left(b) => cs[b] = [body[b] EXCEPT !.desc = NoDesc]
         /\ ~freed(b) /\ ~left(b) => cs[b] = body[b]
    BY DEF CloseBodies
<1>3. \A b \in Bodies :
         /\ ~freed(b) => cs[b].place = body[b].place /\ cs[b].name = body[b].name
         /\ ~freed(b) /\ ~left(b) => cs[b].desc = body[b].desc
         /\ ~freed(b) /\ left(b) => cs[b].desc = NoDesc
    <2> TAKE b \in Bodies
    <2>1. body[b] \in Char
        BY DEF Sound
    <2> QED
        BY <1>2, <2>1 DEF Char
<1>4. cs \in [Bodies -> Char]
    <2>1. \A b \in Bodies : body[b] \in Char /\ [body[b] EXCEPT !.desc = NoDesc] \in Char
        BY DEF Sound, Char
    <2>2. \A b \in Bodies : cs[b] \in Char
        BY <1>2, <2>1, FreedBody
    <2> QED
        BY <2>2 DEF CloseBodies
<1>5. \A t \in Hosts : t \notin {"none", "GetName", "Playing", "Closed"}
    BY DEF Hosts, Lobby
<1>6. \A d \in Descs : desc[d].state \in Hosts \cup {"none", "Closed", "GetName", "Playing"}
    BY DEF Sound, Descriptor, Hosts, Lobby
<1>7. \A b \in Bodies : freed(b) =>
         b \in Players /\ body[b].place = "guest" /\ body[b].desc \in D
    BY <1>5, <1>6, SessionAssumption, Blanks DEF Sound, Shaped, Bodies, Lobby
<1>8. \A b \in Bodies : left(b) => body[b].place # "guest" /\ ~freed(b)
    BY <1>7 DEF Sound, Shaped
<1> HIDE DEF es, cs
<1>9. Shaped(es, cs)
    <2> SUFFICES ASSUME NEW o \in Descs, o \notin D
                 PROVE  /\ desc[o].state \in Hosts => cs[desc[o].guest] = body[desc[o].guest]
                        /\ desc[o].state = "Playing" => cs[desc[o].char].place # "guest"
                        /\ desc[o].state = "Playing" /\ desc[o].orig # NoBody =>
                              cs[desc[o].orig].place # "guest"
        BY <1>1, <1>5 DEF Sound, Shaped
    <2>1. CASE desc[o].state \in Hosts
        <3>1. desc[o].guest \in Bodies /\ body[desc[o].guest].desc = o /\ body[desc[o].guest].place = "guest"
            BY <2>1 DEF Sound, Shaped, Bodies
        <3>2. ~freed(desc[o].guest) /\ ~left(desc[o].guest)
            BY <3>1, <1>7, <1>8
        <3> QED
            BY <3>1, <3>2, <1>2, <1>5, <2>1
    <2>2. CASE desc[o].state = "Playing"
        <3>1. /\ desc[o].char \in Bodies /\ body[desc[o].char].place # "guest"
              /\ desc[o].orig # NoBody => desc[o].orig \in Bodies /\ body[desc[o].orig].place # "guest"
            BY <2>2 DEF Sound, Shaped, Bodies, Descriptor
        <3> QED
            BY <3>1, <1>3, <1>7, <1>5, <2>2
    <2> QED
        BY <2>1, <2>2
<1>10. Placed(es, cs)
    <2>1. cs[Mob].place = "world" /\ cs[Mob].name = MobName
        BY <1>3, <1>7, SessionAssumption DEF Sound, Placed, Bodies
    <2>2. ASSUME NEW b \in Players
          PROVE  /\ cs[b].place = "none" => cs[b] = Freed
                 /\ cs[b].place # "none" => cs[b].name \in Names
                 /\ cs[b].place = "guest" =>
                      cs[b].desc \in Descs /\ es[cs[b].desc].state \in Hosts /\ es[cs[b].desc].guest = b
        <3>1. CASE freed(b)
            BY <3>1, <1>2, FreedBody DEF Bodies
        <3>2. CASE ~freed(b)
            <4>1. b \in Bodies /\ cs[b].place = body[b].place /\ cs[b].name = body[b].name
                BY <3>2, <1>3 DEF Bodies
            <4>2. CASE body[b].place = "none"
                <5>1. body[b] = Freed
                    BY <4>2 DEF Sound, Placed
                <5>2. cs[b] = Freed
                    BY <5>1, <4>1, <3>2, <1>2, FreedBody, SessionAssumption DEF Freed
                <5> QED
                    BY <5>2, FreedBody
            <4>3. CASE body[b].place = "guest"
                <5>1. /\ body[b].name \in Names /\ body[b].desc \in Descs
                      /\ desc[body[b].desc].state \in Hosts /\ desc[body[b].desc].guest = b
                    BY <4>3 DEF Sound, Placed
                <5>2. ~left(b) /\ cs[b] = body[b]
                    BY <4>1, <4>3, <1>8, <1>2, <3>2
                <5>3. body[b].desc \notin D
                    BY <5>1, <3>2
                <5> QED
                    BY <5>1, <5>2, <5>3, <1>1, <4>3
            <4>4. CASE body[b].place \notin {"none", "guest"}
                BY <4>1, <4>4 DEF Sound, Placed
            <4> QED
                BY <4>2, <4>3, <4>4
        <3> QED
            BY <3>1, <3>2
    <2> QED
        BY <2>1, <2>2 DEF Placed
<1>11. Linked(es, cs)
    <2> SUFFICES ASSUME NEW b \in Bodies, cs[b].place = "world", cs[b].desc # NoDesc
                 PROVE  es[cs[b].desc].state = "Playing" /\ es[cs[b].desc].char = b
        BY DEF Linked
    <2>1. ~freed(b) /\ ~left(b) /\ body[b].place = "world"
        BY <1>2, <1>3, FreedBody
    <2>2. /\ cs[b].desc = body[b].desc /\ body[b].desc \in Descs
          /\ desc[body[b].desc].state = "Playing" /\ desc[body[b].desc].char = b
        BY <2>1, <1>3 DEF Sound, Linked, Char
    <2> QED
        BY <2>1, <2>2, <1>1
<1>12. Leaving(es, cs, p)
    <2> SUFFICES ASSUME NEW b \in Players, cs[b].place = "extracted", cs[b].desc # NoDesc
                 PROVE  \/ es[cs[b].desc].state = "Playing" /\ es[cs[b].desc].char = b
                        \/ es[cs[b].desc].state = "Closed"
                        \/ es[cs[b].desc].state = "none" /\ p # "input"
        BY DEF Leaving
    <2>1. b \in Bodies /\ ~freed(b) /\ ~left(b) /\ body[b].place = "extracted"
        BY <1>2, <1>3, FreedBody DEF Bodies
    <2>2. cs[b].desc = body[b].desc /\ body[b].desc \in Descs
        BY <2>1, <1>3 DEF Sound, Char
    <2>3. \/ desc[body[b].desc].state = "Playing" /\ desc[body[b].desc].char = b
          \/ desc[body[b].desc].state = "Closed"
          \/ desc[body[b].desc].state = "none" /\ p # "input"
        BY <2>1, <2>2 DEF Sound, Leaving
    <2> QED
        BY <2>1, <2>2, <2>3, <1>1
<1> QED
    BY <1>1, <1>4, <1>9, <1>10, <1>11, <1>12 DEF Sound, es, cs

\* proceed_from_lobby.
LEMMA EnterSound ==
    ASSUME NEW ds, NEW bs, NEW p, Sound(ds, bs, p),
           NEW d \in Descs, ds[d].state \in Hosts,
           NEW es, es = [ds EXCEPT ![d].state = "Playing", ![d].guest = NoBody],
           NEW cs, cs = [bs EXCEPT ![ds[d].guest].place = "world"]
    PROVE  Sound(es, cs, p)
<1> DEFINE g == ds[d].guest
<1>1. /\ es \in [Descs -> Descriptor]
      /\ \A o \in Descs : o # d => es[o] = ds[o]
      /\ es[d].state = "Playing" /\ es[d].guest = NoBody /\ es[d].char = g /\ es[d].orig = NoBody
    <2>1. ds[d] \in Descriptor /\ ds[d].char = g /\ ds[d].orig = NoBody
        BY DEF Sound, Shaped
    <2>2. [ds[d] EXCEPT !.state = "Playing", !.guest = NoBody] \in Descriptor
        BY <2>1 DEF Descriptor
    <2>3. es = [ds EXCEPT ![d] = [ds[d] EXCEPT !.state = "Playing", !.guest = NoBody]]
        BY DEF Sound
    <2> QED
        BY <2>1, <2>2, <2>3 DEF Sound, Descriptor
<1>2. g \in Players /\ bs[g].place = "guest" /\ bs[g].desc = d
    BY DEF Sound, Shaped
<1>3. /\ cs \in [Bodies -> Char]
      /\ \A x \in Bodies : x # g => cs[x] = bs[x]
      /\ cs[g].place = "world" /\ cs[g].name = bs[g].name /\ cs[g].desc = d
    BY <1>2 DEF Sound, Bodies, Char
<1>4. \A t \in Hosts : t \notin {"none", "GetName", "Playing", "Closed"}
    BY DEF Hosts, Lobby
<1>5. Shaped(es, cs)
    <2>1. g # Mob /\ g \in Bodies
        BY <1>2, SessionAssumption DEF Bodies
    <2> SUFFICES ASSUME NEW o \in Descs, o # d
                 PROVE  /\ ds[o].state \in Hosts => ds[o].guest # g
                        /\ ds[o].state = "Playing" => ds[o].char # g
                        /\ ds[o].state = "Playing" /\ ds[o].orig # NoBody => ds[o].orig # g
        BY <1>1, <1>3, <1>4, <2>1 DEF Sound, Shaped, Bodies, Descriptor
    <2> QED
        BY <1>2 DEF Sound, Shaped
<1>6. Placed(es, cs)
    BY <1>1, <1>2, <1>3, <1>4, SessionAssumption DEF Sound, Placed, Bodies
<1>7. Linked(es, cs)
    <2>1. \A x \in Bodies : bs[x].place = "world" /\ bs[x].desc # NoDesc => bs[x].desc \in Descs \ {d}
        BY <1>4 DEF Sound, Linked, Char
    <2> QED
        BY <1>1, <1>2, <1>3, <2>1, SessionAssumption DEF Sound, Linked, Bodies
<1>8. Leaving(es, cs, p)
    <2>1. \A x \in Players : bs[x].place = "extracted" /\ bs[x].desc # NoDesc => bs[x].desc \in Descs \ {d}
        BY <1>4 DEF Sound, Leaving, Char, Bodies
    <2> QED
        BY <1>1, <1>2, <1>3, <2>1 DEF Sound, Leaving, Bodies
<1> QED
    BY <1>1, <1>3, <1>5, <1>6, <1>7, <1>8 DEF Sound

\* extract_char of a player who plays or is in the world.
LEMMA ExtractSound ==
    ASSUME NEW ds, NEW bs, NEW p, Sound(ds, bs, p),
           NEW b \in Players, bs[b].place \in {"world", "extracted"},
           NEW es, es = IF bs[b].desc = NoDesc THEN ds ELSE [ds EXCEPT ![bs[b].desc] = Blank("Closed")],
           NEW cs, cs = [bs EXCEPT ![b].place = "extracted"]
    PROVE  Sound(es, cs, p)
<1> DEFINE e == bs[b].desc
<1>0. \A t \in Hosts : t \notin {"none", "GetName", "Playing", "Closed"}
    BY DEF Hosts, Lobby
<1>1. b \in Bodies /\ b # Mob /\ e \in Descs \cup {NoDesc}
    BY SessionAssumption DEF Sound, Char, Bodies
<1>2. e # NoDesc => ds[e].state \notin Hosts
    BY <1>0, <1>1 DEF Sound, Linked, Leaving
<1>3. /\ es \in [Descs -> Descriptor]
      /\ \A o \in Descs : o # e => es[o] = ds[o]
      /\ e \in Descs => es[e] = Blank("Closed") /\ es[e].state = "Closed"
    BY <1>1, Blanks, SessionAssumption DEF Sound
<1>4. /\ cs \in [Bodies -> Char]
      /\ \A x \in Bodies : x # b => cs[x] = bs[x]
      /\ cs[b].place = "extracted" /\ cs[b].name = bs[b].name /\ cs[b].desc = e
    BY <1>1 DEF Sound, Char
<1>5. Shaped(es, cs)
    BY <1>0, <1>1, <1>3, <1>4 DEF Sound, Shaped, Bodies, Descriptor
<1>6. Placed(es, cs)
    BY <1>0, <1>1, <1>2, <1>3, <1>4 DEF Sound, Placed, Bodies
<1>7. Linked(es, cs)
    <2>1. ASSUME NEW x \in Bodies, x # b, bs[x].place = "world", bs[x].desc = e, e # NoDesc
          PROVE  FALSE
        BY <2>1, <1>1 DEF Sound, Linked, Leaving
    <2> QED
        BY <2>1, <1>1, <1>3, <1>4 DEF Sound, Linked, Char
<1>8. Leaving(es, cs, p)
    BY <1>1, <1>3, <1>4 DEF Sound, Leaving, Bodies, Char
<1> QED
    BY <1>3, <1>4, <1>5, <1>6, <1>7, <1>8 DEF Sound

\* do_switch: from a player's body into the mobile.
LEMMA SwitchSound ==
    ASSUME NEW ds, NEW bs, NEW p, Sound(ds, bs, p),
           NEW d \in Descs, ds[d].state = "Playing", ds[d].orig = NoBody,
           NEW es, es = [ds EXCEPT ![d].orig = ds[d].char, ![d].char = Mob],
           NEW cs, cs = [bs EXCEPT ![Mob].desc = d, ![ds[d].char].desc = NoDesc]
    PROVE  Sound(es, cs, p)
<1> DEFINE c == ds[d].char
<1>0. \A t \in Hosts : t \notin {"none", "GetName", "Playing", "Closed"}
    BY DEF Hosts, Lobby
<1>1. c \in Players /\ c # Mob /\ c \in Bodies /\ Mob \in Bodies /\ bs[c].place # "guest"
    BY DEF Sound, Shaped, Bodies
<1>2. /\ es \in [Descs -> Descriptor]
      /\ \A o \in Descs : o # d => es[o] = ds[o]
      /\ es[d].state = "Playing" /\ es[d].guest = NoBody /\ es[d].char = Mob /\ es[d].orig = c
    <2>1. ds[d] \in Descriptor /\ ds[d].guest = NoBody
        BY DEF Sound, Shaped
    <2>2. [ds[d] EXCEPT !.orig = c, !.char = Mob] \in Descriptor
        BY <2>1, <1>1 DEF Descriptor
    <2>3. es = [ds EXCEPT ![d] = [ds[d] EXCEPT !.orig = c, !.char = Mob]]
        BY DEF Sound
    <2> QED
        BY <2>1, <2>2, <2>3 DEF Sound, Descriptor
<1>3. /\ cs \in [Bodies -> Char]
      /\ \A x \in Bodies : x # c /\ x # Mob => cs[x] = bs[x]
      /\ \A x \in Bodies : cs[x].place = bs[x].place /\ cs[x].name = bs[x].name
      /\ cs[Mob].desc = d /\ cs[c].desc = NoDesc
    BY <1>1 DEF Sound, Char
<1>4. Shaped(es, cs)
    BY <1>0, <1>1, <1>2, <1>3, SessionAssumption, SMTT(30) DEF Sound, Shaped, Bodies, Descriptor
<1>5. Placed(es, cs)
    <2>1. bs[c].place = "none" => cs[c] = Freed
        <3> SUFFICES ASSUME bs[c].place = "none"
                     PROVE  cs[c] = Freed
            OBVIOUS
        <3>1. bs[c] = Freed
            BY <1>1 DEF Sound, Placed
        <3>2. cs[c] = [bs[c] EXCEPT !.desc = NoDesc]
            BY <1>1 DEF Sound, Char
        <3> QED
            BY <3>1, <3>2 DEF Freed
    <2>2. \A x \in Players : bs[x].place = "guest" =>
             bs[x].desc \in Descs \ {d} /\ x # c /\ x # Mob
        BY <1>0, <1>1, SessionAssumption DEF Sound, Placed, Shaped
    <2>3. cs[Mob].place = "world" /\ cs[Mob].name = MobName
        BY <1>1, <1>3 DEF Sound, Placed
    <2>4. ASSUME NEW x \in Players
          PROVE  /\ cs[x].place = "none" => cs[x] = Freed
                 /\ cs[x].place # "none" => cs[x].name \in Names
                 /\ cs[x].place = "guest" =>
                       cs[x].desc \in Descs /\ es[cs[x].desc].state \in Hosts /\ es[cs[x].desc].guest = x
        <3>1. /\ x \in Bodies /\ x # Mob /\ cs[x].place = bs[x].place /\ cs[x].name = bs[x].name
              /\ x # c => cs[x] = bs[x]
            BY <1>3, SessionAssumption DEF Bodies
        <3>2. /\ bs[x].place = "none" => bs[x] = Freed
              /\ bs[x].place # "none" => bs[x].name \in Names
              /\ bs[x].place = "guest" =>
                    bs[x].desc \in Descs /\ ds[bs[x].desc].state \in Hosts /\ ds[bs[x].desc].guest = x
            BY DEF Sound, Placed
        <3> QED
            BY <3>1, <3>2, <2>1, <2>2, <1>2
    <2> QED
        BY <2>3, <2>4 DEF Placed
<1>6. Linked(es, cs)
    <2>1. \A x \in Bodies : bs[x].place = "world" /\ bs[x].desc # NoDesc /\ x # c => bs[x].desc \in Descs \ {d}
        BY DEF Sound, Linked, Char
    <2> QED
        BY <1>1, <1>2, <1>3, <2>1, SessionAssumption DEF Sound, Linked, Bodies
<1>7. Leaving(es, cs, p)
    <2>1. \A x \in Players :
             bs[x].place = "extracted" /\ bs[x].desc # NoDesc /\ x # c => bs[x].desc \in Descs \ {d} /\ x # Mob
        BY SessionAssumption DEF Sound, Leaving, Char, Bodies
    <2> QED
        BY <1>1, <1>2, <1>3, <2>1, SessionAssumption DEF Sound, Leaving, Bodies
<1> QED
    BY <1>2, <1>3, <1>4, <1>5, <1>6, <1>7 DEF Sound

\* do_return.
LEMMA ReturnSound ==
    ASSUME NEW ds, NEW bs, NEW p, Sound(ds, bs, p),
           NEW d \in Descs, ds[d].state = "Playing", ds[d].orig # NoBody, bs[ds[d].orig].place # "none",
           NEW es, es = [ds EXCEPT ![d].orig = NoBody, ![d].char = ds[d].orig],
           NEW cs, cs = [bs EXCEPT ![ds[d].char].desc = NoDesc, ![ds[d].orig].desc = d]
    PROVE  Sound(es, cs, p)
<1> DEFINE c == ds[d].orig
<1>0. \A t \in Hosts : t \notin {"none", "GetName", "Playing", "Closed"}
    BY DEF Hosts, Lobby
<1>1. /\ c \in Players /\ c # Mob /\ c \in Bodies /\ Mob \in Bodies
      /\ ds[d].char = Mob /\ bs[c].place \notin {"guest", "none"}
    BY SessionAssumption DEF Sound, Shaped, Bodies, Descriptor
<1>2. /\ es \in [Descs -> Descriptor]
      /\ \A o \in Descs : o # d => es[o] = ds[o]
      /\ es[d].state = "Playing" /\ es[d].guest = NoBody /\ es[d].char = c /\ es[d].orig = NoBody
    <2>1. ds[d] \in Descriptor /\ ds[d].guest = NoBody
        BY DEF Sound, Shaped
    <2>2. [ds[d] EXCEPT !.orig = NoBody, !.char = c] \in Descriptor
        BY <2>1, <1>1 DEF Descriptor
    <2>3. es = [ds EXCEPT ![d] = [ds[d] EXCEPT !.orig = NoBody, !.char = c]]
        BY DEF Sound
    <2> QED
        BY <2>1, <2>2, <2>3 DEF Sound, Descriptor
<1>3. /\ cs \in [Bodies -> Char]
      /\ \A x \in Bodies : x # c /\ x # Mob => cs[x] = bs[x]
      /\ \A x \in Bodies : cs[x].place = bs[x].place /\ cs[x].name = bs[x].name
      /\ cs[Mob].desc = NoDesc /\ cs[c].desc = d
    BY <1>1 DEF Sound, Char
<1>4. Shaped(es, cs)
    BY <1>0, <1>1, <1>2, <1>3, SessionAssumption DEF Sound, Shaped, Bodies, Descriptor
<1>5. Placed(es, cs)
    <2>1. \A x \in Players : bs[x].place = "guest" =>
             bs[x].desc \in Descs \ {d} /\ x # c /\ x # Mob
        BY <1>0, <1>1, SessionAssumption DEF Sound, Placed, Shaped
    <2>2. cs[Mob].place = "world" /\ cs[Mob].name = MobName
        BY <1>1, <1>3 DEF Sound, Placed
    <2>3. ASSUME NEW x \in Players
          PROVE  /\ cs[x].place = "none" => cs[x] = Freed
                 /\ cs[x].place # "none" => cs[x].name \in Names
                 /\ cs[x].place = "guest" =>
                       cs[x].desc \in Descs /\ es[cs[x].desc].state \in Hosts /\ es[cs[x].desc].guest = x
        <3>1. /\ x \in Bodies /\ x # Mob /\ cs[x].place = bs[x].place /\ cs[x].name = bs[x].name
              /\ x # c => cs[x] = bs[x]
            BY <1>3, SessionAssumption DEF Bodies
        <3>2. /\ bs[x].place = "none" => bs[x] = Freed
              /\ bs[x].place # "none" => bs[x].name \in Names
              /\ bs[x].place = "guest" =>
                    bs[x].desc \in Descs /\ ds[bs[x].desc].state \in Hosts /\ ds[bs[x].desc].guest = x
            BY DEF Sound, Placed
        <3> QED
            BY <3>1, <3>2, <2>1, <1>1, <1>2
    <2> QED
        BY <2>2, <2>3 DEF Placed
<1>6. Linked(es, cs)
    <2>1. \A x \in Bodies : bs[x].place = "world" /\ bs[x].desc # NoDesc /\ x # Mob => bs[x].desc \in Descs \ {d}
        BY <1>1 DEF Sound, Linked, Char
    <2> QED
        BY <1>1, <1>2, <1>3, <2>1, SessionAssumption DEF Sound, Linked, Bodies
<1>7. Leaving(es, cs, p)
    <2>1. \A x \in Players :
             bs[x].place = "extracted" /\ bs[x].desc # NoDesc => bs[x].desc \in Descs \ {d} /\ x # Mob
        BY <1>1, SessionAssumption DEF Sound, Leaving, Char, Bodies
    <2> QED
        BY <1>1, <1>2, <1>3, <2>1, SessionAssumption DEF Sound, Leaving, Bodies
<1> QED
    BY <1>2, <1>3, <1>4, <1>5, <1>6, <1>7 DEF Sound

\* reap_closed, between two rounds of input.
LEMMA ReapedSound ==
    ASSUME NEW ds, NEW bs, NEW p, Sound(ds, bs, p)
    PROVE  Sound(Reaped(ds), bs, "update")
<1> DEFINE es == Reaped(ds)
<1>0. \A t \in Hosts : t \notin {"none", "GetName", "Playing", "Closed"}
    BY DEF Hosts, Lobby
<1>1. /\ es \in [Descs -> Descriptor]
      /\ \A o \in Descs : ds[o].state # "Closed" => es[o] = ds[o]
      /\ \A o \in Descs : ds[o].state = "Closed" => es[o] = Blank("none") /\ es[o].state = "none"
    BY Blanks DEF Sound, Reaped
<1> HIDE DEF es
<1>2. Shaped(es, bs)
    BY <1>0, <1>1 DEF Sound, Shaped
<1>3. Placed(es, bs)
    BY <1>0, <1>1 DEF Sound, Placed
<1>4. Linked(es, bs)
    BY <1>0, <1>1 DEF Sound, Linked, Char
<1>5. Leaving(es, bs, "update")
    <2>1. \A b \in Players : bs[b].desc # NoDesc => bs[b].desc \in Descs
        BY DEF Sound, Char, Bodies
    <2> QED
        BY <1>1, <2>1 DEF Sound, Leaving
<1> QED
    BY <1>1, <1>2, <1>3, <1>4, <1>5 DEF Sound, es

\* collect_all_garbage.
LEMMA CollectSound ==
    ASSUME NEW ds, NEW bs, NEW p, Sound(ds, bs, p),
           NEW cs, cs = [b \in Bodies |-> IF bs[b].place = "extracted" THEN Freed ELSE bs[b]]
    PROVE  Sound(ds, cs, "input")
<1>1. /\ cs \in [Bodies -> Char]
      /\ \A b \in Bodies : bs[b].place # "extracted" => cs[b] = bs[b]
      /\ \A b \in Bodies : bs[b].place = "extracted" => cs[b] = Freed /\ cs[b].place = "none"
    BY FreedBody DEF Sound
<1>2. Shaped(ds, cs)
    BY <1>1, ZenonT(40) DEF Sound, Shaped, Bodies, Descriptor
<1>3. Placed(ds, cs)
    BY <1>1 DEF Sound, Placed, Bodies
<1>4. Linked(ds, cs)
    BY <1>1 DEF Sound, Linked
<1>5. Leaving(ds, cs, "input")
    BY <1>1 DEF Leaving, Bodies
<1> QED
    BY <1>1, <1>2, <1>3, <1>4, <1>5 DEF Sound

\* A character gets on.
LEMMA VersionSound ==
    ASSUME NEW ds, NEW bs, NEW p, Sound(ds, bs, p),
           NEW b \in Players, bs[b].place # "none", NEW v \in 0 .. MaxVersion,
           NEW cs, cs = [bs EXCEPT ![b].version = v]
    PROVE  Sound(ds, cs, p)
<1>1. /\ cs \in [Bodies -> Char]
      /\ \A x \in Bodies : x # b => cs[x] = bs[x]
      /\ \A x \in Bodies : cs[x].place = bs[x].place /\ cs[x].name = bs[x].name /\ cs[x].desc = bs[x].desc
    BY DEF Sound, Char, Bodies
<1>2. Shaped(ds, cs)
    BY <1>1 DEF Sound, Shaped, Bodies, Descriptor
<1>3. Placed(ds, cs)
    BY <1>1 DEF Sound, Placed, Bodies
<1>4. Linked(ds, cs) /\ Leaving(ds, cs, p)
    BY <1>1 DEF Sound, Linked, Leaving, Bodies
<1> QED
    BY <1>1, <1>2, <1>3, <1>4 DEF Sound

\* After the crash nothing happens any more.
LEMMA CrashSound ==
    ASSUME NEW ds, NEW bs, NEW p, Sound(ds, bs, p)
    PROVE  Sound(ds, bs, "crashed")
    BY DEF Sound, Leaving

\* A save writes a version under a name.
LEMMA SaveTyped ==
    ASSUME SoundInv, NEW b \in Bodies
    PROVE  Save(b) \in [Names \cup {MobName} -> 0 .. MaxVersion]
<1>1. file \in [Names \cup {MobName} -> 0 .. MaxVersion]
    BY DEF SoundInv, Numbered
<1>2. /\ body[b] \in Char /\ body[b].name \in Names \cup {MobName}
      /\ body[b].desc \in Descs \cup {NoDesc}
    BY DEF SoundInv, Sound, Char
<1>3. Behind(b) # NoBody => body[Behind(b)].version \in 0 .. MaxVersion
    <2> SUFFICES ASSUME Behind(b) # NoBody
                 PROVE  Behind(b) \in Bodies
        BY DEF SoundInv, Sound, Char
    <2>1. body[b].desc \in Descs /\ Behind(b) = Person(body[b].desc)
        BY <1>2 DEF Behind
    <2>2. desc[body[b].desc] \in Descriptor
        BY <2>1 DEF SoundInv, Sound
    <2> QED
        BY <2>1, <2>2 DEF Person, Descriptor, Bodies
<1> QED
    BY <1>1, <1>2, <1>3 DEF Save

\* Whoever is in the lobby has a guest with a name of its own.
LEMMA GuestNamed ==
    ASSUME SoundInv, NEW d \in Descs, desc[d].state \in Hosts
    PROVE  /\ desc[d].guest \in Players
           /\ body[desc[d].guest].place = "guest"
           /\ GuestName(d) \in Names
<1>1. desc[d].guest \in Players /\ body[desc[d].guest].place = "guest"
    BY DEF SoundInv, Sound, Shaped
<1> QED
    BY <1>1 DEF SoundInv, Sound, Placed, GuestName

\* Descriptor::close, with or without the crash.
LEMMA CloseStep ==
    ASSUME SoundInv, NEW D \in SUBSET Descs, Close(D)
    PROVE  Sound(desc', body', pulse') /\ pulse' \in {pulse, "crashed"}
<1>1. Sound(desc, body, pulse)
    BY DEF SoundInv
<1>2. CASE Crashes(D) /\ pulse' = "crashed" /\ UNCHANGED <<desc, body>>
    BY <1>1, <1>2, CrashSound
<1>3. CASE ~Crashes(D) /\ desc' = CloseDescs(D) /\ body' = CloseBodies(D) /\ pulse' = pulse
    BY <1>1, <1>3, CloseSound
<1> QED
    BY <1>2, <1>3 DEF Close

\* extract_char of whoever plays or is in the world.
LEMMA ExtractStep ==
    ASSUME SoundInv, NEW b \in Players, body[b].place \in {"world", "extracted"}, Extract(b),
           pulse' = pulse
    PROVE  Sound(desc', body', pulse')
<1>1. Sound(desc, body, pulse)
    BY DEF SoundInv
<1> QED
    BY <1>1, ExtractSound DEF Extract

\* What those hold who play: a body that is not a guest, and not freed unless the model stops.
LEMMA Played ==
    ASSUME SoundInv, NEW d \in Descs, desc[d].state = "Playing", ~Dangles(d)
    PROVE  /\ desc[d].char \in Bodies
           /\ body[desc[d].char].place \in {"world", "extracted"}
           /\ desc[d].orig # NoBody => desc[d].char = Mob /\ body[desc[d].orig].place \in {"world", "extracted"}
<1>1. /\ desc[d].char \in Bodies /\ body[desc[d].char].place # "guest"
      /\ desc[d].orig # NoBody => desc[d].char = Mob /\ body[desc[d].orig].place # "guest"
      /\ desc[d] \in Descriptor
    BY DEF SoundInv, Sound, Shaped
<1>2. /\ body[desc[d].char].place # "none"
      /\ desc[d].orig # NoBody => body[desc[d].orig].place # "none"
    BY <1>1, SessionAssumption DEF Dangles, Bodies
<1>3. \A x \in Bodies : body[x].place \in {"none", "guest", "world", "extracted"}
    BY DEF SoundInv, Sound, Char
<1> QED
    BY <1>1, <1>2, <1>3 DEF Descriptor, Bodies

\* try_load_player, of a name and a version on file.
LEMMA LoadStep ==
    ASSUME SoundInv, pulse = "input", \A o \in Descs : ~Dangles(o),
           NEW d \in Descs, desc[d].state \in {"none", "GetName"}, NEW n \in Names, NEW s \in Hosts,
           Loads(d, n, s), pulse' = pulse
    PROVE  Sound(desc', body', pulse')
<1>1. Sound(desc, body, pulse) /\ file[n] \in 0 .. MaxVersion
    BY DEF SoundInv, Numbered
<1>2. PICK b \in Players :
        /\ body[b].place = "none"
        /\ body' = [body EXCEPT ![b] = [place |-> "guest", name |-> n, desc |-> d, version |-> file[n]]]
        /\ desc' = [desc EXCEPT ![d] = [state |-> s, guest |-> b, char |-> b, orig |-> NoBody]]
    BY DEF Loads
<1>3. \A o \in Descs : b \notin {desc[o].guest, desc[o].char, desc[o].orig}
    BY <1>2, SessionAssumption DEF Dangles
<1> QED
    BY <1>1, <1>2, <1>3, LoadsSound

LEMMA InitSound == Init => SoundInv
<1> SUFFICES ASSUME Init
             PROVE  SoundInv
    OBVIOUS
<1>1. Numbered
    BY SessionAssumption DEF Init, Numbered
<1>2. \A d \in Descs : desc[d] = Blank("none") /\ desc[d].state = "none"
    BY Blanks DEF Init
<1>3. desc \in [Descs -> Descriptor]
    BY Blanks DEF Init
<1>4. \A b \in Bodies : body[b] = IF b = Mob THEN [Freed EXCEPT !.place = "world"] ELSE Freed
    BY DEF Init
<1>5. [Freed EXCEPT !.place = "world"] \in Char
    BY SessionAssumption DEF Freed, Char
<1>6. body \in [Bodies -> Char]
    BY <1>5, FreedBody DEF Init
<1>7. /\ body[Mob].place = "world" /\ body[Mob].name = MobName /\ body[Mob].desc = NoDesc
      /\ \A b \in Players : body[b] = Freed
    BY <1>4, SessionAssumption DEF Bodies, Freed
<1>8. Shaped(desc, body)
    BY <1>2 DEF Shaped, Hosts, Lobby
<1>9. Placed(desc, body)
    BY <1>7, FreedBody DEF Placed
<1>10. Linked(desc, body) /\ Leaving(desc, body, pulse)
    BY <1>7, FreedBody DEF Linked, Leaving, Bodies
<1> QED
    BY <1>1, <1>3, <1>6, <1>8, <1>9, <1>10 DEF SoundInv, Sound

LEMMA SoundStep == SoundInv /\ [Next]_vars => SoundInv'
<1> SUFFICES ASSUME SoundInv, [Next]_vars
             PROVE  SoundInv'
    OBVIOUS
<1> USE DEF Nannied
<1>0. /\ Numbered
      /\ Sound(desc, body, pulse)
      /\ desc \in [Descs -> Descriptor]
      /\ body \in [Bodies -> Char]
      /\ \A s \in Hosts : s \in Lobby \ {"GetName"}
      /\ {"GetOldPassword", "ConfirmNewName", "Creating", "Motd", "BreakConnect"} \subseteq Hosts
    BY DEF SoundInv, Sound, Hosts, Lobby
<1> DEFINE Kept == pulse' \in {pulse, "crashed"} /\ UNCHANGED <<file, latest>>
<1>1. ASSUME Kept PROVE Numbered'
    BY <1>0, <1>1 DEF Numbered
<1> SUFFICES Numbered' /\ Sound(desc', body', pulse')
    BY DEF SoundInv
<1>2. CASE UNCHANGED vars
    BY <1>0, <1>2 DEF vars, Numbered
<1>3. CASE Next
    <2>0. pulse # "crashed" /\ (\A d \in Descs : ~Dangles(d))
        BY <1>3 DEF Next
    <2>1. ASSUME NEW d \in Descs, Connect(d)
          PROVE  Numbered' /\ Sound(desc', body', pulse')
        <3>1. desc[d] = Blank("none") /\ UNCHANGED <<pulse, body, file, latest>> /\ pulse = "input"
            BY <2>1, <1>0 DEF Connect, Sound, Shaped
        <3>2. desc' = [desc EXCEPT ![d] = Blank("GetName")]
            <4>1. [Blank("none") EXCEPT !.state = "GetName"] = Blank("GetName")
                BY DEF Blank
            <4>2. desc' = [desc EXCEPT ![d] = [desc[d] EXCEPT !.state = "GetName"]]
                BY <2>1 DEF Connect, Moves
            <4> QED
                BY <3>1, <4>1, <4>2
        <3>3. /\ desc' \in [Descs -> Descriptor]
              /\ \A o \in Descs : o # d => desc'[o] = desc[o]
              /\ desc'[d] = Blank("GetName") /\ desc'[d].state = "GetName" /\ desc[d].state = "none"
            BY <3>1, <3>2, <1>0, Blanks DEF Lobby
        <3>4. \A s \in Hosts : s \notin {"none", "GetName", "Playing", "Closed"}
            BY DEF Hosts, Lobby
        <3>5. Shaped(desc', body) /\ Placed(desc', body) /\ Linked(desc', body) /\ Leaving(desc', body, pulse)
            BY <3>1, <3>3, <3>4, <1>0 DEF Sound, Shaped, Placed, Linked, Leaving, Char, Bodies
        <3> QED
            BY <3>1, <3>3, <3>5, <1>0, <1>1 DEF Sound
    <2>2. ASSUME NEW d \in Descs, NEW n \in Names, GiveName(d, n)
          PROVE  Numbered' /\ Sound(desc', body', pulse')
        BY <2>0, <2>2, <1>0, <1>1, LoadStep DEF GiveName
    <2>3. ASSUME NEW d \in Descs, TurnAway(d)
          PROVE  Numbered' /\ Sound(desc', body', pulse')
        BY <2>3, <1>1, CloseStep DEF TurnAway
    <2>4. ASSUME NEW d \in Descs, Password(d)
          PROVE  Numbered' /\ Sound(desc', body', pulse')
        <3>1. desc[d].state \in Hosts /\ UNCHANGED <<pulse, file, latest>>
            BY <2>4, <1>0 DEF Password
        <3>2. CASE body' = body /\ (Moves(d, "BreakConnect") \/ Moves(d, "Motd"))
            BY <3>1, <3>2, <1>0, <1>1, MovesSound DEF Moves
        <3>3. ASSUME NEW b \in LinkDead(body, GuestName(d)), TakeOver(desc, body, d, b)
              PROVE  Numbered' /\ Sound(desc', body', pulse')
            <4>1. /\ b \in Players /\ body[b].place \in {"world", "extracted"}
                  /\ desc' = [desc EXCEPT ![d] = [Blank("Playing") EXCEPT !.char = b]]
                  /\ body' = [body EXCEPT ![desc[d].guest] = Freed, ![b].desc = d]
                BY <3>3 DEF LinkDead, TakeOver
            <4>2. Sound(desc', body', pulse)
                BY <3>1, <4>1, <1>0, TakeOverSound
            <4> QED
                BY <3>1, <4>2, <1>1
        <3> QED
            BY <2>4, <3>2, <3>3 DEF Password
    <2>5. ASSUME NEW d \in Descs, BreakConnectYes(d)
          PROVE  Numbered' /\ Sound(desc', body', pulse')
        <3> DEFINE n == GuestName(d)
                   others == {o \in Descs \ {d} : desc[o].char # NoBody /\ body[desc[o].char].name = n}
                   ds == CloseDescs(others)
                   bs == CloseBodies(others)
        <3>1. desc[d].state \in Hosts /\ UNCHANGED <<pulse, file, latest>>
            BY <2>5, <1>0 DEF BreakConnectYes
        <3>2. Sound(ds, bs, pulse) /\ ds[d] = desc[d]
            BY <1>0, CloseSound DEF CloseDescs
        <3>3. \/ \E b \in LinkDead(bs, n) : TakeOver(ds, bs, d, b)
              \/ /\ desc' = [ds EXCEPT ![d] = Blank("GetName")]
                 /\ body' = [bs EXCEPT ![desc[d].guest] = Freed]
            BY <2>5 DEF BreakConnectYes
        <3> HIDE DEF ds, bs
        <3>4. ASSUME NEW b \in LinkDead(bs, n), TakeOver(ds, bs, d, b)
              PROVE  Numbered' /\ Sound(desc', body', pulse')
            <4>1. /\ b \in Players /\ bs[b].place \in {"world", "extracted"}
                  /\ desc' = [ds EXCEPT ![d] = [Blank("Playing") EXCEPT !.char = b]]
                  /\ body' = [bs EXCEPT ![ds[d].guest] = Freed, ![b].desc = d]
                BY <3>2, <3>4 DEF LinkDead, TakeOver
            <4>2. Sound(desc', body', pulse)
                BY <3>1, <3>2, <4>1, TakeOverSound
            <4> QED
                BY <3>1, <4>2, <1>1
        <3>5. CASE /\ desc' = [ds EXCEPT ![d] = Blank("GetName")]
                   /\ body' = [bs EXCEPT ![desc[d].guest] = Freed]
            BY <3>1, <3>2, <3>5, <1>1, RestartSound
        <3> QED
            BY <3>3, <3>4, <3>5
    <2>6. ASSUME NEW d \in Descs, AnswerNo(d)
          PROVE  Numbered' /\ Sound(desc', body', pulse')
        <3>1. desc[d].state \in Hosts
            BY <2>6, <1>0 DEF AnswerNo
        <3> QED
            BY <2>6, <3>1, <1>0, <1>1, RestartSound DEF AnswerNo, Restart
    <2>7. ASSUME NEW d \in Descs, ConfirmName(d)
          PROVE  Numbered' /\ Sound(desc', body', pulse')
        BY <2>7, <1>0, <1>1, MovesSound DEF ConfirmName, Moves
    <2>8. ASSUME NEW d \in Descs, FinishCreation(d)
          PROVE  Numbered' /\ Sound(desc', body', pulse')
        <3> DEFINE n == GuestName(d)
                   g == desc[d].guest
        <3>1. desc[d].state \in Hosts /\ n \in Names /\ g \in Players /\ body[g].place = "guest"
            BY <2>8, <1>0, GuestNamed DEF FinishCreation
        <3>2. CASE Close({d}) /\ UNCHANGED <<file, latest>>
            BY <3>2, <1>1, CloseStep
        <3>3. CASE /\ latest[n] < MaxVersion
                   /\ latest' = [latest EXCEPT ![n] = @ + 1]
                   /\ file' = [file EXCEPT ![n] = latest'[n]]
                   /\ body' = [body EXCEPT ![g].version = latest'[n]]
                   /\ Moves(d, "Motd")
                   /\ UNCHANGED pulse
            <4>1. latest'[n] \in 0 .. MaxVersion /\ latest[n] + 1 \in 0 .. MaxVersion
                BY <3>1, <3>3, <1>0, SessionAssumption DEF Numbered
            <4>2. Numbered'
                BY <3>1, <3>3, <4>1, <1>0 DEF Numbered
            <4>3. Sound(desc, body', pulse)
                BY <3>1, <3>3, <4>1, <1>0, VersionSound
            <4> QED
                <5>1. Sound(desc', body', pulse)
                    BY <3>1, <3>3, <4>3, <1>0, MovesSound DEF Moves
                <5> QED
                    BY <3>3, <4>2, <5>1
        <3> QED
            BY <2>8, <3>2, <3>3 DEF FinishCreation
    <2>9. ASSUME NEW d \in Descs, EnterGame(d)
          PROVE  Numbered' /\ Sound(desc', body', pulse')
        <3>1. desc[d].state \in Hosts
            BY <2>9, <1>0 DEF EnterGame
        <3> QED
            BY <2>9, <3>1, <1>0, <1>1, EnterSound DEF EnterGame
    <2>10. ASSUME NEW d \in Descs, NEW n \in Names, Reconnect(d, n)
           PROVE  Numbered' /\ Sound(desc', body', pulse')
        <3>1. desc[d].state = "none" /\ pulse = "input" /\ UNCHANGED <<pulse, file, latest>>
            BY <2>10 DEF Reconnect
        <3>2. CASE Loads(d, n, "ConfirmNewName") \/ Loads(d, n, "BreakConnect") \/ Loads(d, n, "Motd")
            BY <2>0, <3>1, <3>2, <1>0, <1>1, LoadStep
        <3>3. CASE desc' = [desc EXCEPT ![d] = Blank("Closed")] /\ body' = body
            <4>1. desc' = CloseDescs({d})
                BY <3>3, <1>0 DEF CloseDescs
            <4>2. desc[d].guest = NoBody
                BY <3>1, <1>0, Blanks DEF Sound, Shaped
            <4>3. \A b \in Bodies : CloseBodies({d})[b] = body[b]
                BY <3>1, <4>2, SessionAssumption DEF CloseBodies, Bodies
            <4>4. body' = CloseBodies({d})
                BY <3>3, <4>3, <1>0 DEF CloseBodies
            <4> QED
                BY <3>1, <4>1, <4>4, <1>0, <1>1, CloseSound
        <3> QED
            BY <2>10, <3>2, <3>3 DEF Reconnect
    <2>11. ASSUME NEW d \in Descs, Quit(d)
           PROVE  Numbered' /\ Sound(desc', body', pulse')
        <3>1. body[desc[d].char].place \in {"world", "extracted"} /\ desc[d].char \in Bodies
            BY <2>0, <2>11, Played DEF Quit
        <3> QED
            BY <2>11, <3>1, <1>0, ExtractStep, SaveTyped DEF Quit, Numbered
    <2>12. ASSUME NEW d \in Descs, Delete(d)
           PROVE  Numbered' /\ Sound(desc', body', pulse')
        <3>1. body[desc[d].char].place \in {"world", "extracted"} /\ desc[d].char \in Bodies
            BY <2>0, <2>12, Played DEF Delete
        <3>2. Numbered'
            <4>1. 0 \in 0 .. MaxVersion
                BY SessionAssumption
            <4> QED
                BY <2>12, <4>1, <1>0 DEF Delete, Numbered
        <3> QED
            BY <2>12, <3>1, <3>2, <1>0, ExtractStep DEF Delete
    <2>13. ASSUME NEW d \in Descs, Switch(d)
           PROVE  Numbered' /\ Sound(desc', body', pulse')
        <3>1. Sound(desc', body', pulse)
            <4>1. /\ desc[d].state = "Playing" /\ desc[d].orig = NoBody
                  /\ desc' = [desc EXCEPT ![d].orig = desc[d].char, ![d].char = Mob]
                  /\ body' = [body EXCEPT ![Mob].desc = d, ![desc[d].char].desc = NoDesc]
                  /\ pulse' = pulse
                BY <2>13 DEF Switch
            <4> QED
                BY <4>1, <1>0, SwitchSound
        <3> QED
            BY <2>13, <3>1, <1>1 DEF Switch
    <2>14. ASSUME NEW d \in Descs, Return(d)
           PROVE  Numbered' /\ Sound(desc', body', pulse')
        <3>1. body[desc[d].orig].place # "none"
            BY <2>0, <2>14, Played DEF Return
        <3> QED
            <4>1. Sound(desc', body', pulse)
                <5>1. /\ desc[d].state = "Playing" /\ desc[d].orig # NoBody
                      /\ desc' = [desc EXCEPT ![d].orig = NoBody, ![d].char = desc[d].orig]
                      /\ body' = [body EXCEPT ![desc[d].char].desc = NoDesc, ![desc[d].orig].desc = d]
                      /\ pulse' = pulse
                    BY <2>14 DEF Return
                <5> QED
                    BY <3>1, <5>1, <1>0, ReturnSound
            <4> QED
                BY <2>14, <4>1, <1>1 DEF Return
    <2>15. ASSUME NEW d \in Descs, LinkLost(d)
           PROVE  Numbered' /\ Sound(desc', body', pulse')
        <3>1. Sound(desc', body', pulse') /\ pulse' \in {pulse, "crashed"}
            BY <2>15, CloseStep DEF LinkLost
        <3>2. desc[d].char \in Bodies \cup {NoBody}
            BY <1>0 DEF Descriptor
        <3>3. file' \in [Names \cup {MobName} -> 0 .. MaxVersion]
            BY <2>15, <3>2, <1>0, SaveTyped DEF LinkLost, Numbered
        <3> QED
            BY <2>15, <3>1, <3>3, <1>0 DEF LinkLost, Numbered
    <2>16. ASSUME NEW b \in Players, Progress(b)
           PROVE  Numbered' /\ Sound(desc', body', pulse')
        <3> DEFINE n == body[b].name
        <3>1. n \in Names /\ body[b].place # "none"
            BY <2>16, <1>0 DEF Progress, InWorld, Sound, Placed
        <3>2. latest'[n] \in 0 .. MaxVersion /\ latest[n] + 1 \in 0 .. MaxVersion
            BY <2>16, <3>1, <1>0, SessionAssumption DEF Progress, Numbered
        <3>3. Numbered'
            BY <2>16, <3>1, <3>2, <1>0 DEF Progress, Numbered
        <3> QED
            <4>1. Sound(desc, body', pulse)
                BY <2>16, <3>1, <3>2, <1>0, VersionSound DEF Progress
            <4> QED
                BY <2>16, <3>3, <4>1 DEF Progress
    <2>17. ASSUME NEW b \in Players, SaveCommand(b)
           PROVE  Numbered' /\ Sound(desc', body', pulse')
        BY <2>17, <1>0, SaveTyped DEF SaveCommand, Numbered, Bodies
    <2>18. ASSUME NEW b \in Players, Purge(b)
           PROVE  Numbered' /\ Sound(desc', body', pulse')
        BY <2>18, <1>0, SaveTyped, ExtractStep DEF Purge, InWorld, Numbered, Bodies
    <2>19. ASSUME NEW b \in Players, AutoQuit(b)
           PROVE  Numbered' /\ Sound(desc', body', pulse')
        BY <2>19, <1>0, SaveTyped, ExtractStep DEF AutoQuit, InWorld, Numbered, Bodies
    <2>20. ASSUME NEW b \in Bodies, AutoSave(b)
           PROVE  Numbered' /\ Sound(desc', body', pulse')
        <3>1. file' \in {file, Save(b)} /\ pulse' \in {pulse, "crashed"}
              /\ desc' = desc /\ body' = body /\ latest' = latest
            BY <2>20 DEF AutoSave
        <3>2. Numbered'
            BY <3>1, <1>0, SaveTyped DEF Numbered
        <3>3. Sound(desc, body, pulse')
            BY <3>1, <1>0 DEF Sound, Leaving
        <3> QED
            BY <3>1, <3>2, <3>3
    <2>21. CASE DoormanLost
        <3>1. {d \in Descs : Open(d)} \in SUBSET Descs
            OBVIOUS
        <3> QED
            BY <2>21, <3>1, <1>1, CloseStep DEF DoormanLost
    <2>22. CASE StartUpdate
        BY <2>22, <1>0, ReapedSound DEF StartUpdate, Numbered
    <2>23. CASE EndUpdate
        <3>1. Sound(Reaped(desc), body, "update")
            BY <1>0, ReapedSound
        <3> QED
            BY <2>23, <3>1, <1>0, CollectSound DEF EndUpdate, Numbered
    <2> QED
        BY <1>3, <2>1, <2>2, <2>3, <2>4, <2>5, <2>6, <2>7, <2>8, <2>9, <2>10, <2>11, <2>12, <2>13, <2>14,
           <2>15, <2>16, <2>17, <2>18, <2>19, <2>20, <2>21, <2>22, <2>23 DEF Next
<1> QED
    BY <1>2, <1>3

-----------------------------------------------------------------------------
(***************************************************************************)
(* Without purge and switch: what a descriptor refers to refers to it.     *)
(***************************************************************************)
LEMMA MovesMutual ==
    ASSUME NEW ds, NEW bs, NEW p, Sound(ds, bs, p), Mutual(ds, bs, p), NEW d \in Descs, NEW s,
           NEW es, es = [ds EXCEPT ![d].state = s]
    PROVE  Mutual(es, bs, p)
<1>1. \A o \in Descs : es[o].char = ds[o].char /\ es[o].orig = ds[o].orig
    BY DEF Sound, Descriptor
<1> QED
    BY <1>1 DEF Mutual

LEMMA LoadsMutual ==
    ASSUME NEW ds, NEW bs, NEW p, Sound(ds, bs, p), Mutual(ds, bs, p),
           NEW d \in Descs, NEW s, NEW n, NEW v,
           NEW b \in Players, bs[b].place = "none",
           NEW es, es = [ds EXCEPT ![d] = [state |-> s, guest |-> b, char |-> b, orig |-> NoBody]],
           NEW cs, cs = [bs EXCEPT ![b] = [place |-> "guest", name |-> n, desc |-> d, version |-> v]]
    PROVE  Mutual(es, cs, p)
<1>1. /\ \A o \in Descs : o # d => es[o] = ds[o]
      /\ es[d].char = b /\ es[d].orig = NoBody
    BY DEF Sound
<1>2. /\ \A x \in Bodies : x # b => cs[x] = bs[x]
      /\ cs[b].place = "guest" /\ cs[b].desc = d
    BY DEF Sound, Bodies
<1>3. \A o \in Descs : ds[o].char # NoBody => ds[o].char \in Bodies
    BY DEF Sound, Descriptor
<1> QED
    BY <1>1, <1>2, <1>3 DEF Mutual, Bodies

LEMMA RestartMutual ==
    ASSUME NEW ds, NEW bs, NEW p, Sound(ds, bs, p), Mutual(ds, bs, p),
           NEW d \in Descs, ds[d].state \in Hosts,
           NEW es, es = [ds EXCEPT ![d] = Blank("GetName")],
           NEW cs, cs = [bs EXCEPT ![ds[d].guest] = Freed]
    PROVE  Mutual(es, cs, p)
<1> DEFINE g == ds[d].guest
<1>1. /\ \A o \in Descs : o # d => es[o] = ds[o]
      /\ es[d].char = NoBody /\ es[d].orig = NoBody
    BY Blanks DEF Sound, Lobby
<1>2. g \in Bodies /\ bs[g].desc = d
    BY DEF Sound, Shaped, Bodies
<1>3. /\ \A x \in Bodies : x # g => cs[x] = bs[x]
      /\ cs[g].place = "none"
    BY <1>2, FreedBody DEF Sound
<1>4. \A o \in Descs : ds[o].char # NoBody => ds[o].char \in Bodies
    BY DEF Sound, Descriptor
<1> QED
    BY <1>1, <1>2, <1>3, <1>4 DEF Mutual, Bodies

LEMMA TakeOverMutual ==
    ASSUME NEW ds, NEW bs, Sound(ds, bs, "input"), Mutual(ds, bs, "input"),
           NEW d \in Descs, ds[d].state \in Hosts,
           NEW b \in Players, bs[b].place \in {"world", "extracted"}, bs[b].desc = NoDesc,
           NEW es, es = [ds EXCEPT ![d] = [Blank("Playing") EXCEPT !.char = b]],
           NEW cs, cs = [bs EXCEPT ![ds[d].guest] = Freed, ![b].desc = d]
    PROVE  Mutual(es, cs, "input")
<1> DEFINE g == ds[d].guest
<1>1. /\ \A o \in Descs : o # d => es[o] = ds[o]
      /\ es[d].char = b /\ es[d].orig = NoBody
    BY DEF Sound, Blank
<1>2. g \in Bodies /\ b \in Bodies /\ bs[g].desc = d /\ g # b
    BY DEF Sound, Shaped, Bodies
<1>3. bs[b].place = "world"
    BY DEF Mutual
<1>4. /\ \A x \in Bodies : x # g /\ x # b => cs[x] = bs[x]
      /\ cs[g].place = "none" /\ cs[b].place = "world" /\ cs[b].desc = d
    BY <1>2, <1>3, FreedBody DEF Sound, Char
<1>5. \A o \in Descs : ds[o].char # NoBody => ds[o].char \in Bodies /\ bs[ds[o].char].desc = o
    BY DEF Sound, Descriptor, Mutual
<1>6. ASSUME NEW o \in Descs, es[o].char # NoBody
      PROVE  cs[es[o].char].desc = o /\ cs[es[o].char].place \in {"guest", "world"}
    <2>1. CASE o = d
        BY <2>1, <1>1, <1>4
    <2>2. CASE o # d
        <3>1. es[o].char = ds[o].char /\ ds[o].char \in Bodies \ {g, b}
            BY <2>2, <1>1, <1>2, <1>5, <1>6, SessionAssumption
        <3>2. bs[ds[o].char].desc = o /\ bs[ds[o].char].place \in {"guest", "world"}
            BY <3>1, <1>6 DEF Mutual
        <3>3. cs[ds[o].char] = bs[ds[o].char]
            BY <3>1, <1>4
        <3> QED
            BY <3>1, <3>2, <3>3
    <2> QED
        BY <2>1, <2>2
<1>7. \A x \in Players : cs[x].place = "extracted" => cs[x].desc # NoDesc
    BY <1>4, ZenonT(40) DEF Mutual, Bodies
<1>8. \A o \in Descs : es[o].orig = NoBody
    BY <1>1 DEF Mutual
<1> QED
    BY <1>6, <1>7, <1>8 DEF Mutual

LEMMA CloseMutual ==
    ASSUME NEW p, Sound(desc, body, p), Mutual(desc, body, p), NEW D \in SUBSET Descs
    PROVE  Mutual(CloseDescs(D), CloseBodies(D), p)
<1> DEFINE es == CloseDescs(D)
           cs == CloseBodies(D)
           freed(b) == \E d \in D : desc[d].guest = b
           left(b) == \E d \in D : desc[d].state = "Playing" /\ desc[d].char = b
<1>1. /\ \A o \in Descs : o \notin D => es[o] = desc[o]
      /\ \A o \in D : es[o].char = NoBody /\ es[o].orig = NoBody
    BY Blanks DEF Sound, CloseDescs
<1>2. \A b \in Bodies :
         /\ freed(b) => cs[b] = Freed
         /\ ~freed(b) /\ left(b) => cs[b] = [body[b] EXCEPT !.desc = NoDesc]
         /\ ~freed(b) /\ ~left(b) => cs[b] = body[b]
    BY DEF CloseBodies
<1>3. \A b \in Bodies : ~freed(b) => cs[b].place = body[b].place
    <2> TAKE b \in Bodies
    <2>1. body[b] \in Char
        BY DEF Sound
    <2> QED
        BY <1>2, <2>1 DEF Char
<1> HIDE DEF es, cs
<1>4. \A d \in Descs : desc[d].guest # NoBody => desc[d].char = desc[d].guest
    BY Blanks DEF Sound, Shaped, Descriptor, Hosts, Lobby
<1>5. \A d \in Descs : desc[d].char # NoBody =>
         desc[d].char \in Bodies /\ body[desc[d].char].desc = d /\ body[desc[d].char].place # "extracted"
    BY DEF Sound, Descriptor, Mutual
<1>6. ASSUME NEW o \in Descs, es[o].char # NoBody
      PROVE  cs[es[o].char].desc = o /\ cs[es[o].char].place \in {"guest", "world"}
    <2>1. o \notin D /\ es[o] = desc[o]
        BY <1>1, <1>6
    <2>2. ~freed(desc[o].char) /\ ~left(desc[o].char)
        BY <1>4, <1>5, <1>6, <2>1, SessionAssumption DEF Bodies
    <2>3. cs[desc[o].char] = body[desc[o].char]
        BY <1>2, <1>5, <1>6, <2>1, <2>2
    <2> QED
        BY <1>6, <2>1, <2>3 DEF Mutual
<1>7. ASSUME p = "input", NEW b \in Players, cs[b].place = "extracted"
      PROVE  cs[b].desc # NoDesc
    <2>1. b \in Bodies /\ ~freed(b) /\ body[b].place = "extracted"
        BY <1>2, <1>3, <1>7, FreedBody DEF Bodies
    <2>2. ~left(b)
        BY <1>5, <2>1, SessionAssumption DEF Bodies
    <2> QED
        BY <1>2, <1>7, <2>1, <2>2 DEF Mutual
<1>8. \A o \in Descs : es[o].orig = NoBody
    BY <1>1 DEF Mutual
<1> QED
    BY <1>6, <1>7, <1>8 DEF Mutual, es, cs

LEMMA EnterMutual ==
    ASSUME NEW ds, NEW bs, NEW p, Sound(ds, bs, p), Mutual(ds, bs, p),
           NEW d \in Descs, ds[d].state \in Hosts,
           NEW es, es = [ds EXCEPT ![d].state = "Playing", ![d].guest = NoBody],
           NEW cs, cs = [bs EXCEPT ![ds[d].guest].place = "world"]
    PROVE  Mutual(es, cs, p)
<1> DEFINE g == ds[d].guest
<1>1. \A o \in Descs : es[o].char = ds[o].char /\ es[o].orig = ds[o].orig
    <2>1. \A o \in Descs : ds[o] \in Descriptor
        BY DEF Sound
    <2>2. es = [ds EXCEPT ![d] = [ds[d] EXCEPT !.state = "Playing", !.guest = NoBody]]
        BY DEF Sound
    <2> QED
        BY <2>1, <2>2 DEF Sound, Descriptor
<1>2. g \in Bodies
    BY DEF Sound, Shaped, Bodies
<1>3. /\ \A x \in Bodies : x # g => cs[x] = bs[x]
      /\ cs[g].place = "world" /\ cs[g].desc = bs[g].desc
    BY <1>2 DEF Sound, Char
<1>4. \A o \in Descs : ds[o].char # NoBody => ds[o].char \in Bodies
    BY DEF Sound, Descriptor
<1>5. ASSUME NEW o \in Descs, es[o].char # NoBody
      PROVE  cs[es[o].char].desc = o /\ cs[es[o].char].place \in {"guest", "world"}
    <2>1. /\ es[o].char = ds[o].char /\ ds[o].char \in Bodies
          /\ bs[ds[o].char].desc = o /\ bs[ds[o].char].place \in {"guest", "world"}
        BY <1>1, <1>4, <1>5 DEF Mutual
    <2>2. CASE ds[o].char = g
        BY <2>1, <2>2, <1>3
    <2>3. CASE ds[o].char # g
        <3>1. cs[ds[o].char] = bs[ds[o].char]
            BY <2>1, <2>3, <1>3
        <3> QED
            BY <2>1, <3>1
    <2> QED
        BY <2>2, <2>3
<1>6. p = "input" => \A x \in Players : cs[x].place = "extracted" => cs[x].desc # NoDesc
    BY <1>3 DEF Mutual, Bodies
<1>7. \A o \in Descs : es[o].orig = NoBody
    BY <1>1 DEF Mutual
<1> QED
    BY <1>5, <1>6, <1>7 DEF Mutual

LEMMA ExtractMutual ==
    ASSUME NEW ds, NEW bs, NEW p, Sound(ds, bs, p), Mutual(ds, bs, p),
           NEW b \in Players, p = "input" => bs[b].desc # NoDesc,
           NEW es, es = IF bs[b].desc = NoDesc THEN ds ELSE [ds EXCEPT ![bs[b].desc] = Blank("Closed")],
           NEW cs, cs = [bs EXCEPT ![b].place = "extracted"]
    PROVE  Mutual(es, cs, p)
<1> DEFINE e == bs[b].desc
<1>1. b \in Bodies /\ e \in Descs \cup {NoDesc}
    BY DEF Sound, Char, Bodies
<1>2. /\ \A o \in Descs : o # e => es[o] = ds[o]
      /\ e \in Descs => es[e].char = NoBody /\ es[e].orig = NoBody
    BY <1>1, Blanks, SessionAssumption DEF Sound
<1>3. /\ \A x \in Bodies : x # b => cs[x] = bs[x]
      /\ cs[b].desc = e
    BY <1>1 DEF Sound, Char
<1>4. \A o \in Descs : ds[o].char # NoBody => ds[o].char \in Bodies /\ (o # e => ds[o].char # b)
    BY DEF Sound, Descriptor, Mutual
<1>5. ASSUME NEW o \in Descs, es[o].char # NoBody
      PROVE  cs[es[o].char].desc = o /\ cs[es[o].char].place \in {"guest", "world"}
    <2>1. o # e
        BY <1>2, <1>5
    <2>2. es[o] = ds[o] /\ ds[o].char \in Bodies \ {b}
        BY <2>1, <1>2, <1>4, <1>5
    <2> QED
        BY <2>2, <1>3, <1>5 DEF Mutual
<1>6. p = "input" => \A x \in Players : cs[x].place = "extracted" => cs[x].desc # NoDesc
    BY <1>3 DEF Mutual, Bodies
<1>7. \A o \in Descs : es[o].orig = NoBody
    BY <1>2 DEF Mutual
<1> QED
    BY <1>5, <1>6, <1>7 DEF Mutual

LEMMA ReapedMutual ==
    ASSUME NEW ds, NEW bs, NEW p, Mutual(ds, bs, p)
    PROVE  Mutual(Reaped(ds), bs, "update")
<1>1. \A o \in Descs : /\ ds[o].state # "Closed" => Reaped(ds)[o] = ds[o]
                       /\ ds[o].state = "Closed" => Reaped(ds)[o].char = NoBody /\ Reaped(ds)[o].orig = NoBody
    BY Blanks DEF Reaped
<1> QED
    BY <1>1 DEF Mutual

LEMMA CollectMutual ==
    ASSUME NEW ds, NEW bs, NEW p, Sound(ds, bs, p), Mutual(ds, bs, p),
           NEW cs, cs = [b \in Bodies |-> IF bs[b].place = "extracted" THEN Freed ELSE bs[b]]
    PROVE  Mutual(ds, cs, "input")
<1>1. /\ \A b \in Bodies : bs[b].place # "extracted" => cs[b] = bs[b]
      /\ \A b \in Bodies : cs[b].place # "extracted"
    BY FreedBody
<1>2. \A o \in Descs : ds[o].char # NoBody => ds[o].char \in Bodies
    BY DEF Sound, Descriptor
<1> QED
    BY <1>1, <1>2 DEF Mutual, Bodies

LEMMA VersionMutual ==
    ASSUME NEW ds, NEW bs, NEW p, Sound(ds, bs, p), Mutual(ds, bs, p), NEW b \in Players, NEW v,
           NEW cs, cs = [bs EXCEPT ![b].version = v]
    PROVE  Mutual(ds, cs, p)
<1>1. \A x \in Bodies : cs[x].place = bs[x].place /\ cs[x].desc = bs[x].desc
    BY DEF Sound, Char, Bodies
<1>2. \A o \in Descs : ds[o].char # NoBody => ds[o].char \in Bodies
    BY DEF Sound, Descriptor
<1> QED
    BY <1>1, <1>2 DEF Mutual, Bodies

LEMMA InitMutual == Init => Mutual(desc, body, pulse)
<1> SUFFICES ASSUME Init
             PROVE  Mutual(desc, body, pulse)
    OBVIOUS
<1>1. \A d \in Descs : desc[d].char = NoBody /\ desc[d].orig = NoBody
    BY Blanks DEF Init
<1>2. \A b \in Players : body[b].place = "none"
    BY FreedBody, SessionAssumption DEF Init, Bodies
<1> QED
    BY <1>1, <1>2 DEF Mutual

LEMMA MutualStep ==
    ASSUME "purge" \notin Commands, "switch" \notin Commands, SoundInv, Mutual(desc, body, pulse), [Next]_vars
    PROVE  Mutual(desc', body', pulse')
<1> USE DEF Nannied
<1>0. /\ Numbered
      /\ Sound(desc, body, pulse)
      /\ desc \in [Descs -> Descriptor]
      /\ body \in [Bodies -> Char]
      /\ \A s \in Hosts : s \in Lobby \ {"GetName"}
      /\ {"GetOldPassword", "ConfirmNewName", "Creating", "Motd", "BreakConnect"} \subseteq Hosts
    BY DEF SoundInv, Sound, Hosts, Lobby
<1>1. ASSUME NEW D \in SUBSET Descs, Close(D)
      PROVE  Mutual(desc', body', pulse')
    <2>1. ~Crashes(D)
        BY DEF Crashes, Mutual
    <2> QED
        BY <1>0, <1>1, <2>1, CloseMutual DEF Close
<1>2. CASE UNCHANGED vars
    BY <1>2 DEF vars
<1>3. CASE Next
    <2>1. ASSUME NEW d \in Descs, Connect(d)
          PROVE  Mutual(desc', body', pulse')
        BY <2>1, <1>0, MovesMutual DEF Connect, Moves
    <2>2. ASSUME NEW d \in Descs, NEW n \in Names, NEW s, Loads(d, n, s), pulse' = pulse
          PROVE  Mutual(desc', body', pulse')
        <3>1. PICK b \in Players :
                /\ body[b].place = "none"
                /\ body' = [body EXCEPT ![b] = [place |-> "guest", name |-> n, desc |-> d, version |-> file[n]]]
                /\ desc' = [desc EXCEPT ![d] = [state |-> s, guest |-> b, char |-> b, orig |-> NoBody]]
            BY <2>2 DEF Loads
        <3> QED
            BY <2>2, <3>1, <1>0, LoadsMutual
    <2>3. ASSUME NEW d \in Descs, NEW n \in Names, GiveName(d, n)
          PROVE  Mutual(desc', body', pulse')
        BY <2>2, <2>3 DEF GiveName
    <2>4. ASSUME NEW d \in Descs, TurnAway(d)
          PROVE  Mutual(desc', body', pulse')
        BY <2>4, <1>1 DEF TurnAway
    <2>5. ASSUME NEW d \in Descs, Password(d)
          PROVE  Mutual(desc', body', pulse')
        <3>1. desc[d].state \in Hosts /\ pulse = "input" /\ pulse' = pulse
            BY <2>5, <1>0 DEF Password
        <3>2. CASE body' = body /\ (Moves(d, "BreakConnect") \/ Moves(d, "Motd"))
            BY <3>1, <3>2, <1>0, MovesMutual DEF Moves
        <3>3. ASSUME NEW b \in LinkDead(body, GuestName(d)), TakeOver(desc, body, d, b)
              PROVE  Mutual(desc', body', pulse')
            <4>1. /\ b \in Players /\ body[b].place \in {"world", "extracted"} /\ body[b].desc = NoDesc
                  /\ desc' = [desc EXCEPT ![d] = [Blank("Playing") EXCEPT !.char = b]]
                  /\ body' = [body EXCEPT ![desc[d].guest] = Freed, ![b].desc = d]
                BY <3>3 DEF LinkDead, TakeOver
            <4>2. Mutual(desc', body', "input")
                BY <3>1, <4>1, <1>0, TakeOverMutual
            <4> QED
                BY <3>1, <4>2
        <3> QED
            BY <2>5, <3>2, <3>3 DEF Password
    <2>6. ASSUME NEW d \in Descs, BreakConnectYes(d)
          PROVE  Mutual(desc', body', pulse')
        <3> DEFINE n == GuestName(d)
                   others == {o \in Descs \ {d} : desc[o].char # NoBody /\ body[desc[o].char].name = n}
                   ds == CloseDescs(others)
                   bs == CloseBodies(others)
        <3>1. desc[d].state \in Hosts /\ pulse = "input" /\ pulse' = pulse
            BY <2>6, <1>0 DEF BreakConnectYes
        <3>2. Sound(ds, bs, pulse) /\ Mutual(ds, bs, pulse) /\ ds[d] = desc[d]
            BY <1>0, CloseSound, CloseMutual DEF CloseDescs
        <3>3. \/ \E b \in LinkDead(bs, n) : TakeOver(ds, bs, d, b)
              \/ /\ desc' = [ds EXCEPT ![d] = Blank("GetName")]
                 /\ body' = [bs EXCEPT ![desc[d].guest] = Freed]
            BY <2>6 DEF BreakConnectYes
        <3> HIDE DEF ds, bs
        <3>4. ASSUME NEW b \in LinkDead(bs, n), TakeOver(ds, bs, d, b)
              PROVE  Mutual(desc', body', pulse')
            <4>1. /\ b \in Players /\ bs[b].place \in {"world", "extracted"} /\ bs[b].desc = NoDesc
                  /\ desc' = [ds EXCEPT ![d] = [Blank("Playing") EXCEPT !.char = b]]
                  /\ body' = [bs EXCEPT ![ds[d].guest] = Freed, ![b].desc = d]
                BY <3>2, <3>4 DEF LinkDead, TakeOver
            <4>2. Mutual(desc', body', "input")
                BY <3>1, <3>2, <4>1, TakeOverMutual
            <4> QED
                BY <3>1, <4>2
        <3>5. CASE /\ desc' = [ds EXCEPT ![d] = Blank("GetName")]
                   /\ body' = [bs EXCEPT ![desc[d].guest] = Freed]
            BY <3>1, <3>2, <3>5, RestartMutual
        <3> QED
            BY <3>3, <3>4, <3>5
    <2>7. ASSUME NEW d \in Descs, AnswerNo(d)
          PROVE  Mutual(desc', body', pulse')
        <3>1. desc[d].state \in Hosts
            BY <2>7, <1>0 DEF AnswerNo
        <3> QED
            BY <2>7, <3>1, <1>0, RestartMutual DEF AnswerNo, Restart
    <2>8. ASSUME NEW d \in Descs, ConfirmName(d)
          PROVE  Mutual(desc', body', pulse')
        BY <2>8, <1>0, MovesMutual DEF ConfirmName, Moves
    <2>9. ASSUME NEW d \in Descs, FinishCreation(d)
          PROVE  Mutual(desc', body', pulse')
        <3> DEFINE n == GuestName(d)
                   g == desc[d].guest
        <3>1. n \in Names /\ g \in Players /\ body[g].place = "guest"
            BY <2>9, <1>0, GuestNamed DEF FinishCreation
        <3>2. CASE Close({d})
            BY <3>2, <1>1
        <3>3. CASE /\ latest[n] < MaxVersion
                   /\ latest' = [latest EXCEPT ![n] = @ + 1]
                   /\ body' = [body EXCEPT ![g].version = latest'[n]]
                   /\ Moves(d, "Motd")
                   /\ UNCHANGED pulse
            <4>1. latest'[n] \in 0 .. MaxVersion
                BY <3>1, <3>3, <1>0, SessionAssumption DEF Numbered
            <4>2. Sound(desc, body', pulse) /\ Mutual(desc, body', pulse)
                BY <3>1, <3>3, <4>1, <1>0, VersionSound, VersionMutual
            <4>3. desc' = [desc EXCEPT ![d].state = "Motd"] /\ pulse' = pulse
                BY <3>3 DEF Moves
            <4> QED
                BY <4>2, <4>3, MovesMutual
        <3> QED
            BY <2>9, <3>2, <3>3 DEF FinishCreation
    <2>10. ASSUME NEW d \in Descs, EnterGame(d)
           PROVE  Mutual(desc', body', pulse')
        <3>1. desc[d].state \in Hosts
            BY <2>10, <1>0 DEF EnterGame
        <3> QED
            BY <2>10, <3>1, <1>0, EnterMutual DEF EnterGame
    <2>11. ASSUME NEW d \in Descs, NEW n \in Names, Reconnect(d, n)
           PROVE  Mutual(desc', body', pulse')
        <3>1. CASE desc' = [desc EXCEPT ![d] = Blank("Closed")] /\ body' = body
            <4>1. \A o \in Descs : o # d => desc'[o] = desc[o]
                BY <3>1, <1>0
            <4>2. desc'[d].char = NoBody /\ desc'[d].orig = NoBody
                BY <3>1, <1>0, Blanks
            <4> QED
                BY <2>11, <3>1, <4>1, <4>2 DEF Mutual, Reconnect
        <3> QED
            BY <2>2, <2>11, <3>1 DEF Reconnect
    <2>12. ASSUME NEW d \in Descs, Quit(d) \/ Delete(d)
           PROVE  Mutual(desc', body', pulse')
        <3>1. /\ desc[d].char \in Players /\ pulse' = pulse
              /\ Extract(desc[d].char) \/ UNCHANGED <<desc, body>>
            BY <2>12 DEF Quit, Delete
        <3>2. body[desc[d].char].desc = d /\ d # NoDesc
            BY <3>1, SessionAssumption DEF Mutual, Bodies
        <3> QED
            BY <3>1, <3>2, <1>0, ExtractMutual DEF Extract
    <2>13. ASSUME NEW d \in Descs, Switch(d) \/ Return(d)
           PROVE  FALSE
        BY <2>13 DEF Switch, Return, Mutual
    <2>14. ASSUME NEW d \in Descs, LinkLost(d)
           PROVE  Mutual(desc', body', pulse')
        BY <2>14, <1>1 DEF LinkLost
    <2>15. ASSUME NEW b \in Players, Progress(b)
           PROVE  Mutual(desc', body', pulse')
        <3>1. /\ body' = [body EXCEPT ![b].version = latest'[body[b].name]]
              /\ pulse' = pulse /\ desc' = desc
            BY <2>15 DEF Progress
        <3>2. Mutual(desc, body', pulse)
            BY <3>1, <1>0, VersionMutual
        <3> QED
            BY <3>1, <3>2
    <2>16. ASSUME NEW b \in Bodies, SaveCommand(b) \/ AutoSave(b)
           PROVE  Mutual(desc', body', pulse')
        <3>1. desc' = desc /\ body' = body /\ pulse' \in {pulse, "crashed"}
            BY <2>16 DEF SaveCommand, AutoSave
        <3> QED
            BY <3>1, <1>0 DEF Mutual
    <2>17. ASSUME NEW b \in Players, Purge(b)
           PROVE  FALSE
        BY <2>17 DEF Purge
    <2>18. ASSUME NEW b \in Players, AutoQuit(b)
           PROVE  Mutual(desc', body', pulse')
        BY <2>18, <1>0, ExtractMutual DEF AutoQuit, Extract
    <2>19. CASE DoormanLost
        <3>1. {d \in Descs : Open(d)} \in SUBSET Descs
            OBVIOUS
        <3> QED
            BY <2>19, <3>1, <1>1 DEF DoormanLost
    <2>20. CASE StartUpdate
        BY <2>20, ReapedMutual DEF StartUpdate
    <2>21. CASE EndUpdate
        <3>1. Sound(Reaped(desc), body, "update") /\ Mutual(Reaped(desc), body, "update")
            BY <1>0, ReapedSound, ReapedMutual
        <3> QED
            BY <2>21, <3>1, CollectMutual DEF EndUpdate
    <2> QED
        BY <1>3, <2>1, <2>3, <2>4, <2>5, <2>6, <2>7, <2>8, <2>9, <2>10, <2>11, <2>12, <2>13, <2>14,
           <2>15, <2>16, <2>17, <2>18, <2>19, <2>20, <2>21 DEF Next, Bodies
<1> QED
    BY <1>2, <1>3

-----------------------------------------------------------------------------
(***************************************************************************)
(* The theorems so far.                                                    *)
(***************************************************************************)
LEMMA SoundAlways == Spec => []SoundInv
<1>1. Init => SoundInv
    BY InitSound
<1>2. SoundInv /\ [Next]_vars => SoundInv'
    BY SoundStep
<1> QED
    BY <1>1, <1>2, PTL DEF Spec

LEMMA MutualAlways ==
    ASSUME "purge" \notin Commands, "switch" \notin Commands
    PROVE  Spec => []MutualInv
<1>1. Init => MutualInv
    BY InitSound, InitMutual DEF MutualInv
<1>2. MutualInv /\ [Next]_vars => MutualInv'
    <2> SUFFICES ASSUME MutualInv, [Next]_vars
                 PROVE  MutualInv'
        OBVIOUS
    <2>1. SoundInv'
        BY SoundStep DEF MutualInv
    <2>2. Mutual(desc', body', pulse')
        BY MutualStep DEF MutualInv
    <2> QED
        BY <2>1, <2>2 DEF MutualInv
<1> QED
    BY <1>1, <1>2, PTL DEF Spec

\* Descriptors, bodies, files and versions keep their types, whatever the commands: guests,
\* characters and originals are what the code takes them for (Descriptor.hpp, Char.hpp).
THEOREM SessionTypes == Spec => []TypeOK
<1>1. SoundInv => TypeOK
    BY DEF SoundInv, Numbered, Sound, TypeOK
<1> QED
    BY <1>1, SoundAlways, PTL

\* As long as no immortal purges or switches, Char::desc and Descriptor::character_ point at each
\* other, whoever logs in, takes over, quits, idles out, is deleted, or loses the link.
THEOREM LinksStayAgreed ==
    ASSUME "purge" \notin Commands, "switch" \notin Commands
    PROVE  Spec => []LinksAgree
<1>1. MutualInv => LinksAgree
    BY DEF MutualInv, SoundInv, Sound, Linked, Mutual, LinksAgree, InWorld
<1> QED
    BY <1>1, MutualAlways, PTL

\* As long as no immortal purges or switches, a descriptor never refers to a Char that
\* extract_char and collect_all_garbage, or restart_lobby, have freed.
THEOREM NoBodyDangles ==
    ASSUME "purge" \notin Commands, "switch" \notin Commands
    PROVE  Spec => []NoDanglingBody
<1>1. MutualInv => NoDanglingBody
    <2> SUFFICES ASSUME MutualInv, NEW d \in Descs
                 PROVE  ~Dangles(d)
        BY DEF NoDanglingBody
    <2>1. /\ desc[d].orig = NoBody
          /\ desc[d].char # NoBody => body[desc[d].char].place \in {"guest", "world"}
        BY DEF MutualInv, Mutual
    <2>2. desc[d].guest # NoBody => desc[d].guest = desc[d].char
        BY Blanks DEF MutualInv, SoundInv, Sound, Shaped, Descriptor, Hosts, Lobby
    <2> QED
        BY <2>1, <2>2 DEF Dangles
<1> QED
    BY <1>1, MutualAlways, PTL

\* As long as no immortal purges or switches, nanny's check_playing, check_reconnect and
\* BreakConnect leave no player behind two descriptors.
THEOREM PersonHasOneDescriptor ==
    ASSUME "purge" \notin Commands, "switch" \notin Commands
    PROVE  Spec => []OneDescriptorPerPerson
<1>1. MutualInv => OneDescriptorPerPerson
    BY DEF MutualInv, Mutual, OneDescriptorPerPerson, Person
<1> QED
    BY <1>1, MutualAlways, PTL

-----------------------------------------------------------------------------
(***************************************************************************)
(* Without delete: who is in the game, or enters it next, has a file, and  *)
(* nobody else has his name.                                               *)
(***************************************************************************)
\* Nobody claims a name who did not, nor has another name or version.
Fewer(ds, bs, es, cs) ==
    \A b \in Players :
        /\ Filed(es, cs, b) => Filed(ds, bs, b) /\ cs[b].version = bs[b].version
        /\ Claims(es, cs, b) => Claims(ds, bs, b)
        /\ Filed(es, cs, b) => cs[b].name = bs[b].name

LEMMA ClaimsFiled ==
    ASSUME NEW ds, NEW bs, NEW b, Claims(ds, bs, b)
    PROVE  Filed(ds, bs, b)
    BY DEF Claims, Filed

LEMMA FewerKept ==
    ASSUME NEW ds, NEW bs, NEW fs, Lasting(ds, bs, fs), Sole(ds, bs),
           NEW es, NEW cs, Fewer(ds, bs, es, cs),
           NEW gs, \A b \in Players : Filed(ds, bs, b) => gs[bs[b].name] # 0
    PROVE  Lasting(es, cs, gs) /\ Sole(es, cs)
<1>1. Lasting(es, cs, gs)
    BY DEF Lasting, Fewer
<1>2. Sole(es, cs)
    BY ClaimsFiled DEF Sole, Fewer
<1> QED
    BY <1>1, <1>2

LEMMA CloseFewer ==
    ASSUME NEW p, Sound(desc, body, p), NEW D \in SUBSET Descs
    PROVE  Fewer(desc, body, CloseDescs(D), CloseBodies(D))
<1> DEFINE es == CloseDescs(D)
           cs == CloseBodies(D)
           freed(b) == \E d \in D : desc[d].guest = b
           left(b) == \E d \in D : desc[d].state = "Playing" /\ desc[d].char = b
<1>1. \A o \in Descs : o \notin D => es[o] = desc[o]
    BY DEF CloseDescs
<1>2. \A b \in Bodies :
         /\ freed(b) => cs[b] = Freed
         /\ ~freed(b) /\ left(b) => cs[b] = [body[b] EXCEPT !.desc = NoDesc]
         /\ ~freed(b) /\ ~left(b) => cs[b] = body[b]
    BY DEF CloseBodies
<1> HIDE DEF es, cs
<1> SUFFICES ASSUME NEW b \in Players, Filed(es, cs, b)
             PROVE  /\ Filed(desc, body, b) /\ cs[b].version = body[b].version /\ cs[b].name = body[b].name
                    /\ Claims(es, cs, b) => Claims(desc, body, b)
    BY ClaimsFiled DEF Fewer, es, cs
<1>3. b \in Bodies /\ body[b] \in Char
    BY DEF Sound, Bodies
<1>4. ~freed(b)
    BY <1>2, <1>3, FreedBody DEF Filed
<1>5. /\ cs[b].place = body[b].place /\ cs[b].version = body[b].version /\ cs[b].name = body[b].name
      /\ ~left(b) => cs[b].desc = body[b].desc
    BY <1>2, <1>3, <1>4 DEF Char
<1>6. CASE body[b].place = "guest"
    <2>1. body[b].desc \in Descs \ D
        BY <1>4, <1>6 DEF Sound, Placed
    <2>2. ~left(b)
        BY <1>6 DEF Sound, Shaped
    <2> QED
        BY <2>1, <2>2, <1>1, <1>5, <1>6 DEF Filed, Claims
<1>7. CASE body[b].place # "guest"
    BY <1>5, <1>7 DEF Filed, Claims
<1> QED
    BY <1>6, <1>7

\* The guest of a descriptor in the lobby is freed, and the descriptor turned to something else.
LEMMA FreedFewer ==
    ASSUME NEW ds, NEW bs, NEW p, Sound(ds, bs, p), NEW d \in Descs, ds[d].state \in Hosts,
           NEW es, \A o \in Descs \ {d} : es[o] = ds[o],
           NEW cs, \A b \in Players \ {ds[d].guest} :
                      /\ cs[b].place = bs[b].place /\ cs[b].version = bs[b].version
                      /\ cs[b].name = bs[b].name
                      /\ bs[b].place = "guest" => cs[b].desc = bs[b].desc,
           cs[ds[d].guest].place = "none"
    PROVE  Fewer(ds, bs, es, cs)
<1> SUFFICES ASSUME NEW b \in Players, Filed(es, cs, b)
             PROVE  /\ Filed(ds, bs, b) /\ cs[b].version = bs[b].version /\ cs[b].name = bs[b].name
                    /\ Claims(es, cs, b) => Claims(ds, bs, b)
    BY ClaimsFiled DEF Fewer
<1>1. b # ds[d].guest
    BY DEF Filed
<1>2. CASE bs[b].place = "guest"
    <2>1. bs[b].desc \in Descs \ {d}
        BY <1>1, <1>2 DEF Sound, Placed
    <2> QED
        BY <2>1, <1>1, <1>2 DEF Filed, Claims
<1>3. CASE bs[b].place # "guest"
    BY <1>1, <1>3 DEF Filed, Claims
<1> QED
    BY <1>2, <1>3

LEMMA RestartFewer ==
    ASSUME NEW ds, NEW bs, NEW p, Sound(ds, bs, p), NEW d \in Descs, ds[d].state \in Hosts,
           NEW es, es = [ds EXCEPT ![d] = Blank("GetName")],
           NEW cs, cs = [bs EXCEPT ![ds[d].guest] = Freed]
    PROVE  Fewer(ds, bs, es, cs)
<1>1. ds[d].guest \in Bodies
    BY DEF Sound, Shaped, Bodies
<1>2. \A o \in Descs \ {d} : es[o] = ds[o]
    BY DEF Sound
<1>3. cs[ds[d].guest].place = "none" /\ \A b \in Players \ {ds[d].guest} : cs[b] = bs[b]
    BY <1>1, FreedBody DEF Sound, Bodies
<1> QED
    BY <1>2, <1>3, FreedFewer

LEMMA TakeOverFewer ==
    ASSUME NEW ds, NEW bs, NEW p, Sound(ds, bs, p), NEW d \in Descs, ds[d].state \in Hosts,
           NEW b \in Players, bs[b].place \in {"world", "extracted"},
           NEW es, es = [ds EXCEPT ![d] = [Blank("Playing") EXCEPT !.char = b]],
           NEW cs, cs = [bs EXCEPT ![ds[d].guest] = Freed, ![b].desc = d]
    PROVE  Fewer(ds, bs, es, cs)
<1>1. ds[d].guest \in Players /\ ds[d].guest # b
    BY DEF Sound, Shaped
<1>2. \A o \in Descs \ {d} : es[o] = ds[o]
    BY DEF Sound
<1>3. /\ cs[ds[d].guest].place = "none"
      /\ \A x \in Players \ {ds[d].guest} : x # b => cs[x] = bs[x]
      /\ cs[b].place = bs[b].place /\ cs[b].version = bs[b].version /\ cs[b].name = bs[b].name
    BY <1>1, FreedBody DEF Sound, Bodies, Char
<1>4. \A x \in Players \ {ds[d].guest} :
         /\ cs[x].place = bs[x].place /\ cs[x].version = bs[x].version
         /\ cs[x].name = bs[x].name
         /\ bs[x].place = "guest" => cs[x].desc = bs[x].desc
    BY <1>3
<1>5. Sound(ds, bs, p) /\ d \in Descs /\ ds[d].state \in Hosts
    OBVIOUS
<1> QED
    BY ONLY <1>2, <1>3, <1>4, <1>5, FreedFewer

\* Descriptors that own no guest change, and so do the bodies of nobody in the lobby.
LEMMA PlayersFewer ==
    ASSUME NEW ds, NEW bs, NEW p, Sound(ds, bs, p),
           NEW es, \A o \in Descs : ds[o].state \in Hosts => es[o] = ds[o],
           NEW cs, \A b \in Players :
                      \/ cs[b].place = "none"
                      \/ /\ cs[b].place \in {"world", "extracted"} /\ bs[b].place \in {"world", "extracted"}
                         /\ cs[b].place = "world" => bs[b].place = "world"
                         /\ cs[b].version = bs[b].version /\ cs[b].name = bs[b].name
                      \/ cs[b] = bs[b]
    PROVE  Fewer(ds, bs, es, cs)
<1> SUFFICES ASSUME NEW b \in Players, Filed(es, cs, b)
             PROVE  /\ Filed(ds, bs, b) /\ cs[b].version = bs[b].version /\ cs[b].name = bs[b].name
                    /\ Claims(es, cs, b) => Claims(ds, bs, b)
    BY ClaimsFiled DEF Fewer
<1>1. CASE cs[b] = bs[b] /\ bs[b].place = "guest"
    <2>1. bs[b].desc \in Descs /\ ds[bs[b].desc].state \in Hosts
        BY <1>1 DEF Sound, Placed
    <2>2. es[bs[b].desc] = ds[bs[b].desc]
        BY <2>1
    <2> QED
        BY <2>2, <1>1 DEF Filed, Claims
<1>2. CASE cs[b] = bs[b] /\ bs[b].place # "guest"
    BY <1>2 DEF Filed, Claims
<1>3. CASE cs[b] # bs[b]
    BY <1>3 DEF Filed, Claims
<1> QED
    BY <1>1, <1>2, <1>3

\* Another question, other than the last.
LEMMA MovesFewer ==
    ASSUME NEW ds, NEW bs, NEW p, Sound(ds, bs, p), NEW d \in Descs, NEW s,
           s \notin {"GetOldPassword", "Motd"}, NEW es, es = [ds EXCEPT ![d].state = s]
    PROVE  Fewer(ds, bs, es, bs)
<1>1. (\A o \in Descs \ {d} : es[o] = ds[o]) /\ es[d].state = s
    BY DEF Sound, Descriptor
<1>2. \A b \in Players : bs[b].place = "guest" => bs[b].desc \in Descs
    BY DEF Sound, Placed
<1> QED
    BY <1>1, <1>2 DEF Fewer, Filed, Claims

\* A save of somebody who has a version leaves nobody without a file.
LEMMA SaveKeeps ==
    ASSUME SoundInv, Lasting(desc, body, file), NEW b \in Bodies,
           body[b].place = "guest" => body[b].version # 0, NEW n \in Names, file[n] # 0
    PROVE  Save(b)[n] # 0
<1>0. /\ Sound(desc, body, pulse) /\ file \in [Names \cup {MobName} -> 0 .. MaxVersion]
      /\ body[b] \in Char
    BY DEF SoundInv, Sound, Numbered
<1>1. SUFFICES ASSUME Behind(b) # NoBody, body[b].name = n
               PROVE  body[Behind(b)].version # 0
    BY <1>0 DEF Save
<1>2. b \in Players
    BY <1>0, <1>1, SessionAssumption DEF Sound, Placed, Bodies
<1>3. body[b].desc \in Descs /\ Behind(b) = Person(body[b].desc)
    BY <1>0, <1>1 DEF Behind, Char
<1>4. desc[body[b].desc].char = b /\ desc[body[b].desc].orig = NoBody => Behind(b) = b
    BY <1>3 DEF Person
<1>5. body[b].place # "none"
    BY <1>0, <1>2, <1>3, FreedBody, SessionAssumption DEF Sound, Placed
<1>6. CASE body[b].place = "guest"
    BY <1>0, <1>2, <1>4, <1>6 DEF Sound, Placed, Shaped
<1>7. CASE body[b].place = "world"
    <2>1. desc[body[b].desc].state = "Playing" /\ desc[body[b].desc].char = b
        BY <1>0, <1>3, <1>7, SessionAssumption DEF Sound, Linked
    <2>2. Behind(b) = b
        BY <1>0, <1>2, <1>3, <1>4, <2>1, SessionAssumption DEF Sound, Shaped
    <2> QED
        BY <1>2, <1>7, <2>2 DEF Lasting, Filed
<1>8. CASE body[b].place = "extracted"
    <2>1. CASE desc[body[b].desc].state = "Playing" /\ desc[body[b].desc].char = b
        <3>1. Behind(b) = b
            BY <1>0, <1>2, <1>3, <1>4, <2>1, SessionAssumption DEF Sound, Shaped
        <3> QED
            BY <1>2, <1>8, <3>1 DEF Lasting, Filed
    <2>2. CASE desc[body[b].desc].state \in {"Closed", "none"}
        <3>1. Person(body[b].desc) = NoBody
            BY <1>0, <1>3, <2>2, Blanks DEF Sound, Shaped, Person
        <3> QED
            BY <3>1, <1>1, <1>3
    <2> QED
        BY <2>1, <2>2, <1>0, <1>2, <1>3, <1>8, SessionAssumption DEF Sound, Leaving
<1> QED
    BY <1>0, <1>5, <1>6, <1>7, <1>8 DEF Char

\* check_playing and check_reconnect find whoever has the name.
LEMMA NobodyClaims ==
    ASSUME SoundInv, NEW d \in Descs, desc[d].state \in {"GetOldPassword", "none"},
           NEW n, ~PlayedElsewhere(d, n), LinkDead(body, n) = {},
           NEW a \in Players, Claims(desc, body, a)
    PROVE  body[a].name # n
<1>0. Sound(desc, body, pulse) /\ body[a] \in Char
    BY DEF SoundInv, Sound, Bodies
<1> SUFFICES ASSUME body[a].name = n
             PROVE  FALSE
    OBVIOUS
<1> DEFINE e == body[a].desc
<1>1. /\ e \in Descs
      /\ desc[e].state \in {"Playing", "Motd"}
      /\ desc[e].char = a
      /\ desc[e].orig = NoBody
    <2>1. CASE body[a].place = "world"
        <3>1. e # NoDesc /\ e \in Descs
            BY <1>0, <2>1 DEF LinkDead, Char
        <3>2. desc[e].state = "Playing" /\ desc[e].char = a
            BY <1>0, <2>1, <3>1 DEF Sound, Linked, Bodies
        <3> QED
            BY <1>0, <3>1, <3>2, SessionAssumption DEF Sound, Shaped
    <2>2. CASE body[a].place = "guest" /\ desc[e].state = "Motd"
        BY <1>0, <2>2 DEF Sound, Placed, Shaped
    <2> QED
        BY <2>1, <2>2 DEF Claims
<1>2. e \in Descs \ {d} /\ desc[e].char # NoBody /\ Person(e) = a
    BY <1>1, SessionAssumption DEF Person
<1> QED
    BY <1>1, <1>2 DEF PlayedElsewhere

\* try_load_player: the one who is loaded is new.
LEMMA LoadsSole ==
    ASSUME SoundInv, Lasting(desc, body, file), Sole(desc, body), \A o \in Descs : ~Dangles(o),
           NEW d \in Descs, desc[d].state \in {"none", "GetName"}, NEW n \in Names, NEW s \in Hosts,
           Loads(d, n, s), file' = file,
           s \in {"GetOldPassword", "Motd"} => file[n] # 0,
           s = "Motd" => \A a \in Players : Claims(desc, body, a) => body[a].name # n
    PROVE  Lasting(desc', body', file') /\ Sole(desc', body')
<1>0. /\ Sound(desc, body, pulse) /\ desc \in [Descs -> Descriptor] /\ body \in [Bodies -> Char]
      /\ file[n] \in 0 .. MaxVersion
    BY DEF SoundInv, Sound, Numbered
<1>1. PICK b \in Players :
        /\ body[b].place = "none"
        /\ body' = [body EXCEPT ![b] = [place |-> "guest", name |-> n, desc |-> d, version |-> file[n]]]
        /\ desc' = [desc EXCEPT ![d] = [state |-> s, guest |-> b, char |-> b, orig |-> NoBody]]
    BY DEF Loads
<1>2. /\ \A x \in Players \ {b} : body'[x] = body[x]
      /\ body'[b].place = "guest" /\ body'[b].name = n /\ body'[b].desc = d /\ body'[b].version = file[n]
      /\ \A o \in Descs \ {d} : desc'[o] = desc[o]
      /\ desc'[d].state = s
    BY <1>0, <1>1 DEF Bodies
<1>3. \A x \in Players : body[x].place = "guest" => body[x].desc \in Descs \ {d}
    BY <1>0 DEF Sound, Placed, Hosts, Lobby
<1>4. \A x \in Players \ {b} :
         /\ Filed(desc', body', x) => Filed(desc, body, x)
         /\ Claims(desc', body', x) => Claims(desc, body, x)
    BY <1>2, <1>3 DEF Filed, Claims
<1>5. /\ Filed(desc', body', b) => s \in {"GetOldPassword", "Motd"}
      /\ Claims(desc', body', b) => s = "Motd"
    BY <1>2 DEF Filed, Claims
<1>6. Lasting(desc', body', file')
    BY <1>2, <1>4, <1>5 DEF Lasting
<1>7. Sole(desc', body')
    <2> SUFFICES ASSUME NEW x \in Players, NEW y \in Players, x # y, Claims(desc', body', x), Claims(desc', body', y)
                 PROVE  body'[x].name # body'[y].name
        BY DEF Sole
    <2>1. CASE x # b /\ y # b
        BY <2>1, <1>2, <1>4 DEF Sole
    <2>2. CASE x = b
        BY <2>2, <1>2, <1>4, <1>5
    <2>3. CASE y = b
        BY <2>3, <1>2, <1>4, <1>5
    <2> QED
        BY <2>1, <2>2, <2>3
<1> QED
    BY <1>6, <1>7

\* A guest comes to the last question: he has a version and a file, and no rival.
LEMMA MotdSole ==
    ASSUME Sound(desc, body, pulse), Lasting(desc, body, file), Sole(desc, body),
           NEW d \in Descs, desc[d].state \in Hosts, Moves(d, "Motd"),
           \A a \in Players : Claims(desc, body, a) => body[a].name # GuestName(d),
           \A x \in Players \ {desc[d].guest} : body'[x] = body[x],
           LET g == body'[desc[d].guest]
           IN  g.place = "guest" /\ g.desc = d /\ g.name = GuestName(d) /\ g.version # 0,
           \A b \in Players : Filed(desc, body, b) => file'[body[b].name] # 0,
           file'[GuestName(d)] # 0
    PROVE  Lasting(desc', body', file') /\ Sole(desc', body')
<1> DEFINE g == desc[d].guest
<1>1. (\A o \in Descs \ {d} : desc'[o] = desc[o]) /\ desc'[d].state = "Motd"
    BY DEF Sound, Descriptor, Moves
<1>2. g \in Players
    BY DEF Sound, Shaped
<1>3. \A x \in Players \ {g} : body[x].place = "guest" => body[x].desc \in Descs \ {d}
    BY DEF Sound, Placed
<1>4. \A x \in Players \ {g} :
         /\ Filed(desc', body', x) => Filed(desc, body, x)
         /\ Claims(desc', body', x) => Claims(desc, body, x)
    BY <1>1, <1>3 DEF Filed, Claims
<1>5. Lasting(desc', body', file')
    BY <1>2, <1>4 DEF Lasting
<1>6. Sole(desc', body')
    <2> SUFFICES ASSUME NEW x \in Players, NEW y \in Players, x # y,
                        Claims(desc', body', x), Claims(desc', body', y)
                 PROVE  body'[x].name # body'[y].name
        BY DEF Sole
    <2>1. CASE x # g /\ y # g
        BY <2>1, <1>4 DEF Sole
    <2>2. CASE x = g
        BY <2>2, <1>4
    <2>3. CASE y = g
        BY <2>3, <1>4
    <2> QED
        BY <2>1, <2>2, <2>3
<1> QED
    BY <1>5, <1>6

LEMMA InitSole == Init => Lasting(desc, body, file) /\ Sole(desc, body)
<1> SUFFICES ASSUME Init
             PROVE  Lasting(desc, body, file) /\ Sole(desc, body)
    OBVIOUS
<1>1. \A b \in Players : body[b].place = "none"
    BY FreedBody, SessionAssumption DEF Init, Bodies
<1> QED
    BY <1>1 DEF Lasting, Sole, Filed, Claims

LEMMA SoleStep ==
    ASSUME "delete" \notin Commands, SoleInv, [Next]_vars
    PROVE  Lasting(desc', body', file') /\ Sole(desc', body')
<1> DEFINE Goal == Lasting(desc', body', file') /\ Sole(desc', body')
<1> USE DEF Nannied
<1>0. /\ SoundInv /\ Numbered
      /\ Sound(desc, body, pulse) /\ Lasting(desc, body, file) /\ Sole(desc, body)
      /\ desc \in [Descs -> Descriptor]
      /\ body \in [Bodies -> Char]
      /\ \A s \in Hosts : s \in Lobby \ {"GetName"}
      /\ {"GetOldPassword", "ConfirmNewName", "Creating", "Motd", "BreakConnect"} \subseteq Hosts
    BY DEF SoleInv, SoundInv, Sound, Hosts, Lobby
<1>1. ASSUME Fewer(desc, body, desc', body'), file' = file
      PROVE  Goal
    BY <1>0, <1>1, FewerKept DEF Lasting
<1>2. ASSUME NEW b \in Bodies, body[b].place = "guest" => body[b].version # 0,
             file' \in {file, Save(b)}, Fewer(desc, body, desc', body')
      PROVE  Goal
    <2>1. \A x \in Players : Filed(desc, body, x) => file'[body[x].name] # 0
        <3> TAKE x \in Players
        <3>1. Filed(desc, body, x) => body[x].name \in Names /\ file[body[x].name] # 0
            BY <1>0 DEF Lasting, Sound, Placed, Filed
        <3> QED
            BY <1>0, <1>2, <3>1, SaveKeeps
    <2> QED
        BY <1>0, <1>2, <2>1, FewerKept
<1>3. ASSUME NEW D \in SUBSET Descs, Close(D)
      PROVE  Fewer(desc, body, desc', body')
    <2>1. Fewer(desc, body, desc, body)
        BY DEF Fewer, Filed
    <2> QED
        BY <1>0, <1>3, <2>1, CloseFewer DEF Close
<1>4. ASSUME NEW b \in Players, body[b].place \in {"world", "extracted"}, Extract(b)
      PROVE  Fewer(desc, body, desc', body')
    <2> DEFINE e == body[b].desc
    <2>1. b \in Bodies /\ e \in Descs \cup {NoDesc}
        BY <1>0 DEF Char, Bodies
    <2>2. e # NoDesc => desc[e].state \notin Hosts
        BY <1>0, <1>4, <2>1 DEF Sound, Linked, Leaving, Lobby, Hosts
    <2>3. \A o \in Descs : desc[o].state \in Hosts => desc'[o] = desc[o]
        BY <1>0, <1>4, <2>1, <2>2 DEF Extract
    <2>4. /\ \A x \in Players \ {b} : body'[x] = body[x]
          /\ body'[b].place = "extracted" /\ body'[b].name = body[b].name
          /\ body'[b].version = body[b].version
        BY <1>0, <1>4, <2>1 DEF Extract, Char, Bodies
    <2>5. \A x \in Players :
             \/ /\ body'[x].place \in {"world", "extracted"} /\ body[x].place \in {"world", "extracted"}
                /\ body'[x].place = "world" => body[x].place = "world"
                /\ body'[x].version = body[x].version /\ body'[x].name = body[x].name
             \/ body'[x] = body[x]
        BY <1>4, <2>4
    <2> QED
        BY <1>0, <2>3, <2>5, PlayersFewer
<1>5. CASE UNCHANGED vars
    BY <1>0, <1>5 DEF vars
<1>6. CASE Next
    <2>0. pulse # "crashed" /\ (\A d \in Descs : ~Dangles(d))
        BY <1>6 DEF Next
    <2>1. ASSUME NEW d \in Descs, Connect(d)
          PROVE  Goal
        <3>1. desc' = [desc EXCEPT ![d].state = "GetName"] /\ body' = body /\ file' = file
            BY <2>1 DEF Connect, Moves
        <3> QED
            BY <3>1, <1>0, <1>1, MovesFewer
    <2>2. ASSUME NEW d \in Descs, NEW n \in Names, GiveName(d, n)
          PROVE  Goal
        BY <2>0, <2>2, <1>0, LoadsSole DEF GiveName
    <2>3. ASSUME NEW d \in Descs, TurnAway(d)
          PROVE  Goal
        BY <2>3, <1>1, <1>3 DEF TurnAway
    <2>4. ASSUME NEW d \in Descs, Password(d)
          PROVE  Goal
        <3> DEFINE n == GuestName(d)
                   g == desc[d].guest
        <3>1. desc[d].state = "GetOldPassword" /\ desc[d].state \in Hosts /\ file' = file
            BY <2>4, <1>0 DEF Password
        <3>2. CASE Moves(d, "BreakConnect") /\ body' = body
            <4>1. desc' = [desc EXCEPT ![d].state = "BreakConnect"]
                BY <3>2 DEF Moves
            <4> QED
                BY <3>1, <3>2, <4>1, <1>0, <1>1, MovesFewer
        <3>3. ASSUME NEW b \in LinkDead(body, n), TakeOver(desc, body, d, b)
              PROVE  Goal
            <4>1. /\ b \in Players /\ body[b].place \in {"world", "extracted"}
                  /\ desc' = [desc EXCEPT ![d] = [Blank("Playing") EXCEPT !.char = b]]
                  /\ body' = [body EXCEPT ![desc[d].guest] = Freed, ![b].desc = d]
                BY <3>3 DEF LinkDead, TakeOver
            <4>2. Fewer(desc, body, desc', body')
                BY <3>1, <4>1, <1>0, TakeOverFewer
            <4> QED
                BY <3>1, <4>2, <1>1
        <3>4. CASE ~PlayedElsewhere(d, n) /\ LinkDead(body, n) = {} /\ Moves(d, "Motd") /\ body' = body
            <4>1. \A a \in Players : Claims(desc, body, a) => body[a].name # n
                BY <3>1, <3>4, <1>0, NobodyClaims
            <4>2. g \in Players /\ body[g].place = "guest" /\ body[g].desc = d
                BY <3>1, <1>0 DEF Sound, Shaped
            <4>3. Filed(desc, body, g) /\ body[g].version # 0 /\ file[body[g].name] # 0
                BY <3>1, <4>2, <1>0 DEF Filed, Lasting
            <4>4. \A b \in Players : Filed(desc, body, b) => file'[body[b].name] # 0
                BY <3>1, <1>0 DEF Lasting
            <4> QED
                BY <3>1, <3>4, <4>1, <4>2, <4>3, <4>4, <1>0, MotdSole DEF GuestName
        <3> QED
            BY <2>4, <3>2, <3>3, <3>4 DEF Password
    <2>5. ASSUME NEW d \in Descs, BreakConnectYes(d)
          PROVE  Goal
        <3> DEFINE n == GuestName(d)
                   others == {o \in Descs \ {d} : desc[o].char # NoBody /\ body[desc[o].char].name = n}
                   ds == CloseDescs(others)
                   bs == CloseBodies(others)
        <3>1. desc[d].state \in Hosts /\ file' = file
            BY <2>5, <1>0 DEF BreakConnectYes
        <3>2. Sound(ds, bs, pulse) /\ Fewer(desc, body, ds, bs) /\ ds[d] = desc[d]
            BY <1>0, CloseSound, CloseFewer DEF CloseDescs
        <3>3. \/ \E b \in LinkDead(bs, n) : TakeOver(ds, bs, d, b)
              \/ /\ desc' = [ds EXCEPT ![d] = Blank("GetName")]
                 /\ body' = [bs EXCEPT ![desc[d].guest] = Freed]
            BY <2>5 DEF BreakConnectYes
        <3> HIDE DEF ds, bs
        <3>4. ASSUME Fewer(ds, bs, desc', body')
              PROVE  Goal
            <4>1. Fewer(desc, body, desc', body')
                BY <3>2, <3>4 DEF Fewer
            <4> QED
                BY <3>1, <4>1, <1>1
        <3>5. ASSUME NEW b \in LinkDead(bs, n), TakeOver(ds, bs, d, b)
              PROVE  Goal
            <4>1. /\ b \in Players /\ bs[b].place \in {"world", "extracted"}
                  /\ desc' = [ds EXCEPT ![d] = [Blank("Playing") EXCEPT !.char = b]]
                  /\ body' = [bs EXCEPT ![ds[d].guest] = Freed, ![b].desc = d]
                BY <3>2, <3>5 DEF LinkDead, TakeOver
            <4>2. Fewer(ds, bs, desc', body')
                BY <3>1, <3>2, <4>1, TakeOverFewer
            <4> QED
                BY <3>4, <4>2
        <3>6. CASE /\ desc' = [ds EXCEPT ![d] = Blank("GetName")]
                   /\ body' = [bs EXCEPT ![desc[d].guest] = Freed]
            <4>1. Fewer(ds, bs, desc', body')
                BY <3>1, <3>2, <3>6, RestartFewer
            <4> QED
                BY <3>4, <4>1
        <3> QED
            BY <3>3, <3>5, <3>6
    <2>6. ASSUME NEW d \in Descs, AnswerNo(d)
          PROVE  Goal
        <3>1. desc[d].state \in Hosts /\ file' = file
            BY <2>6, <1>0 DEF AnswerNo
        <3>2. Fewer(desc, body, desc', body')
            BY <2>6, <3>1, <1>0, RestartFewer DEF AnswerNo, Restart
        <3> QED
            BY <3>1, <3>2, <1>1
    <2>7. ASSUME NEW d \in Descs, ConfirmName(d)
          PROVE  Goal
        <3>1. desc' = [desc EXCEPT ![d].state = "Creating"] /\ body' = body /\ file' = file
            BY <2>7 DEF ConfirmName, Moves
        <3> QED
            BY <3>1, <1>0, <1>1, MovesFewer
    <2>8. ASSUME NEW d \in Descs, FinishCreation(d)
          PROVE  Goal
        <3> DEFINE n == GuestName(d)
                   g == desc[d].guest
        <3>1. desc[d].state \in Hosts /\ n \in Names /\ g \in Players /\ body[g].place = "guest" /\ body[g].desc = d
            BY <2>8, <1>0, GuestNamed DEF FinishCreation, Sound, Shaped
        <3>2. CASE Close({d}) /\ file' = file
            BY <3>2, <1>1, <1>3
        <3>3. CASE /\ file[n] = 0
                   /\ latest[n] < MaxVersion
                   /\ latest' = [latest EXCEPT ![n] = @ + 1]
                   /\ file' = [file EXCEPT ![n] = latest'[n]]
                   /\ body' = [body EXCEPT ![g].version = latest'[n]]
                   /\ Moves(d, "Motd")
            <4>1. latest'[n] # 0
                BY <3>1, <3>3, <1>0 DEF Numbered
            <4>2. /\ \A x \in Players \ {desc[d].guest} : body'[x] = body[x]
                  /\ body'[desc[d].guest].place = "guest" /\ body'[desc[d].guest].desc = d
                  /\ body'[desc[d].guest].name = body[desc[d].guest].name
                  /\ body'[desc[d].guest].version # 0
                BY <3>1, <3>3, <4>1, <1>0 DEF Char, Bodies
            <4>3. \A a \in Players : Claims(desc, body, a) => body[a].name # n
                BY <3>3, <1>0, ClaimsFiled DEF Lasting
            <4>4. \A m \in Names : file[m] # 0 => file'[m] # 0
                BY <3>1, <3>3, <4>1, <1>0 DEF Numbered
            <4>5. \A b \in Players : Filed(desc, body, b) => file'[body[b].name] # 0
                BY <4>4, <1>0 DEF Lasting, Filed, Sound, Placed
            <4>6. file'[n] # 0
                BY <3>1, <3>3, <4>1, <1>0 DEF Numbered
            <4> QED
                BY <3>1, <3>3, <4>2, <4>3, <4>5, <4>6, <1>0, MotdSole DEF GuestName
        <3> QED
            BY <2>8, <3>2, <3>3 DEF FinishCreation
    <2>9. ASSUME NEW d \in Descs, EnterGame(d)
          PROVE  Goal
        <3> DEFINE g == desc[d].guest
        <3>1. desc[d].state = "Motd" /\ desc[d].state \in Hosts /\ file' = file
            BY <2>9, <1>0 DEF EnterGame
        <3>2. g \in Players /\ body[g].place = "guest" /\ body[g].desc = d
            BY <3>1, <1>0 DEF Sound, Shaped
        <3>3. /\ \A x \in Players \ {g} : body'[x] = body[x]
              /\ body'[g].place = "world" /\ body'[g].name = body[g].name /\ body'[g].version = body[g].version
            BY <2>9, <3>2, <1>0 DEF EnterGame, Char, Bodies
        <3>4. \A o \in Descs \ {d} : desc'[o] = desc[o]
            BY <2>9, <1>0 DEF EnterGame
        <3>5. \A x \in Players \ {g} : body[x].place = "guest" => body[x].desc \in Descs \ {d}
            BY <1>0 DEF Sound, Placed
        <3>6. Fewer(desc, body, desc', body')
            <4>1. \A x \in Players \ {g} :
                     /\ Filed(desc', body', x) => Filed(desc, body, x)
                     /\ Claims(desc', body', x) => Claims(desc, body, x)
                BY <3>3, <3>4, <3>5 DEF Filed, Claims
            <4>2. Filed(desc, body, g) /\ Claims(desc, body, g)
                BY <3>1, <3>2 DEF Filed, Claims
            <4> QED
                BY <3>3, <4>1, <4>2 DEF Fewer
        <3> QED
            BY <3>1, <3>6, <1>1
    <2>10. ASSUME NEW d \in Descs, NEW n \in Names, Reconnect(d, n)
           PROVE  Goal
        <3>1. desc[d].state = "none" /\ file' = file
            BY <2>10 DEF Reconnect
        <3>2. CASE Loads(d, n, "ConfirmNewName") \/ Loads(d, n, "BreakConnect")
            BY <2>0, <3>1, <3>2, <1>0, LoadsSole
        <3>3. CASE desc' = [desc EXCEPT ![d] = Blank("Closed")] /\ body' = body
            <4>1. \A o \in Descs : desc[o].state \in Hosts => desc'[o] = desc[o]
                BY <3>1, <3>3, <1>0 DEF Lobby, Hosts
            <4>2. Fewer(desc, body, desc', body')
                BY <3>3, <4>1, <1>0, PlayersFewer
            <4> QED
                BY <3>1, <4>2, <1>1
        <3>4. CASE file[n] # 0 /\ ~PlayedElsewhere(d, n) /\ LinkDead(body, n) = {} /\ Loads(d, n, "Motd")
            <4>1. \A a \in Players : Claims(desc, body, a) => body[a].name # n
                BY <3>1, <3>4, <1>0, NobodyClaims
            <4> QED
                BY <2>0, <3>1, <3>4, <4>1, <1>0, LoadsSole
        <3> QED
            BY <2>10, <3>2, <3>3, <3>4 DEF Reconnect
    <2>11. ASSUME NEW d \in Descs, Quit(d)
           PROVE  Goal
        <3>1. /\ body[desc[d].char].place \in {"world", "extracted"}
              /\ desc[d].char \in Players /\ Extract(desc[d].char) /\ file' = Save(desc[d].char)
            BY <2>0, <2>11, <1>0, Played DEF Quit
        <3> QED
            BY <3>1, <1>2, <1>4 DEF Bodies
    <2>12. ASSUME NEW d \in Descs, Delete(d)
           PROVE  FALSE
        BY <2>12 DEF Delete
    <2>13. ASSUME NEW d \in Descs, Switch(d) \/ Return(d)
           PROVE  Goal
        <3>1. desc[d].state = "Playing" /\ file' = file
            BY <2>13 DEF Switch, Return
        <3>2. \A o \in Descs : desc[o].state \in Hosts => desc'[o] = desc[o]
            BY <2>13, <3>1, <1>0 DEF Switch, Return, Lobby, Hosts
        <3>3. PICK c \in Players : /\ body[c].place \in {"world", "extracted"}
                                   /\ \/ body' = [body EXCEPT ![Mob].desc = d, ![c].desc = NoDesc]
                                      \/ body' = [body EXCEPT ![Mob].desc = NoDesc, ![c].desc = d]
            <4>1. CASE Switch(d)
                <5>1. desc[d].char \in Players
                    BY <4>1, <3>1, <1>0 DEF Switch, Sound, Shaped, Bodies
                <5> QED
                    BY <4>1, <5>1, <2>0, <3>1, <1>0, Played DEF Switch
            <4>2. CASE Return(d)
                <5>1. desc[d].orig \in Players /\ desc[d].char = Mob
                    BY <4>2, <2>0, <3>1, <1>0, Played DEF Return, Descriptor
                <5> QED
                    BY <4>2, <5>1, <2>0, <3>1, <1>0, Played DEF Return
            <4> QED
                BY <2>13, <4>1, <4>2
        <3>4. /\ \A x \in Players \ {c} : body'[x] = body[x]
              /\ body'[c].place = body[c].place /\ body'[c].name = body[c].name
              /\ body'[c].version = body[c].version
            BY <3>3, <1>0, SessionAssumption DEF Char, Bodies
        <3>5. \A x \in Players :
                 \/ /\ body'[x].place \in {"world", "extracted"} /\ body[x].place \in {"world", "extracted"}
                    /\ body'[x].place = "world" => body[x].place = "world"
                    /\ body'[x].version = body[x].version /\ body'[x].name = body[x].name
                 \/ body'[x] = body[x]
            BY <3>3, <3>4
        <3>6. Fewer(desc, body, desc', body')
            BY <3>2, <3>5, <1>0, PlayersFewer
        <3> QED
            BY <3>1, <3>6, <1>1
    <2>14. ASSUME NEW d \in Descs, LinkLost(d)
           PROVE  Goal
        <3>1. Fewer(desc, body, desc', body')
            BY <2>14, <1>3 DEF LinkLost
        <3>2. CASE desc[d].char # NoBody /\ Experienced(desc[d].char)
            <4>1. desc[d].char \in Bodies /\ file' = Save(desc[d].char)
                BY <2>14, <3>2, <1>0 DEF LinkLost, Descriptor, Bodies
            <4>2. body[desc[d].char].place = "guest" => body[desc[d].char].version # 0
                BY <3>2, <4>1, <1>0 DEF Experienced, Sound, Placed, Char
            <4> QED
                BY <3>1, <4>1, <4>2, <1>2
        <3>3. CASE ~(desc[d].char # NoBody /\ Experienced(desc[d].char))
            BY <2>14, <3>1, <3>3, <1>1 DEF LinkLost
        <3> QED
            BY <3>2, <3>3
    <2>15. ASSUME NEW b \in Players, Progress(b)
           PROVE  Goal
        <3> DEFINE v == latest'[body[b].name]
        <3>1. body[b].place = "world" /\ body[b].name \in Names
            BY <2>15, <1>0 DEF Progress, InWorld, Sound, Placed
        <3>2. v # 0
            BY <2>15, <3>1, <1>0 DEF Progress, Numbered
        <3>3. /\ \A x \in Players \ {b} : body'[x] = body[x]
              /\ body'[b].place = body[b].place /\ body'[b].name = body[b].name
              /\ body'[b].version = v
            BY <2>15, <1>0 DEF Progress, Char, Bodies
        <3>4. desc' = desc /\ file' = file
            BY <2>15 DEF Progress
        <3>5. \A x \in Players : (Filed(desc', body', x) <=> Filed(desc, body, x)) /\ (Claims(desc', body', x) <=> Claims(desc, body, x))
            BY <3>1, <3>3, <3>4 DEF Filed, Claims
        <3>6. Lasting(desc', body', file')
            BY <3>2, <3>3, <3>4, <3>5, <1>0 DEF Lasting
        <3>7. Sole(desc', body')
            BY <3>3, <3>5, <1>0 DEF Sole
        <3> QED
            BY <3>6, <3>7
    <2>16. ASSUME NEW b \in Bodies, SaveCommand(b) \/ AutoSave(b)
           PROVE  Goal
        <3>1. body[b].place # "guest" /\ desc' = desc /\ body' = body /\ file' \in {file, Save(b)}
            BY <2>16 DEF SaveCommand, AutoSave, InWorld
        <3>2. Fewer(desc, body, desc', body')
            BY <3>1 DEF Fewer, Filed, Claims
        <3> QED
            BY <3>1, <3>2, <1>2
    <2>17. ASSUME NEW b \in Players, Purge(b) \/ AutoQuit(b)
           PROVE  Goal
        <3>1. body[b].place = "world" /\ Extract(b) /\ file' \in {file, Save(b)} /\ b \in Bodies
            BY <2>17 DEF Purge, AutoQuit, InWorld, Bodies
        <3>2. Fewer(desc, body, desc', body')
            BY <3>1, <1>4
        <3> QED
            BY <3>1, <3>2, <1>2
    <2>18. CASE DoormanLost
        <3>1. {d \in Descs : Open(d)} \in SUBSET Descs
            OBVIOUS
        <3> QED
            BY <2>18, <3>1, <1>1, <1>3 DEF DoormanLost
    <2>19. ASSUME desc' = Reaped(desc), file' = file,
                  \A x \in Players : body'[x] = body[x] \/ body'[x].place = "none"
           PROVE  Goal
        <3>1. \A o \in Descs : desc[o].state \in Hosts => desc'[o] = desc[o]
            BY <2>19, <1>0 DEF Reaped, Lobby, Hosts
        <3>2. Fewer(desc, body, desc', body')
            BY <2>19, <3>1, <1>0, PlayersFewer
        <3> QED
            BY <2>19, <3>2, <1>1
    <2>20. CASE StartUpdate
        BY <2>19, <2>20 DEF StartUpdate
    <2>21. CASE EndUpdate
        <3>1. \A x \in Players : body'[x] = body[x] \/ body'[x].place = "none"
            BY <2>21, FreedBody DEF EndUpdate, Bodies
        <3> QED
            BY <2>19, <2>21, <3>1 DEF EndUpdate
    <2> QED
        BY <1>6, <2>1, <2>2, <2>3, <2>4, <2>5, <2>6, <2>7, <2>8, <2>9, <2>10, <2>11, <2>12, <2>13, <2>14,
           <2>15, <2>16, <2>17, <2>18, <2>20, <2>21 DEF Next, Bodies
<1> QED
    BY <1>5, <1>6 DEF SoleInv

\* As long as no player is deleted, there is one of each in the world, whatever logs in, is
\* created, purged or switched at the same time: lobby_char_was_created, check_playing and
\* check_reconnect see everybody who has the name or will have it next.  And a guest belongs to one
\* descriptor, whatever the commands.
THEOREM PlayersAreSole ==
    ASSUME "delete" \notin Commands
    PROVE  Spec => []OneBodyPerPlayer
<1>1. Init => SoleInv
    BY InitSound, InitSole DEF SoleInv
<1>2. SoleInv /\ [Next]_vars => SoleInv'
    <2> SUFFICES ASSUME SoleInv, [Next]_vars
                 PROVE  SoleInv'
        OBVIOUS
    <2>1. SoundInv'
        BY SoundStep DEF SoleInv
    <2>2. Lasting(desc', body', file') /\ Sole(desc', body')
        BY SoleStep
    <2> QED
        BY <2>1, <2>2 DEF SoleInv
<1>3. SoleInv => OneBodyPerPlayer
    <2> SUFFICES ASSUME SoleInv
                 PROVE  OneBodyPerPlayer
        OBVIOUS
    <2>1. \A a, b \in Players : a # b /\ InWorld(a) /\ InWorld(b) => body[a].name # body[b].name
        BY DEF SoleInv, Sole, Claims, InWorld
    <2>2. ASSUME NEW b \in Players
          PROVE  Cardinality({d \in Descs : desc[d].guest = b}) = IF body[b].place = "guest" THEN 1 ELSE 0
        <3>1. \A d \in Descs : desc[d].guest = b => body[b].place = "guest" /\ body[b].desc = d
            BY Blanks, SessionAssumption DEF SoleInv, SoundInv, Sound, Shaped, Descriptor, Hosts, Lobby
        <3>2. CASE body[b].place = "guest"
            <4>1. body[b].desc \in Descs /\ desc[body[b].desc].guest = b
                BY <3>2 DEF SoleInv, SoundInv, Sound, Placed
            <4>2. {d \in Descs : desc[d].guest = b} = {body[b].desc}
                BY <3>1, <4>1
            <4> QED
                BY <3>2, <4>2, FS_Singleton
        <3>3. CASE body[b].place # "guest"
            <4>1. {d \in Descs : desc[d].guest = b} = {}
                BY <3>1, <3>3
            <4> QED
                BY <3>3, <4>1, FS_EmptySet
        <3> QED
            BY <3>2, <3>3
    <2> QED
        BY <2>1, <2>2 DEF OneBodyPerPlayer
<1> QED
    BY <1>1, <1>2, <1>3, PTL DEF Spec
=============================================================================
