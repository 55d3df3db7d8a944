------------------------------ MODULE Session ------------------------------
(***************************************************************************)
(* A player's session in the MUD: MudImpl::nanny from the name prompt to   *)
(* the game, the Char a descriptor stands for (Descriptor's guest_,        *)
(* character_ and original_), losing the link and taking it up again, and  *)
(* the player file.                                                        *)
(*                                                                         *)
(* A Char in memory is a body: a guest, owned by a descriptor in the       *)
(* lobby, or in the world (char_list); extract_char only marks it, and     *)
(* collect_all_garbage frees it at the end of the pulse.  Progress is      *)
(* a number per player: version 1 is a character as created, and one with  *)
(* a version above 1 is above level 1.                                     *)
(*                                                                         *)
(* The dialogue that creates a character is one state, "Creating", and     *)
(* GetAnsi, ReadIMotd and ReadMotd are one, "Motd".                        *)
(***************************************************************************)
EXTENDS Naturals, FiniteSets

CONSTANTS
    Descs,       \* channels
    Players,     \* bodies of players that can exist at a time
    Names,       \* names of players
    Mob,         \* the body of a mobile, always in the world
    MobName,     \* its name
    NoDesc,
    NoBody,
    MaxVersion,  \* bound: progress a player makes
    Commands     \* which of "ban", "delete", "purge", "switch" are in use

ASSUME SessionAssumption ==
    /\ MaxVersion \in Nat
    /\ NoDesc \notin Descs
    /\ Mob \notin Players
    /\ NoBody \notin Players \cup {Mob}
    /\ MobName \notin Names

Bodies == Players \cup {Mob}

VARIABLES
    pulse,   \* the part of game_loop: "input" (packets and commands) or "update"; or "crashed"
    desc,    \* the Descriptor of each channel
    body,    \* the Char of each body
    file,    \* the version in each player file, 0 if there is none
    latest   \* the latest version of each player there has been

vars == <<pulse, desc, body, file, latest>>

Lobby == {"GetName", "GetOldPassword", "ConfirmNewName", "Creating", "Motd", "BreakConnect"}

Descriptor == [state : Lobby \cup {"none", "Playing", "Closed"},
               guest : Players \cup {NoBody},
               char  : Bodies \cup {NoBody},   \* character_
               orig  : Players \cup {NoBody}]  \* original_

Char == [place : {"none", "guest", "world", "extracted"},
         name  : Names \cup {MobName},
         desc  : Descs \cup {NoDesc},
         version : 0 .. MaxVersion]

Blank(state) == [state |-> state, guest |-> NoBody, char |-> NoBody, orig |-> NoBody]

\* A freed body keeps nothing, but one has to write down some name.
Freed == [place |-> "none", name |-> MobName, desc |-> NoDesc, version |-> 0]

TypeOK ==
    /\ pulse \in {"input", "update", "crashed"}
    /\ desc \in [Descs -> Descriptor]
    /\ body \in [Bodies -> Char]
    /\ file \in [Names \cup {MobName} -> 0 .. MaxVersion]
    /\ latest \in [Names -> 0 .. MaxVersion]

Init ==
    /\ pulse = "input"
    /\ desc = [d \in Descs |-> Blank("none")]
    /\ body = [b \in Bodies |-> IF b = Mob THEN [Freed EXCEPT !.place = "world"] ELSE Freed]
    /\ file = [n \in Names \cup {MobName} |-> 0]
    /\ latest = [n \in Names |-> 0]

-----------------------------------------------------------------------------
\* Descriptor::person.
Person(d) == IF desc[d].orig # NoBody THEN desc[d].orig ELSE desc[d].char

\* level > 1; mobiles always are.
Experienced(b) == b = Mob \/ body[b].version > 1

\* save_char_obj: it writes the person behind the descriptor, under the name of
\* the character it was given, and nothing for a character nobody is behind.
Behind(b) == IF body[b].desc = NoDesc THEN NoBody ELSE Person(body[b].desc)

Save(b) ==
    IF Behind(b) = NoBody
    THEN file
    ELSE [file EXCEPT ![body[b].name] = body[Behind(b)].version]

\* Char::is_link_dead_pc, of those on char_list, in the bodies bs.
LinkDead(bs, n) ==
    {b \in Players : /\ bs[b].place \in {"world", "extracted"}
                     /\ bs[b].name = n
                     /\ bs[b].desc = NoDesc}

\* Descriptor::close for each of the descriptors ds.
CloseIdleDescs(ds) ==        \* mutant: a playing descriptor stays as it was
    [d \in Descs |-> IF d \in ds /\ desc[d].state # "Playing" THEN Blank("Closed") ELSE desc[d]]

CloseDescs(ds) == [d \in Descs |-> IF d \in ds THEN Blank("Closed") ELSE desc[d]]

CloseBodies(ds) ==
    [b \in Bodies |->
        IF \E d \in ds : desc[d].guest = b
        THEN Freed
        ELSE IF \E d \in ds : desc[d].state = "Playing" /\ desc[d].char = b
             THEN [body[b] EXCEPT !.desc = NoDesc]
             ELSE body[b]]

\* terminate_duel looks into the pcdata of whoever a descriptor plays, and a
\* mobile has none: to close a switched immortal's descriptor ends the process.
Crashes(ds) == \E d \in ds : desc[d].orig # NoBody

Close(ds) ==
    \/ Crashes(ds) /\ pulse' = "crashed" /\ UNCHANGED <<desc, body>>
    \/ /\ ~Crashes(ds)
       /\ desc' = CloseDescs(ds)
       /\ body' = CloseBodies(ds)
       /\ UNCHANGED pulse

Open(d) == desc[d].state \notin {"none", "Closed"}

ExtractBodyOnly(b) ==        \* mutant: the descriptor is not told
    /\ body' = [body EXCEPT ![b].place = "extracted"]
    /\ UNCHANGED desc

\* extract_char: off char_list at the end of the pulse; its descriptor, if it
\* has one, is closed by every caller.
Extract(b) ==
    LET d == body[b].desc
    IN /\ body' = [body EXCEPT ![b].place = "extracted"]
       /\ desc' = IF d = NoDesc THEN desc ELSE [desc EXCEPT ![d] = Blank("Closed")]

-----------------------------------------------------------------------------
(***************************************************************************)
(* The lobby.                                                              *)
(***************************************************************************)
Nannied(d, state) ==
    /\ pulse = "input"
    /\ desc[d].state = state

Moves(d, state) == desc' = [desc EXCEPT ![d].state = state]

GuestName(d) == body[desc[d].guest].name

\* restart_lobby.
Restart(d) ==
    /\ desc' = [desc EXCEPT ![d] = Blank("GetName")]
    /\ body' = [body EXCEPT ![desc[d].guest] = Freed]

Connect(d) ==
    /\ Nannied(d, "none")
    /\ Moves(d, "GetName")
    /\ UNCHANGED <<pulse, body, file, latest>>

\* try_load_player and enter_lobby.
Loads(d, n, state) ==
    \E b \in Players :
        /\ body[b].place = "none"
        /\ body' = [body EXCEPT ![b] = [place |-> "guest", name |-> n, desc |-> d,
                                        version |-> file[n]]]
        /\ desc' = [desc EXCEPT ![d] = [state |-> state, guest |-> b, char |-> b,
                                        orig |-> NoBody]]

GiveName(d, n) ==
    /\ Nannied(d, "GetName")
    /\ Loads(d, n, IF file[n] # 0 THEN "GetOldPassword" ELSE "ConfirmNewName")
    /\ UNCHANGED <<pulse, file, latest>>

\* A wrong password, a ban, a wizlock, a player that is denied; or
\* is_lobby_timeout_exceeded.
TurnAway(d) ==
    /\ pulse = "input"
    /\ desc[d].state \in {"GetName", "GetOldPassword", "ConfirmNewName", "Creating"}
    /\ Close({d})
    /\ UNCHANGED <<file, latest>>

\* check_playing.
PlayedOrIgnored(d, n) ==     \* mutant: who reads the MOTD is not seen
    \E o \in Descs \ {d} :
        /\ desc[o].char # NoBody
        /\ desc[o].state \notin {"GetName", "GetOldPassword", "Motd"}
        /\ body[Person(o)].name = n

PlayedElsewhere(d, n) ==
    \E o \in Descs \ {d} :
        /\ desc[o].char # NoBody
        /\ desc[o].state \notin {"GetName", "GetOldPassword"}
        /\ body[Person(o)].name = n

\* reconnect_from_lobby, from the descriptors ds and bodies bs.
TakeOverOneWay(ds, bs, d, b) ==   \* mutant: existing_char->desc is not set
    /\ desc' = [ds EXCEPT ![d] = [Blank("Playing") EXCEPT !.char = b]]
    /\ body' = [bs EXCEPT ![desc[d].guest] = Freed]

TakeOver(ds, bs, d, b) ==
    /\ desc' = [ds EXCEPT ![d] = [Blank("Playing") EXCEPT !.char = b]]
    /\ body' = [bs EXCEPT ![desc[d].guest] = Freed, ![b].desc = d]

\* The right password: check_playing, then check_reconnect, then the MOTD.
Password(d) ==
    /\ Nannied(d, "GetOldPassword")
    /\ \/ /\ PlayedElsewhere(d, GuestName(d))
          /\ Moves(d, "BreakConnect")
          /\ UNCHANGED body
       \/ /\ ~PlayedElsewhere(d, GuestName(d))
          /\ \E b \in LinkDead(body, GuestName(d)) : TakeOver(desc, body, d, b)
       \/ /\ ~PlayedElsewhere(d, GuestName(d))
          /\ LinkDead(body, GuestName(d)) = {}
          /\ Moves(d, "Motd")
          /\ UNCHANGED body
    /\ UNCHANGED <<pulse, file, latest>>

\* "Do you wish to connect anyway (Y/N)?"
BreakConnectYes(d) ==
    /\ Nannied(d, "BreakConnect")
    /\ LET n == GuestName(d)
           others == {o \in Descs \ {d} : desc[o].char # NoBody /\ body[desc[o].char].name = n}
           ds == CloseDescs(others)
           bs == CloseBodies(others)
       IN \/ \E b \in LinkDead(bs, n) : TakeOver(ds, bs, d, b)
          \/ /\ LinkDead(bs, n) = {}
             /\ desc' = [ds EXCEPT ![d] = Blank("GetName")]
             /\ body' = [bs EXCEPT ![desc[d].guest] = Freed]
    /\ UNCHANGED <<pulse, file, latest>>

\* "N" to that, or to "Did I hear that right?"
AnswerNo(d) ==
    /\ pulse = "input"
    /\ desc[d].state \in {"BreakConnect", "ConfirmNewName"}
    /\ Restart(d)
    /\ UNCHANGED <<pulse, file, latest>>

ConfirmName(d) ==
    /\ Nannied(d, "ConfirmNewName")
    /\ Moves(d, "Creating")
    /\ UNCHANGED <<pulse, body, file, latest>>

\* lobby_char_was_created: the last step saves the character, unless another
\* of its name has been saved meanwhile.
FinishCreation(d) ==
    /\ Nannied(d, "Creating")
    /\ LET n == GuestName(d)
       IN \/ /\ file[n] # 0
             /\ Close({d})
             /\ UNCHANGED <<file, latest>>
          \/ /\ file[n] = 0
             /\ latest[n] < MaxVersion
             /\ latest' = [latest EXCEPT ![n] = @ + 1]
             /\ file' = [file EXCEPT ![n] = latest'[n]]
             /\ body' = [body EXCEPT ![desc[d].guest].version = latest'[n]]
             /\ Moves(d, "Motd")
             /\ UNCHANGED pulse

\* ReadMotd: proceed_from_lobby, onto char_list.
EnterGame(d) ==
    /\ Nannied(d, "Motd")
    /\ desc' = [desc EXCEPT ![d].state = "Playing", ![d].guest = NoBody]
    /\ body' = [body EXCEPT ![desc[d].guest].place = "world"]
    /\ UNCHANGED <<pulse, file, latest>>

(***************************************************************************)
(* PACKET_RECONNECT: the name, no password, and return at the ANSI or MOTD *)
(* prompt, in one go.  A character that was taken over is playing by then, *)
(* and nanny closes the descriptor for it.                                 *)
(***************************************************************************)
Reconnect(d, n) ==
    /\ Nannied(d, "none")
    /\ \/ /\ file[n] = 0
          /\ Loads(d, n, "ConfirmNewName")
       \/ /\ "ban" \in Commands
          /\ desc' = [desc EXCEPT ![d] = Blank("Closed")]
          /\ UNCHANGED body
       \/ /\ file[n] # 0
          /\ PlayedElsewhere(d, n)
          /\ Loads(d, n, "BreakConnect")
       \/ /\ file[n] # 0
          /\ ~PlayedElsewhere(d, n)
          /\ LinkDead(body, n) # {}
          /\ desc' = [desc EXCEPT ![d] = Blank("Closed")]
          /\ UNCHANGED body
       \/ /\ file[n] # 0
          /\ ~PlayedElsewhere(d, n)
          /\ LinkDead(body, n) = {}
          /\ Loads(d, n, "Motd")
    /\ UNCHANGED <<pulse, file, latest>>

-----------------------------------------------------------------------------
(***************************************************************************)
(* The game.                                                               *)
(***************************************************************************)
InWorld(b) == body[b].place = "world"

\* A character in the world gets on; link-dead ones still fight and are fought.
Progress(b) ==
    /\ InWorld(b)
    /\ latest[body[b].name] < MaxVersion
    /\ latest' = [latest EXCEPT ![body[b].name] = @ + 1]
    /\ body' = [body EXCEPT ![b].version = latest'[body[b].name]]
    /\ UNCHANGED <<pulse, desc, file>>

\* do_save and the other saves on command, of a character that is played.
SaveCommand(b) ==
    /\ pulse = "input"
    /\ InWorld(b)
    /\ file' = Save(b)
    /\ UNCHANGED <<pulse, desc, body, latest>>

\* do_quit; a switched immortal is an NPC to it.
Quit(d) ==
    /\ Nannied(d, "Playing")
    /\ desc[d].char \in Players
    /\ file' = Save(desc[d].char)
    /\ Extract(desc[d].char)
    /\ UNCHANGED <<pulse, latest>>

\* do_delete, confirmed.  do_quit may have refused (a fight, a note being
\* written); the file goes all the same.
Delete(d) ==
    /\ "delete" \in Commands
    /\ Nannied(d, "Playing")
    /\ desc[d].char \in Players
    /\ Extract(desc[d].char) \/ UNCHANGED <<desc, body>>
    /\ file' = [file EXCEPT ![body[desc[d].char].name] = 0]
    /\ UNCHANGED <<pulse, latest>>

\* do_purge of a player by somebody more trusted.
Purge(b) ==
    /\ "purge" \in Commands
    /\ pulse = "input"
    /\ InWorld(b)
    /\ file' = IF Experienced(b) THEN Save(b) ELSE file
    /\ Extract(b)
    /\ UNCHANGED <<pulse, latest>>

\* do_switch into the mobile, unless already switched or it is in use, and
\* do_return.
Switch(d) ==
    /\ "switch" \in Commands
    /\ Nannied(d, "Playing")
    /\ desc[d].orig = NoBody
    /\ desc[d].char # NoBody
    /\ body[Mob].desc = NoDesc
    /\ desc' = [desc EXCEPT ![d].orig = desc[d].char, ![d].char = Mob]
    /\ body' = [body EXCEPT ![Mob].desc = d, ![desc[d].char].desc = NoDesc]
    /\ UNCHANGED <<pulse, file, latest>>

Return(d) ==
    /\ Nannied(d, "Playing")
    /\ desc[d].orig # NoBody
    /\ desc' = [desc EXCEPT ![d].orig = NoBody, ![d].char = desc[d].orig]
    /\ body' = [body EXCEPT ![desc[d].char].desc = NoDesc, ![desc[d].orig].desc = d]
    /\ UNCHANGED <<pulse, file, latest>>

-----------------------------------------------------------------------------
(***************************************************************************)
(* Losing the link.                                                        *)
(***************************************************************************)
\* PACKET_DISCONNECT, or output that cannot be written: save, then close.
LinkLost(d) ==
    /\ Open(d)
    /\ LET b == desc[d].char
       IN file' = IF b # NoBody /\ Experienced(b) THEN Save(b) ELSE file
    /\ Close({d})
    /\ UNCHANGED latest

\* doorman_lost.
DoormanLost ==
    /\ pulse = "input"
    /\ \E d \in Descs : Open(d)
    /\ Close({d \in Descs : Open(d)})
    /\ UNCHANGED <<file, latest>>

-----------------------------------------------------------------------------
(***************************************************************************)
(* update_handler, between two rounds of input.                            *)
(***************************************************************************)
Reaped(ds) == [d \in Descs |-> IF ds[d].state = "Closed" THEN Blank("none") ELSE ds[d]]

StartUpdate ==
    /\ pulse = "input"
    /\ pulse' = "update"
    /\ desc' = Reaped(desc)
    /\ UNCHANGED <<body, file, latest>>

\* The descriptor that a Char which was extracted earlier in the pulse still
\* points to has been freed.
PointsToFreed(b) == body[b].place = "extracted" /\ desc[body[b].desc].state = "none"

\* char_update saves whoever is on char_list with a descriptor, now and then.
\* In one that was freed it may find nobody, which is what close() left there,
\* and save nothing; or anything at all, and then the model stops.
AutoSave(b) ==
    /\ pulse = "update"
    /\ body[b].place \in {"world", "extracted"}
    /\ body[b].desc # NoDesc
    /\ \/ file' = Save(b) /\ UNCHANGED pulse
       \/ PointsToFreed(b) /\ pulse' = "crashed" /\ UNCHANGED file
    /\ UNCHANGED <<desc, body, latest>>

\* It makes mortals quit that have been idle too long.
AutoQuit(b) ==
    /\ pulse = "update"
    /\ InWorld(b)
    /\ \A d \in Descs : desc[d].orig # b
    /\ file' = Save(b)
    /\ Extract(b)
    /\ UNCHANGED <<pulse, latest>>

\* collect_all_garbage.
EndUpdate ==
    /\ pulse = "update"
    /\ pulse' = "input"
    /\ desc' = Reaped(desc)
    /\ body' = [b \in Bodies |-> IF body[b].place = "extracted" THEN Freed ELSE body[b]]
    /\ UNCHANGED <<file, latest>>

\* A descriptor that refers to a freed Char: what the program does next is
\* undefined, and the model stops.
Dangles(d) ==
    \E b \in {desc[d].guest, desc[d].char, desc[d].orig} \ {NoBody} : body[b].place = "none"

Next ==
    /\ pulse # "crashed"
    /\ \A d \in Descs : ~Dangles(d)
    /\ \/ \E d \in Descs :
             \/ Connect(d) \/ TurnAway(d) \/ Password(d) \/ BreakConnectYes(d)
             \/ AnswerNo(d) \/ ConfirmName(d) \/ FinishCreation(d) \/ EnterGame(d)
             \/ Quit(d) \/ Delete(d) \/ Switch(d) \/ Return(d) \/ LinkLost(d)
             \/ \E n \in Names : GiveName(d, n) \/ Reconnect(d, n)
       \/ \E b \in Players : Progress(b) \/ SaveCommand(b) \/ Purge(b) \/ AutoQuit(b)
       \/ \E b \in Bodies : AutoSave(b)
       \/ DoormanLost \/ StartUpdate \/ EndUpdate

Spec == Init /\ [][Next]_vars

-----------------------------------------------------------------------------
\* There is one of each player in the world, whatever logs in, is created or
\* purged at the same time; one who is not in the world yet is the guest of
\* one descriptor (check_playing, check_reconnect, lobby_char_was_created).
OneBodyPerPlayer ==
    /\ \A a, b \in Players :
          a # b /\ InWorld(a) /\ InWorld(b) => body[a].name # body[b].name
    /\ \A b \in Players :
          Cardinality({d \in Descs : desc[d].guest = b})
              = IF body[b].place = "guest" THEN 1 ELSE 0

\* A player is behind one descriptor only (nanny's BreakConnect).
OneDescriptorPerPerson ==
    \A c, d \in Descs :
        c # d /\ desc[c].state = "Playing" /\ desc[d].state = "Playing"
              /\ Person(c) # NoBody
        => Person(c) # Person(d)

\* No descriptor refers to a Char that has been freed: whoever collects garbage
\* or ends a guest has left nobody playing it (extract_char, collect_garbage).
NoDanglingBody == \A d \in Descs : ~Dangles(d)

\* Char::desc and Descriptor::character_ point at each other.
LinksAgree ==
    /\ \A b \in Bodies : InWorld(b) /\ body[b].desc # NoDesc => desc[body[b].desc].char = b
    /\ \A d \in Descs : desc[d].char # NoBody => body[desc[d].char].desc = d

\* A player file is never overwritten with older progress.
FileNeverRollsBack ==
    [][\A n \in Names : file'[n] = 0 \/ file'[n] >= file[n]]_vars

\* Who leaves the world of his own accord has been saved.
QuitSaves ==
    [][\A b \in Players :
          InWorld(b) /\ body'[b].place = "extracted" => file'[body[b].name] = body[b].version]_vars

\* A player whose link is gone is played on when doorman brings him back.
ReconnectResumes ==
    [][\A d \in Descs, n \in Names :
          Reconnect(d, n) /\ ~PlayedElsewhere(d, n) /\ LinkDead(body, n) # {}
              => desc'[d].state = "Playing"]_vars

\* No NPC has a player file.
NpcsNotPersisted == file[MobName] = 0

\* A deleted player is gone from the world.
DeletedIsGone ==
    [][\A n \in Names : file[n] # 0 /\ file'[n] = 0 =>
          \A b \in Players : body'[b].name = n => body'[b].place # "world"]_vars
=============================================================================
