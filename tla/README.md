# A verification of Xania: doorman, the MUD, and the world it keeps

Xania is a multi-player game (a MUD) run as two processes. *Doorman*
(`src/src/doorman`) accepts telnet clients and keeps them while the game is
rebooted or crashes; the *MUD* (`src/src`) is the game. They talk over one
Unix-domain socket with the packets of `src/src/common/doorman_protocol.h`.

This directory holds TLA+ modules translated from that code, the TLC
configurations that check them on small instances, and theorems that TLAPS
proves for every value of the constants. Four parts are built:

* *connections*: who is connected to what, under which number, as which
  character, and what of it survives a lost link, a crash or a reboot; and what
  becomes of the bytes that go in and out;
* *duels*, the one place where players may hurt each other;
* *the world's accounts*: where every object is, and what spells and worn things
  have done to everybody, each kept twice by the code and changed by dozens of
  commands;
* *bonds*: who follows, leads, owns, rides and fights whom, all plain pointers
  from one character to another, and the doors they walk through.

Contents: 1 inventory, 2 plan, 3 modules, 4 runs, 5 bounds, 6 fairness,
7 proofs, 8 disagreements between code and documentation, 9 what is not
modelled.

## 1. Inventory

### Processes, threads, and what they share

Both processes are single-threaded loops over `select`. Nothing is shared but
the socket; everything that is hard about concurrency here is in the order in
which packets, ends of file and restarts are seen.

| Component | Source | State it keeps | Operations |
|---|---|---|---|
| Doorman | `doorman/Doorman.cpp`, `main.cpp` | `channels_`, `channels_to_remove_` | `poll`: poll the MUD, accept a client, serve the channels, remove dead ones |
| Channel | `doorman/Channel.cpp` | fd, `connected_`, `auth_char_name_`, its `Reservation` | constructor, `on_data_available`, `close`, `send_connect_packet`, `mark_disconnected`, `send_to_client` |
| Link to the MUD | `doorman/Xania.cpp` | fd, `state_` (Disconnected, ConnectedAwaitingInit, Connected), `ids_known_to_mud_` | `try_connect`, `close`, `process_mud_message`, `handle_init`, `handle_channel_message`, `send_connect`, `send_close_msg` |
| Number pool | `doorman/IdAllocator.hpp` | `next_id_`, `released_ids_` | `reserve`, release by the last holder |
| Telnet parser | `doorman/TelnetProtocol.cpp` | bytes not yet parsed, options negotiated | `add_data`, `interpret_options` |
| Stream and fds | `common/Fd.cpp`, `doorman_protocol.h` | kernel buffers | `read_all`, `write`, `accept`, `connect` |
| MUD main loop | `MudImpl.cpp` | doorman's fd, control socket, running flag | `init_socket`, `doorman_init`, `handle_doorman_packet`, `doorman_lost`, `game_loop`, `terminate` |
| Descriptors | `Descriptor.cpp`, `DescriptorList.cpp` | state, `guest_`, `character_`, `original_`, snoopers, input queue, output buffer, paging | `close`, `do_switch`, `do_return`, `enter_lobby`, `restart_lobby`, `proceed_from_lobby`, `reconnect_from_lobby`, `write`, `flush_output`, `reap_closed` |
| Login | `MudImpl.cpp` (`nanny`, `check_playing`, `check_reconnect`, `lobby_*`) | the descriptor's state | one step per prompt |
| Player files | `save.cpp` | `player/<name>` | `save_char_obj`, `try_load_player` |
| Lives of characters | `handler.cpp`, `update.cpp`, `act_comm.cpp`, `act_wiz.cpp` | `char_list`, garbage lists | `extract_char`, `collect_all_garbage`, `do_quit`, `do_delete`, `do_purge`, `char_update` |
| Interpreter | `InterpreterImpl.cpp` | none | lookup, trust and position checks |
| Rooms, carrying, wearing | `handler.cpp`, `Char.cpp`, `Object.cpp` | lists of the room, the character, the container; numbers and weights carried; a room's light | `obj_to_char`, `obj_from_char`, `obj_to_obj`, `equip_char`, `unequip_char`, `extract_obj`, ... |
| Object commands | `act_obj.cpp` | prices, charges, corpses' owners | `do_get`, `do_put`, `do_give`, `do_wear`, `do_buy`, `do_steal`, `do_quaff`, ... |
| Affects | `AFFECT_DATA.cpp`, `handler.cpp` | a list per character, scores, bits | `affect_to_char`, `affect_remove`, `affect_strip`, `affect_join`, `check_dispel` |
| Magic | `magic.cpp`, `magic2.cpp`, `SkillTables.cpp` | the skill table | `do_cast`, `obj_cast_spell`, a hundred `spell_*`, bombs |
| Special functions | `special.cpp` | none | mobiles that cast, breathe, help, steal |
| Combat | `fight.cpp` | `fighting`, positions, hit points | `multi_hit`, `damage`, `stop_fighting`, `raw_kill` |
| Duels | `Duel.cpp` | duels and their stages | challenge, accept, update, terminate |
| Followers, pets, riding | `act_comm.cpp`, `ride.cpp` | `master`, `leader`, `pet`, `riding`, `ridden_by`, `reply` | follow, group, order, `die_follower`, `nuke_pets`, mount, fall |
| Movement and doors | `act_move.cpp` | two sides of each exit | `move_char`, open, close, lock, pick, recall |
| Notes, bans, tips | `Note.cpp`, `Ban.cpp`, `Tips.cpp` | lists and files | write, post, remove; add, remove |
| Mobile programs | `MProg*.cpp` | the program's nesting | triggers and interpreter |
| World | `db.cpp`, `update.cpp` | areas, resets, weather | load, reset, update |

### How they interact

* *Client to MUD.* Doorman gives each client a number from the pool
  (`Reservation`, shared by the channel and by `ids_known_to_mud_`), writes
  `CONNECT` (or `RECONNECT` for one it knows the character of) and `INFO`, then
  a `MESSAGE` per line. The MUD makes a `Descriptor` per number.
* *MUD to client.* `MESSAGE`, `ECHO_ON`/`OFF`, `GO_AHEAD`; `AUTHORIZED` names
  the character, for the next `RECONNECT`; `DISCONNECT` ends a channel.
* *Ending.* Either side may send `DISCONNECT` first. The MUD answers doorman's
  with `DISCONNECT_ACK`, which releases the number.
* *The MUD going and coming.* Doorman sees end of file, marks every channel
  disconnected, and tries to connect every ten seconds. A MUD that has loaded
  its world says `INIT`, upon which doorman announces every client again.
* *Doorman going.* The MUD closes every descriptor, without saving.
* *Descriptor and character.* In the lobby a descriptor owns a *guest*. When
  it enters the game the guest goes onto `char_list` and each points at the
  other. A descriptor that closes leaves its character *link-dead* in the world;
  a later login with the name takes the character over. Extracted characters
  stay in memory until the end of the pulse.
* *Bytes and lines.* The parser of doorman takes commands out of what a client
  types, and passes lines on; the MUD keeps a backlog of lines, takes one of
  each descriptor per pulse, and then flushes everybody's output. Output is
  copied to those who snoop, and a full buffer closes a descriptor from within
  whatever wrote to it.
* *Pointers between characters.* A spell, a fight, a pet or a mount is a pointer
  from one `Char` to another, in up to seven fields. `extract_char` clears those
  it knows of; the `Char` is freed at the end of the pulse.
* *Two accounts of one thing.* What a character carries is a list and a count;
  what a spell does is an affect in a list and a change of scores and bits; a
  room's light is a number and the lamps that shine; a door has two sides. Every
  function that changes one of them must change the other.

### What is hard

* Numbers are used again, and packets for their former owners are still under
  way in both directions.
* Either process may end between any two steps of the other, with packets and
  ends of file unread; the next MUD's `INIT` must not be mistaken.
* Writes raise. Whether the exception is caught depends on the caller.
* `select`'s answers, guests loaded from files, and pointers to extracted
  characters are all used after they may have become stale.
* Several descriptors may be logging in with, creating, deleting or being
  reconnected to the same character.
* A client left without a MUD must be connected when there is one.
* A duel is two halves in two characters, ended by a dozen commands and events,
  and what it permits is decided blow by blow from who fights whom at that
  moment; its timer, a lost link and a death come between any two blows.
* A blow may kill, or make the victim flee or recall, with its followers and
  mount, throw whoever rides it, who may die of the fall: each from within
  `damage`, whose caller goes on with what it knew before.
* Spells and items come and go in any order, one of them changed while another
  is worn, dispelled by halves, or ended by a death.
* TCP splits a client's bytes anywhere.

What would make each part correct is the list of properties in section 4; the
hazards, each at its line, are in `PROJECT.json`.

## 2. Plan

In this order, the most important behaviour first:

1. **The link** (done): `DoormanProtocol`, `Doorman`, `MudLink`, composed by
   `DoormanMud`; the promise to clients, `ClientRelay`, which `DoormanMud` is
   shown to implement.
2. **The session** (done, but for what is listed in 9): `Session`.
3. **Proofs about the link** (done: types, the partition of the pool, numbers
   not shared, `connected_`; `INIT` always expected; the refinement of
   `ClientRelay`; nothing for the wrong party while nothing fails).
4. **Duels** (done): `Duel`, with its theorems in `DuelProofs`.
5. **Input and output of a descriptor** (done): `Telnet`, the parser as functions
   of the bytes, and `Terminal`, which reads with it and has the backlog, the
   output buffer, pages and snooping.
6. **Where things are** (done): `Things`.
7. **What is upon whom** (done): `Affects` over the table `Skills`; `Spells`;
   `Magic`, which composes them with casters, mobiles and the tick.
8. **Who acts on whom** (done): `Doors`, and `Bonds`, which walks through them.
9. **Proofs about the world**: `BondsProofs` (done: all of `Bonds` and `Doors`),
   `TerminalProofs` (done: all
   its invariants, the last over `FoldProofs` too), `ThingsProofs` (done: all that is
   checked of `Things`), `MagicProofs` (done: all invariants that are checked of
   `Magic`), the last two over `FoldProofs`.
10. **Proofs about the session and duels**: `SessionProofs` and `DuelProofs` (done:
    all their properties).
11. **Smaller machines**: notes, bans, mobile programs, where later work may go.

Conventions: parameters are `CONSTANTS` with a named assumption, each handler
is one action, invariants are conjunctions of named parts, and there is no
`RECURSIVE` operator in a module that is proved about.

## 3. Modules

| Module | Models | Variables |
|---|---|---|
| `DoormanProtocol` | packets, the two FIFO directions, the two ends of the socket (`doorman_protocol.h`, `Fd.cpp`) | `toMud`, `toDoor`, `doorEnd`, `mudEnd`, bounds `faults`, `accepted` |
| `Doorman` | the doorman process | `phase`, `nextId`, `releasedIds`, `channels`, `chan`, `channelsToRemove`, `mudState`, `idsKnownToMud` |
| `MudLink` | the MUD's life, its end of the link, its descriptors | `mudPhase`, `descriptors`, `desc` |
| `DoormanMud` | both, composed; fairness; the properties of the link | |
| `ClientRelay` | what doorman promises its clients | `up`, `client` |
| `DoormanMudProofs` | theorems about `DoormanMud`: types, numbers, `connected_`, `INIT` always expected, that it implements `ClientRelay`, and that no packet, name or number of one client is taken for another's while nothing fails | |
| `Session` | login, link loss, reconnection, quitting, saving | `pulse`, `desc`, `body`, `file`, `latest` |
| `MCSession` | `Session` for TLC: the symmetry set | |
| `Duel` | duels; the fights, falls, deaths and departures of duellists | `pulse`, `todo`, `char`, `duel` |
| `MCDuel` | `Duel` for TLC: the symmetry set | |
| `Telnet` | doorman's parser, as functions of a parser's state and bytes | |
| `Terminal` | reads, lines, the backlog, output, pages, snooping, the main loop's passes | `scene`, `chan`, `desc`, `link`, `phase`, `todo`, `stack`, `alive` |
| `MCTerminal` | `Terminal` for TLC: who types what | |
| `Things` | where objects are; carrying, wearing, light, coins, shops, theft, death, decay | `world`, `cast` |
| `MCThings` | `Things` for TLC: seven casts | |
| `Skills` | the skill table, as a constant function | |
| `Affects` | affects on characters, worn items, hits and deaths so far as they change them | |
| `Spells` | the spell functions | |
| `Magic` | those who cast, the objects that do, mobiles that do, commands, the tick | `world`, `scene`, `casts` |
| `MCMagic` | `Magic` for TLC: the scenes | |
| `Doors` | exits and containers, opened, locked and reset | `exit_info`, `value1` |
| `Bonds` | following, charming, pets, riding, fighting, travelling, leaving | `scene`, `char`, and those of `Doors` |
| `MCBonds` | `Bonds` for TLC: the scenes and a map of three rooms | |
| `DuelProofs` | theorems: `Duel`'s types, halves that agree, duels that run out, fights between players that begin and end with duels | |
| `BondsProofs` | theorems: all that is checked of `Bonds` and `Doors` | |
| `SessionProofs` | theorems: all that is checked of `Session` | |
| `TerminalProofs` | theorems: snoopers and those they snoop on agree, without a loop, and a connection is ended once | |
| `FoldProofs` | lemmas: induction over numbers and finite sets, folds over sets and lists, sums | |
| `ThingsProofs` | lemmas about where things lie, each operation of `handler.cpp` and each action; theorems: all that is checked of `Things` | |
| `MagicProofs` | lemmas about each operation on affects, each spell and each action; theorems: all invariants that are checked of `Magic` | |

**Doorman.** `Doorman::poll` is three phases, `mud`, `accept`, `channels`; the
MUD and the clients move between any two steps of them. In phase `mud` either
nothing is readable (`PollIdle`), a connection attempt succeeds (`TryConnect`),
end of file or a short read closes the link (`LoseMud`, `TruncatedRead`), or
one packet is handled, one action per packet type. In phase `accept` at most
one client is taken (`AcceptNew`, `AcceptFails`, `AcceptNone`). In phase
`channels` any number of channels are served (`ClientData`, `ClientGone`), and
`EndPoll` is `remove_dead_channels`. An exception that reaches `main()` is
`Exits`. `chan[c]` carries beside the code's fields `conn`, the ordinal of the
connection, and `broken`, whether writes to the client fail.

`Held` is the set of numbers with a live `Reservation`: those of channels and
those in `ids_known_to_mud_`. `ReleaseUnheld` is `ReservationObj`'s destructor:
what leaves `Held` in a step is pushed in any order, since hash maps decide it.

**Sockets.** `doorEnd` and `mudEnd` tell a connection in the listen backlog
(`pending`), an established one (`linked`) and one whose peer is gone
(`orphan`): what the peer had written can still be read, then comes end of file;
writes fail. Closing an end discards what it had not read. That is what makes a
MUD's last packets, or an `INIT`, appear after its death.

**MudLink.** `MudStart`, `BootAccept`, `BootDone` are `init_socket` and the
start of `game_loop`, which waits for doorman before the world is loaded.
`ReceiveConnect` ... `ReceiveMessage` are the cases of
`handle_doorman_packet`. Each returns to the `select` that finds the next
packet; `EndPackets` finds none. In phase `work`, the players' commands and the
game's updates are what they make the MUD write: `Login`, `TakeOverLinkDead`,
`SetEcho`, `Output`, `CloseDescriptor`; `EndWork` is `reap_closed`. `MudStops`
is a crash or `do_reboot`, which leaves the descriptors to the process's end;
`MudShutdown` closes everyone first. Characters are named after the connection
that first logged them in, so that `auth` and `who` can be compared with `conn`.

**Session.** A `Char` in memory is a body with a place: `guest`, owned by a
descriptor; `world`, on `char_list`; `extracted`, to be freed by
`collect_all_garbage`; or `none`. `Person`, `Save` and `LinkDead` are
`Descriptor::person`, `CharSaver` with `Char::player`, and
`Char::is_link_dead_pc`. Progress is a version; `latest` is the highest there
has been of a player and `file` what is on disk. `Reconnect` is the whole of
`PACKET_RECONNECT`: three calls of `nanny` in one go. `DoormanLost`, here, is
the same event as in `MudLink`, seen from the characters' side; the two models
share no state, and the join is the descriptor: `MudLink`'s `lobby`, `playing`
and `closed` abstract `Session`'s states, and its `ReconnectOutcomes` are the
outcomes of `Session!Reconnect`. A pulse that is `crashed` is the end of the MUD:
`close` of a switched immortal's descriptor ends the duel of the mobile it plays,
which has no `pcdata`. Another is `AutoSave`, which asks a `Char` that was extracted in
the same pulse for its `desc`, when that has been reaped (`PointsToFreed`).

**Duel.** Commands happen in pulse `input`; in `violence` and `tick` the
characters `todo` are visited one at a time, in any order, as `violence_update`
and `char_update` do, and either pass may be skipped by a pulse. The helpers on
characters are functions of what the characters were, so that one step can apply
several: `Stop` and `Engaged` are `stop_fighting` and `set_fighting`, `Against` is
whom `stop_fighting(ch, true)` stops. `Struck` is any number of calls of `damage`
up to the first that ends the fight: it gives the characters and duels that a
blow may leave, by `SafeFrom` (`is_safe`), by `Survived` if the victim lives (as it
was, fallen, fled, or recalled for want of a link), and by whether the death is
one in a duel (`Defeated`) or not (`Slain`). `Kill`, `Kick` and `Bash` strike once,
`Violence` strikes and then lets one of the group join (`Assisted`,
`check_assist`). `Terminated` is `terminate_duel`, and is called where the code
calls it: by `Leaves` (`do_quit`), `LinkLost`, `Tick` (timeout and the void), and by
a defeat. `Purge` does not call it, as `do_purge` does not.
A purged player's rival keeps a pointer to a `Char` that `EndPulse` frees; `Next`
stops there (`Dangles`).

**Telnet, Terminal.** `add_data` is a fold over the parser's buffer: `interpret_iacs`
takes out one command at a time, and `handle_whole_lines` cuts lines at either
separator, swallowing the opposite one if it follows at once, also in the next
read. `Read` delivers up to `ReadSize` of what a client types, or less: the split
is the network's. In the MUD a call of `write`, `flush_output`, `close` or of a
snooper's copy is an element of `stack`: the innermost call is replaced by those
it makes, so that the order of nested calls is the code's, and the loops over
snoopers (`each`, `part`) show whether what they stand on was erased meanwhile
(`Torn`). From there on the program may or may not go on (`alive`). `Reached` is the
least set that whom a descriptor snoops on is in, and with each all those it snoops
on: what `SnoopLoopChecker` looks through. The
three parts of the main loop, `packets`, `commands` and `output`, visit the
descriptors one at a time.

**Things.** `world.at` says for each object the room, the character or the object
it is in, for `in_room`, `carried_by` and `in_obj` are set together; `number`,
`weight`, `light` are the counts kept beside it, and `worn` the place it is worn
in. What the kind of an object allows is membership of constant sets. A death
moves everything into one of the `Corpses`, which has no owner if the dead is a killer or a
thief (`outlaw`, left open at each death); the decay of a corpse spills it; who may take from it is `can_loot`,
immortals always. Objects of one kind have one `Index`, by which copies are told: what a
keeper has from a reset (`Stock`) is never sold out, and a buyer gets an object of that
index that was not in the world (`Copies`). An action is one command by one player on one object;
`all` is the same command several times.

**Skills, Affects, Spells, Magic.** An operator takes a world and gives the worlds
that may come of it, for saving throws, chances and damage are left open. `affs`
is the list of a character's affects, `mods` and `bits` the scores and bits that
they and the worn items have made. `affect_modify` is the only way the code has of
changing these, and so it is here. `spell_fun` is the column of the skill table;
`do_cast`, `obj_cast_spell` (of scrolls, potions, staves, wands), bombs and special
functions find its targets. `Tick` is the whole of `char_update` for everybody, one
after the other in the order of `char_list`, since a plague of level 1 ends it for
those behind. There is one room: who is blown out of it by `spell_psy_tornado`, or is in a
room next to it, is out of the model. `spell_chain_lightning` goes round it (`Round`) for
as long as its level lasts, and may come back to its caster.

**Doors, Bonds.** `Doors` has the flags of the two sides of each exit;
`update_reverse_exit` writes both where the exit leads back. In `Bonds` a world is a
function from characters to the fields of `Char` that point at others. Each function
of the code that changes them is an operator of the same name: `stop_follower`,
`die_follower`, `nuke_pets`, `extract_char`, `fallen_off_mount`, `damage` with the
fleeing, recalling, falling and dying from within it. `Walks` is `move_char` with the
column of followers it takes along. A behaviour plays one scene: who is there, and
which commands are given; mobiles act when they are ordered to, wander, or are
struck. Where a rider's mount, or a mount's rider, has been freed, what the program
does with the pointer is undefined, and `Next` stops (`Dangles`).

**ClientRelay.** A client is `absent`, `waiting`, `connected` or `gone`. It is
connected exactly while there is a MUD that has booted; nobody is lost when a
MUD goes or comes; who is gone does not come back. The refinement mapping
(`Up` and `Stages` in `DoormanMud`) reads a client's stage off the channel with an open
socket that is its own.

Operators marked `mutant` stand directly before the definition they alter: each
is that definition with a plausible mistake in it, and each property of a
passing run is violated with one of them (`PROJECT.json`, `mutants`).

## 4. Runs

| Run | Asks | States | Result |
|---|---|---|---|
| `owners` | Does every packet reach the client or the character it is meant for when numbers are used again? `DeliveredToOwner`, `IdentityIsOwn`, `InputFromOwner`, `MudNumbersHeld` | 52,000 | holds without faults |
| `relay` | Is every number in exactly one place, and never given to two clients? Does doorman keep its promise over MUD stops, and does every waiting client get a MUD? `TypeOK`, `PoolPartition`, `NumbersNotShared`, `ConnectedIffUp`, `InitExpected`, `ImplementsRelay`, `WaitingEnds` | 470,000 | holds |
| `login` | Several descriptors after one name, creation and bans: `OneDescriptorPerPerson`, `NoDanglingBody`, `LinksAgree` | 67,000 | holds |
| `immortals` | `ban`, `purge` and `switch`: `OneBodyPerPlayer`, which says also that each guest has one owner | 17,000 | holds |
| `duels` | Do the two halves of a duel agree, do players fight only by way of duels, and do duels and their fights end? `TypeOK`, `DuelsMutual`, `FightsBeginInDuels`, `DuelEndsFight`, `DuelRunsDown` | 776,000 | holds |
| `things` | Is every object in one place that is in the world; are the counts right whatever is carried in what; does who wields have the strength; are coins kept, unique objects unique, corpses safe from strangers? `WorldOK`, `CarryAccounts`, `LightsCounted`, `WornWell`, `NoSecondCopy`, `GoldKept`, `OnlyFriendsLoot` | 186,000 | holds |
| `magic` | Do scores and bits always come to what the listed affects and worn items make of them, and does who is charmed have a master? `ModifiersAddUp`, `NoBitWithoutSource`, `CharmedHaveMasters` | 42,000 | holds |
| `fading` | Once people leave off, does every spell end? `SpellsFade` | 1,200 | holds |
| `terminal` | Is what a client typed the same however it is split; do snoopers and those they snoop on agree, without a loop, whoever is closed from within which call; is a channel ended once, and text that was written shown? `SplitReadsAgree`, `SnoopLinksAgree`, `NoSnoopLoop`, `EndedOnce`, `EventuallyShown` | 362,000 | holds |
| `bonds` | Do pets and owners agree, does nobody keep a pointer to one that is gone, has the charm thread an end, and do the sides of doors agree? `BondsMutual`, `NoDanglingBond`, `CharmHasNoLoops`, `DoorsAgree` | 66,000 | holds |
| `staysup` | `DoormanStaysUp` | | violated, see 8 |
| `rollback` | `FileNeverRollsBack` | | violated, see 8 |

Deadlock is not checked where the system may really stop: doorman that has
exited is not restarted in the model (`relay`), the MUD may crash, a descriptor refer to
a freed character or a character to a freed descriptor, whereupon what the program does
is undefined (`immortals`; the last in `login` and `rollback` as well), and so it is when
a duel refers to a freed character (`duels`); clients
have typed all they will and output is flushed (`terminal`), or everybody has quit or
somebody's mount was freed (`bonds`). It is checked in `owners`, `things`, `magic` and `fading`.

What the properties say is written above each of them. The ones that took most
thought:

* `PoolPartition` and `NumbersNotShared` justify the comment "This should be
  impossible!" in `accept_new_connection`.
* `MudNumbersHeld` is why `ids_known_to_mud_` exists: a number of which the MUD
  has an open descriptor is not in the pool. It holds while nobody reconnects;
  with reconnections it does not (8).
* `InitExpected`: `handle_init` treats an unexpected `INIT` as an error of the
  MUD's and drops the link. That it never happens depends on doorman discarding
  unread packets when it closes the link, and on the MUD sending `INIT` once
  per accepted connection, both at boot and after doorman is lost.
* `OneDescriptorPerPerson` depends on `check_playing` looking at every lobby
  state after the password, so that a second descriptor is sent to
  `BreakConnect` while the first one still reads the message of the day.
* `DuelsMutual` is what lets `terminate_duel` and `accept_invitation` dereference
  the other half. It is stated of rivals that were not freed: a purge breaks it
  otherwise (8).
* `FightsBeginInDuels` is as strong as the code allows. `set_fighting` makes both
  fight, so the last blow of a duel's fight is returned when the duel is over
  ("striking back"), and `do_rescue` asks nothing about duels.
* `DuelEndsFight` makes an exception of a lost link (see `NoPlayerKilling` in 8),
  and of the rival who is no longer there to fight.
* `DuelRunsDown` bounds what has no fairness to make it end: ticks that skip
  characters (`TickCutShort`) delay a duel, but nothing lengthens it.
* `CarryAccounts` counts through containers. `can_carry_n` and `can_carry_w` are asked
  of numbers that `obj_to_char`, `obj_from_char`, `obj_to_obj`, `obj_from_obj`,
  `extract_obj`, the weights of coins and the death of their bearer all adjust.
* `NoSecondCopy` excepts thieves: `do_steal` asks nothing about uniqueness.
* `ModifiersAddUp` would fail if a worn item could be enchanted, for its modifiers
  are subtracted as they are when it comes off; every spell that changes an item
  refuses a worn one, but acid breath, which corrects the score with the wrong
  signs (8): those it burnt are excepted (`etched`).
* `NoBitWithoutSource` does not say the converse, which is false (8).
* `CharmedHaveMasters` and `CharmHasNoLoops` are what `damage` and `check_killer` take
  for granted: `killer->master` is dereferenced, and the charm thread followed until
  it ends. A loop of masters alone is possible (8), a charmed one is not, for nobody
  who is charmed can charm or follow of their own accord.
* `NoDanglingBond` leaves out `riding` and `ridden_by`, which do dangle (8), and
  `BondsMutual` is about pets for the same reason.
* `SnoopLinksAgree` holds at each call on the stack, not only between pulses, but the
  loop that is being made over the links may be torn (8).
* `EndedOnce`: a `DISCONNECT` too many would end the next client with the number.
* `SplitReadsAgree` compares what doorman made of the reads with a parser that reads
  one byte at a time. Where an exception cuts the connection, both stop there.

## 5. Bounds

| Constant | Bounds | Why it is enough |
|---|---|---|
| `MaxAccepts` | connections in a behaviour; also channel numbers | three make a number be released and given out again while packets of its first owner are under way; two suffice where nothing turns on a third |
| `MaxChannels` | channels at a time, 64 in the code | 1 forces reuse and a full table, 2 gives two channels at once |
| `MaxQueue` | packets above which a side volunteers no more; answers are never held back | 1 lets an unforced packet stand between any two forced ones |
| `MaxFaults` | MUD stops and short reads | 1 gives a whole cycle of MUD, no MUD and next MUD; short reads are counted with it |
| `ClientFaults` | whether a client's socket may start to fail | |
| `MaxVersion` | progress of a player | 3 is created, level above 1, and one step more: an old copy that is saved and the progress it overwrites |
| `Players` | bodies that exist at a time | one more than descriptors: the guest of each and a link-dead character |
| `Players` (duels) | three: a duel, and one who joins, rescues, challenges either or is challenged | who is party to a duel, who is not, and a second one |
| `Rooms` (duels) | one where one may fight, and one that is safe and has the altar | together, apart, safe, and awakening elsewhere are told apart |
| `InvitationTimeoutTicks`, `DuelTimeoutTicks` | 1 and 2; 2 and 10 in the code | an invitation that runs out at once, and a duel with a tick that does not end it and one that does |
| `Grouped`, `Events` | whether the players are a group, and which of mobiles, purges and the plague there are | all of them |
| `Casts` (things) | up to seven objects, people and rooms at once, of 22 in all | each cast has what one family of rules is about, and a corpse where it can reach it: uniqueness with a shop and with bags, coins, strength, light, graves, the pit |
| `CarryN`, `CarryW`, `Fits`, `MaxGold` | 3 things, weight 4, 3 in a container, 2 coins | each limit is reached with the objects of a cast |
| `Purse` | a coin for each player to begin with, where there are coins | two players who give, split, drop and steal what there is |
| `Scenes` (magic) | one or two players, a mobile, up to three spells or other uses of them | every kind of spell is cast, those that interact together |
| `most` | two or three uses of a spell or command in a behaviour | put on, put on again or taken off, and one more |
| `Lasts`, `CharLevel` | affects for one tick, level 16 | an affect that is new, one that ends at the next tick, and none; levels matter by comparison only |
| `FaintestPlague` | a plague of level -1 is passed on no more | it shows that one below 0 spreads; nothing changes after that but the level |
| `MaxOut`, `MaxBacklog`, `MaxLine`, `HelpPages` | 4 units, 2 lines, 2 pieces of text, 2 pages | each limit is met and passed by a page, a flood of three lines, a line of three pieces |
| `MaxIncoming`, `ReadSize` | 10 and 3 bytes | every split into one, two or three bytes; a client that sends no separator for too long |
| `Scenes` (terminal) | three clients, each with a script of up to 20 bytes | chains, diamonds and would-be loops of snoopers need three |
| `Scenes` (bonds) | up to two players, an immortal, two mobiles, a pet; the commands that matter to each other | who charms, who is charmed and by whom it is attacked; a rider, a mount and a bystander |
| `Rooms`, `Exits` (bonds) | three rooms, two directions: a door, an open way, and a way that does not lead back | two-sided and one-sided exits, walking apart and together, limbo |

`relay` has two clients at once, no unforced packet and one fault; `owners` three
clients one after the other. The theorems of section 7 are free of all bounds but
that on accepted clients, for which they hold whatever it is.

Symmetry: channels and bodies in `Session`, and players in `Duel`, are
interchangeable; it is used only where a run checks no liveness.

## 6. Fairness

`relay` needs it for `WaitingEnds`, `fading` and `terminal` for their one property each.

* Weak fairness of doorman's loop and of the MUD's: each process's scheduler
  runs it, and neither waits for players or clients (`DoormanPolls` and
  `MudLoops` leave out every action that somebody outside must cause).
* A MUD that has ended is started again (`MudStart`, weakly fair):
  `src/start-mud.sh` and `src/infra/scripts/init/xania.service`.
* Strong fairness of `TryConnect`: an attempt is made every ten seconds
  (`Xania::poll`) and succeeds whenever a MUD listens; between two attempts
  many iterations pass in which the action is enabled but not due, and the MUD
  may stop and start meanwhile, hence strong.
* `Magic`: weak fairness of `Tick`. `update_handler` is called in every pulse, and calls
  `char_update` whenever its counter runs out. Nothing is assumed of casters, whose
  deeds a scene bounds.
* `Terminal`: weak fairness of `Calls`, for a call that was made returns, and of
  `MainLoop`, which never stops of itself: it goes from one part to the next, and
  visits each descriptor in each. Clients may type or not.

Nothing is assumed of clients, players, or faults. Doorman may exit, which ends
its clients' wait: `gone` is one of the ends `WaitingEnds` allows.

## 7. Proofs

Each theorem is of the `Spec` of its model, for every value of the constants that
meets the model's named assumptions, which TLC evaluates in every run:

* doorman and the MUD: `BoundsAssumption` (the bounds are natural numbers, and at
  least one client is accepted);
* duels: `DuelAssumption` (players, mobiles and nobody are distinct, the altar and the
  safe rooms are rooms, and an invitation runs out no later than a duel), for any set
  of players, which need not be finite;
* sessions: `SessionAssumption` (names, bodies and descriptors are distinct from those
  that stand for none, and from the mobile), for any set of them;
* bonds: `BondsAssumption` and those of `Doors` (the temple, the altar and limbo are
  rooms; pets are mobiles that are not there from the first and immortals are none;
  each exit leads to a room, and the areas' two sides of a door agree), for any
  scenes;
* terminals: `TerminalAssumption` (the limits are at least one, a read is shorter than
  the buffer, and there are finitely many descriptors), `BytesAssumption` (what clients
  may send has the control bytes in it, and is not taken for the MUD's setting of the echo) and
  `ScenesAssumption` (clients type bytes), for any scenes, typing and terminal types;
* things: `ThingsAssumption` (people, things and rooms are different; containers,
  corpses and money are different kinds of things, no shop stocks corpses or
  money, and things of one index are unique together or not at all; there are finitely
  many people and things; and what the players of a cast begin with does not exceed
  `MaxGold`), for any casts;
* magic: `AffectsAssumption` (players and mobiles are different and finitely many, as
  items are, there is no more than one mobile, which spares the model who fights whom
  among mobiles, and what is natural to a character is a set of bits), `TableAssumption`
  (the target that the table gives the spells that are used) and `MagicAssumption`
  (`CharList` has everybody once, and what a scene is made of), for any scenes.

Some theorems have a hypothesis beside these, on what the bounds or the commands of a
run are. What TLC shows without it is said below the table.

| Module | Theorem | Statement |
|---|---|---|
| `DoormanMudProofs` | `TypeCorrect` | `Spec => []TypeOK` |
| `DoormanMudProofs` | `NumbersPartitioned` | `Spec => []PoolPartition` |
| `DoormanMudProofs` | `NoNumberShared` | `Spec => NumbersNotShared` |
| `DoormanMudProofs` | `ConnectedCorrect` | `Spec => []ConnectedIffUp` |
| `DoormanMudProofs` | `InitAlwaysExpected` | `Spec => []InitExpected` |
| `DoormanMudProofs` | `PacketsReachOwners` | `Spec => [](faults = 0 => DeliveredToOwner)`, if no client's socket fails |
| `DoormanMudProofs` | `InputReachesOwners` | `Spec => [](faults = 0 => InputFromOwner)`, if no client's socket fails |
| `DoormanMudProofs` | `IdentitiesStayOwn` | `Spec => [](faults = 0 => IdentityIsOwn)`, if no client's socket fails |
| `DoormanMudProofs` | `OpenNumbersHeld` | `Spec => [](faults = 0 => MudNumbersHeld)`, if no client's socket fails |
| `DoormanMudProofs` | `RelayImplemented` | `Spec => ImplementsRelay` |
| `DuelProofs` | `DuelTypes` | `Spec => []TypeOK` |
| `DuelProofs` | `DuelsAlwaysMutual` | `Spec => []DuelsMutual` |
| `DuelProofs` | `EveryDuelRunsDown` | `Spec => DuelRunsDown` |
| `DuelProofs` | `FightsNeedDuels` | `Spec => FightsBeginInDuels` |
| `DuelProofs` | `EndedDuelsEndFights` | `Spec => DuelEndsFight` |
| `SessionProofs` | `SessionTypes` | `Spec => []TypeOK` |
| `SessionProofs` | `LinksStayAgreed` | `Spec => []LinksAgree`, if nobody may `purge` or `switch` |
| `SessionProofs` | `NoBodyDangles` | `Spec => []NoDanglingBody`, if nobody may `purge` or `switch` |
| `SessionProofs` | `PersonHasOneDescriptor` | `Spec => []OneDescriptorPerPerson`, if nobody may `purge` or `switch` |
| `SessionProofs` | `PlayersAreSole` | `Spec => []OneBodyPerPlayer`, if nobody may `delete` |
| `BondsProofs` | `TypesHold` | `Spec => []BondsOK` |
| `BondsProofs` | `BondsStayMutual` | `Spec => []BondsMutual` |
| `BondsProofs` | `NoBondDangles` | `Spec => []NoDanglingBond` |
| `BondsProofs` | `CharmThreadEnds` | `Spec => []CharmHasNoLoops` |
| `BondsProofs` | `DoorsStayAlike` | `Spec => []DoorsAgree` |
| `TerminalProofs` | `SnoopingStaysAgreed` | `Spec => []SnoopLinksAgree` |
| `TerminalProofs` | `SnoopersAreLoopFree` | `Spec => []NoSnoopLoop` |
| `TerminalProofs` | `EndsOnce` | `Spec => []EndedOnce`, if a buffer holds what all others may say of who leaves |
| `TerminalProofs` | `SplitReadsStayAgreed` | `Spec => []SplitReadsAgree` |
| `ThingsProofs` | `AlwaysReady` | `Spec => []IInv` |
| `ThingsProofs` | `AlwaysCounted` | `Spec => []CarryAccounts` |
| `ThingsProofs` | `AlwaysLit` | `Spec => []LightsCounted` |
| `ThingsProofs` | `AlwaysWornWell` | `Spec => []WornWell` |
| `ThingsProofs` | `NobodyGetsASecond` | `Spec => NoSecondCopy` |
| `ThingsProofs` | `StrangersDoNotLoot` | `Spec => OnlyFriendsLoot` |
| `ThingsProofs` | `WorldAlwaysOK` | `Spec => []WorldOK`, if nobody of the group is charmed |
| `ThingsProofs` | `GoldIsKept` | `Spec => GoldKept`, if nobody of the group is charmed |
| `MagicProofs` | `WorldGood` | `Spec => []MagicInv` |
| `MagicProofs` | `EveryModifierAddsUp` | `Spec => []ModifiersAddUp` |
| `MagicProofs` | `EveryBitHasSource` | `Spec => []NoBitWithoutSource` |
| `MagicProofs` | `EveryCharmedHasMaster` | `Spec => []CharmedHaveMasters` |

The hypotheses of `SessionProofs` are needed. With `purge` alone among the commands TLC
finds `LinksAgree` and `NoDanglingBody` violated, with `switch` alone these two and
`OneDescriptorPerPerson`, with `delete` alone `OneBodyPerPlayer`: the ways are those
of section 8. `do_ban` and the rest may be given in any case.

Those of the four theorems about owners are two: `ClientFaults` is `FALSE`, and no MUD has stopped and
no read was short yet (`faults = 0`), whatever `MaxFaults` is; run `owners` is the case
`MaxFaults = 0`. With one fault TLC finds each of the four violated: a client that is
announced to the next MUD by `RECONNECT` has a number that is not in
`ids_known_to_mud_`, and that may be given away under the MUD's descriptor. With failing
sockets all but `InputFromOwner` are: a write to the client that fails makes doorman
send `DISCONNECT` twice, the MUD acknowledges it twice, and the second acknowledgement
may take the number from its next owner.

That of the last two theorems of `ThingsProofs` (`NoneCharmed`) is needed as well:
`split_coins` makes gold for a charmed player who splits some (section 8).

That of `EndsOnce` (`Margin`) is `MaxOut >= 2 * (Cardinality(Terms) - 1)`: a buffer has room
for two farewells of everybody else. The code's does: doorman has 64 channels
(`Doorman.hpp:18`) and the MUD a buffer of 32000 bytes (`Descriptor.hpp:102`), which leaves
some 250 bytes to each, and in run `terminal` `MaxOut` is 4 with three clients. With a smaller
one closing somebody may tell so many others, who overflow and say so in their turn, that it
is closed again.

*The invariant* of the link is `IInv == TypeOK /\ PoolPartition`. Neither half is
inductive alone: `TypeOK` says that numbers lie in `Ids`, and that `ReservedId`
does follows only from the pool's being the numbers below `next_id_`, with
`next_id_` at most the connections accepted. `PoolPartition` needs the types to
know that what is pushed is a finite set of numbers.

*The pool* is a stack, so the proof begins with what pushing and popping do to
a sequence without repetition (`PushDistinct`, `PopDistinct`). From these come
the only three ways the pool changes: `PoolUnchanged` (nobody drops or takes a
number), `PoolReleases` (`Held` shrinks, and what leaves it is pushed in any
order), `PoolReserves` (`reserve`, and the number becomes held). Every action
is then one of these, or `Exits`, or the failed accept that reserves and
releases in one step. `MudSteps` and `DoormanSteps` have one lemma per phase and
one case per action.

*`NoNumberShared`* follows from `IInv` and `OnlyAcceptGives`: no action but
`AcceptNew` gives a channel an owner, and `AcceptNew` takes `ReservedId`, which
`PoolReserves` shows is not held.

*`ConnectedIffUp`* is inductive relative to `IInv`, which is needed to know
that an accepted client's number is in range.

*`InitAlwaysExpected`* needs an invariant of both processes and the queue,
`Handshake`: at most one `INIT` is unread; if one is, doorman has not heard of
this MUD yet (`mudState` is not `Connected`); a MUD that is still booting on a
linked connection has sent none; and the two ends agree on whether they are
linked. It is inductive because closing an end throws away what is unread on
it, so that no `INIT` outlives its connection, and because the MUD sends one
per connection: at boot, or on accepting doorman again. The lemmas before it
say what appending and reading packets do to the `INIT`s of a queue.

*Owners*: the invariant is `OwnInv`, relative to `IInv` and `Handshake`. `Calm` says that
nothing is broken, so that no write of doorman's raises. Before the `INIT` nothing is
under way (`Quiet`); from then on each number has a `Life`, which says of the packets
for it in the two queues what they may be and in which order, given who has the number:
doorman's books, a channel, an open descriptor. Towards the MUD (`Sent`) nothing
follows a `DISCONNECT`, and a `CONNECT` is followed by packets of its own connection
only, what is in front of it being a former owner's, which find no descriptor. Towards
doorman (`Answered`) the MUD's last word is one `DISCONNECT` or one acknowledgement. `Crossed` is what
decides it: a `CONNECT` and any packet for the same number from the MUD are never
under way at once, nor is a `DISCONNECT` and an acknowledgement. So a number that is not held has no descriptor,
nothing from the MUD under way, and at most idle words towards it (`Vacant`), and may be
given away. The lemmas from `LifeEased` to `LifeOpens` say what a packet read, written or
lost makes of a life, whatever the queues; every action is then one of these for one
number, and `LifeGoesOn` for the others. `Reaped` is needed for an acknowledgement: a
descriptor that is closed while packets are read was closed by doorman, since the MUD
reaps its own before it reads.

*`RelayImplemented`* uses `RInv == IInv /\ ConnectedIffUp /\ OwnersAccepted`.
Because of `ConnectedIffUp`, the stage of a client depends on three things only:
how many were accepted, which have an open channel (`Served`), and whether
there is a MUD (`Up`). `OwnersAccepted` excludes a client that is absent and
served at once. Every action is then of one of four kinds: `Stays` (nobody
comes, clients or the MUD may go), `Rises` (the MUD comes), `Arrives`, and
`Fails` (a client is turned away), and `KindsImplement` shows each to be a step
of `ClientRelay` or a stutter.

*Duels*: the invariant is `IInv == TypeOK /\ DuelsMutual`. Again neither half will
do alone: `Accept` writes to both halves, which is well typed only if both
exist. `DuelsMutual` speaks of rivals that were not freed; where the model can
take a step there is no other (`NobodyDangles`), so that each step starts from
`Mutual(duel)`, agreement without exception, and the only step to need the
exception again is `EndPulse`. Every other step but `Challenge` and `Accept` is
`Eased`: the types are kept, agreement is kept, and each half of a duel `Dwindles`,
that is, stays as it is, loses ticks, or goes. That gives the invariant and, with
what `Tick` does to the one it visits, `DuelRunsDown`. `Struck` and `Assisted` are
sets of outcomes; `StruckLeads` and `RoundLeads` carry what holds of each outcome
over to the step.

*Fights*: a step `Calms` if nobody fights anyone new, and `Starts` if who does has a
duel with him or was fought by him. Stopping, falling, fleeing, dying and moving
calm; `Engaged` both ways and a blow start; and starting is closed under what a
round does (`BeginsOn`), which needs `Mutual` so that a duel seen from one side is
seen from the other. Only `do_rescue` is neither, and has the third cause.
That the end of a duel ends the fight is shown where duels end: whoever is struck
down or dies is `LeftAlone`; when a blow of a round ends a duel nobody joins in after it
(`RoundEnds`); and when the clock ends one it stops both (`TimedEnds`).

*Sessions*: `SoundInv` holds whatever is commanded: what a descriptor refers to in
each of its states, what a body is in each of its places, that who is in the world
with a descriptor is played by it, and whom the descriptor of an extracted body may
serve. It gives the types. Without `purge` and `switch`, `Mutual` can be added: the
body a descriptor refers to refers back and was not extracted, and who was extracted
by a command still refers to the descriptor that is closed with it. From these follow
the three properties of links. Without `delete`, `Lasting` (who is in the game, or was
asked for the password of an existing player, has a file) and `Sole` (who is in the
game, or enters it without another question, has the name to themselves) are kept
together: that a name is new is judged by its having no file. The lemmas are about the ways in which descriptors and bodies are
written, for any descriptors and bodies, so that an action which closes one and
takes over another is two of them.

*Bonds*: an action is a chain of functions from worlds to worlds, and so the lemmas are
of worlds: `stop_follower`, `die_follower`, `stop_fighting`, `extract_char` and the
others lead from a world that is `Good` to one that is. `Sound` is the invariant: no
bond leads to who is not here (`Alive`), who is not here has none (`Clean`), mobiles
neither ride nor keep pets, and none of them has charmed anybody (`Riders`), a pet's
master is its owner (`PetsOwned`), and the charm thread has no loop (`LoopFree`): a new link of it
leads from a pet that nobody follows yet, or to a caster who is not charmed. `Good` says that no rider or mount dangles
either, which a step may begin with (`Dangles` stops the others) but need not end with.
`DoorsStayAlike` is inductive on its own, given that the areas agree.

*Snooping*: `close` is a chain of calls, and in the midst of it the two ends of a
snooper's link are not those of a descriptor that is open or shut. `Frames` says what
the calls under way have come to: when `leave` is called nobody snoops on the
descriptor any more, and it either snoops on nobody or is about to stop; when it is
shut both are so. A command can only be the last call on the stack, which is why
nobody can begin to snoop on one that is half closed. With that the links agree. That
there is no loop follows for each of the three ways in which they change: fewer links
reach fewer, and a link to one who does not reach its snooper closes no loop, which is
what `SnoopLoopChecker` asks.

*One end to a connection*: doorman would be told twice if a `close` were called in the midst
of a `close` of the same descriptor, which nothing in the code forbids: the state is
`closed` only at the end, and in between text is written that may come back. `EndInv` says
why it does not. `Placed` is what can be under way within a `close`: farewells, the flush of
its own text, which nobody is shown (`Unseen`, since whoever quits has been extracted, and
whoever loses their link has nothing left to flush), and a `close` of somebody else; and a
`close` is only called of somebody of whom none is under way (`Nested`, `Readied`). `Single`
then says that there is one of each. The only way left is an overflow, by what others write to
who is being closed. `Counted` bounds that: each other one tells it once that it parts from
its snoopers, and once that it leaves, and both are counted (`Parted` and `Gone`), so that a buffer with
room for all of them does not overflow. While the link is down nothing is told, and there the invariant asks
nothing. TLC checks `EndInv` on run `terminal`'s instance.

*The parser* has a buffer where `ByteAtATime` has a state. `add_data` scans the whole buffer
again at each read: what was left of a line, what was left of a command, and the new bytes.
`ReadInv` says of each channel (`Agrees`, `Retains`) what ties the two together: the buffer is a
line so far, `m.line`, and after it a command so far, `p`, where `m` is a reader that is in no
command, and the reader of all bytes heard is at `m` with `p` pending (`Pending`). Three things
are shown of it. Replaying the buffer from `m` with an empty line leads back to where the reader
is (`LineAgain`, `PendingAgain`, `BufferAgain`): no byte of a line is a separator or `IAC`, and
no part of a command that is incomplete is complete. A scan of any buffer, with its lines cut,
goes along with the reader over the same bytes, up to the command it cannot finish (`ScanWalk`,
`ScanHears`), since the lines of a scan are cut the same before and after a command is taken out
of it. And an echo that the MUD sets in the middle of a command changes answers, and nothing of
where the reader is (`EchoAgrees`). All are inductions along the bytes (`WalkKeeps`). The
quantifiers of `Retains` range over all readers, so TLC cannot evaluate it as it stands; with
the `m` and the `p` that the reader's own state determines it holds throughout run `terminal`'s
instance, but for a client that has sent `IAC SE` or `IAC AO`, which leaves the reader in `lost`
and the parser with a command that it never completes.

*Things*: what a character or a thing holds is a recursion in the model, as it is in the
code (`Inside`, `get_obj_number`). The proof replaces it once and for all: `Below` is the
least set that has the thing in it and, with each thing, what lies in that; it is reached
after as many layers as there are containers (`InsideIsBelow`), since a layer that adds
no container adds nothing after it. With `Below` a thing that is put down or taken away
changes what is below those who bear its place by exactly what is below itself
(`PutBelow`), and, since number and weight of disjoint sets add up (`CountsAdd`), the
counts by what `obj_to_obj` and the others add and subtract.

`Sound` says of a world that its places form a forest of containers and characters
(`Forest`), that what something lies in is in the world (`Present`), that the counts are those of
what is below (`Counted`), and what is worn is alone in its place (`Dressed`); `Lighted`
that the rooms' lights are the lamps' that shine there, and `AllArmed` that players are
strong enough for what they wield. `Fit` is the three together. They have to be kept
together: `affect_modify` strips whoever has become too weak, in the middle of
`unequip_char`, and what is dropped comes off the counts. So each
operation of `handler.cpp` has one lemma, that it leads from a fit world to a fit one,
and says which things it leaves where they were, but for weapons that fall (`Bides`).
`Ready`, the invariant, adds that nothing but a note is lost (`Lacks`).

What a step may not do is of two kinds. `Easy` says that nothing comes into
anybody's hands, so nobody gets a copy or loots; `Handed` that one thing does, with all
in it, for which the guards of the commands are asked (`HandedKept`). `Coins_` and `Rich`
keep the books of gold: the loops of `split_coins`, `do_drop`, `make_corpse` and
`obj_update` are folds over finite sets, and what a fold keeps is shown by induction
over the subsets of the set it runs over (`FoldKeeps`), that a sum is independent of the
order it is taken in likewise (`TotalIs`). Such an induction is possible here as it is over sets
(`SubsetsUp`, from `WFMin` of the library) and needs no operator as a parameter. `Done` is both kinds
together; each action has one lemma that ends in it, and `NextDone` collects them.

*Affects*: an operation of `Affects`, `Spells` or `Magic` takes a world to a set of
worlds, and the invariant is of worlds: `Good` are those of the right type (`Worlds`) in
which each bit is natural, hiding, or of an affect that is listed (`Sourced`), whoever
is charmed has a master (`Mastered`, of the dead as well), each score is the sum of
what is listed and worn (`Summed`, but for the `etched`), and what is worn is worn by
somebody (`WornOn`). `TLC` checks `Good` on run `magic`'s instance as it stands. Each
operation has one lemma, that it leads from `Good` to `Good`; most also say what else it leaves as it was.
The four parts need each other: an affect is taken off with its modifier and its bits, so
bits are clear that another affect of the kind may still list, which `Sourced` allows,
and `Mastered` is kept since a charm goes with its affect, or stays with its master.

What makes `Summed` work is that everything is added by `affect_modify` and taken off by
the same: the lemmas from `SumSame` to `SumRemoved` say what a list's sum is when an
affect is put in front, removed, or aged, and `SharesLeft` to `ExchangedGood` what an
item's is when it is worn, comes off, or changes while nobody wears it. `affect_strip` and
the tick take several affects off in one go: that each that is over takes its modifier along, and
that each other is listed and summed as it was, is an induction along the list (`RemovedWalks`, `RemovedIs`).
`spell_fun` knows 88 spells, by what they are cast on: `PeopleGood`, `GearGood` and `RoomSpellGood`
collect the lemmas of the spells, `CastOnGood` the three, and the actions follow by the
targets the table gives them (`TargetsFit`, `ObjTargetsFit`).

*Folds*: `ThingsProofs` and `MagicProofs` both rest on `FoldProofs`. The induction
theorems of the library cannot be used (their hypothesis is an operator), but an
induction over sets can: `NumbersUp` and `SubsetsUp`, from `WFMin`, speak of the set of numbers, or of
subsets, for which something holds. From these come what a fold over a set or a list
keeps (`FoldKeeps`, `WalkKeeps`), that it ends in a set if each of its steps stays in it
(`ListEnds`), and that a sum does not depend on its order
(`TotalIs`).

Out of the prover's reach, and left to TLC: liveness (`WaitingEnds`, `SpellsFade`,
`EventuallyShown`), since it rests on fairness and `ENABLED`. Each invariant and each
action property that a passing run checks is proved, some under the hypotheses above.

## 8. Disagreements met

Checked by a run each, with the lines quoted in `PROJECT.json`:

* **Doorman can be taken down by a MUD that has just died** (`staysup`). A
  client that leaves before doorman has read the end of file makes
  `Channel::close` write to a dead socket; the exception is nobody's to catch.
* **A descriptor that drops at the password prompt overwrites the player file
  with an old copy** (`rollback`).

Others that TLC shows when the properties, defined in the modules but listed in
no run, are checked:

* `DeliveredToOwner` when a MUD stops (two clients one after the other,
  `MaxAccepts` 2, `MaxChannels`, `MaxQueue` and `MaxFaults` 1): after a reconnection
  a number is given away while the MUD still uses it. `RECONNECT` does not enter it
  in `ids_known_to_mud_`, as `CONNECT` does (`Channel.cpp:119`), against
  `doorman_protocol.h:29`, "Confirm a channel is no longer in use".
* `GoldKept` of `Things`, with a charmed player in a group of three (`Group` the three
  players, `Charmed` one of them, `Purse` 2, `MaxGold` 6, all in one cast with a heap):
  `split_coins` divides by the number of those in the group who are not charmed, but
  gives the one who splits a share back in any case (`act_obj.cpp:75-89`). When a charmed
  player splits 2 coins with two others each of the three has 1 of them, against
  `Help.are:1063`, "SPLIT splits some gold between you and all the members of your group
  who are in the same room as you".
* `QuitSaves` of `Session` (two descriptors, `MaxVersion` 2): a link-dead player that
  idles out is dropped unsaved, as `Char::player()` is null without a descriptor and
  `CharSaver::save` then writes nothing (`Char.hpp:220`), against `act_comm.cpp:387`.
* `ReconnectResumes` of `Session`, in the same instance: a reconnection that finds the
  character link-dead takes it over and closes the descriptor, because `nanny` is
  called for a prompt that is already behind it (`MudImpl.cpp:509`), against
  `Descriptor.hpp:146-147`.
* `NoPlayerKilling` of `Duel` (two players, no events): a duellist that loses the link
  is then really killed. The duel ends with the link (`Descriptor.cpp:229`), the
  fight does not, and `is_safe` lets the rival go on against one who still fights
  him, against `Help.are:526`.
* `LosingIsFree` of `Duel`, in the same instance: a duellist left mortally wounded
  bleeds to death at the tick as if there were no duel (`update.cpp:805`): corpse,
  experience and all, against `Help.are:308`.
* `ListedAffectsShow` of `Magic` (a mobile, pass door and dispel magic): the bit of an
  affect that has withstood a dispel is cleared, as `try_dispel_all_dispellables` takes
  a bit for permanent precisely when the affect is still listed (`magic.cpp:913`,
  `SkillTables.hpp:35-37`); a bit that really is permanent is never dispelled.
* `NoLeakedNumber`: both sides send `DISCONNECT`, the MUD has reaped the
  descriptor when it reads doorman's and so does not acknowledge it; the number
  is kept until the MUD goes.
* `NoStrandedClient`: a number is acknowledged, given to a new client, and
  announced before the MUD has reaped the old descriptor; `CONNECT` is refused
  as a duplicate and the client has no descriptor.
* `PlayersKnown`: a link-dead character that is taken over at the password
  prompt is not reported by `AUTHORIZED`, so a reboot sends its player back to
  the name prompt.
* `MudNumbersHeld` with failing sockets: doorman sends `DISCONNECT` twice for a
  client it could not write to, and the second, if its answer is late, is
  acknowledged for the number's next owner.
* `OneDescriptorPerPerson` with `switch`: the body of a switched immortal passes
  for link-dead. `NpcsNotPersisted` with `switch`: an immortal that saves as a
  mobile writes a file under the mobile's name.
* `NoDanglingBody` with `purge`: a link-dead player that is purged and
  reconnected in one pulse.
* `OneBodyPerPlayer` and `DeletedIsGone` with `delete`: `do_delete` unlinks the
  file even when `do_quit` refused.
* `RivalsExist` with purges: `do_purge` does not end a duel, and `extract_char` has
  taken the descriptor away before its closing could.
* `NobodyQuitsFighting`: one who was thrown down by a bash and stands up is
  standing, not fighting, and may quit in the midst of the fight.

Met while reading, and modelled as they are:

* *Sessions and duels.* `do_rescue` starts a fight between players with no look at
  duels; closing a switched immortal's descriptor dereferences the `pcdata` of a
  mobile (`Session`'s `crashed`). A `Char` extracted at the input of a pulse is still on
  `char_list` at its update, and its `desc` has been freed by then, unless it is another's:
  `extract_char` lets the descriptor forget the `Char`, so that `close` can not make the
  `Char` forget the descriptor (`handler.cpp:632`, `MudImpl.cpp:327`, `update.cpp:813`).
* *Terminals.* A full buffer of a snooper closes it while `flush_output`, `note_input`
  or `close` goes through the set it is erased from (`Descriptor.cpp:126`, `:220`);
  `SnoopLoopChecker` refuses a diamond, which is no loop; `IAC AO` and a stray `IAC SE`
  raise "Unexpected internal state" and end the client, whole lines of the same read
  with it; the `quit` that a flood of lines adds for the spammer is cleared with the
  backlog; a line typed while a page is waiting is lost with the page.
* *Things.* A weapon drops when the girdle it needs comes off. A player's corpse that
  decays spills, unless it is carried or in something: then its contents are destroyed.
  Anybody may loot when the owner is not in the game. A corpse with two copies of what
  is unique is taken up whole.
* *Magic.* `affect_join` works out a joint affect and then adds the new one. A plague of
  level 1 makes `char_update` return, so that the rest of `char_list` misses a tick, and
  one of level 0 is passed on at -1, -2 and so on for ever. `spell_calm` ends at the
  first who cannot be calmed. `spell_psy_tornado` gives the victim each bystander's
  share. The poison of a weapon comes after the blow, also to one it killed. Acid breath
  corrects the armour class of what is worn with the wrong signs. `spell_sleep` leaves
  sleepers in their fights, and `do_awaken` leaves the affect.
* *Bonds.* Rider and mount come apart in many ways, with `ridden_by` or `riding` left
  behind: by a charmed mount that is no pet when its rider quits or it is let go, by
  gates, `goto`, and mounts that walk of themselves (`move_char`'s care for that case
  asks the wrong one of the two). `do_ride` does not ask whether somebody rides there
  already: when two ride one mount and it dies, the one it did not know of is left with a
  freed mount, which the blow goes on to (`ride.cpp:62-76`). Three may follow each other in
  a circle; only two are refused. The loop of `do_enter` over followers, and `die_follower`'s care for leaders who are not masters, are
  never reached with an effect. `do_wake` sets the mortally wounded on their feet.
  Teleporting somebody throws the caster off a mount. `was_in_room` stays when somebody
  in limbo is summoned. `reset_room` resets the exit on the other side also where it does
  not lead back.

## 9. What is not modelled

* *Contents.* What is said to clients, names, passwords, the details of
  creating a character (one state), terminal types.
* *Time.* Timeouts (lobby, idling, the ten seconds between attempts) are
  actions that may happen at any moment.
* *Writes that block, and partial writes.* `Fd::write` blocks; a short read
  stands for every truncation.
* *Two generations of a link at once.* Doorman closes its end before it opens
  another, and the MUD's listening socket is unlinked and bound anew, so the
  queues are those of the current link.
* *Files half written.* Saving is one step.
* *Around duels.* Hit points, chances and the formulas of damage; spells other than
  as blows by one who is fought already; the curse of strife on duellists;
  poison; the KILLER flag, which stops nobody; sitting, sleeping and resting of
  one's own accord; levels, and other things `validate_duellists` refuses for.
  Groups are fixed in a run, mobiles are one assailant, and a pass over `char_list`
  visits characters in any order.
  `autoquit` makes one character quit per tick in the code, and any number in the
  model.
* *Around terminals.* Prompts, colour, what is written; the commands that write are a
  `say`, a `help` of two pages, a `quit` and those that make snoopers. Terminal types are
  known or unknown.
* *Around things.* Prices, levels, alignments and timers beyond what decides whether an
  action is possible; food, drink and fountains; the enchanting of things, which is
  in `Spells`; mobile programs that give or take.
* *Around magic.* Formulas, mana, waiting, practising; spells that move somebody are in
  `Bonds`, those that make or find things are left out (`create food`, `locate object`,
  `identify` and the like). One mobile only, so that none fights another.
* *Around bonds.* Shops, safe rooms, terrain, guilds, private rooms and exhaustion are
  left to chance: whatever they refuse may be refused. Doors that areas shuffle at
  reset (`ResetRandomizeExits`). A login that is broken off after the player file was
  read leaves a pet in the world that belongs to nobody (`save.cpp:735`): pets are loaded
  here only with their owner.
* *The composition of the parts.* `Session`, `Duel`, `Bonds`, `Magic`, `Things` and
  `Terminal` each have their own idea of a character and share no state: what one of them
  needs of another is an action that may happen at any moment, such as a death in
  `Things`, a lost link in `Duel`, or a quit in `Bonds`.
* *The rest of the game*: notes, bans, mobile programs, special functions that neither
  cast nor summon, weather, `wiznet`, clans: the components listed as `not_modelled` in
  `PROJECT.json`, with the reason for each. Vendored code, tables other than that of
  skills, help, titles, formatting, the offline tools and the area data are out of scope.
