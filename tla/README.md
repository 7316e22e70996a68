# Verification of octillion-cubes

TLA+ models of the servers, the map loader, the map's player and the JSON library in
this repository, the TLC runs that check them on small instances, and TLAPS proofs of
what matters most for every instance. Paths are relative to the repository
(`src/...`, `include/...`, `test/...`).

1. [The system](#1-the-system): components, state, operations, interactions, what is hard
2. [The modules and the code](#2-the-modules-and-the-code)
3. [The runs](#3-the-runs): bounds, and what each shows
4. [Fairness](#4-fairness)
5. [The proofs](#5-the-proofs)
6. [What the code gets wrong](#6-what-the-code-gets-wrong)
7. [What is not modelled](#7-what-is-not-modelled)
8. [Plan](#8-plan)

To run: `tlc -config <cfg> <MC module>` for each pair of section 3, `tlapm
<X>Proofs.tla` for each module of section 5.

## 1. The system

octillion-cubes is a text game played in a world of unit cubes. A client talks to
two processes. The **login server** (`lserver`, TLS) makes guest accounts and
gives out tokens; the **game server** (`gserver`, plain TCP) asks the login
server whether a client's token is good and then lets the client act for its
player in the world.

```
  client --TLS--> SslServer -> LoginServer          (lserver: one thread)
    |                              ^
    |                              | auth: one SslClient thread per login
    +----TCP--> Server ----> GameServer -> World    (gserver: core thread,
                                                     SslClient threads,
                                                     main thread ticks World)

  area files, _global.json --> WorldMap --> Area, Cube, Script, Mob
                                   |
                                   +------> map client (test/win32_client)
  JsonW: every packet and every file
```

The repository holds two generations of the code. `test/world/Makefile` builds
the one above. An older one (`rawprocessor`, `world_.cpp`, `command_`, `command`,
`event_`, `filedatabase`) is listed in the top `Makefile` and cannot be built at this
commit: `coreserver.cpp` is missing, and `world_.cpp` calls accessors that its headers
no longer declare. `world.cpp` itself reads `event.player_`, a field `event.hpp` lacks at
this commit; it is modelled as written.

| component (files) | state | operations | talks to | what makes it correct |
|---|---|---|---|---|
| **World** (`world/world.cpp`) | `equeue_`, `players_`, `mutex_` | `add_event`, `tick`, `event_connect`, `event_disconnect`, `event_move` | replies through `GameServer::sendpacket` | one presence per player, bound to the connection that entered; walks only through open exits; every event is handled |
| **Cube grid** (`cube`, `cubeposition`) | the cubes, their exits | `find`, `dir`, `opposite_dir`, `addlink` | World, World map | a link has two ends; a step finds the right neighbour also at the edge of the unsigned axes |
| **World map** (`worldmap.cpp`, `cube.cpp`) | areas, marks, cubes, adjacency, mobs, `reborn_` | `load_external_data_file` with the constructor of Area | Cube, Script, Mob, StringTable | what is loaded fits together whatever the files say; links lead somewhere and back; adjacency is true of the final map |
| **Script, Storage** (`script.cpp`, `storage.cpp`) | conditions and actions; move counts, place, timer | `init`, `handle`, `reset_timer`, `move_count_inc` | map files, map client | a text comes when its condition says so, once |
| **Map client** (`test/win32_client`) | the cube in the centre, animations, storage | `keypress`, `setCenterCube`, `OnPaint`, `handle_action` | WorldMap, Script | a player is never carried onto nothing, nor through a whole tower |
| **GameServer** (`world/gameserver.cpp`) | `loginsockets_`, `sockets_` | `connect`, `recv` (client), `recv` (login server's answer), `disconnect`, `dispatch` | Server, SslClient, World | an fd acts only for the player the login server verified for it; both maps forget a closed fd |
| **Server** (`server/server.cpp`) | `sockets_`, `out_data_`, `badfds_` | `core_task`, `senddata`, `requestclosefd`, `closesocket` | calls GameServer | a packet reaches its fd whole, once and in order, or the connection ends; a requested close happens |
| **SslClient** (`server/sslclient.cpp`) | `threads_` | `write`, one thread per request | calls GameServer::recv | each request is answered or failed |
| **LoginServer** (`auth/loginserver.cpp`) | `guest_data_`, `max_guest_serial_id_`, `unused_guest_serial_ids_`, file `userdata`, `tokens_`, `rawdata_` | `cmd_new`, `cmd_login`, `cmd_auth`, load and save of the file | SslServer | an account opens with its password; a token opens the game once |
| **SslServer** (`server/sslserver.cpp`) | `sockets_`, `out_data_`, `badfds_` | as Server, with TLS | calls LoginServer | a reply is sent to the connection that asked, then the connection is closed |
| **DataQueue** (`server/dataqueue.cpp`) | whole packets, the partial one | `feed`, `pop`, `remove` | GameServer, LoginServer, clients | packets come out as they were framed, per fd |
| **JsonW** (`include/jsonw/jsonw.hpp`) | a tree of shared values | tokens, `parse`, `text`, assignment, `operator[]`, `add`, `erase` | all | what one side writes the other reads; a cut text is refused; a copy shares nothing |
| **Event** (`event.cpp`) | - | parsing, `is_valid` | GameServer, World | only valid types reach the world |
| **Interactive, Mob, Creature, StringTable** | data of the map | reading | World map | a mob is found under its id |
| **Legacy world, FileDatabase** | - | - | - | cannot be built (section 7) |
| **Blowfish, logging, OcError, MemLeak, programs** | - | - | - | - |

What is hard about it:

- *Three kinds of thread in gserver.* The core thread runs every client callback,
  one SslClient thread per login runs `recv(id, error, data)`, and the main thread
  runs `World::tick`. `loginsockets_` and `sockets_` are read and changed by the first two
  **without a lock**; `World::mutex_`, `badfds_lock_` and `out_data_lock_` are taken
  while another is held.
- *fds are names that are reused.* An answer, a queued event, a reply and a close
  request each name a connection by its fd only, and may be used after another
  connection got the number.
- *Deferred effects.* A close asked for in one turn of the loop is done at the top of the
  next; a reply is sent in a later pass; an event is handled at a later tick.
- *Cut streams.* `write` takes a part of a packet, or nothing; TCP hands the other side
  any piece of the bytes; the rest of a packet waits in the list for EPOLLOUT.
- *Crash and restart.* The account file is truncated and rewritten for each account.
- *Time and one-time use.* Tokens live for a while, for one address, once. The client's
  scripts have one timer for all areas.
- *Element-skipping loops.* `DataQueue::remove` and the write pass of SslServer
  advance an iterator twice.
- *Files with bad entries.* Some are refused, some are skipped, some are half taken: an area
  file whose id is taken is dropped while its marks stay. The loader makes its tables in
  an order (scripts before cubes, adjacency before the links between areas).
- *A hand-written JSON reader* that is lenient about commas, on which every message and file depends.

`PROJECT.json` lists the hazards with the line each one bites at and the property
that covers it.

## 2. The modules and the code

| module | models | extends |
|---|---|---|
| `CubeGrid` | `cubeposition.*`, `Cube::find`: positions on unsigned axes, directions, the neighbour behind a direction | - |
| `PlayerPresence` | *abstract*: what the world promises about players | - |
| `World` | `world.cpp` with `World::mutex_`, and what `sendpacket` does to `out_data_` | CubeGrid |
| `GameServer` | the gserver process: `Server::core_task`, GameServer's callbacks, SslClient threads, World | World, Lists |
| `LockOrder` | the three locks of gserver, and who takes which inside which | - |
| `TokenOnce` | *abstract*: what the login server promises about tokens | - |
| `LoginServer` | `loginserver.cpp`: accounts, their file, tokens | - |
| `Lists` | two ways to go through a list: erasing some elements, and a loop turn by turn | - |
| `DataQueue` | `dataqueue.cpp`: framing, the queue, `remove` | Lists |
| `SslServer` | `SslServer::core_task` with `LoginServer::recv` as callback | DataQueue |
| `PacketFifo` | *abstract*: what a server promises of the packets given to `senddata` | - |
| `Stream` | the bytes of `server.cpp`, the kernel's buffers, the peers' `feed` | DataQueue |
| `MapLinks` | `Cube::dir`, `opposite_dir`, `addlink`, `Area::addlink` | CubeGrid |
| `Script` | `script.cpp`, `storage.cpp`: conditions, actions, scripts | CubeGrid |
| `WorldMap` | `worldmap.cpp` and the reading of areas, strings, interactives, mobs | MapLinks, Script |
| `MapClient` | `DrawClass.cpp`: walk, animations, scripts run | WorldMap |
| `JsonToken` | `JsonTokenW`: a text into tokens, numbers, strings | - |
| `JsonValue` | the data of a JsonW: type, token, members, elements | - |
| `JsonText` | `JsonW::parse` and `text` | JsonToken, JsonValue |
| `JsonReader` | the texts a peer may send; the reference grammar | JsonText |
| `JsonW` | the class on a heap of shared values | JsonValue |
| `JsonDocument` | the documents of that heap as trees and as texts | JsonW, JsonText |
| `MC*` | constants for TLC | |
| `*Proofs` | theorems about the module named (`GameServerProofs`: also World; `MapProofs`: MapLinks, WorldMap and MapClient; `JsonProofs`: JsonW; `ListProofs`: Lists and what SequencesExt has of lists) | |

Operators with a comment "MUTANT of X" are not part of any
specification. They are X with a plausible bug (a dropped guard, a swapped order); with one
of them in X's place, TLC finds the property listed for it in `PROJECT.json` violated.

### World

`equeue_`, `players_` and `mutex_` are the class's members; `players_` maps an id to
`loc_` and `fd_`, the two fields of `Player` the world uses. `out_data_` is the member
of Server that `sendpacket` appends to.

`AddEvent` is `add_event`: it needs the mutex and holds it for one push, so it is one
step with guard `mutex_ = "free"`. `tick` holds the mutex while it drains the queue and other
threads run meanwhile, so it is `TickBegin`, one `Handle` step per event, `TickEnd`.
`Handle` pops the front event and runs exactly one of `EventLost` (a command of a
player who is not there), `EventConnect`, `EventDisconnect`, `EventMove`: the branches
of `tick`. `EventLost` replies with the command's own type although the code builds an
event of type `TYPE_ERROR_PLAYER_LOST`: it serialises the other one. JSON is
abstracted to its type, player, fd and location. In the specification of the world
alone, `NetworkThread` is any caller of `add_event` and `Deliver` any server that takes
replies away.

### GameServer

One specification for the whole process. `phase` says where the core thread is:
"close" (the fds in `badfds_`, then the write pass) or "events" (what epoll_wait
returned, `batch_`). `closesocket` is split where GameServer::disconnect must wait for
`World::mutex_`: `Closesocket`, then `DisconnectNotify`; `closing_` is the fd in
between. Each access of an SslClient thread to a shared map is a step of its own
(`ReplyLookup`, `ReplyErase`, `ReplyInsert`, `ReplyNotify`, or `ReplyReject`), because
the core thread may run between any two. Which login a scan by fd finds is decided
by the order of `std::map`: the first user name. `std::map::insert` keeps what is there.

`recv` is fed what a read brings: any number of whole packets (`Fed`) join what is left in `rawdata_`. It
pops the **front** packet and removes others of that packet's fd, `rawfd`, which need not be the fd that is
read nor even be open: `remove` passes over packets, and closing an fd leaves its packets there. So
`RecvLogin`, `RecvCommand` and `RecvUnauthorised` act for `rawfd`, and `RecvInvalid` closes the fd that is read.

`WritePass` goes once over `out_data_` with an outcome for each packet: "whole", "part" (the rest stays, the
socket is in `stuck_` until `OutEvent`), "stuck" (in part, and `epoll_ctl` refuses EPOLLOUT: the packet is given up
and the fd closed), "fails". A packet of a full socket is held. Only a packet written whole asks for the close it
carries. `AcceptFails` is an fd that could not be made non-blocking: it has no Socket and is closed in the next
turn. When `epoll_wait` fails, or accept's `epoll_ctl`, or `stop` is called, `phase` becomes "over" and stays so, while
ticks and answers go on.

`granted`, `asked`, `accepted`, `faults` are history: what the login server verified, and the
counters the bounds are stated on. `alive` turns FALSE when an exception leaves the
core thread.

Abstractions: how many bytes of a packet went out is in `Stream`; one event per fd and `epoll_wait`; each map
operation is atomic (the code has a data race there: a torn `std::map` is undefined and not modelled, every order of
the operations is). An fd whose EPOLLOUT was refused may get an `OutEvent` here before it is closed, and failing
accepts may come anywhere among the accepts of a turn: both only add behaviours. `id == 0`
(`gameserver.cpp:242`) tests the fd, not the player id; it can not matter as `LoginTypeOK` shows id 0 is never given out.

### LockOrder

`closesocket` holds `badfds_lock_` and waits for `World::mutex_`; the tick holds `World::mutex_` and waits for
`out_data_lock_`; the write pass holds `out_data_lock_` and takes `badfds_lock_`: a circle. In GameServer the waits for
`World::mutex_` are guards and the two short locks are the atomicity of steps, so the circle cannot be seen there.
`LockOrder` has the same threads with nothing but their places in the code: `Ask` and `Get` are the two halves of
`lock()`, and which way a thread takes is open.

### LoginServer

All handlers run on the core thread of SslServer, so each is one step, with an
action for each of its outcomes (`NewFails`, `NewDone`, `LoginNoRecord`, ...,
`AuthRefused`, `AuthDone`). The process may stop anywhere: `Crash` between handlers,
`CrashInNew` inside `cmd_new`, leaving the file torn or already written. Any file without its
closing bracket is read as no accounts (tried out with the repository's `jsonw.hpp`),
so `Torn` carries none. Start-up (`LoginInit`, `Restart`) computes the largest and the
unused ids as `general_unused_guest_serial_ids` does. The first file is any set of accounts, so that
there are unused ids at all.

`unused_guest_serial_ids_` stands for the ids the code's iterator has not passed.
Passwords and keys are told apart by equality; a key is the number of its draw (128 random
bytes: fresh). `UintSize` stands for 2^32: `serial_name_to_serial_id` returns an `int` as
`uint32_t`, so "guest#-1" wraps. The clock only goes forward. `given_`, `lastkey_`,
`grants_` are history.

### SslServer and DataQueue

The loop goes "close", "write", "events". `it` is the list iterator of the write
pass, and `FlagTest` the test at the end of its body, made on the packet **behind** the
one handled (section 6). At the end of the list the code reads a byte behind it; with
libstdc++ and glibc it belongs to `out_data_lock_` and is 0 (tried at -O0 and -O2), so the model has
no flag there. `Recv` is one SSL_read with the callback: `n` whole requests complete,
one is popped, answered or found invalid, and the others of its fd are removed.
`AcceptFails` and the failing handshakes are those of `SslServer::core_task`; when `epoll_wait` fails (also when a signal
interrupts it) or the listening socket's turn ends badly, `phase` becomes "over" and nothing more is served.
The loops of `feed` and `remove` are written turn by turn (`FeedTurn`, `RemoveTurn`) and `Repeated` for as
many turns as they can take; `RemoveTurn` follows the code's iterator, over the end of the list back to the
beginning (libstdc++).

A packet and a request carry, as history, the connection they belong to, so that
properties can tell a connection from the next one on the same fd. `crowded_` (a read has brought
more than two requests, the least with which `remove` leaves one), `flagSent_` and `flagClose_` are history too.

### Stream and PacketFifo

The bytes below GameServer. A packet is its size in a header of `SizeOf` bytes, then its
own number, so that a byte out of place shows. `Senddata` is any thread's call; the write pass
goes through `out_data_` one packet a step with the four outcomes the code tells apart:
the fd is unknown or not writable (`WritePass`), the packet is taken whole
(`WriteWhole`), in part (`WritePartial`: the rest stays at its place, the socket waits for
EPOLLOUT), or not at all (`WriteFails`); `WriteStuck` is the partial write whose `epoll_ctl` fails.
`buffer` is what the kernel holds, `Room` its size. `BadEvent`, `OutEvent`, `CloseEvent`, `Accept`, `AcceptFails` are
the events, and `phase` is "over" once the loop has ended; the requests of a client are left to GameServer. `PeerReads` takes any number
of the bytes there and gives them to the peer's `DataQueue::feed` (`FeedBytes`,
the loop of the code). `SizeOf` is 2 where the code has 4: sizes stay below 256.

Facts the model keeps: `write` giving -1 is always an error to the code, so EAGAIN after
a packet that filled the buffer to the brim drops the next one and closes the
connection; a later packet may then still get through in that pass, to a connection
that is doomed. `badfds_` may hold an fd twice or one that is closed already. `sent_` is history: the
packets of this connection that are not given up. `PacketFifo` promises that a peer receives
a beginning of them, and that only a doomed connection loses any.

### MapLinks and WorldMap

A cube object is `<<file, place>>`: two files may each make one for the same place, and only
one of them is on the map (`cubes_`, the last area's). The loader is one
thread; a step is one entry of one list, so that the tables are seen half built:
`ReadConfig`, then for each area file by id `AreaHead` (strings, interactives, scripts),
`AreaCube`, `AreaLink`, `AreaMarks`, `AreaMob`, then `MakeShortcut` (map, adjacency,
`reborn_`) and `GlobalLink`. `step_` ends as "done", "failed" (the function returned
false) or "crashed" (a null `shared_ptr` or JSON value was used). `ConfigRefused` is the configuration that cannot be opened or parsed,
has an empty stamp, a bad entry or an id that is missing, 0 or there twice; one without "stamp" or "area" crashes the loader.

An input is what the files say; a field that is missing, or has a type the code does not
take, is not in the record's DOMAIN. What the model keeps of the code's ways:

- the title's string is looked up before it is tested: without it the loader crashes, as it does
  on a global link without "from", "to" or "type", one with an end that has no "cube", and a
  script without "actions"; a global link with a bad end is skipped;
- a coordinate is read as an `int` and then put on the axis (`ReadAxis`, `IntSize`): on 64-bit Linux the axes are
  wider than the ints, on the 32-bit client they are as wide; `IntSize` and `AxisSize` are independent;
- `areas_.insert` keeps the first file of an id while the marks of the second are added;
- scripts and interactives are read before the cubes: a "loc" that is a mark is always refused;
- adjacency is computed before the global links: it may miss an exit, never claim a wrong one;
- a link's attributes are combined by exclusive or with a variable nobody set (`Garbage`);
- a mob refers to mobs of its own area read before it; the first entry of an id stays.

### Script and MapClient

`Script` is operators only: `ConditionInit`, `ActionInit`, `ScriptInit` accept what `init`
accepts, `IsTrue` and `Handle` decide. As in the code, conditions on "b01" and
"i01" compare constants and never a stored variable, and "not" of a condition on moves
is true on every drawing. `MapClient` runs them: `Start` (the window is made, whatever the load returned: with a map
that was refused it is `StartNull`, the end of the client), `KeyPress`, `DrawFrame`
(OnPaint while nothing is over), `FinishAnimation` (OnPaint when the front animation is over: the move
arrives, scripts run on arrival and once more on refresh), `Tick` (a second). It ignores
"set"; an action naming a text the area does not have ends that script (`Performed`). What a step
says is a set, `said_`: each text with the script and the action it is in, since a file may name a text
twice. `setCenterCube`
counts the move, runs the scripts, then goes on by stairs (`Onward`). How long a text
rolls depends on fonts, so `rolling` is a choice. The description of the exit taken is shown only: what it says is left out, its
lookup by `Cube::dir` is not (`NoExitTo`).

`told_`, `carried_`, `quiet_`, `keys_` are history and the counters of the bounds.

### JsonToken, JsonValue, JsonText, JsonReader, JsonW, JsonDocument

A text is a sequence of characters, a value a tree of records. `JsonToken` is the automaton for
numbers, the strings with their escapes, the three words; `JsonText` is `parse` (which takes
tokens off one queue) and the five printing functions, on one line or on many. `JsonReader` holds the texts and, as
the reference, `Standard`: the value a text has by the grammar, found by cutting it in every
possible place.

`JsonW` puts the values on a heap, since the class owns its members through `shared_ptr` and
operations take references into the tree. `store` is a function on the references in use: the variables of the
program and the cells of the heap. A value's parts are references. What `shared_ptr` keeps is what can be
reached from the variables (`Reach`); `Collected` drops the rest, at the end of an operation and where `clean()`
runs in the middle of one. Every operation may be applied to any value in use, variable or part. Where it takes cells they
are any that are free. A document that comes from elsewhere (read by `json()`, or handed to `add`) is a heap of its own
with the root `Top`, placed into free cells (`Joined`). What is handed to `add` has just been built, as by every caller
in `src/`. `JsonDocument` makes trees of the documents on the heap, to print and to read again.

The reader is more lenient and at places stricter than the grammar, and the model is as it is: a
character it does not know ends the tokens *with success*; commas may be missing or trail; empty and repeated
names are refused; an exponent written `E` is read and forgotten; `0e1` is no number;
`\u` takes four characters; fractions are written with six decimals (`SixDecimals`);
reading through `operator[]` adds null members. `valid()` is true after a text without tokens.
Assigning a value to a part of itself clears it first: `Assign` is not called so.

## 3. The runs

Every run explores its instance completely. "Violated" runs check one property the
repository states of the program and that the program does not have (section 6).

| run | module, cfg | checks | instance |
|---|---|---|---|
| `world` | MCWorld | WorldTypeOK, PlayersReachable, PresenceKept, QueueDrains | 2 players, 2 fds, 4 cubes, 2 events or replies in flight; 159 000 states |
| `game_reuse` | MCGameServer, MCGameReuse | GameTypeOK, SessionStable, ClosingReplyCloses | 1 fd used by 2 connections, 2 users, 2 logins, 1 fault, no world commands; 445 000 |
| `game_overlap` | MCGameServer, MCGameOverlap | OnlyGranted | 2 fds, 1 user, 2 logins, 3 packets in a read; 3 084 000 |
| `game_stale` | MCGameServer, MCGameStale | SocketsOpen, violated | 1 fd, 1 login |
| `game_pending` | MCGameServer, MCGamePending | LoginsOpen, violated | 1 fd, 2 users, 2 logins |
| `locks` | MCLockOrder | NoCircularWait | core thread, ticking thread, 3 answering threads; 1 880 (symmetric) |
| `login` | MCLoginServer | LoginTypeOK, CredentialsWork, TokensOnce | ids up to 3, 2 passwords, 2 addresses, 2 keys, 3 times; 128 000 (symmetric) |
| `ssl` | MCSslServer | SslTypeOK, SocketFound, RepliesForOwner, PacketsLeave | 2 fds, 3 connections, 2 reads of up to 3 requests, 1 full socket; 309 000 |
| `ssl_too_early` | MCSslServer, MCSslTooEarly | SentBeforeClose, violated | 2 fds, 2 connections |
| `server` | MCStream | StreamTypeOK, PacketsInOrder, DeliveredOrClosed, DoomedCloses | 2 fds, 2 connections, 2 packets of 3 or 4 bytes, buffers of 3; 323 000 |
| `map` | MCMapClient | WorldMapTypeOK, LinksLead, WalkBack, AdjacencySound, MobsFound, ClientAlive, TextsOnce, CarriedOnce, IdleQuiet, IdleShown | 2519 inputs loaded, 7 of them walked with 3 keys; axes of 8, ints of 4; 50 000 |
| `json` | MCJson | StandardRead, Reread, NothingLost, JsonTypeOK, RoundTrip, CutRefused, OneDocument | texts of 4 or 5 pieces over 5 alphabets; 2 variables, 3 cells; 71 000 (symmetric) |

What the passing runs show, and why the bounds are enough:

- **world.** A player only stands where a walk through open exits leads
  (`PlayersReachable`: stated with closed sets of cubes, no path is needed); the queue
  and the mutex implement `PlayerPresence`; every event is handled. The map has
  a two-way exit over the edge where the axis wraps round, a one-way exit up, an open exit with no cube behind
  it, and a wall to an adjacent cube. Two events in flight are enough for every
  pair (connect, disconnect, move) in either order, and for an event to arrive while a
  tick runs. `MaxQueue` bounds events plus replies.
- **game_reuse.** The fd is closed, reused, and answers of the first connection's login
  come late, before, between and after those of the second; two users let two logins
  be pending on one fd. An authorised fd keeps its player. A reply that asks for the close may find the socket full,
  fill it, fail or be refused EPOLLOUT, once; the client that takes what it is sent is closed in the end.
  World commands play no part in either and are in `game_overlap`.
- **game_overlap.** Both orders of every step of two logins of one user on two fds,
  with disconnects of either. `MaxRaw = 3` is the least with which `remove` leaves a packet, to be popped when the
  other fd is read, or after its own has been closed. Nothing acts for a player it was not verified for
  (`OnlyGranted` relates the threads, `sockets_`, the queue and `players_`). It is per fd number: the next connection on an fd
  may act for the player of the one before (`game_stale`).
- **locks.** Each thread may go to any of the places where it takes a lock; an answering thread holds no lock while it waits for
  another, so three are enough to show that they close no circle.
- **login.** Three ids make a file with a hole below its largest id, taken by a failing request
  or by a succeeding one, with restarts in between, and then an id above the
  largest. `CredentialsWork` is about the accounts given since the
  last torn file: losing all of them is what the code does when it stops while
  it writes (hazard list). Two keys are the fewest with a newer token for a name, or two
  names' tokens at a time; time goes to 2 with a lifetime of 1, so a token is fresh, just
  alive and late. The names include two spellings of one account, another account, a
  negative number and no guest. Passwords and addresses are symmetric; no property here is a liveness one.
- **ssl.** Three connections over two fds reuse an fd while the other is open, and one
  write is refused; accept, handshake, read and write fail at will, and the loop may end. `RepliesForOwner` says that no reply
  waits for another connection than the one that asked, until a read has brought three requests (`MaxBurst = 3`): then `remove`
  leaves one behind and it is answered to whoever is read next (section 6; with `crowded_` left out
  of the property the run fails). `PacketsLeave` and the others hold with such crowds, too.
- **server.** `PacketsInOrder` is the refinement of `PacketFifo`: whatever writes and reads
  cut the bytes into, a connection's packets arrive whole, once, in order, and only a doomed connection
  misses any. `DeliveredOrClosed`: none waits for ever behind a full buffer. `DoomedCloses`: an fd in
  `badfds_` is closed, though fds are reused. A buffer of three bytes takes the small packet whole
  and exactly, the large one in part, and a second one in part within its header or
  not at all; the second packet of an fd must not pass the rest of the first.
- **map.** 18 first areas, 16 second ones and 8 lists of global links are combined:
  regular areas (square and corridor, beside, above, across each other, at the
  edge of the wrapped axes), one-way links, letters that open exits, links with marks, attributes and bad
  ends, two files of one id, two cubes in one place, repeated, empty and forbidden marks,
  missing fields and titles, mobs that repeat an id, refer to each other or have a large id; then configurations
  that cannot be read and files without what the loader takes for granted. Ints of four values are -2 .. 1 on axes of eight.
  `LinksLead`, `WalkBack` and `AdjacencySound` say of a *loaded* map what the world
  and the client take for granted, across every order in which the lists are
  read; each is stated for the inputs it can be true of (`DistinctIds`, `Regular`, `~WithAttr`), and each
  condition is needed: with the other inputs of the run it fails. `MobsFound` needs `SmallMobIds` likewise.
  Every map, loaded or refused, is given to the client; seven are walked. A house of two floors in two areas with the scripts of
  `data/id_10_reincarnation_chamber.json` and with scripts the loader refuses in part, a tower of four
  floors, letters and links that lead off the map, a map without a cube to be reborn in. Three keys are up and down
  the stairs and once more, so an area is entered again. `LongAgo` (3 seconds) is more than
  any script's limit; a timer that old counts as the epoch.
- **json.** A run is either a text that grows or two variables that change. The alphabets (numbers, words, strings, arrays, objects) and every text of them up to the length at which
  each state of the tokenizer and each nesting is met. `StandardRead` compares with the grammar; `Reread` and
  `NothingLost` speak of whatever is accepted, also of what is no JSON.
  Every sequence of assignments, `operator[]`, `add`, `erase` and `json` on two variables and
  their parts, with three cells: enough for an object in an array in a copy, and for two copies with a part each. Names
  and strings contain a quote, a backslash and an `n`.

`CHECK_DEADLOCK FALSE` stands only where the system may stop: in the GameServer runs (an exception
ended the process), `ssl` and `server` (the loop is over), `map` (a map is loaded once; a crash is the
end) and `json` (texts of full length).

The constants that bound a counter are guards of one action each: `MaxQueue`, `MaxAccept`, `MaxLogin`, `MaxRaw`
(packets in `rawdata_`), `MaxFault` (turns with a write cut short or a failing accept),
`MaxId`, `MaxKey`, `MaxTime`, `MaxConn`, `MaxRequests`, `MaxBurst`, `MaxStalls`, `MaxSent`, `MaxMoves` (a function of the
input), `MaxPieces`, `MaxIndex`. `IntSize`, `UintSize`, `IntDigits`, `MaxInt`, `MaxExponent` are widths of the code's
numbers cut down.

## 4. Fairness

- `WorldFairSpec`: `WF(Tick)`: the main loop of `test/world/gserver.cpp` calls `tick`
  for ever and a tick waits for nothing once it has the mutex. `WF(Deliver)`: the
  server's loop drains `out_data_`. None on NetworkThread: clients need not act.
- `GameFairSpec`: `WF(WorldTick)` as above. `SF(Core)`: the core thread waits for nothing
  but `World::mutex_` (epoll_wait has a timeout), which is free for most of the 500 ms
  between two ticks; in the model a tick may begin at once when the last ended, so
  weak fairness would not say that. None on SslClient threads: an answer may never come. No client is assumed to act:
  `ClosingReplyCloses` says of a fd what follows *if* its socket has room again and again and *if* the core thread leaves its
  read loop again and again (one client that keeps sending holds it there for ever, section 6).
- `SslFairSpec`: `WF(Core)`: the loop never blocks. `SF(OutEvent(fd))`: a client whose
  socket is full reads some day; an event that is possible in turn after turn comes
  in one of them. `MaxStalls` says that the kernel refuses finitely often.
- `StreamFairSpec`: `WF(Core)`: the loop never blocks, and `epoll_wait` reports every socket that
  is listened to and has room. `WF(PeerReads(fd))`: a client reads what it was sent until it resets the
  connection; a client that does neither is one the code keeps waiting for, too.
- `ClientSpec`: `WF(DrawFrame)`: the window's timer draws every 100 ms (`drawing.cpp:144`, `225`).
  `WF(Finish)`: an animation lasts two seconds at most. `WF(Tick)`: time passes. `WF(Load)`,
  `WF(Start \/ StartNull)`: the constructor runs to its end. None on `Press`: nobody needs to press a key.

## 5. The proofs

TLAPS checks 11925 obligations. Assumptions are those on the constants only (`ASSUME` in the modules,
which TLC evaluates on each run).

**GameServerProofs, on World.** `WorldTypeCorrect` by induction; `WorldReachable` with the invariant
`WorldTypeOK /\ PlayersReachable`, on any map. A move is the only step that
changes a location, and it goes from a cube of a closed set to one behind an open exit,
which the set contains; `FindInMap` and `PassableBehind` say so of `Cube::find`.
`WorldImplementsPresence`: each handler maps to Enter, Leave, Walk or a stutter
(`HandlerImplements`), every other step leaves `players_` alone.

**GameServerProofs, on GameServer.** `SessionTypeCorrect` types what sessions are made of and adds that
`closing_` is still in `sockets_`: without it `DisconnectNotify` would read a player that
is not there. `GrantedCorrect`: `OnlyGranted` is inductive together with it, as it
speaks of every place a grant travels through: thread, `sockets_`, event, `players_`.
The proof goes down the actions: `ReplyLookup` makes the grant and the thread at once,
`ReplyInsert` either keeps the old entry (already granted) or takes the thread's,
and so on. `GameKeepsSessions`: `insert` never overwrites, and `DisconnectNotify` removes.
`GameImplementsPresence` from `HandlerImplements`. Most actions touch nothing of this
and are dealt with at once (`Quiet`, `QuietSteps`). `GameTypeCorrect` adds the core thread's own variables (`ServerTypeOK`);
it needs that erasing the packets of an fd leaves a list of packets (ListProofs), and of `remove`, whatever it
passes over, a list of packets too. Nothing is assumed of how many packets a read brings, nor of the names a client logs in under:
`LoginsOpen` is false in general (section 6) and has no theorem.

**ListProofs.** Facts about lists the others share. `Selected` (an erasing loop) keeps exactly the elements at the
positions kept, in their order, so that what rises still rises (`RisingSelected`); `Repeated`
preserves what each turn preserves, and stops where a turn changes nothing; `RemoveAt`, `Append`,
replacement and concatenation, element by element and as sets. Induction is by the
smallest number that fails (`NatSetInduction`).

**SslServerProofs.** `SslTypeCorrect`: with the types, that an fd is read only while the batch is handled and has a
Socket; `RemovedTyped` says that `remove`, whatever it passes over, leaves a list of the same elements. `EventsHaveSockets`
rests on `SocketInv`: an fd that is open without a Socket (its accept failed) has been asked to be closed, there is none
after the first part of the loop, and the fd that is read has no other event to come. `RepliesGoHome`, for
any `MaxBurst`: as long as no read has brought more than two requests (`~crowded_`) the queue is empty between
reads (`OwnerInv`), as `pop` takes one request and `remove` finds the single one left (`OneRemoved`), so the request
answered is always of the connection that is read. Behind such a read the code does not have the property, and nothing is claimed.

**LoginServerProofs.** `CredentialsWork` is not inductive: that `cmd_new` hands out a free
id needs to know what the three id variables say about each other. `AccountsInv` adds

- `NumberingOK`: accounts are within `1..max`, unused ids are within `1..max` and have
  no account (so both an unused id and `max + 1` are free). It survives that the code increments `max`
  also when an unused id was given out, and that a failed request loses an id;
- `FileOK`: a whole file equals the memory, so that a restart changes nothing;
- `TornEmpty`: while the file is torn, memory holds no account and none counts as given.

`CredentialsCorrect` follows. `TokensCorrect` is the refinement `TokensOnce`, with the
invariant `TokensInv`: types, and that two live tokens have different keys (else erasing one
would spend a key that is alive). Each handler maps to Issue, Honour, Drop, Pass or a
stutter; a restart to Drop. `LoginTypeCorrect` follows from both.

**PacketFifoProofs.** What `PacketFifo` promises means what it should: `ReceivedInOrder` (what a peer has received
is a beginning of what was sent and not lost, with lost packets taken from behind it) and
`ReceivedKept` (what was received stays received), by induction, for any packets and fds.

**StreamProofs.** `PacketsArriveInOrder`: Stream implements PacketFifo, with `sent_`, `queue_` and the doomed fds
as the abstract state, for any fds, sizes of packets up to 255, room in the kernel and number of packets. The invariant
`StreamInv` has five parts:

- `StreamTypes`: the types; what waits of a packet is never empty nor longer than its frame;
- `StreamRest`: what the parts of the loop leave to each other (a socket that is not writable waits for
  EPOLLOUT or is about to be closed; a closed fd has no bytes anywhere);
- `PassOrder`: the write pass has left nothing behind that it could have written. Without it a packet might overtake an
  earlier one of its connection within a pass;
- `StreamNumbers`: the list and `sent_` are in the order of sending, so that the first packet of an fd in the list is
  the one to go on with;
- `StreamFlow`: every connection carries its packets. There is a `k` such that the first `k` packets of `sent_` are
  received or under way and the others are in the list (`Carried`). The bytes under way, those the peer has
  not made a packet of and those in the kernel, are the frames of the packets received up to `k` and then a part of the next
  frame (`UnderWay`); what the list has of the next packet is the rest of that frame (`Waiting`). `f[i]` is what follows the
  first `i` packets. Part of a frame is only there when the buffer is full or EPOLLOUT is awaited. All this is
  claimed as long as the connection has not failed: behind a failure the code may still write to a doomed connection.

Each action has a lemma on what it does to one flow: a packet taken whole moves `k` on (`WriteFlow`), a part adds bytes to `f[k]`, a
failure takes a packet out of `sent_` behind `k`, closing empties everything, `PeerReads` moves the front. The last uses what `feed` makes of bytes: a
turn with the whole packet in front takes it (`TurnTakesPacket`), on a part of a frame it waits
(`TurnWaits`), and so the loop ends with a beginning of the packets and the bytes behind them
(`FeedFollows`, by `Repeated`). Then each step of Stream is Send, Receive, Lose, Doom or Close of PacketFifo or
changes nothing of it (`FifoStep`). `StreamTypeCorrect` follows from the first two parts.

**MapProofs.** About any input of the assumed shape, any grid, any ids. `LinkBothWays`: `addlink`
between two cubes opens both ends of a two-way link or none, and each leads to the other; it rests on
`LinkDirLeads`, `OppositeTwice` and `StepBack` (a step and the opposite one come back, also round the
edge: `AxisSize > 2`). The five properties of the map follow from inductive invariants, layer by layer:

- `MapInv` is `WorldMapTypeOK` with `ControlOK` (which lists the step reads, within bounds; which files are done)
  and `MarksKnown`: a mark that the file being read defines is in `markmap_`, which `getmark` relies on;
- `LeadInv` for `LinksLead`: an exit no letter opened leads to the place of an object *of some file*
  (`OpenLeads`), each area is known under the id its file has (`OwnIds`) and every file read becomes an area
  (`AllRead`, which is where `DistinctIds` is needed); so that place is on the map in the end;
- `BackInv` for `WalkBack`: an exit no letter opened has its way back open, in some object there; every two-way
  link opens both ends or none, and no link closes one;
- `NeighbourInv` for `AdjacencySound`: adjacency is true when computed, and a global link with `EXIT_NORMAL` only
  opens more. `DiagonalBack` says which two exits of a diagonal neighbour lead to the cubes between;
- `MobInv` for `MobsFound`: no mob of a file read is forgotten (`NoneForgotten`), what is under an id has it
  and the name of its first entry (`MobsKept`, `MobsTrue`). `MobIdsApart` is the arithmetic: `area * N + id`
  tells apart pairs whose `id` is below `N`.

Four theorems are about the map's player, with the invariants of the loaded map (the window never changes them:
`ClientLoads`, `LoadedStays`). `KeysCarryOnce`: `CarriedInv` lists the animations the window is left with and how far each
has carried the player: the turn back that follows a climb stays queued until the player has arrived, and `keypress` refuses
while anything is queued. `ClientStaysAlive`: of all starts only that on a refused map fails, a map that loads having a cube
to be reborn in (`WorldMapTypeOK`); from there the player is on a cube of the map (`CenterInv`), every walk leads to a neighbour
so that `Cube::dir` finds the exit, and by `LinksLead` an exit no letter opened has a cube behind it. Both cases left, the refused map and
the letters, are in the property's conclusion, with nothing assumed of the map but distinct ids.

`TextsSaidOnce` and `IdleTextsQuiet` follow the scripts, for any files, with the lemmas about a run of them: what
it says is in an action of a script whose condition holds in the storage this script sees (`SaysOf`, `SaysMoveText`,
`SaysIdle`), and all it does to the storage is to reset the timer (`RunKeepsStorage`). For the first, `TextsInv` adds to
`TextsOnce` that the storage is in the area of the player and that the move a text told is for has been made; an arrival
counts one move before the scripts run (`MovedIs`), so what is said for it was not told yet (`ArriveTexts`),
and drawing says no such text (`StillFresh`). For the second, `IdleInv`: where the first script resets on every move
the timer is exactly the time that nothing happened. That script is true on every arrival, whatever the
count, and its reset comes before any action can end it (`FirstResets`), so the scripts behind it see a timer of zero
(`MoveSaysNoIdle`). The attempts corrected both properties: `TextsOnce` fails for a script that
names a text in two actions, `IdleQuiet` for a reset behind a text the area does not have and for negative limits; their
premises (`MoveText`, `ResetsFirst`, `IdleText`) say so now. `LongAgo` is only assumed to be a number.

`LoadedMapFitsWorld` joins loader and world: what `World` assumes of `cubes_`, `exits_` and `reborn_` (`MapAssumption`)
is what a loaded map has, so the theorems about World and GameServer hold on every map that loads.

**JsonProofs.** For any variables, cells, names, scalars and documents. `JsonTypeCorrect`: `JsonTypeOK` says that the
heap is a forest (`Forest`): values are well formed, all of them are below the variables, and no two
parts are one value. It is inductive as it stands, but only for whole operations: in the middle of `add`
the new value is owned by nobody, and after `clean()` the heap has shrunk. So every operation is
taken as one or two changes at one value `n`: `Grown` says what such a change is (all else
is as before, the new cells are a forest of their own, and each part of `n` is an old part or the root of a new tree),
`Kept` what comes of it, and `KeptTwice` puts two together. `GrownKept` is the core. It rests on

- what `Reach` is: the smallest closed set with the roots (`ReachSmallest`, `ReachClosed`), which depends only on the
  values in it (`ReachAgrees`);
- what a forest gives: every value but a root has an owner (`Owned`), and only one (`OneOwner`); the documents
  of two variables are disjoint (`Apart`); no value is below a part of itself (`NotOwnPart`), so that `clean()` leaves
  the target of an assignment and all of its source alone; the part of the heap below a value is a forest again
  (`DocumentForest`), which makes `copy()` the same as reading a document from elsewhere (`WriteKept`).

`DocumentsApart` (`OneDocument`) follows: the value changed is below one variable, and by `GrownDocument` the
document of any other is what it was. Assumed of the constants: scalars are well formed and have no parts, documents
from elsewhere are forests, `MaxIndex` is a number.

Only model-checked:

- `NoCircularWait`: threads and places are few and the same for every size of the game, only answering threads vary;
- liveness (`QueueDrains`, `ClosingReplyCloses`, `PacketsLeave`, `DeliveredOrClosed`, `DoomedCloses`, `IdleShown`), which is
  out of the prover's reach;
- what texts mean (`StandardRead`, `Reread`, `NothingLost`, `RoundTrip`, `CutRefused`): the reader, the printer and
  the reference grammar are RECURSIVE operators over texts and trees, and what they say is an induction over data.

## 6. What the code gets wrong

Three of these have a run whose counterexample is the scenario.

1. `game_stale`: the login answer finds the fd in `loginsockets_`, erases it there and
   inserts it in `sockets_`; a disconnect in between finds it in neither, and the closed
   fd stays authorised, for the next connection too (`gameserver.cpp:255`, against the comment
   at line 76).
2. `ssl_too_early`: the disconnect flag is read from the packet behind the one written;
   of two clients answered in one pass the second is closed without its reply
   (`sslserver.cpp:285`, against `sslserver.hpp:62`). The same test never sees the flag of the last packet: a
   client answered alone is not closed by the server.

3. `game_pending`: `disconnect` breaks out of the scan of `loginsockets_` after one
   entry (`gameserver.cpp:82`, against the comment at line 76); a client with two names pending stays in it, and the next
   connection with its number is found by a late answer to that login.

The others are facts of the models, met on the way; the properties are stated around them.

4. `event_disconnect` erases the player whatever fd the event is of;
   when a second login of a player is refused and closed, the first one's player
   is gone (`world.cpp:70`).
5. A world command before the login is answered: `sockets_.at(fd)` throws in the
   core thread and the process ends (`gameserver.cpp:129`; `RecvUnauthorised`).
6. `DataQueue::remove` passes over every other packet; of three in one read one stays and is
   handled when another client is read (`dataqueue.cpp:194`). In the login server that client is answered and closed for it; in
   the game server the packet acts under its old fd number, whose connection may be another or closed, and nothing
   empties `rawdata_` when an fd is closed (`gameserver.cpp:41-60`).
7. `write` giving -1 is taken for a broken connection also when it is EAGAIN: after a packet that filled
   the socket to the brim the next one is dropped and the connection closed (`server.cpp:243`). A client that reads
   nothing at all is never closed: its reply never goes out whole, and only then is the close asked for (`server.cpp:208`).
8. `valid()` of a JsonW is true after a text without tokens, although the comment says false for
   invalid data (`jsonw.hpp:697`, `778`).
9. Mob ids of `MAX_MOB_COUNT_IN_AREA` or more meet those of the next area, and the later mob
   is lost (`mob.cpp:111`). The ids inside the area files are not compared: of two files with one id the second
   is dropped, its marks are not (`worldmap.cpp:189`).
10. The attributes of an exit depend on an uninitialised variable (`cube.cpp:502`).
11. The loader uses a null pointer on an area file whose title has no string, on a global link
    without "from", "to" or "type" or with an end without "cube" (`worldmap.cpp:33`), on a script without "actions"
    (`script.cpp:84`), and on a configuration without "stamp" or "area" (`worldmap.cpp:115`), of which it only asks `valid()`.
12. `Condition` reads neither the boolean of the storage nor the integer's index; the client does
    not carry out "set". So conditions on "b01" and "i01" are constants.
13. World's constructor only logs that a map was refused (`world.cpp:19`); the first player then has no cube to be
    in and the reply uses a null pointer. The models of World and GameServer have a loaded map.
14. The map client goes on likewise: it ignores what the load returned and uses `reborn_` at once
    (`DrawClass.cpp:26`, `49`, `590`), so a refused map ends it.
15. A client that leaves between `insert` and `add_event` of its answer has its disconnect queued before its connect: the
    world makes a player of nobody (`gameserver.cpp:255`, `94`). An older thread's refusal erases the entry by name that a newer
    login of that user has made.
16. `epoll_wait` giving -1 ends both loops for good, also when a signal interrupted it (`server.cpp:258`, `sslserver.cpp:297`); a
    client that never stops sending keeps the core thread in its read loop.
17. The exponent of a number counts only when it is written `e`: behind an `E` it is parsed and forgotten, 1E1 is read as 1
    (`jsonw.hpp:111`, `132`, `153`).
18. The log line after `tokens_.erase( it )` still reads `it` (`loginserver.cpp:386`); no state depends on it.

## 7. What is not modelled

- *Event parsing, Blowfish, OcError's texts, logging, MemLeak*: conversions and
  output; their results are constants or choices where control depends on them. Blowfish and bcrypt are a published
  algorithm: passwords are told apart by equality.
- *JsonW's rest*: the shared null object `bad()` that a const lookup returns, the stream overloads, characters that do not
  fit a `wchar_t`.
- *TLS, sockets, epoll*: what the code sees of them is a choice of the environment.
  `EpollWait` offers every open fd; a loop that leaves some for the next turn is one that
  ends the batch early.
- *The start of the servers*: `start`'s socket, bind, listen and epoll steps. Their end, by `stop` or a failing call, is "over".
- *SslClient's thread table and its TLS exchange*: a thread is modelled by what it calls back. That `write`
  records one thread per id and never removes it (`sslclient.cpp:282`) is left to the plan.
- *Torn `std::map`s, a full disk that the process survives, ids above 2^31 - 1, clocks set
  back*: listed with the hazards.
- *The legacy world with its commands, `rawprocessor`, FileDatabase*: nothing links them and they cannot be built at
  this commit (section 1): there is no program whose behaviour a model could follow.
- *Storage's setters of booleans and integers*: nothing calls them. *Creature*'s fields: data nobody changes at
  this commit, as `World` does not change mobs, scripts or interactives.
- *Windows client*: the drawing, fonts, and the network dialogs; the map's player is `MapClient`. *Test programs*: drivers. The
  main loop of `gserver` is `WorldTick`.

## 8. Plan

Done, in this order: World with PlayerPresence; GameServer; LoginServer with TokenOnce;
DataQueue and SslServer; Stream with PacketFifo; MapLinks, WorldMap; Script and MapClient; JsonW; the theorems of section 5. Next:

1. *Feed and remove*: `remove` for any number of requests (it leaves every other one).
2. *SslClient*: the thread table, ids that run twice, what the destructor joins.
3. *World without a map*: the process whose map was refused, up to the first player.
