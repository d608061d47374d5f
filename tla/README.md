# Verification of the rosZA server

rosZA is an emulator of the servers of an online game: a login server, a
character server and any number of world servers (channels), all C++ programs
over one MySQL database (`src/VS_Projects/src`; `src/Common` and
`src/Login Server` are older copies that are not built). This directory holds TLA+ models of the
parts where several programs, connections or threads meet, the TLC runs that
check them, and TLAPS proofs.

## Inventory

| Part | State | Operations | Interacts with |
|---|---|---|---|
| Login server (`Login_Server/`) | its sockets; `accounts.online`, `accounts.lastsvr` | user login (0x708), relogin, channel choice (0x70a) | database; kick 0x502 to the char server |
| Character server (`Char_Server/`) | `ClientList` with `isLoggedIn`, `isActive`, `channel` per socket; `ChannelList`; clans, chat rooms, friends | identify (0x70b), list and create characters, world address (0x715), kick, return to select | database; 0x502 to and 0x505 from world servers |
| World server (`World_Server/`) | `ClientList` of players, maps with players, monsters and drops, parties, client ids | identify, enter the map (0x753), play, save, character select (0x71c), exit, disconnect | database; character server; four threads |
| Socket server (`Common/SocketServer.cpp`) | `ClientList`, `ConnectedClients` | accept, select, sweep inactive clients | all three programs |
| Parties (`Party.cpp`, `partyfunctions.cpp`) | `PartyList`, `Members`, `Party->party`, `IsMaster`, `PartyIDList` | invite, accept, leave, kick, hand over, level | disconnect and character select of `worldserver.cpp` and `worldpackets.cpp` |
| Client ids (`extrafunctions.cpp`) | `ClientIDList`, `last_cid` | `GetNewClientID`, `ClearClientID` | server loop, MapProcess, WorldProcess |
| Drops (`worldmap.cpp`, `worldpackets.cpp`) | `DropsList` of a map | drop, pick up, `CleanDrops` | WorldProcess, party loot |
| Trade (`worldpackets.cpp`) | `CPlayer::Trade` of both players | request, accept, offer, confirm, exchange | inventory, money |
| Inventory, storage, shops | `items`, storage, `Zulies`, `Shop` | wear, use, store, stack, deal with a player's stall or a shop of the game | trade, drops |
| Chat rooms, clans, mail, messenger (`charpackets.cpp`, `Char_Server/clan.cpp`) | `ChatroomList`, `ClanList`, friend lists, mail table | create, join, leave, kick, promote, send | sockets of the char server, world servers for clan points |
| IP bans | table `ban_list` | `isBanned` on accept | socket server |
| Combat, monsters, AI, quests, crafting, GM commands, start-up | per-object state and game data | formulas, script interpreters, loaders | mostly one player at a time |

What is hard in this code: one account is guarded by a database flag *and* by
scans of two in-memory lists that are swept late; a kick crosses two TCP
connections while the player moves from one server to the next; character rows
are written back at moments the next session does not wait for; the clean-up of
a player is spread over a disconnect handler and a character-select handler;
parties are held together by pointers in two directions; the world server's
threads share ids and lists under try-locks. `PROJECT.json` lists each hazard
at its line.

What makes each part correct:

* sessions: one socket per account at the char server, one entry per account at
  a world server, no rollback of a stored character, no lock-out, a kick ends
  what it finds;
* parties: both directions of membership agree, no party of one, a master as
  long as nobody gives the lead away to an outsider, capacity, unique ids;
* ids and threads: no id twice, no deadlock, no lost or double drop;
* trade, shops, storage: goods and money are neither made nor lost, what is held
  is what is saved, an exchange moves both tables and only when both confirm;
* sockets and bans: the counter follows the list, whoever is marked is swept and
  whoever has sent is served although walks pass over neighbours;
* chat rooms, clans: both sides of a membership, memory and database, and two
  servers agree; no member that is gone, one master.

## Plan

In this order; the first six are built.

1. `Session` (three servers, one account): runs with one and two world servers;
   proofs of the type, of both uniqueness invariants and of the absence of rollback.
2. `Party`: runs at the capacity limit; proofs of every property of the run.
3. `WorldThreads`: the four threads of a world server, its mutexes, client ids and
   drops; proofs of `LocksKept`, `ViewingAlone` and `NoIdLeak`.
4. `Sockets` and `ChatRooms`, composed in `MCCharServer`: the loop of every server
   with its bans, and the chat rooms of the char server; proofs of their safety
   properties. The facts about lists that both and `Party` need are in
   `SequenceFacts`.
5. `Clans`: char server, world server and table with messages under way; proofs of
   the type and of the four safety properties.
6. `Goods`, `Stalls`, `Trade` and `Wares` (each extends the one before): inventory and
   storage, players' shops, exchanges, and what one player wears, uses, buys from
   the game and lays on the ground. The abstract specification is `Market`;
   `MCGoods` composes the four and states that they implement it. Proofs of the
   type and of the three safety invariants for the server as a whole (`WareSpec`).
7. Open: shops paid in clan or union points, crafting, mail and messenger.

Every module takes its bounds as CONSTANTS, has one action per handler and no
RECURSIVE operator, so that it can be proved about. Left to TLC are the liveness
properties and, of the goods, the two properties about sums over a player's slots
(`ExchangeWhole`, `ImplementsMarket`).

## Session.tla

| Model | Code |
|---|---|
| `online`, `lastsvr`, `row` | columns of `accounts` and the character row (a version number) |
| `fromLogin`, `toWorld[w]`, `fromWorld[w]` | packets 0x502 and 0x505 in flight on the server-to-server connections, in order |
| `cs[k]`, `chan[k]` | entry of client `k` in the char server's list and its channel |
| `ws[k]`, `wactive[k]`, `ver[k]` | entry in the world server's list, `isActive`, the character in memory |
| `at[k]` | the screen the game program shows (environment) |

A client is one run of the game program; two clients of one account are a
player who restarts it, or two players. Each handler is one action: a server
reads and handles one packet at a time. The steps of a session that run in
different programs, and the sweep that removes a dead entry, are separate
actions, so every order of login, relogin, kick, entry, autosave, disconnect,
world server crash and restart is explored.

Runs:

* `session` (`MCSession.cfg`): one world server, two clients of one account, two
  messages per connection, one change of the character. Two clients are the
  least for every race between an old and a new session; one version is enough
  to tell old from new. All invariants and three temporal properties hold.
* `two_worlds`: `OneAvatar`, the promise of the comment in `pakDoIdentify`, fails
  with two world servers: the relogin clears the flag, the char server drops
  the kick because the avatar's char connection has gone, and nothing ties the
  two world servers together.
* `kick_before_entry`: `KickReachesWorld`, the promise over `pakLoginDSClient`,
  fails: the kick passes the world server before the avatar enters.

Fairness: the servers go on reading their sockets and sweeping their lists
(`ServerLoop` runs forever), and a player who is shut out closes a dead program
and tries again. Nothing is assumed about saves, crashes, broken connections or
what a player does in the game.

Proved in `SessionProofs.tla`, for any clients, accounts, world servers and
bounds, from `ConstAssumption`:

* `TypeCorrect`, `CharServerUnique`, `WorldServerUnique`. The invariant is `Inv`:
  besides both uniqueness statements it says that a client in the login screens
  has no entry anywhere (`LoginIdle`), which is what keeps `chan` and a new
  entry from clashing with an old one. The lemmas `CharListStep`,
  `WorldListStep`, `ChanStep` and `LoginStep` say which action can change which
  part; `InvStep` puts them together.
* `SingleWorldNoRollback`: with one world server `NoRollback` follows from `RowInv`,
  which adds that no row is older than the character held by an entry
  (`EntryIsNewest`).

Only model-checked: liveness (`NoLockout`, `KickEndsAvatar`), and the two
violations. Not modelled: the loss of the char server or of the database,
bans, character creation; undefined behaviour after a process is damaged.

## Party.tla

| Model | Code |
|---|---|
| `life[p]` | the `CPlayer`: absent, logged in, or back at character select and not yet swept |
| `party[p]`, `master[p]` | `Party->party`, `Party->IsMaster` |
| `members[q]`, `level[q]`, `pid[q]`, `partyList` | `CParty` and `PartyList` |
| `pidUsed`, `lastPid` | `PartyIDList` and what lies behind it, `last_pid` |
| `prompts` | invitations on the players' screens; the server keeps none |

All handlers run under `PlayerMutex` to their end, so each is one action.
`Garbage` is the set of ids whose byte was nonzero before any party: the table
is not initialised, and ids past its 0x1000 entries lie in other members. A
deleted player in a party is undefined behaviour; the model lets the process
die then (`GhostCrash`).

Runs:

* `party` (`MCParty.cfg`): five characters (one more than a level 1 party holds),
  two parties, levels 1 and 5 (the first two capacities), ids up to 4 with one
  garbage byte so that the numbering skips and wraps, one open invitation. All
  properties hold.
* `party_ghost`: `NoGhostMember` fails: an invitation answered between character
  select and the sweep.
* `party_ids`: `PidsInTable` fails: ids grow past `PartyIDList`.

Two masters at once are possible (the leaver is made his own master before the
callers ask whether he was one) and are left as the code has them.

Proved in `PartyProofs.tla`, for any players, parties, levels and sizes of the id
table, from `ConstAssumption`: every property of the run `party`. The invariant `Inv`
is the conjunction of the five invariants of the run and of three facts they need:

* `PointsToListed`: a pointer that is not null names a listed party. Without it a
  player could be made a member of a party that is then reused under him.
* `OwnIds`: a listed party's id was free when it was given, so it is none of the bytes
  that were set before. `PidsInUse` alone does not say which of two equal ids a
  dissolution frees.
* `PromptsApart`: nobody invites himself; without it `Join` would list one player
  twice.

`InvStep` has a lemma per kind of change (founding, joining, leaving, levels, a
crash). `GrowthBounded` and `NeverLeaderless` are action properties proved from `Inv`.

## WorldThreads.tla

| Model | Code |
|---|---|
| `pc[t]`, `call[t]` | where a thread is; the operation it is in, its object, the id it has found, the mutexes its trylocks got |
| `holder` | owners of `PlayerMutex`, `MapMutex` and of the map's `MonsterMutex` and `DropMutex` |
| `cid`, `lastCid` | `ClientIDList`: used (0), cleared less than ten seconds ago, older; `last_cid` |
| `wears`, `stage`, `alive`, `listed` | `clientid` of an object, what a player is doing, `MonsterList`, `DropsList` |
| `online`, `active` | `ServerOnline`, `isActive` |

Steps are as small as two threads can tell apart: each lock, the trylocks, the
test of an entry of `ClientIDList`, its marking, and the clearing are actions of
their own. The two trylocks of a call are one step, because every caller owns
one of the two mutexes. Start-up, where one thread runs, is left out. Undefined
behaviour (a drop used after `CleanDrops` has deleted it, two threads in one
vector) may end the process (`Crash`) or not.

Runs:

* `threads` (`MCWorldThreads.cfg`): all threads with a player, a monster, a drop and
  one id. One id makes exhaustion, wrap-around and sharing frequent; entries of
  the table do not interact. `LocksKept`, `NoIdLeak` and `ViewingAlone` hold, there
  is no deadlock, and `ShutdownCompletes`. A client may send 0x753 again while its
  player is on the map, or in the middle of a change of map; with one id the second
  request finds none, `pakDoID` returns false and the connection ends.
* `ids_race`: `NoSharedId` fails: the server loop and `WorldProcess` are in
  `GetNewClientID` at once.
* `ids_stale`: `ClearsOwnId` fails in one thread: a player keeps the id that
  `TeleportPlayer` has freed, and frees it again when he disconnects.

An id is lost in exactly one way: `pakDoID` does not ask whether the player has one,
so a repeated 0x753 writes a new id over it and nobody clears the old one
(`forgotten`). `NoIdLeak` names these ids as its exception; every other used id
belongs to something that exists or will give it back.

Fairness: strong fairness of each thread. All of them sleep, holding no mutex,
between two passes, so a thread that waits for a mutex that is given back again
and again gets it; it is not assumed that any particular packet arrives.

Proved in `WorldThreadsProofs.tla`, for any players, monsters, drops and ids, from
`ConstAssumption` (the three kinds of object are disjoint, and 0 is none of them):

* `WorldTypeCorrect`, `MutexesKept`, `ViewsAlone`. The invariant is `Inv`: `Owns(t, m)`
  says which mutexes follow from the place of a thread, `Held` that it does own
  them, and `TriedNew` that its trylocks got none of those, which is what lets
  `Mark` and `Erase` unlock what they got. `Place`, `Operation` and `Kind` say who
  does what where. By `StepOf` a step of one thread keeps `Inv` when it takes only
  free mutexes and gives back only its own; then there is one lemma per action.
* `IdsDoNotLeak`, from `IdInv`, which adds that nobody else knows an object that is
  being made (`Fresh`) and that a player who gets an id is loading or in the map (`Entering`).
  So the only id that `Mark` writes over is the one of a player who asks again, which
  it notes, and a player's id cannot be lost between `TeleportPlayer` and the next
  `pakDoID`. The theorem covers any number of ids, so also the repeated request that
  does find a second one, which the run's single id leaves out.

Only model-checked: `ShutdownCompletes`, the absence of deadlock, and the two
violations.

Not modelled: several maps (their mutexes nest in the same order), monster
groups, `SQLMutex`, and the saving of players by the shutdown thread, which
walks `ClientList` without `PlayerMutex`.

## Sockets.tla and ChatRooms.tla

| Model | Code |
|---|---|
| `clientList`, `isActive`, `connected` | `CServerSocket::ClientList`, `CClientSocket::isActive`, `ConnectedClients` |
| `walk`, `turn` | which of `FillFDS` and `HandleClients` runs, and its index |
| `fds`, `backlog`, `data`, `gone` | the set select works on; the queue of the listening socket; what waits in a peer's socket, and whether it has closed |
| `ban`, `changes` | the peer's row of `ban_list`: permanent, running, over |
| `session`, `chatroom_id` | what a client of the char server is doing; the room it believes to be in |
| `chatroom_list`, `last_chatroom_id` | `People_list` and `nb_max` of every id |
| `abandoned` | history: who has left an entry in a room |

One step of `Sockets` is one turn of a walk. A walk erases clients from the list
it walks over and raises its index all the same, so the client behind an erased
one waits for another round: `InactiveIsSwept` and `ReadyIsServed` say that it
does not wait for ever, `CounterExact` that the counter survives it, and
`QueueIsServed` that the limit of connections never shuts everybody out for good.

`isBanned` contradicts its own comment. All three copies promise "@return true if
the client is banned else false" (`charserver.cpp:282`, `worldserver.cpp:552`); the
test of `charserver.cpp:306` is the wrong way round, so a running ban is deleted by
the attempt it should refuse, and one that is over refuses for good. The model has
the function as it is coded, because that decides who is admitted and with which
result `Accept` ends. No property is about it: it is one comparison within one
call, which a unit test reaches; `PROJECT.json` has it among the hazards.

A room and its clients are tied together by the handlers only.
`OnlyAbandonedEntries` and `ClientIsListed` say how far: entries stay behind after
a disconnect that returns early and after joining a second room, in no other
way; `chatroom_id` is right but for the id that `GetChatroomID` returns when all
are taken. `RoomBound` is the size plus one, which is what the code's `<=`
admits. `ListingPrunes` says what the clean-up reaches in spite of its index.
Erasing a room under the iterator is undefined: the model goes on, stops early
or loses the server (`ListRoomsCrash`).

Proved in `SocketsProofs.tla`, for any peers and limit, from `SockAssumption`:
`CounterFollows` and the type. The invariant adds `QueueApart`: a
peer waits in the queue once, and not while he is in the list; so `AddUser` never
lists a socket twice, and one erasure takes out exactly what the counter loses.

Proved in `ChatRoomsProofs.tla`, for any clients, room sizes and number of ids, from
`RoomAssumption` and `NoRoomAssumption`: all four invariants of the rooms and
`RequestPrunes`. The invariant adds `InsidersFound`: whoever is in a room has chosen a
character, so the clean-up of the list of rooms never takes him out. `PrunedEntries`
is the lemma about the clean-up: the loop keeps everybody who is found, once if he
was listed once, and overlooks at most one entry.

`SequenceFacts.tla` has the lemmas about `RemoveAt`, `Append` and `ToSet` that the
proofs about lists use: what an erased entry does to the others, to a list without repetitions
and to an element that is listed once. `LeastExists` (from the well-foundedness of
the naturals) is what a scan from below rests on.

Only model-checked: `InactiveIsSwept`, `ReadyIsServed` and `QueueIsServed`, which are
liveness.

Run `char_server` (`MCCharServer.cfg`). The two modules share no variable;
`focus` chooses the one that moves, so states add and do not multiply. Three
peers and two places: a list can be full, with one waiting, and an erased client
has a neighbour on each side. Three characters, two room ids (so that all are
taken after two rooms), rooms of size 1, three entries: the least at which an
entry left behind changes who is let in.

Fairness: weak fairness of the loop, which is never left. Peers may send or not,
and administrators may enter a ban or not.

Deadlock is not checked here, in `clans` and in `goods`: when the bounds are used
up nothing has to happen.

## Clans.tla

| Model | Code |
|---|---|
| `row` | `clanid`, `clan_rank` of table `characters` |
| `client`, `atChar` | `CCharClient` with its clan; who has one |
| `avatar`, `inWorld` | `CPlayer::Clan`; who is on a map |
| `clanList` | members of each clan in `CCharServer::ClanList` |
| `list_clan`, `founded` | table `list_clan` and its auto_increment |
| `toWorld`, `toChar` | packets 0x7e0 under way between the servers, in order |
| `invites` | dialogs on the players' screens |
| `missed` | history: whose clan or rank changed while the world could not follow |
| `scrambled` | history: clans whose list was reloaded when rows and entries were not the same characters |

Three copies of one fact are written by different programs: the char server
changes its own, writes the row and sends a message; the world server changes
its copy when the message comes, and its autosave writes that copy to the row
whenever it likes, the stale one too. The char server reads the row when a player asks
for a world (`RequestWorld`), also while an older avatar of the character is still
there and will be saved over it (`missed`, when the two differ).

Three things reach the world server: that somebody has joined (0xfa), that somebody
was kicked (0xfb) and a rank (0xfc). A member who leaves is announced with the 0xfb
of a kick (`clan.cpp:913`), so the world server gives him rank 1. A dissolution is
announced by a packet that is not encrypted (`clan.cpp:1110`, without the `cryptPacket`
of the others); the world server decodes all it gets (`SocketClient.cpp:96`), finds no
packet it knows, and drops it. So the cases 0xfd and 0xfe of its `pakClanManager` never
run, and an avatar keeps a dissolved clan, which its saves write back to the row,
until `loaddata` finds no row in `list_clan`. `Existing` is a clan that still has one;
the properties compare what exists.

`WorldAgrees`, `ListedMembers` and
`RowsListed` say that all agree when nothing is under way, with the exceptions
named by the two histories; `OneMaster` that handing over never leaves a clan
with two masters or with none.

The game program offers a member's menu only to members and the master's only
to the master, and shows no member of another clan in it; the model lets packets
be sent under those conditions. A `SET clanid=%i AND clan_rank=1`, which
assigns a truth value, is modelled as what MySQL makes of it (`BooleanRow`). A
reload that finds more rows than entries ends the process in `at()`; the guard of
`Reload` leaves that case out.

Run `clans` (`MCClans.cfg`): two characters and two clans after a dissolved one (so that
no id is 1, which is what `BooleanRow` writes), two messages under way, two
invitations or changes of rank, four logins (1.7 million states). Two clans are the
least for a player who founds or joins one while his avatar still names the other,
dissolved one, and four logins for each of two to come back once while the older
avatar lingers. What takes a third character (a kick of one member by another
while the third is invited) is left to the proofs, which have no bound.

Proved in `ClansProofs.tla`, for any finite set of characters, any number of clans,
logins and changes and queues of any length, from `ClanAssumption` and
`NoListAssumption`: `TypeCorrect`, `ServersAgree` (`WorldAgrees`), `MembersListed`
(`ListedMembers`), `RowsAreListed` (`RowsListed`) and `OneMasterEach` (`OneMaster`). The
properties speak of moments when nothing is under way; what is inductive says what
the messages under way will make of a copy. For the two servers (`ServersInv`):

* `ClanSettles` and `RankSettles`: the last message about a player's clan says what
  the char server has, the last of all with the rank; without one, the world
  server has it already. What comes earlier in the queue does not matter.
* `Waiting`: between the two logins the row is what the world server will read, so
  `loaddata` and `pakRequestWorld`, which read it at different times, agree.
* `Apart` and `Founders`: until the char server has loaded a new clan, nobody but its
  founder is in it, and nothing has happened to him.
* `Ranked`: a member has a rank, and nothing is under way about who is not in the
  world. `Founded` and `Tabled`: ids are given once, and what is loaded has its row
  in `list_clan`, so a `joined` that arrives late still names a clan.

For the lists (`ListsInv`), with `Placing(c, x)`: c is once in the list of clan x and in
no other, as far as lists can be trusted.

* `Placed`: a player is placed where the last change of his clan that is under way
  puts him; without one, where his avatar or, while he is away, his row says.
* `Enlisted`: a client is placed where the char server says.
* `Joining`: nobody joins a clan while he has another in the world. This is what
  keeps a `joined` for a clan that was dissolved in the meantime, which the world
  server ignores, from leaving him in an older one.

For the masters, `Chiefs`: of a clan's list exactly one has, or will have when
everything under way is heard, rank 6. It is said of the whole list and not of
clients, because `pakClanManager` 0x09 makes masters of members that are away, and
of the last message, because the master may log out before it is heard.

Every handler of the char server is one case of one lemma: `Telling` says what it may
do to a player (nothing, tell him once what it has now, or change the row of one
who is nowhere), and `TellingServers` that this keeps the first invariant.
`TellingLists` is the same for the lists (`Unmoved`, `Moved`, `Removed`), and `ChiefsNext`
for the masters.

The proof found two cases that the run is too small for. Both need a second clan
founded while the first is there, and a reload whose rows and entries differed,
which can list somebody who is in no clan or in the other one.

* If he founds one and the master who lists him kicks him before the char server
  hears of it, the kick and the founding cross: the world server ends with no
  clan, the char server with the new one (`Unheard`, `Founding`).
* If he has another clan, the kick sends him away from it, or the change of master
  makes him master there, and the other clan's list is left as it was
  (`Mistaken`).

The handlers take a name and do not ask for the clan of who has it.
`missed` has these players.

## Goods.tla, Stalls.tla, Trade.tla, Wares.tla and Market.tla

| Model | Code |
|---|---|
| `inv`, `zulies`, `store`, `storeZuly` | `items`, `CharInfo->Zulies`, `storageitems`, `Storage_Zulies` |
| `rows`, `purse`, `cells`, `safe` | tables `items`, `characters.zuly`, `storage`, `accounts.zulystorage` |
| `unsaved` | slots whose `sig_data` does not fit their contents |
| `writes`, `handler` | statements of the last handler that are not executed yet |
| `stage` | off, in the game, or saved by `pakCharSelect` and not yet deleted |
| `open`, `selling`, `buying` | `Shop->open`, `SellingList`, `BuyingList` |
| `target`, `status`, `offer`, `pay` | `trade_target`, `trade_status`, `trade_itemid` with `trade_count`, `trade_count[10]` |
| `ground` | `DropsList` |
| `refused`, `astray`, `swapped`, `late`, `failed` | histories the properties use |

Handlers, the disconnection and the autosave of `VisibilityProcess` run under
`PlayerMutex`; between the statements of one handler only the process itself can
end. So a handler is one action that changes the `CPlayer` and queues its
statements, `Execute` writes one, and `Crash` may come before any of them.
`savedata` is one step. It writes the purse, and of the items only the slots whose
signature, remembered from the last save, does not fit what they hold. Only what
`pakUseItem` counts down is left to it (`unsaved`); every other handler writes its
slots itself. A stack is a kind and a number, and the pieces are plain: with a
refinement or a gem the two computations of a signature differ and `savedata`
writes more than it has to.

What a game program does not ask for is left out of the inputs: amounts it does
not show, a slot in two rows of a stall, visiting a stall while one's own is open,
wearing something out of another tab. Every `CheckStats` question but the place
(job, level, attributes) is left out: it only refuses.

`Wares` has `pakChangeEquip` with its exchange of source and destination, the weapon
that needs both hands, and the two ways that ends; `pakUseItem`, whose one branch
saves and whose others do not; `pakNPCBuy`, which buys stack by stack, stops for
good at the first that cannot be paid (what was bought before stays, what was to be
sold is dropped) and then sells; `pakDoDrop`, `pakPickDrop` and `CleanDrops`. The steps of the
last three in their threads are `WorldThreads`; here they say who owns what. Nothing
lies on the ground after a restart.

`pakTradeAction` stores the target before it looks for the partner, asks `can_trade`
and reaches a switch with the cases 0, 1, 3, 4 and 6. A packet that stops at any of
these, or has another code, changes the target and nothing else: `Retarget`. So two
who have each confirmed towards others can turn to one another without a refusal;
`failed` notes this pair as it notes a refused one.

`Market` knows players, what they own, and no slot or packet. It can move
something by `Deal` (two players, and the sums do not change), `Stow` (one player
and his storage or his clothes, for a fee at most), `Use`, `Shop` (the value of what
he owns, at the shop's own prices, does not grow), `Lay` (to the ground or from it),
`Vanish`, `Depart` and `Die`. `MCGoods` maps the state to it:

| Market | from the detailed state |
|---|---|
| `wealth[p][k]` | pieces of kind `k` in the inventory (in the rows, if he is away) and in the storage as it will be once `writes` is executed |
| `money[p]` | purse and storage money in memory, or what is booked if he is away |
| `booked[p]` | the two columns |
| `lying`, `loose` | stacks and zuly in `ground` |
| `busy` | owners of the statements in `writes` |
| `course` | the giver's slot is saved before the taker's (selling, depositing, withdrawing, picking up), after it, or both are one player's own (wearing, shop) |
| `owing` | whoever has a slot in `unsaved` |
| `closing`, `late`, `doubt`, `astray` | saved for the last time; dealt with after that; `refused`; `astray` |

`ImplementsMarket` (a PROPERTY of the run) then says for every handler in any
order: goods and money move between two players and nobody else is touched; a
death of the server costs what those whose statements were under way had in
hand and nothing else, doubling it when the taker is saved first, losing it
when the giver is; money falls back to the last save, the ground is bare, and
what was used up since the last save comes back. Where the code does worse the
model says so and the mapping carries it:

* somebody dealt with after `pakCharSelect` saved him loses the money of that deal
  (`late`);
* a withdrawal that finds no room forgets, in memory, what it was not asked for;
  the next deposit into that cell then saves the smaller number (`doubt`);
* `pakChangeEquip` saves the two slots of a change before it asks whether the
  shield can be taken off; when it cannot, it changes them back in memory only.
  The signatures move with the items, so `savedata` finds nothing to write, and
  the rows keep the other order: what is sold, dropped or exchanged out of one of
  these slots writes that row alone, and at the next login one piece is there
  twice or not at all (`astray`). Without that excuse TLC violates `SavedAgrees` and
  `ImplementsMarket`.

The other properties: `SavedAgrees` (a handler saves each slot that it changes, or
leaves it to `savedata` with a signature that does not fit), `RowsBacked` (a
stall's row never promises more than its slot holds, unless the owner's partner
completes an exchange behind the stall or the owner stores the goods, which
`pakChangeStorage` alone lets him do while it is open; then `pakBuyShop` takes the
money and returns without the goods), `ConfirmedTogether` (both confirmed only after a
refusal, or after a packet that only names a partner), `ExchangeWhole` (with a free slot for each piece, the exchange moves
exactly both tables).

Run `goods` (`MCGoods.cfg`). `focus` chooses one of five small casts, so that states
add: one player and his storage (5 handlers); one player with two bows in a full
tab, a sword in his hand and a shield, a shop and the ground (3); three
players, two of whom have the exchange window open (4); two players with tables
already filled in nine ways, a slot in two rows included (4); two players, one of
whom has offered something and opens a stall (4; their tables stay as they are). Four kinds: one that stacks up
to a limit of 5, and a shield, a weapon for one hand and one for both; two slots
for stacks, two for pieces and two that are worn. So stacks are joined, a tab is
full after two pieces, a slot can be emptied in part, and the shield finds room in
one order of dealings and none in another. At most one zuly is laid down at a
time. The server dies once. A refused withdrawal, a sale without stock, a refused
exchange and one with no room, a purchase broken off, and a change of weapons in
each of its three ends all happen within these bounds (each branch of each action
is taken).

That a shop gives no more for a thing than it takes (`WaresConstants`) is a fact of
the price tables, not of the code: `pakNPCBuy` does not compare the two.

Proved in `WaresProofs.tla`, for any players, kinds, slots, cells, rows, prices and
shopping lists, with no bound on what is dealt or how often the server dies. The
theorems are about `WareSpec`, in which every handler of the four modules may come at
any time, from any sound contents of the tables; the run's `focus` and bounds are
not in it.

* `TypeCorrect`. `TypeInv` is `GoodsTypeOK` with what it leaves to the shape of the
  state: stalls, exchanges, and statements under way that would not put a stack where
  it does not belong. The work is in the lemmas about one slot (`Taken`, `Joined`,
  `PartLeft`, `Put`: a stack that is split, joined or handed over is of legal size and in
  its tab) and about the two loops of the code, the rows of an exchange and the
  list of a purchase.
* `PairsTogether` (`ConfirmedTogether`) is inductive as it stands: one case for
  each packet of `pakTradeAction`, the one that only names a partner included.
* `StallsBacked` (`RowsBacked`). It holds only because no two rows of a stall sell out of
  one slot, a closed stall has no rows, and who is away has no stall: `Shown` adds
  these. What a handler may do to goods on show is in `StillBacked`: nothing, or
  add to them.
* `TablesAgree` (`SavedAgrees`). The property looks at the tables as they will be
  when the statements under way are executed, which is not a property of single
  statements; `SaveInv` is. It says that the last statement for a place writes
  what is held there (`ListSettles`), that a place without one is in its table
  already (`BagsAgree`, `ChestsAgree`), and what a refused withdrawal leaves is a part
  of the row. Then `HandlerAgrees` reduces each handler to one question: does it
  save every slot it changes, or mark it unsaved? `SaveInvSuffices` brings `SavedAgrees` back.

They rest on the assumptions that the modules name. `GoodsConstants` and
`WaresConstants` say what `GetNewItemSlot` (`playerfunctions.cpp:457`) and
`CheckStats` decide by type and the item tables do not contradict: kinds that are
worn in one place are kept in one tab, a tab has no slot that is worn, and a
shop's list has stacks that fit a slot (`worldpackets.cpp:2515` cuts them to 999).

`Exchanged` and `Purchased` are recursive functions, `after[r]` from `after[r - 1]`, over
a range of rows. That such a function exists is shown by the least row at which
it would not (`ExchangedSteps`, `PurchasedSteps`), and what it keeps by the least row
at which it would be lost; no induction theorem with an operator as its parameter
is needed. A sum over all slots would need one at every row: `ExchangeWhole`
and the step `Deal` of `ImplementsMarket` stay with TLC.

Not modelled of these parts: shops paid in clan or union points, cart parts and
costumes, repair and fuel, the item mall, drops of monsters and the loot rules of a
party, a stall that fails to open half-way and leaves rows behind,
change of map, which also parts a player from what he laid down, two characters of
one account at one storage. The ground is one map.

## Not modelled

Combat, skills, monsters, AI and quest scripts, crafting and start-up compute on one
object at a time with formulas and tables that are game data; what can go wrong
in them is a wrong number, which a unit test of the formula shows better. Mail and
messenger write a row and forward a packet. GM commands are some two hundred
one-line changes. `PROJECT.json` lists every part with its status.
