# Fyendal: a verification project for the room server and the rules engine's flow

Fyendal is a two-player card game in the browser. A client (`apps/client`)
holds no authority: it sends commands over a WebSocket to a gateway
(`apps/server`), the gateway runs the rules engine (`packages/engine`) inside a
PostgreSQL transaction and tells every client of the room. There may be several
gateways; they share nothing but the database. Much of what is hard in this
system is there: which commands take effect and in what order, what the
database keeps of a game for undo and replay, how what one gateway committed
reaches a player attached to another, when a room goes. The rest is in the
engine: how an intent, a card's script and a dozen procedures that call each
other leave a game from which somebody can go on.

The TLA+ modules of this directory model that. This file says what the parts of
the system are, which module models which, what is checked and proved, and what
is left.

## The system

| Part | State | Operations | Talks to |
| --- | --- | --- | --- |
| Room command transactions, `store.ts:1430-1620` | `rooms` (version, state), `room_seats` (preferences), `room_commands` (receipts) | `withRetry` around `applyIntent`, `setPassUntil`, `setPriorityMode`, `undo`, `claimVictory` | called by the gateway; inserts events |
| Undo history and replay recording, `store.ts:1277-1400, 4285-4465`, `replays.ts:60-300` | `room_history`, `replay_games`, `replay_frames`, `rooms.last_transition`, match records | snapshot and prune, undo, frame append and prune, discard, end of game | part of every command's transaction |
| Event log and fan-out, `clusterEvents.ts`, `roomBroadcaster.ts`, `index.ts` | `cluster_events`, a cursor and a batch per gateway, attached sockets | append, poll, coalesce, broadcast, rejoin, restart | every transaction writes, every gateway polls |
| The client's version gate, `versionGate.ts` | latest version, message types seen at it | accept, reset | receives what a gateway sends |
| Replay finalizer and leases, `replays.ts:300-560`, `leases.ts` | `replay_games.status`, payloads, `worker_leases`, a queue per gateway | finalize, defer, recover | woken by the end of a game, or by a timer |
| Matchmaking and preparation, `store.ts:1822-3106, 3565-3740` | `matchmaking_entries`, `matchmaking_offers`, `pending_bot_starts`, room seats and deadlines | queue, leave, decline, accept, sweep | rooms, presence, the client's queue view |
| Lobby operations, `store.ts:3107-3560` | seats, tokens, prep | join, present, choose, leave | same transactions as commands |
| Presence and garbage collection, `store.ts:4516-4918` | `room_presence`, `rooms.gc_at` | heartbeat, absent, sweep | sockets, timers |
| Idle claims, `store.ts:1047-1060, 4424-4465` | `last_action_at` per seat | stamp, claim | commands |
| Ruleset fence, `rulesetFence.ts` | `runtime_config` | assert, activate | room creation, operators |
| League, `league/*` | leagues, matches, actions | the worker's tick, members' requests | rooms of league matches |
| Client command pipeline, recorder, bot worker, `apps/client/src` | pending commands, recorded frames | send, acknowledge, resend, append | the gateway |
| Rules engine, flow of a game, `packages/engine/src` | `GameStateInternal`: phase, priority, stack, pending triggers, combat chain, attack queue, pending decision, `stackResume` | `applyIntent` and what it calls: `continueStack`, `advanceStack`, `finishStack`, the combat steps, the turn | called by the room commands, by bots and, for a preview, by the client |
| Rules engine's numbers, cards, bots, UI, accounts, social, decks | | deterministic functions, single-row requests | |

What can go wrong in them, at which line, and which property would notice is
the list of hazards in `PROJECT.json`.

What is hard, by part:

* **Commands.** Statements of a READ COMMITTED transaction see what others
  commit in between; the game state is written whole from a copy loaded
  earlier; answers get lost and commands come again, perhaps to another
  gateway; gateways die between two statements; rows are locked in an order
  that allows wait cycles. Correct means: the room is one linear history, its
  state has the effect of every command in it, a command is in it at most once,
  directly after the version its client decided on, and what a client is
  answered is true.
* **History.** Undo deletes rows that later undos must not find and keeps rows
  that they must; it may move back over several commits, and the line that
  follows shares versions with nothing abandoned. Correct means: undo leads
  along the line of play, the recording is that line, and what the client is
  told about a transition holds.
* **Fan-out.** Events get their number when inserted and become visible when
  committed. A broadcast reads the room, waits, and sends; another one
  overtakes it. Correct means: the board never goes back, and a refresh that
  was consumed is shown.
* **Finalizer.** A lease is a time, not a lock: its holder may still be at work
  when the next one starts, and the first to write deletes what the other is
  reading. The work is split over statements; a failed attempt is put off, a
  dead gateway forgets its queue. Correct means: the file has every frame, the
  notes stay on their views, and no recording stays unfinished.
* **Matchmaking.** A search, an offer and a room say the same thing three
  times, in three tables, and a handler changes them in several transactions:
  seats, then searches, then a new search for whoever is left. Others search,
  leave and accept in between. Correct means: one match per player, an offer
  that names those who are asked, nobody forgotten, nobody offered to someone
  who declined him.
* **Presence.** A room's deadline is written by joins, commands, heartbeats and
  the sweep, mostly without its version; heartbeats come in batches of three
  statements outside a transaction; a gateway that is killed clears nothing.
  A search begun in bot practice or an open league match needs the room as
  well, which the sweep finds out in other tables. Correct means: a finished
  room goes when it was said to, one that is played in or needed stays, an
  abandoned one that nothing needs goes.
* **Engine.** An intent runs through procedures that call each other in tail
  position and share one pending decision, one `stackResume` and the
  continuation of a choice. Any of them may run a card's script, which may open
  a choice, raise triggers or take the attack away, at that very place. Correct
  means: the game always waits for somebody who can answer, steps happen once
  and in order, nothing is left on the stack, turns end.

## Modules

| Module | Models |
| --- | --- |
| `RoomLog` | abstract specification: what a room promises its clients |
| `RoomCommands` | one room, its transactions statement by statement, and several gateways |
| `MCRoomCommands` | its small instances |
| `RoomCommandsProofs` | theorems about `RoomCommands`, refinement of `RoomLog` included |
| `RoomHistory` | what the commits of one room leave behind: history, frames, transition, match record |
| `RoomHistoryProofs` | theorems about `RoomHistory` |
| `RoomFanout` | from a commit to a player's screen |
| `RoomFanoutProofs` | theorems about `RoomFanout` |
| `ReplayFinalizer` | from the end of a game to its replay file |
| `ReplayFinalizerProofs` | theorems about `ReplayFinalizer` |
| `Matchmaking` | from a search to a game: entries, offers, rooms, and handlers of several transactions |
| `MatchmakingProofs` | theorems about `Matchmaking` |
| `Presence` | leases, spectators, a room's deadline and its end |
| `PresenceProofs` | theorems about `Presence` |
| `GameFlow` | what the rules engine does between a player's intent and the next decision |
| `GameFlowProofs` | theorems about `GameFlow` |
| `Counting` | lemmas on finite sets of numbers that several proofs use |

`RoomCommands` justifies the granularity of `RoomHistory`: commits form one
linear history, so one action of `RoomHistory` is one committed command. And
`RoomFanout` takes a version from there as a number: it does not matter to it
what a version holds. `ReplayFinalizer` starts with the frames `RoomHistory`
leaves: a frame is the version it was recorded at. `Matchmaking` ends where a
room's game, and so the history of `RoomCommands`, begins. `GameFlow` opens what
`RoomCommands` and `RoomHistory` take as one computed state: that there is
always a legal intent, that a turn ends, is what a command and an undo to the
turn's start rely on. In `Presence` a command is only what it does to the
deadline and the version.

### RoomCommands

State and code: `version`, `merged`, `prefs`, `receipts` are the database
(`merged` stands for the game state: the set of commands whose effect it
holds); `roomLock`, `seatLock` the row locks; `pc`, `cmd`, `tries`, `base`,
`seen`, `plan`, `todo` what a handler holds in memory (`base` and `seen` are
the loaded `RoomRow`, `plan` the result of the mutation, `todo` the
`seatWrites` to come); `log`, `expected`, `answered` are what the clients
know. `RoomLog` is instantiated with its `history` as `log` and its `effects`
as `merged`: a room's promise is about the state it shows, not only about the
order of its versions.

An attempt goes `Load`, then `Duplicate` (a receipt is there), `Refuse`
("stale room version" or the mutation's own error) or `Compute`; `WriteRow`
for each changed preference row, seat 0 first; then `CommitNeutral`, or `Save`
(UPDATE rooms WHERE version = loaded), `WriteRow` again for the activity
stamps, and `Commit`. An UPDATE that finds another version is `Conflict`: roll
back and start over, at most `MaxRetries` attempts in all. `Deadlock` is
PostgreSQL breaking a wait cycle (the handler fails: only VERSION_CONFLICT is
retried), `Crash` a gateway that dies, `SweepReceipt` the retention of
receipts, `OtherCommit` a join, a kick, a presence change. `Refuse` may happen
on any version because any mutation may fail; `Compute` may not.

What a mutation computes is `Plans`: whether it advances the game or is
version-neutral, whether it stamps activity, and the preferences it leaves.
Which windows the engine passes is left open, so a plan may drop any armed
latch.

A side result of reading the code this closely: a versioned command conflicts
at most once, since its retry finds `expectedVersion` stale.

### RoomHistory

A game state is the line of versions that led to it, its turn and the seat
that is to act. `history` and `frames` are the rows of `room_history` and
`replay_frames`; `lineAt`, `silent`, `dropped`, `reached` are ghosts the
properties use and no action reads. The engine is left open: a step leads to a
new state on this turn or up to `TurnSkip` later, or ends the game. `Undo` has
the three targets of the code. The automatic passes that run on the restored
state can advance the game once more, and that state has no frame (`silent`).

`claimVictory` is described by a comment (store.ts:4422) as undoable. It ends
the game, and `undo` refuses a finished game, so the snapshot it writes is
never used. The model has both facts.

### RoomFanout

One room, one player of it (any opponent shows only through commits), one
gateway to which the player is attached. `open` and `events` are the
uncommitted and the committed rows of `cluster_events`; `owed` is what a
handler publishes after its commit, besides what its transaction inserted.
`cursor`, `rows`, `refresh`, `job` are the consumer in the middle of a poll,
`join` the handler of a rejoin with its own broadcast, `inbox` the socket,
`gate`, `view` the client. A broadcast is three steps (list the
sockets, read, send), because it awaits between them.

What is promised about showing is what the code can keep. `due` is a ghost: the
newest refresh the consumer took for the player's socket while none of its
joins was under way. `RefreshShown` says that it is on the board once consumer
and socket are done, `CatchesUp` that an attached player gets there, and to the
end of the log, again and again. Nothing is said of a command whose event
commits behind the cursor (`event_gap`), nor of a refresh consumed during a
rejoin, whose broadcast a presence broadcast may beat: the board then stays old
until the next refresh.

### ReplayFinalizer

One recording, several gateways. `status`, `winner`, `waiting`
(`finalization_retry_at`), `frames`, `payload` and `count`, `awarded` and
`notes` are the rows of `replay_games`, `replay_frames`,
`replay_participants`, the achievements and `replay_notes`; `noted` is a ghost.
`lease` and `keeper` are two rows of `worker_leases`: `replay:<id>` and the
maintenance lease. `at` and `got` are, per gateway, where its queue is with
this recording and what the attempt has read.

An attempt goes `TakeLease`, `ReadRow`, `ReadBatch` until a batch is short, and
then `WriteFile` or, if the last view does not show the game's winner, `Defer`.
The batches are separate statements, outside a transaction. The write is one
action, because that transaction begins by locking the rows that every other
writer of the recording takes too. It sets `status` only if the recording is
still to be finalized, but writes the payload, re-keys the notes and deletes
the frames in any case. `LeaseRunsOut` may happen at any moment: it stands for
a holder slower than five minutes as well as for one that died. `Maintain` is
the timer of the gateway with the maintenance lease, `Start` a gateway's
start; both queue what is due.

Two things the model shows and `ReadyIsWhole` leaves out. A bot game that is
ended early has no winner, and neither has any of its views, so for these games
a truncated read of a slow holder passes the winner check and replaces a
complete file. And the rows `replay:<id>` of `worker_leases` stay for good:
nothing but a test calls `releaseLease`.

### Matchmaking

One format, foreground searches. `entry` is a row of `matchmaking_entries`
(`retained` the room a search waits in, `offer` its `pending_offer_room_code`,
`avoid` the rooms and users it avoids), `offers` are the rows of
`matchmaking_offers`, `room` has the seats, who came from the queue
(`from_queue`), who accepted, and whether the deadline is ahead or past. What
a handler has yet to run is a record in `work`: `commit`, `load` and `end` after
an acceptance, `left` and `resolve` after a player left his room, `evict` and
`clean` in the sweep of deadlines, `queue` for the searches that go on. Commands
of all players, also of the same one from another tab or by closing a
connection, get in between. `QueueLeave` is possible under an offer because the
gateway learns of the offer only when it consumes the event. `Lose` drops a
record: the gateway died, or a requeue met a changed room (it does not retry).
`Break` is a transaction that fails on a foreign key or on the unique pair of an
offer.

How much of a transaction is one action follows from what it holds. A room
command is checked against the room's version, and what it does is one
statement's worth of it; the transactions that queue, cancel or clean up lock
the format's row. `commitAcceptedOffer` holds neither: it is READ COMMITTED,
reads the offer (`Commit`), reads the room (`CommitLoad`), and deletes the
searches of the two users it read, whatever they have become, and the offer
(`CommitEnd`); everybody else commits in between. Pairing (`queueForMatch`) is
kept as one action although a room command or a lookup, which do not take the
format's lock, could commit between its statements: its own write of the room
is checked against the version it read.

Who waits and who is found is left open where the code asks who is connected
and whose decks fit: `Wait` is possible even if there is a candidate, and any
candidate may be the first in line.

`seeking` and `spurned` are ghosts: what players want, whatever the tables say.
`torn` notes that two handlers acted on one search at the same time
(`Overtaken`), that a search ended under its offer (`Bereaves`: two connections
closed before the match was delivered, or a handler that ends searches by
account came after the pairing), or that the end of an acceptance came so late
that it deleted a search begun since, or another offer (`Strikes`). The
properties but `TypeOK` are stated for behaviours without that and without lost
handlers (`Orderly`), because TLC shows what happens otherwise. A leave, a new
search or another offer while an acceptance is being committed does not exempt a
behaviour: only a deletion that really hits one of them does.

* Both have accepted, and while `commitAcceptedOffer` is between its reads and
  its DELETE (store.ts:3084), one leaves and either of them searches again: the
  DELETE goes by account, so the new search is gone, and nobody is told.
* A player leaves a room and starts a search in another tab before the first
  handler deletes his search by account: the new one is gone, and with it what
  it avoided.
* A survivor leaves while he is in line to be queued again: he is queued after
  he left.
* Both searches of an offer end while it is open (two connections closed before
  the match was delivered). The sweep finds nobody to clean up for and leaves
  the offer's row; the next pair in that room gets no row of its own
  (`ON CONFLICT DO NOTHING`), accepts, and one search stays open.
* One search ends that way, the other player leaves the room, which queues the
  first again by the stale row while he is still seated: he can end up
  in two full rooms.
* A lost cleanup leaves an offer's row; a later leave in that room ends a newer
  search of the other player, or has it wait in the old room. From there he can
  be matched twice: he joins a friend's room by code while his search stands
  elsewhere, and is paired from the queue as well. A trace of nine moves by
  four players with one lost handler does it; it is beyond the run's bound,
  which is why `NoDoubleBooking` excludes lost handlers like the others do.

`Deadline` does not come between the sweep's reading of an expired room and its
next statement on it: a deadline is half a minute away at least when it is set
(store.ts:322), the two statements follow each other.

### Presence

One room from its creation on. `alive`, `finished`, `gcAt` and `watchers` are
its row, `token` the sockets that own the seats' tokens, `lease` the rows of
`room_presence` with their age. `pc`, `batch`, `leaving` are where a socket's
join, its part of `markPresentBatch` and its `markAbsent` are, `write` the row
a handler has loaded, changed and not yet written, `sweep` what the sweep has
selected. Every statement outside a transaction is an action; a command is two,
`Load` inside `Play`, `JoinSeat`, `JoinWatch` or the leave handlers, and a save
that needs the version to be unmoved (`Moved`, `Conflict`). The sweep reads the
leases and the deadline (`SweepRead`), arms the room nobody is in (`SweepArm`),
deletes what is due (`SweepDelete`). `inUse` stands for the two needs the sweep
looks up elsewhere: a background search that waits in the room
(store.ts:4852) and an open league match (store.ts:4860). `Reserve` and
`Relinquish` begin and end one at any time while the room is not finished; a
room in use is no candidate, and `SweepDelete` asks again, with the deadline,
before it deletes. `SweepRead(FALSE)` is a gateway of another ruleset, which
finds the room by its deadline and whose DELETE asks for its own
`ruleset_version` (store.ts:4888): it expires leases and arms like any other and
never deletes. (`rulesetFence.ts` keeps such a gateway from starting; one that
runs on through a cutover is meant.) `Crash` takes a socket
and leaves its lease. Time is ages and remainders, capped where the code stops
telling them apart, so the clock needs no bound.

### GameFlow

`state` is the part of `GameStateInternal` that steers the game: `phase`,
`active`, `priority`, `stack`, `pending` (`pendingTriggeredLayers`, by
controller, as they are placed), `resume` (`stackResume`), `passes`, `link` (the unresolved chain link; its fields are
the flags the procedures test), `open` (resolved links are on the chain),
`queue` (the attack queue) and `decision` with the continuation that runs once
it is answered (`then`, `seat`). `ap` are action points; `owed` is a ghost.

`applyIntent` is synchronous, so nothing interleaves, and yet a procedure is an
action: the properties are about what one procedure hands to the next.
`call` names the next one. `continueStack` is `ContinueStops`,
`CloseForGoneAttack`, `PlaceBeforePriority`, `ReopenReactionWindow`,
`ContinueToPriority` and `PriorityOrAdvance`, in the order of its returns;
`advanceStack` is `ResolveCard` to `AfterPhantasm`; `finishStack` is the
actions whose guard is `Resuming`. Combat goes `PlayAttack`, `DeclareAttack`,
`BeginAttackStep`, `DeclareTail`, `ProceedWithAttack`, `Defend`,
`BeginReactionStep`, `CalculateDamage`, `ApplyDamage`, `FinishDamageStep`,
`QueueWagers`, `FinishLinkResolution`; an attack that left the chain or whose
source left the arena takes `ResolveGoneLink` or `ResolveSourcelessLink`. The
turn goes `EndTurn`, `ContinueEndPhase`, `BottomPitch`, `StartTurn`,
`BeginActionPhase`. `Settle` is `checkStateBased` at the end of every intent: in
a window (`SettleWindow`) what it destroys may open a choice or raise triggers,
which the stack is gone on with; at any other decision and in the bare action
phase (`SettleElsewhere`) the triggers stay pending until something else places
them. Unique's choice over another decision, which puts that decision back when
it is answered, is left out.

A card's script is a choice from `Effects`: nothing, a choice for a player, a
pending trigger of either player, the attack leaves the chain, or (for a card
of the turn player, as in the three scripts that call it) a permanent attacks
next. Which of them a hook can do is what the hooks at that place can do in
the code; costs, targets and numbers are left out, so a condition on them is a
choice too (`able`: somebody has an instant-speed action).

## Runs

| Run | Question | Instance |
| --- | --- | --- |
| `commands` | Is the room the linear history its clients are promised? | three commands of two players (an intent, a preference, an undo), two gateways, two attempts, one other commit, every mix of recorded preferences |
| `commands_live` | Does every request end? | pass-until, a claim and the other player's preference change; what commits in between are those |
| `preference_lost` | *violated:* does a recorded preference stand? | two commands, two gateways |
| `history` | Do undo history, recording and transition follow the line of play? | one snapshot besides turn starts, three turns, five commits, with and without bot |
| `undo_turn_start` | *violated:* does undo to a turn's start go there? | two snapshots, eight commits |
| `fanout` | Does the board stay in order, and is every refresh consumed while no join is under way shown? | four versions, three events, two sockets, events that overtake each other |
| `event_gap` | *violated:* is the cursor never ahead of an uncommitted event? | three versions, three events |
| `finalizer` | Is a won game's replay whole, do notes stay, does every recording get finished? | two gateways, three frames in batches of two, two failures or deaths |
| `matchmaking` | Has everybody at most one match, do offers name who is asked, is nobody forgotten? | three players, three rooms, seven moves of players and clocks, one lost handler |
| `presence` | Does a finished room go in time, one that is played in or needed stay, an abandoned one go? | a player and a watcher, two sockets, two handlers at a time, timeout and delay of one tick |
| `presence_abandoned` | *violated:* does a room both players left go? | the same instance |
| `engine` | Does every intent leave a game that waits for somebody, are combat steps taken once, do turns end? | whole turns, three scripted effects, free plays or go agains in each |

**Why the bounds are enough.** *Commands:* a lost update, a duplicate and a
wait cycle need two transactions; the third command lets a redelivery meet a
room that has moved on twice. The five kinds are spread over two instances so
that each stays small; both have a preference change, the only kind that writes
rows without moving the version. `OtherCommit` (a join, a kick, a presence
change) is in `commands` only: in `commands_live` the versions that outdate a
handler's row come from the commands, and its liveness check would not end in
time with more. Two attempts reach the retry and its end.
Gateways are interchangeable, hence the symmetry; the commands are not, their
kinds differ. *History:* with `Cap = 1` pruning starts with the second
snapshot; three turns give a turn before the previous one, which is the one
that must be dropped; five commits after the start hold any sequence of two
undos with new play in between. In the code the cap is 20: a bound of the same
rule. *Fan-out:* an event that overtakes another needs two, a batch that
coalesces around a notice needs three, of which two are the room's; a late
message of the socket before needs two sockets. Versions are bounded by what
those events can produce. *Finalizer:* a slow holder and its successor are two
gateways; three frames in batches of two are a full batch and a short one, so
that frames can vanish between them; versions 1, 2 and 4 make a version and a
place in the file different things; two failures let both gateways fail, or
one die and the other fail. *Matchmaking:* a decline matters to three players
(who declined, who is left, who comes next); three rooms are an opener, an
offer and one more; seven moves hold two searches, two acceptances and three
moves against the handler that ends them, or three searches, an ended offer and
three moves against its handlers. Players and rooms are interchangeable, hence the
symmetry. A room code is never used again. *Presence:* two sockets are an old
and a new connection of one player, or a player and a watcher; a socket is used
again when its lease is gone. A timeout of one tick tells fresh from stale, a
delay of one tick due from not due; two handlers at a time make the pairs the
hazards are about, with the sweep and a batch of heartbeats besides. *Engine:*
games are of any length, since the fuel is per turn. Three is enough for an
attack that leaves the chain while a trigger waits and a choice is open, for a
queued attack under a trigger of the other player, and for a link with go again
whose wager asks; with one and with two the properties hold as well. Rules on
the number of cards, of life or of targets do not occur, so the fuel is the
only bound.

Deadlock is not checked where the bounds of a run end it (`RoomHistory`,
`RoomFanout`: every version is used up; `Matchmaking`: every move is made) or
the work is done (`ReplayFinalizer`: the recording is deleted; `Presence`: the
room is); in `RoomCommands` and `GameFlow` it is checked.

**Fairness.** `RoomCommands`: strong fairness of a handler's own steps, because
PostgreSQL queues waiters on a row so that nobody is overtaken for ever, and
weak fairness of `Deadlock`, because the server runs its detector on any wait
longer than `deadlock_timeout`. Clients need not send, gateways need not crash,
receipts need not be swept. `RoomFanout`: weak fairness of `Poll` (a timer that
rearms itself), of `Work` (a handler that is awaited finishes) and of `Receive`
(TCP delivers while the socket is up). No transaction is assumed to commit.
`ReplayFinalizer`: weak fairness of a gateway's `Drain` (a loop of awaits), of
`Maintain` (a timer that rearms itself) and `Start` (whoever runs the service
starts a dead process again), of `LeaseRunsOut` and `RetryDue` (time passes).
Failures and deaths are bounded: without an end of them nothing gets done.
`Presence`: weak fairness of the sweep of a gateway of the room's ruleset (a
timer that rearms itself) and of time. Nothing is asked of handlers, which may
hang wherever they are, nobody need come back, and a socket need not send
heartbeats. `GameFlow`: weak fairness of `Engine \/ Respond`: the engine
runs to its end, and a player who has to decide in the end passes or answers.
The engine alone is justified by the code (it is synchronous); that players
respond is a premise of `TurnsEnd`, as a game with a player who does nothing
ends by the idle claim. Nobody need play, attack, activate or concede.

## What disagrees

* `preference_lost`: `persistSeatPreferences` writes all four preference
  columns of a row and a preference change alone does not move the version. A
  command that loaded the row before and drops the seat's expired latch writes
  the old mode back. The player set a mode, was told so, and the mode is gone.
* `undo_turn_start`: after an undo has moved back a turn, the rows the cap
  removed of that turn are missing, and the oldest row left is offered as the
  start of the turn. For the same reason an undo of the last action past the
  cap jumps to a kept turn start.
* `event_gap`: the cursor reads `id > cursor`; an event inserted earlier but
  committed later is never read by that gateway. A refresh lost this way is made
  up for by the next one, or by nothing.
* `presence_abandoned`: the sweep looks at players' leases, a heartbeat clears
  the deadline for any lease. A spectator who stays keeps a room that both
  players have left.

What the models show beyond the runs, each found by stating it as a property
and reading TLC's counterexample:

* The shortcuts that run on a restored state may end the game; the path of undo
  writes no match record and no frame for it.
* The broadcast of a rejoin reads the room and waits before it sends. A
  presence broadcast that reads a later version may be sent in between; the
  client's gate then drops the state it is waiting for as old, and the player
  keeps the board of before.
* A spectator whose departure meets a crash or a conflict keeps his row in
  `rooms.spectators`, and counts against `MAX_SPECTATORS`, until the room goes.
* `markPresentBatch` stamps leases and then clears deadlines; a room deleted in
  between makes one foreign key fail the statement for every socket of the
  batch. And a command that loaded a deadline already over writes it back over
  the heartbeat that had just cleared it.

In the engine (`packages/engine/src`):

* `activateWindowAbility` (reactions.ts:517) returns after placing a cost's
  triggers, before `cancelEndActionPass`. The two passes that resolve the
  ability then also end the turn, although triggers.ts:510 says activating in
  that window "cancels that proposal".
* `continueStack` (triggers.ts:1797) starts queued attacks for the seat it was
  given, the controller of the layer that resolved last. If that is the
  opponent, the turn player's queued attack does not start; it stays in the
  queue through the action phase and may start in the end phase, while
  packages/engine/DESIGN.md:144 says a queued attack becomes the next chain link after the
  current attack. Likewise if `finishLinkResolution` waits for a choice: the
  continuation `after-resolution` starts nothing.
* `finishReactionPlay` (reactions.ts:844) opens the window over a choice that
  an observer of the play has opened, which `continueStack` takes care never to
  do; so does `finishLinkResolution` with wagers when `finishDamageStep` passes
  it an open choice.
* When closing the chain opens a choice, the `close-chain` intent, the reaction
  window's branch for an attack that is gone, and Phantasm leave the triggers
  raised by the closing pending in a bare action phase, until something else
  calls `continueStack`.
* A link whose source left the arena has `goAgain` cleared ("no refund",
  damage.ts:425), but `beginLinkResolutionStep` may grant a conditional one
  again at once.

## Proofs

`RoomCommandsProofs` proves, for any set of commands, of gateways, any retry
limit and any recorded preferences:

| Theorem | Says |
| --- | --- |
| `TypeCorrect` | `Spec => []TypeOK` |
| `Invariance` | `Spec => []IInv` |
| `NoLostUpdate` | `Spec => []NothingLost` |
| `ExactlyOnce` | `Spec => []AtMostOnce` |
| `HonestAnswers` | `Spec => []AnswersHonest` |
| `ImplementsLog` | `Spec => LogSpec`: every step is a step of `RoomLog` or a stutter |

They rest on `CommandsAssumption` alone: the constants have their types.

The argument. None of the three invariants is inductive. That `Commit` may
write `merged` whole needs that what the attempt loaded is still all there is;
it is, because the holder of the room row saved on the current version
(`SaveIsCurrent`), nobody else moves the version while the row is held, and an
attempt whose loaded version is current saw everything of it (`SeenAtBase`).
That no command is in the log twice needs more than receipts, which are swept:
a command sits directly after the version it expected (`InItsPlace`), `Compute`
checks that version, an attempt keeps it (`BaseExpected`), so a second commit
would need the room to be back on an old version. That a repeated answer is
true is a property of the receipts (`ReceiptsHonest`). `IInv` is the
conjunction; TLC checks it in the run `commands`. The proof that a step keeps
it has one lemma per group of actions and one step per conjunct that the action
can disturb. For the refinement, `Commit` is `LCommit` (the loaded version is
the expected one and the length of the log), `Duplicate` is `LRepeat`,
`OtherCommit` is `LOther`, `Issue` is `LIssue`, the rest stutters.

`ReplayFinalizerProofs` proves, for any number of gateways and frames, any
batch size and any number of failures:

| Theorem | Says |
| --- | --- |
| `TypeCorrect` | `Spec => []TypeOK` |
| `Invariance` | `Spec => []IInv` |
| `WonReplaysWhole` | `Spec => []ReadyIsWhole` |
| `NotesKept` | `Spec => []NotesStay` |

They rest on `FinalizerAssumption`: versions are a finite set of numbers, the
earning view is one of them, the batch is not empty, and nobody and dead are
no gateways.

The argument. `ReadyIsWhole` survives a second writing only because whoever is
about to write a won game's file has every frame in hand (`WritesWhole`). That
follows when it starts to write: its frames show the winner, so the last one is
among them, and what is read in order has no gap (`ReadsInOrder`), because the
frames are either all there or all gone (`FramesWhole`). It still follows later,
because the winner is fixed before anybody starts (`Untouched`). The lemma
`BatchInOrder` is the step from frames in batches to reads without a gap.
`NotesStay` needs `NotesByVersion`: until there is a file, a note is keyed by the
version of its view, so the write that re-keys it finds its frame; and as the
file of a won game has every frame, a second write finds the same places.

`PresenceProofs` proves, for any players, watchers and sockets, any timeout and
delay, any spectator limit and any number of handlers at work at once:

| Theorem | Says |
| --- | --- |
| `TypeCorrect` | `Spec => []TypeOK` |
| `Invariance` | `Spec => []IInv` |
| `FinishedRoomsGo` | `Spec => FinishedDeadlineStays` |
| `UsedRoomsStay` | `Spec => UsedRoomStays` |

They rest on `PresenceAssumption`: nobody is a player and a watcher, and the
constants are numbers, timeout and delay not zero.

The argument. A handler writes back a whole row it loaded earlier, so what the
room's row says tells nothing without the rows still to be written. `RowsHonest`
says of each of them that it brings no finished game back, that it moves the
deadline of a finished one neither out nor away, and that a deadline it keeps
has been running as long as nobody has played. It survives another handler's
save because that save outdates every other row, and a tick because time passes
for the row's deadline as it does for the room's. `DeadlineFair` says of the
room what the last part says of the rows: a running game's deadline was armed
no later than the last command that found a player there. When it is over, the
delay has passed since, and if it was in use at any moment up to then, the
second look sees it (`UsedRoomsStay`). `IInv` is `TypeOK` and these two;
one lemma per kind of step (loading, saving, ending, arming, a tick, the quiet
ones) shows that it stays.

`RoomHistoryProofs` proves, for any cap, any number of turns and versions and
any turn skip:

| Theorem | Says |
| --- | --- |
| `TypeCorrect` | `Spec => []TypeOK` |
| `Invariance` | `Spec => []IInv` |
| `BoundedHistory` | `Spec => []HistoryBounded` |
| `UndoOnLine` | `Spec => []HistoryOnLine` |
| `TrueTurnStarts` | `Spec => []TurnStartsKeptForward` |
| `RecordingIsLine` | `Spec => []ReplayIsLine` |
| `HonestTransition` | `Spec => []TransitionHonest` |
| `StaysFinished` | `Spec => FinishedStays` |

They rest on `HistoryAssumption`: the constants are numbers, the cap, the turns
and the versions not zero.

The argument. That a row is on the line of play says nothing of what an undo to
another row leaves of it. `RowsCut` says more: a row cuts the line, at the very
version that replaced its state. Two rows then cut it in the order of their
versions, so an undo to one keeps exactly the rows before it, and they cut the
line that is left (`ShorterPrefix`). `LineGrows` is what makes versions and
places on the line agree. For the turn starts, `TurnsAlong` says that turns do
not go back along the rows, kept or dropped, and `StartsKept` that what was
dropped of the two latest turns left an older row of its turn behind; both
survive pruning because of what `Retained` keeps of any set of rows
(`OneTurnStart` and its neighbours, which also give the bound). The rest of
`IInv` ties the replay's status and the match record to the end of the game.

`RoomFanoutProofs` proves, for any number of versions, events and sockets, any
batch size, and events that overtake each other or not:

| Theorem | Says |
| --- | --- |
| `TypeCorrect` | `Spec => []TypeOK` |
| `Invariance` | `Spec => []IInv` |
| `NeverBack` | `Spec => BoardForward` |
| `RefreshIsShown` | `Spec => []RefreshShown` |

They rest on `FanoutAssumption` alone.

The argument. The gate drops what is older than the newest it let pass, but a
join opens it again. So it is not the gate alone that keeps the board in order:
wherever an older state would pass, none is on its way (`NothingOlder`), and
none comes behind an acknowledgement (`NothingOlderBehindJoin`). On its way
means in the socket's messages, in a broadcast that has read the room, or in a
join that has (`Coming`). The one broadcast that can be in flight when the gate
opens is the consumer's, and it is not behind anything before it
(`InOrderBeforeJoin`). For the refresh, `Covered` says where it can be: on the
board, in the consumer's batch, in its broadcast, or in a message that the gate
will not drop, whatever is before it; every step of consumer, socket and client
hands it from one to the next.

`MatchmakingProofs` proves, for any finite sets of players and rooms and any
number of moves and lost handlers:

| Theorem | Says |
| --- | --- |
| `TypeCorrect` | `Spec => []TypeOK` |
| `Invariance` | `Spec => []IInv` |
| `MatchedOnce` | `Spec => []NoDoubleBooking` |
| `RowIsSeats` | `Spec => []OfferAgrees` |
| `AcceptedStop` | `Spec => []SearchEnds` |
| `TablesAgree` | `Spec => [](IInv /\ (Orderly => Steady))` |
| `DeclinedForGood` | `Spec => []NeverAgain` |
| `SeekersPlaced` | `Spec => []NoneStranded` |
| `WishesHeld` | `Spec => [](IInv /\ (Orderly => Steady /\ Wishes))` |

They rest on `MatchmakingAssumption`: players and rooms are finite sets and
different things, and NULL is neither of them nor a row. `TypeOK` says more than types: no room has three seats taken,
and no search and no offer names a room that is gone, although a handler writes
names it read transactions ago. `IInv` adds what handlers have yet to run. Each
table has lemmas of its own for the ways it changes (a room changes, rooms are
deleted with what names them, an offer is over), each action one lemma that
puts them together.

The argument for the next three. That nobody is matched twice does not follow
from itself: a pairing looks for a search without an offer, so it has to be
known that whoever sits in a match has no such search, whatever handlers have
read before. `Steady` says so. Per room (`RoomWell`): a match marks the searches
of its players, and a marked search waits in that room and is in the offer's
row (`MarksAgree`); a row is of the two who sit there, unless somebody just left
(`RowAgrees`); whoever waits in a room sits there and came by the queue, unless
he just left (`SeatsAgree`); a deadline is of a match, and an offer both have
accepted has a handler under way that ends it (`ClockAgrees`). Per
handler (`HandlersWell`): whom it will queue again for a room still has his seat
there (`LineWell`), and after somebody left, the survivor's search is the
handler's to move (`LeftWell`) and no other handler's (`Apart`). The last two
are what fails when a handler is overtaken or lost: the exceptions above are the
ways to break `Steady`, not a convenience. Each action's lemma has a step for
the room it changes, one for the other rooms, one for matches and one for the
handlers under way; `RoomFrame`, `TaskFrame` and `HandlersStep` say what an
action need not touch for these to be kept. A pairing is taken apart once
(`PairOf`): its room is nobody else's, no handler is about to act there, and
what is deleted with the openers is nobody's match.

The argument for the last two. What a player wants is in no table, so `Wishes`
relates the ghosts to the tables and to the handlers, on top of `Steady`.
`SeekersKnown` is the heart: whoever wants a match is `Placed` or in the line of
a handler that will queue him. A handler must then not drop him:
`LinesTimely` says that nobody is in line for a room that went into a game and
still wants a match (his requeue would wait there for good), `SweepKnows` that
the sweep, which queues only whom it read, read both searches of an offer it
will end, and `LeaverStops` that a leave's handler ends the search of somebody
who stopped, and has the other one in line if there was an offer.
`AcceptersStop` says that who accepted on both sides want no other match, so
that nobody is missed when their searches end. A queueing transaction serves the
player it is for, in four ways (`Serves`): he has a match, his opener is still
there, he waits, he meets somebody; `QueueServes` puts them together for both
actions that queue. For declines, `SpurnsKept` says that whom a player declined
is in his search's `avoid`, that the search is there, and that he sits where it
waits: without the last, a room deleted with the openers would take the search
with it by the foreign key, and what it avoids. `AskedAnew` is `NeverAgain`
itself.

`GameFlowProofs` proves, for any budget of scripted effects, in games of any
length:

| Theorem | Says |
| --- | --- |
| `TypeCorrect` | `Spec => []TypeOK` |
| `Invariance` | `Spec => []IInv` |
| `WaitsForSomebody` | `Spec => []NeverStuck` |
| `CleanReturn` | `Spec => []NothingLeftBehind` |
| `PassedOver` | `Spec => []AnnouncedWaits` |
| `PaysOnce` | `Spec => []GoAgainOnce` |
| `StrikesOnce` | `Spec => []DamageOnce` |

They rest on `BudgetAssumption` (a number) and `NoneAssumption` (no link is not
a link).

The argument. The procedures tail-call each other, so the invariant is a
contract for each of them: `Ready` says what must hold of the state when it is
called, `Settled` what must hold where the game waits for a decision, so that
the procedure the answer calls finds its contract kept. Each action is then one
lemma: it leaves the contract of what it calls next. What all contracts share
is `Sound`: the types; `Combat`, that the unresolved link and the step the stack
goes on with belong together; `Unannounced`, that nothing a player announced is
on the stack in a phase without priority; and `Owes`, an account of go again,
with the turn's own action point still to come (`Due`), the link's (`Unpaid`)
and what scripts may still add (`fuel`). `Steady` says besides that no combat
step is half done while the stack has layers; that is what fails if a step sets
`phase` and not `resume`, or the other way round.

`Counting` has the lemmas on finite sets of numbers that these use: least and
greatest elements, ranks, and as many places as members.

Only model-checked: liveness (`RequestsEnd`, `CatchesUp`, `Settles`,
`RoomsEnd`, `TurnsEnd`), because the provers do not reach it. Every other
property of a passing run has its theorem.

## Not modelled

Cards: `GameFlow` takes what any script may do to the flow as a choice, a model
of over a thousand cards would restate them. Of the engine: costs, numbers,
targets and legality; the order of simultaneous triggers as a decision, hidden
triggers, trigger batches that are counted, layers resolved inline in the start
and the end phase, meld and spectra, defense abilities, costs declared in steps,
attacks by the player whose turn it is not, token skips, draw offers. Each adds
a decision or a layer of a kind that is there.

Bots' search, rendering, accounts and the other single-row HTTP requests, the
decoding of stored JSON and migrations: functions or requests without a
protocol. In what is modelled: views before the game, the repair of legacy
history rows, the events of other components (they occur as `BeginOther`), the
hourly sweep of consumed events; in matchmaking, searches from bot practice,
card pools, heroes and decks, who is connected, the order of the queue, the
choices of the preparation before a game, league rooms; in presence, when
exactly a search or a league match needs a room (it may at any time while the
room is not finished, and a finished room is never waited in), rooms that end
otherwise (an opener merged into another or withdrawn, the rooms a cutover
removes), the release of bot rooms and the announcements of a change, which
`RoomFanout` has as events; in the engine, Unique's choice over a decision.

Smaller hazards that no module reaches and the list leaves out: a delayed
duplicate of a version-neutral command sets its preference again
(store.ts:1524), a search that opens a room is no candidate until its socket's
presence is stored (index.ts:1040), `leaveMatchmaking` reads the format before
it locks it (store.ts:2365), the idle claim's clock (store.ts:1049), the
browser recorder's own versions (recorder.ts:130), a player's search begun
while an older handler deletes by account (index.ts:1285).

## Plan

1. `Matchmaking`, more of it: searches from bot practice and pending bot
   starts; who is connected, from `Presence`.
2. `ClientPipeline`: pending commands, resends, what the client decides on
   while the gate is ahead of its board; the recorder's frames.
3. `LeagueSeason`: the worker against members; bracket and overdue rules as
   pure operators, compared with a reference definition.
4. `GameFlow`, more of it: hidden and optional triggers in one order decision,
   spectra, meld.
5. `RulesetFence`, `IdleClaim`: small, at the end.
