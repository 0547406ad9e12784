----------------------------- MODULE RoomHistory -----------------------------
(***************************************************************************)
(* What the commits of one room leave behind for undo, for the replay and  *)
(* for the clients (apps/server/src/store.ts and replays.ts): the rows of  *)
(* room_history, the rows of replay_frames, the room's last transition and *)
(* the match record.  One action is one committed command; that commits    *)
(* form one linear log is what RoomCommands shows.                         *)
(*                                                                         *)
(* A game state is abstracted to the line of play that led to it: the       *)
(* versions that produced it and its ancestors, its own last.  What the    *)
(* rules engine does is left open: a step leads to a new state, on this    *)
(* turn or a later one, which may be the end of the game.                  *)
(***************************************************************************)
EXTENDS Integers, Sequences, SequencesExt, FiniteSets

CONSTANTS Cap,         \* HISTORY_CAP: snapshots kept besides turn starts
          MaxTurn,     \* bound: turns
          TurnSkip,    \* bound: turns one commit may pass through
          MaxVersion   \* bound: room versions

ASSUME HistoryAssumption ==
  /\ Cap \in Nat \ {0} /\ MaxTurn \in Nat \ {0}
  /\ TurnSkip \in Nat /\ MaxVersion \in Nat \ {0}

VARIABLES
  phase,       \* "playing", "over", or "deleted" with its row
  version,     \* rooms.version
  game,        \* rooms.state: its line, its turn, the seat to act
  history,     \* room_history: the snapshot and the version that replaced it
  frames,      \* replay_frames: the versions that have a frame
  replay,      \* replay_games.status, "none" once the recording is discarded
  transition,  \* rooms.last_transition
  matches,     \* match history: the end reasons recorded for this game
  botRoom,     \* whether seat 1 is a bot
  lineAt,      \* ghost: the line of the state each version committed
  silent,      \* ghost: versions whose state an undo's own shortcuts produced
  dropped,     \* ghost: rows the cap removed and no undo would have
  reached      \* ghost: the latest turn any state was on

vars == <<phase, version, game, history, frames, replay, transition, matches,
          botRoom, lineAt, silent, dropped, reached>>

HumanSeat == 0
BotSeat   == 1
Actors    == IF botRoom THEN {HumanSeat, BotSeat} ELSE {HumanSeat}
Targets   == {"last-action", "current-turn", "previous-turn"}
Later(a, b) == IF a > b THEN a ELSE b

Game == [line : Seq(1 .. MaxVersion), turn : 1 .. MaxTurn, actor : {0, 1}]
Row  == [version : 1 .. MaxVersion, game : Game]

TypeOK ==
  /\ phase \in {"playing", "over", "deleted"}
  /\ version \in 1 .. MaxVersion
  /\ game \in Game
  /\ \A r \in history \cup dropped : r \in Row
  /\ frames \subseteq 1 .. MaxVersion
  /\ replay \in {"none", "recording", "finalizing"}
  /\ transition \in [from : Nat, kind : {"none", "forward", "replace"}, restore : Nat]
  /\ matches \in Seq({"played", "claimed-idle", "ended"})
  /\ botRoom \in BOOLEAN
  /\ lineAt \in Seq(Seq(1 .. MaxVersion)) /\ Len(lineAt) = version
  /\ silent \subseteq 1 .. MaxVersion
  /\ reached \in game.turn .. MaxTurn

\* The game has just started: startReplay wrote its first frame.
Init ==
  /\ botRoom \in BOOLEAN
  /\ phase = "playing" /\ version = 1
  /\ \E a \in Actors : game = [line |-> <<1>>, turn |-> 1, actor |-> a]
  /\ history = {} /\ dropped = {}
  /\ frames = {1} /\ replay = "recording"
  /\ transition = [from |-> 0, kind |-> "none", restore |-> 0]
  /\ matches = <<>>
  /\ lineAt = <<<<1>>>> /\ silent = {} /\ reached = 1

----------------------------------------------------------------------------

\* The states the engine may lead to from g, committed as the next version;
\* a bot or a pass-until latch can pass through a turn on the way.
Outcomes(g) ==
  {[line |-> Append(g.line, version + 1), turn |-> t, actor |-> a]
     : t \in {u \in g.turn .. g.turn + TurnSkip : u <= MaxTurn}, a \in Actors}

Newest(rows) == {r \in rows : Cardinality({q \in rows : q.version > r.version}) < Cap}

TurnStart(rows, turn) ==
  {r \in rows : /\ r.game.turn = turn
                /\ \A q \in rows : q.game.turn = turn => r.version <= q.version}

\* Mutant: retains the start of the running turn alone.
RetainedThisTurn(rows, turn) ==
  IF Cardinality(rows) <= Cap THEN rows ELSE Newest(rows) \cup TurnStart(rows, turn)

\* Mutant: retains the start of every turn.
RetainedAllTurns(rows, turn) ==
  IF Cardinality(rows) <= Cap THEN rows
  ELSE Newest(rows) \cup UNION {TurnStart(rows, t) : t \in 1 .. turn}

\* saveSnapshot's pruning, turn being that of the state just committed.
Retained(rows, turn) ==
  IF Cardinality(rows) <= Cap THEN rows
  ELSE Newest(rows) \cup TurnStart(rows, turn) \cup TurnStart(rows, turn - 1)

\* The commit of the next version, with state g.
CommitGame(g) ==
  /\ version' = version + 1
  /\ game' = g
  /\ lineAt' = Append(lineAt, g.line)
  /\ reached' = Later(reached, g.turn)

\* Mutant: the row goes under the version of an earlier commit.
SnapshotEarly(g) ==
  LET rows == history \cup {[version |-> version - 1, game |-> game]}
  IN  /\ history' = Retained(rows, g.turn)
      /\ dropped' = dropped \cup (rows \ Retained(rows, g.turn))

\* The state before the command goes to room_history.
Snapshot(g) ==
  LET rows == history \cup {[version |-> version + 1, game |-> game]}
  IN  /\ history' = Retained(rows, g.turn)
      /\ dropped' = dropped \cup (rows \ Retained(rows, g.turn))

NoSnapshot == UNCHANGED <<history, dropped>>

\* appendReplayView: the frame of the next version; the last one closes the
\* recording.  A view that cannot be projected discards the recording.
Frame(ends) ==
  \/ /\ replay = "recording"
     /\ frames' = frames \cup {version + 1}
     /\ replay' = IF ends THEN "finalizing" ELSE "recording"
  \/ replay = "recording" /\ replay' = "none" /\ frames' = {}
  \/ replay # "recording" /\ UNCHANGED <<replay, frames>>

\* withRetry around a mutation that advances the game.
Advance(snapshot) ==
  /\ phase = "playing"
  /\ \E g \in Outcomes(game), ends \in BOOLEAN :
        /\ CommitGame(g)
        /\ IF snapshot THEN Snapshot(g) ELSE NoSnapshot
        /\ Frame(ends)
        /\ phase' = IF ends THEN "over" ELSE "playing"
        /\ matches' = IF ends THEN Append(matches, "played") ELSE matches
  /\ transition' = [from |-> version, kind |-> "forward", restore |-> 0]
  /\ UNCHANGED <<botRoom, silent>>

\* A player's intent; staging defenders and verified automatic passes write
\* no snapshot.
ApplyIntent == \E snapshot \in BOOLEAN : Advance(snapshot)

\* The bot's intent, computed in the human's browser.
ApplyBotIntent ==
  /\ botRoom /\ game.actor = BotSeat
  /\ \E snapshot \in BOOLEAN : Advance(snapshot)

\* Arming a pass-until latch that answers the window at once.
SetPassUntil == Advance(TRUE)

\* A priority mode, a standing order or a token skip that acts at once.
ChangePreference == Advance(FALSE)

\* Nobody acted for too long: the other player ends the game.
ClaimVictory ==
  /\ phase = "playing"
  /\ LET g == [game EXCEPT !.line = Append(@, version + 1)]
     IN  CommitGame(g) /\ Snapshot(g)
  /\ Frame(TRUE)
  /\ phase' = "over"
  /\ matches' = Append(matches, "claimed-idle")
  /\ UNCHANGED <<transition, botRoom, silent>>

\* The row an undo restores: the newest (that the requesting human chose in,
\* against a bot), or the oldest one left of the turn asked for.
Selected(target) ==
  LET choices == {r \in history : botRoom => r.game.actor = HumanSeat}
  IN  CASE target = "last-action" ->
             {r \in choices : \A q \in choices : q.version <= r.version}
        [] target = "current-turn"  -> TurnStart(history, game.turn)
        [] target = "previous-turn" -> TurnStart(history, game.turn - 1)

\* Mutant: the row of the undone action stays.
RowsUpTo(rows, v) == {q \in rows : q.version <= v}

\* DELETE FROM room_history WHERE version >= v.
RowsBefore(rows, v) == {q \in rows : q.version < v}

\* Mutant: the frame of the undone action stays.
FramesUpTo(v) == IF replay = "recording" THEN {f \in frames : f <= v} ELSE frames

\* pruneReplayFramesFrom: only a recording is pruned.
FramesBefore(v) == IF replay = "recording" THEN {f \in frames : f < v} ELSE frames

\* Mutant: points at the undone action's own version.
RestoreUndone(r) == r.version

\* The version whose state the clients are told to go back to.
RestoreVersion(r) == r.version - 1

\* Mutant: a finished game can be undone.
UndoAnyTime == phase # "deleted"
\* "game is already over".
UndoAllowed == phase = "playing"

\* The server's shortcuts run on the restored state: it stays, or it leads
\* on to another state, written without a frame.
Undo ==
  /\ UndoAllowed
  /\ \E target \in Targets : \E r \in Selected(target) :
     \E g \in {r.game} \cup Outcomes(r.game), ends \in BOOLEAN :
        /\ ends => g # r.game
        /\ CommitGame(g)
        /\ history' = RowsBefore(history, r.version)
        /\ dropped' = RowsBefore(dropped, r.version)
        /\ frames' = FramesBefore(r.version)
        /\ transition' = [from |-> version, kind |-> "replace",
                          restore |-> RestoreVersion(r)]
        /\ silent' = IF g = r.game THEN silent ELSE silent \cup {version + 1}
        /\ phase' = IF ends THEN "over" ELSE "playing"
  /\ UNCHANGED <<replay, matches, botRoom>>

\* Presence, spectators: a version that leaves the game alone.
Bump ==
  /\ phase # "deleted"
  /\ CommitGame(game)
  /\ UNCHANGED <<phase, history, frames, replay, transition, matches, botRoom,
                 silent, dropped>>

\* The human ends a game against the bot: the row goes, its history cascades.
DeleteBotRoom ==
  /\ botRoom /\ phase # "deleted"
  /\ CommitGame(game)
  /\ phase' = "deleted"
  /\ history' = {} /\ dropped' = {}
  /\ replay' = IF replay = "recording" THEN "finalizing" ELSE replay
  /\ matches' = IF phase = "playing" THEN Append(matches, "ended") ELSE matches
  /\ UNCHANGED <<frames, transition, botRoom, silent>>

Next ==
  /\ version < MaxVersion
  /\ \/ ApplyIntent \/ ApplyBotIntent \/ SetPassUntil \/ ChangePreference
     \/ ClaimVictory \/ Undo \/ Bump \/ DeleteBotRoom

Spec == Init /\ [][Next]_vars

----------------------------------------------------------------------------
(* Properties.                                                             *)

\* Snapshots do not pile up: the newest Cap and two turn starts at most
\* (saveSnapshot: "This bounds history at HISTORY_CAP + 2").
HistoryBounded == Cardinality(history) <= Cap + 2

\* Undo only ever goes back along the line of play the room is on: a row that
\* another undo invalidated is gone, the rows are in the order of the line,
\* and each holds the state the version before it had.
HistoryOnLine ==
  /\ \A r \in history : /\ IsStrictPrefix(r.game.line, game.line)
                        /\ lineAt[r.version - 1] = r.game.line
  /\ \A q, r \in history :
        q.version < r.version => IsStrictPrefix(q.game.line, r.game.line)

TurnStartsKept ==
  \A r \in dropped : r.game.turn \in {game.turn, game.turn - 1} =>
     \E q \in TurnStart(history, r.game.turn) : q.version < r.version

\* As long as no undo has left a turn, both turn-start controls find the true
\* first snapshot of the turn, however many actions the turns had
\* (saveSnapshot, "even when either turn contains more than 20 actions").
TurnStartsKeptForward == reached = game.turn => TurnStartsKept

\* The recording is the line of play: every state of it has its frame, no
\* undone state has one; only what an undo's shortcuts produced has none.
ReplayIsLine ==
  replay \in {"recording", "finalizing"} => frames = Range(game.line) \ silent

\* A client that is sent the transition is told the truth: it leads from the
\* version before to this one, or back to the restoreVersion's state
\* (stateMessage attaches it when fromVersion = version - 1).
TransitionHonest ==
  transition.from = version - 1 /\ phase # "deleted" =>
    CASE transition.kind = "forward" ->
           game.line = Append(lineAt[version - 1], version)
      [] transition.kind = "replace" ->
           game.line \in {lineAt[transition.restore],
                          Append(lineAt[transition.restore], version)}
      [] OTHER -> TRUE

\* A game is recorded in the match history once, and from then on it stays
\* finished and its replay complete, whatever commands are still on the way.
FinishedStays ==
  [][matches # <<>> =>
       /\ matches' = matches /\ phase' # "playing"
       /\ frames' = frames /\ replay' = replay]_vars

\* undo: "rewind to an available turn-start snapshot": what is left of a turn
\* is never taken for its beginning.
TurnStartExact ==
  \A r \in dropped : r.game.turn \in {game.turn, game.turn - 1} =>
     \A q \in TurnStart(history, r.game.turn) : q.version < r.version
============================================================================
