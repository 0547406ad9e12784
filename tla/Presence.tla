------------------------------ MODULE Presence ------------------------------
(***************************************************************************)
(* Who is in a room and when the room goes (apps/server/src/store.ts and   *)
(* index.ts): the leases of room_presence, the deadline rooms.gc_at, the   *)
(* rows of spectators, the sockets that stamp and remove them and the      *)
(* sweep that deletes.  One room is modelled, from its creation on.        *)
(*                                                                         *)
(* Every statement outside a transaction is an action of its own.  A room  *)
(* command is two: it loads the row and computes the one it will write,    *)
(* and it writes it if no version lies in between.                         *)
(*                                                                         *)
(* Time is kept as ages and as what is left until a deadline, both capped  *)
(* where the code stops telling values apart, so that no bound on the      *)
(* clock is needed.  A player's lease has his token: the newest socket     *)
(* that joined for him owns the seat, since a join rotates the token.      *)
(***************************************************************************)
EXTENDS Integers, FiniteSets

CONSTANTS Player,         \* the seated players
          Watcher,        \* browsers that may watch
          Sockets,        \* bound: sockets at a time; one is used again, by
                          \* anyone, when its lease is gone
          Timeout,        \* PRESENCE_TIMEOUT_MS, in ticks
          Delay,          \* GC_DELAY_MS, in ticks
          MaxSpectators,  \* MAX_SPECTATORS
          MaxRunning      \* bound: handlers at work at a time

ASSUME PresenceAssumption ==
  /\ Player \cap Watcher = {}
  /\ Sockets \in Nat
  /\ Timeout \in Nat \ {0} /\ Delay \in Nat \ {0}
  /\ MaxSpectators \in Nat /\ MaxRunning \in Nat

VARIABLES
  alive,      \* the rooms row exists
  finished,   \* rooms.status = 'finished'
  gcAt,       \* rooms.gc_at: ticks left, or Never
  watchers,   \* rooms.spectators
  token,      \* room_seats: the socket that has the seat's token
  lease,      \* room_presence: the age of a socket's row, or NoLease
  who,        \* whose socket it is, or was
  pc,         \* a socket's join: "off", "joining", "attaching", "open"
  closed,     \* ctx.closed, while its join is under way
  batch,      \* where markPresentBatch is, for a socket
  leaving,    \* where markAbsent is, for a socket
  write,      \* the row a command on the room is about to write
  sweep,      \* where sweepRooms is
  inUse,      \* a background search waits in the room, or its league match
              \* is open: the sweep leaves it alone
  quiet       \* ghost: ticks since a command that found a player in the
              \* running game was committed

vars == <<alive, finished, gcAt, watchers, token, lease, who, pc, closed,
          batch, leaving, write, sweep, inUse, quiet>>

room   == <<alive, finished, gcAt, watchers, token, inUse>>
flow   == <<who, pc, closed, batch, leaving>>

Never     == -1
NoLease   == -1
Sock      == 1 .. Sockets
NoSock    == 0
NoWrite   == [kind |-> "none"]
Outdated  == [kind |-> "outdated"]
Row       == [kind : {"join", "play", "leave"}, gcAt : -1 .. Delay,
              watchers : SUBSET Watcher, finished : BOOLEAN]

Plays(s)  == who[s] \in Player

\* Types; and no deadline is further away than the delay.
TypeOK ==
  /\ alive \in BOOLEAN /\ finished \in BOOLEAN
  /\ gcAt \in -1 .. Delay
  /\ watchers \subseteq Watcher
  /\ token \in [Player -> 0 .. Sockets]
  /\ lease \in [Sock -> -1 .. Timeout]
  /\ who \in [Sock -> Player \cup Watcher]
  /\ pc \in [Sock -> {"off", "joining", "attaching", "open"}]
  /\ closed \in [Sock -> BOOLEAN]
  /\ batch \in [Sock -> {"idle", "valid", "stamped", "disarmed"}]
  /\ leaving \in [Sock -> {"no", "lease", "member", "absent"}]
  /\ write \in [Sock -> Row \cup {NoWrite, Outdated}]
  /\ sweep \in {"idle", "arming", "doomed"}
  /\ inUse \in BOOLEAN
  /\ quiet \in 0 .. Delay

\* createRoom arms the deadline up front, for a creator who never attaches.
\* A room may be made for a league match.
Init ==
  /\ alive = TRUE /\ finished = FALSE
  /\ gcAt = Delay
  /\ watchers = {}
  /\ token = [p \in Player |-> NoSock]
  /\ lease = [s \in Sock |-> NoLease]
  /\ \E m \in Player : who = [s \in Sock |-> m]
  /\ pc = [s \in Sock |-> "off"]
  /\ closed = [s \in Sock |-> FALSE]
  /\ batch = [s \in Sock |-> "idle"]
  /\ leaving = [s \in Sock |-> "no"]
  /\ write = [s \in Sock |-> NoWrite]
  /\ sweep = "idle"
  /\ inUse \in BOOLEAN
  /\ quiet = 0

----------------------------------------------------------------------------
(* Reading the room.                                                       *)

\* isPresent.
Live(s) == lease[s] # NoLease /\ lease[s] < Timeout

\* Whether the socket's token is one of the room's.
Member(s) == IF Plays(s) THEN token[who[s]] = s ELSE who[s] \in watchers

\* loadRoom shows a seat the newest lease of its token, so only of the
\* socket that owns it; the statements on room_presence ask for any seat.
SeatPresent     == \E s \in Sock : Plays(s) /\ Member(s) /\ Live(s)
AnyPlayerLease  == \E s \in Sock : Plays(s) /\ Live(s)

\* A spectator row's lastSeenAt is 0 when it has no lease row.
Kept(w) ==
  LET rows == {s \in Sock : who[s] = w /\ lease[s] # NoLease}
  IN  rows = {} \/ \E s \in rows : Live(s)

\* What runs for a socket: its join, a heartbeat, its leave, an intent.
Joining(s) == pc[s] \in {"joining", "attaching"}
Running(s) == Joining(s) \/ batch[s] # "idle" \/ leaving[s] # "no" \/ write[s] # NoWrite
MayStart   == Cardinality({s \in Sock : Joining(s) \/ batch[s] # "idle"})
              + Cardinality({s \in Sock : leaving[s] # "no"})
              + Cardinality({s \in Sock : write[s] # NoWrite /\ pc[s] = "open"})
              < MaxRunning

\* Mutant: each command puts the deadline off.
DeadlineExtended(over, present, old) ==
  IF over \/ ~present THEN IF old = Never THEN Delay ELSE old + Delay
  ELSE Never
\* updateGc: "The FIRST arming wins".
Deadline(over, present, old) ==
  IF over \/ ~present THEN IF old = Never THEN Delay ELSE old
  ELSE Never

----------------------------------------------------------------------------
(* Commands on the room: withRetry, as far as this module's state goes.    *)

\* The handler has loaded the room; it will write these rows.
Load(s, kind, rows, over) ==
  write' = [write EXCEPT ![s] =
    [kind |-> kind, gcAt |-> Deadline(over, SeatPresent, gcAt),
     watchers |-> rows, finished |-> over]]

\* The version moves: whoever loaded the room before will not write it.
Moved(others) ==
  [t \in Sock |-> IF t \in others /\ write[t] # NoWrite THEN Outdated
                  ELSE write[t]]

\* UPDATE rooms ... WHERE version = the one loaded.  The transaction that ends
\* a game settles its league match.
Save(s) ==
  /\ gcAt' = write[s].gcAt
  /\ watchers' = write[s].watchers
  /\ finished' = write[s].finished
  /\ inUse' = (inUse /\ ~write[s].finished)
  /\ write' = [Moved(Sock \ {s}) EXCEPT ![s] = NoWrite]
  /\ quiet' = IF write[s].finished \/ write[s].gcAt = Never THEN 0 ELSE quiet

\* The version has moved: the command starts over, or gives up.
Conflict(s) ==
  /\ alive /\ write[s] = Outdated
  /\ write' = [write EXCEPT ![s] = NoWrite]
  /\ UNCHANGED <<room, lease, flow, sweep, quiet>>

\* An intent of the player, an undo, a claim.
Play(s) ==
  /\ alive /\ Plays(s) /\ pc[s] = "open" /\ Member(s)
  /\ write[s] = NoWrite /\ MayStart
  /\ \E over \in BOOLEAN : (finished => over) /\ Load(s, "play", watchers, over)
  /\ UNCHANGED <<room, lease, flow, sweep, quiet>>

PlaySave(s) ==
  /\ alive /\ write[s].kind = "play" /\ Save(s)
  /\ UNCHANGED <<alive, token, lease, flow, sweep>>

----------------------------------------------------------------------------
(* Joining: joinExistingRoom and joinRoom.                                 *)

Unused(s) == pc[s] = "off" /\ lease[s] = NoLease /\ ~Running(s)

\* A browser connects and asks for the room.
Join(s) ==
  /\ alive /\ Unused(s) /\ MayStart
  /\ \A t \in Sock : Unused(t) => s <= t
  /\ \E m \in Player \cup Watcher : who' = [who EXCEPT ![s] = m]
  /\ pc' = [pc EXCEPT ![s] = "joining"]
  /\ UNCHANGED <<room, lease, closed, batch, leaving, write, sweep, quiet>>

\* The player's seat is found by token or account.
JoinSeat(s) ==
  /\ alive /\ pc[s] = "joining" /\ Plays(s) /\ write[s] = NoWrite
  /\ Load(s, "join", watchers, finished)
  /\ UNCHANGED <<room, lease, flow, sweep, quiet>>

\* A spectator's row is found by token, or added to those still there.
JoinWatch(s) ==
  /\ alive /\ pc[s] = "joining" /\ ~Plays(s) /\ write[s] = NoWrite
  /\ \/ /\ who[s] \in watchers
        /\ Load(s, "join", watchers, finished)
     \/ /\ who[s] \notin watchers
        /\ LET rows == {w \in watchers : Kept(w)}
           IN  /\ Cardinality(rows) < MaxSpectators
               /\ Load(s, "join", rows \cup {who[s]}, finished)
  /\ UNCHANGED <<room, lease, flow, sweep, quiet>>

\* The room is full, or the command has given up: the socket has no room.
JoinFails(s) ==
  /\ alive /\ pc[s] = "joining" /\ write[s] = NoWrite
  /\ pc' = [pc EXCEPT ![s] = "off"]
  /\ closed' = [closed EXCEPT ![s] = FALSE]
  /\ UNCHANGED <<room, lease, who, batch, leaving, write, sweep, quiet>>

\* newToken: no other socket of the player has the seat's token any more.
JoinSave(s) ==
  /\ alive /\ write[s].kind = "join" /\ Save(s)
  /\ token' = IF Plays(s) THEN [token EXCEPT ![who[s]] = s] ELSE token
  /\ pc' = [pc EXCEPT ![s] = "attaching"]
  /\ UNCHANGED <<alive, lease, who, closed, batch, leaving, sweep>>

Expired == [s \in Sock |-> IF Live(s) THEN lease[s] ELSE NoLease]

----------------------------------------------------------------------------
(* markPresentBatch: at the end of a join, and for every attached socket   *)
(* once a heartbeat.                                                       *)

\* The end of a join, answered or not: the socket is in the room, unless it
\* is no more.
Settle(s) ==
  /\ pc' = [pc EXCEPT ![s] = IF closed[s] THEN "off" ELSE "open"]
  /\ closed' = [closed EXCEPT ![s] = FALSE]

\* The socket is attached, joinRoom has removed the expired leases; its
\* membership is looked up.  What is not a member is not stamped.
Attach(s) ==
  /\ alive /\ pc[s] = "attaching" /\ batch[s] = "idle"
  /\ lease' = Expired
  /\ IF Member(s)
     THEN batch' = [batch EXCEPT ![s] = "valid"] /\ UNCHANGED <<pc, closed>>
     ELSE Settle(s) /\ UNCHANGED batch
  /\ UNCHANGED <<room, who, leaving, write, sweep, quiet>>

Heartbeat(s) ==
  /\ alive /\ pc[s] = "open" /\ batch[s] = "idle"
  /\ Member(s) /\ MayStart
  /\ batch' = [batch EXCEPT ![s] = "valid"]
  /\ UNCHANGED <<room, lease, who, pc, closed, leaving, write, sweep, quiet>>

\* INSERT INTO room_presence; the whole batch fails when another room of it
\* has been deleted since the look-up (foreign key).
Stamp(s) ==
  /\ alive /\ batch[s] = "valid"
  /\ \/ /\ lease' = [lease EXCEPT ![s] = 0]
        /\ batch' = [batch EXCEPT ![s] = "stamped"]
        /\ UNCHANGED <<pc, closed>>
     \/ /\ batch' = [batch EXCEPT ![s] = "idle"]
        /\ IF pc[s] = "attaching" THEN Settle(s) ELSE UNCHANGED <<pc, closed>>
        /\ UNCHANGED lease
  /\ UNCHANGED <<room, who, leaving, write, sweep, quiet>>

\* Mutant: a heartbeat takes the deadline of a finished room for its own.
ArmedAnew == IF finished THEN Delay ELSE Never
\* SET gc_at = NULL where the game goes on, COALESCE(gc_at, ...) where it is
\* over.
ArmedOnce == IF finished THEN IF gcAt = Never THEN Delay ELSE gcAt ELSE Never

\* The last two statements, as one: a game that ends in between has its
\* deadline from the command that ended it.
Disarm(s) ==
  /\ alive /\ batch[s] = "stamped"
  /\ gcAt' = ArmedOnce
  /\ batch' = [batch EXCEPT ![s] = IF pc[s] = "attaching" THEN "disarmed" ELSE "idle"]
  /\ UNCHANGED <<alive, finished, watchers, token, inUse, lease, who, pc, closed,
                 leaving, write, sweep, quiet>>

\* markPresent moves the version; the join is answered.
Attached(s) ==
  /\ alive /\ batch[s] = "disarmed"
  /\ write' = Moved(Sock)
  /\ batch' = [batch EXCEPT ![s] = "idle"]
  /\ Settle(s)
  /\ UNCHANGED <<room, lease, who, leaving, sweep, quiet>>

----------------------------------------------------------------------------
(* Closing: the socket's close handler and markAbsent.                     *)

\* Only a socket that is attached has a room to leave: one that closes
\* during joinRoom is attached after its close.
Close(s) ==
  /\ alive /\ pc[s] # "off" /\ ~closed[s] /\ (pc[s] = "joining" \/ MayStart)
  /\ IF pc[s] = "open" THEN pc' = [pc EXCEPT ![s] = "off"] /\ UNCHANGED closed
     ELSE closed' = [closed EXCEPT ![s] = TRUE] /\ UNCHANGED pc
  /\ leaving' = [leaving EXCEPT ![s] =
       IF pc[s] = "open" \/ batch[s] # "idle" THEN "lease" ELSE "no"]
  /\ UNCHANGED <<room, lease, who, batch, write, sweep, quiet>>

\* Its own lease goes, whether or not there is one yet.
LeaveLease(s) ==
  /\ alive /\ leaving[s] = "lease"
  /\ lease' = [lease EXCEPT ![s] = NoLease]
  /\ leaving' = [leaving EXCEPT ![s] = "member"]
  /\ UNCHANGED <<room, who, pc, closed, batch, write, sweep, quiet>>

SameToken(s, t) == t = s \/ (~Plays(s) /\ who[t] = who[s])

\* A token that lost the seat, or has another live lease, says nothing.
LeaveMember(s) ==
  /\ alive /\ leaving[s] = "member"
  /\ leaving' = [leaving EXCEPT ![s] =
       IF Member(s) /\ \A t \in Sock : SameToken(s, t) => ~Live(t)
       THEN "absent" ELSE "no"]
  /\ UNCHANGED <<room, lease, who, pc, closed, batch, write, sweep, quiet>>

\* UPDATE rooms: armed unless a player's lease is live, and the version.
LeaveSeat(s) ==
  /\ alive /\ leaving[s] = "absent" /\ Plays(s)
  /\ gcAt' = IF gcAt = Never /\ ~AnyPlayerLease THEN Delay ELSE gcAt
  /\ write' = Moved(Sock)
  /\ leaving' = [leaving EXCEPT ![s] = "no"]
  /\ UNCHANGED <<alive, finished, watchers, token, inUse, lease, who, pc, closed,
                 batch, sweep, quiet>>

\* A spectator's row is removed by a command.
LeaveWatch(s) ==
  /\ alive /\ leaving[s] = "absent" /\ ~Plays(s) /\ write[s] = NoWrite
  /\ Load(s, "leave", watchers \ {who[s]}, finished)
  /\ UNCHANGED <<room, lease, flow, sweep, quiet>>

LeaveSave(s) ==
  /\ alive /\ write[s].kind = "leave" /\ Save(s)
  /\ leaving' = [leaving EXCEPT ![s] = "no"]
  /\ UNCHANGED <<alive, token, lease, who, pc, closed, batch, sweep>>

Busy(s) == pc[s] = "open" \/ Running(s)

\* The gateway of the socket is gone: its handlers end where they are.
Crash(s) ==
  /\ alive /\ Busy(s)
  /\ pc' = [pc EXCEPT ![s] = "off"]
  /\ closed' = [closed EXCEPT ![s] = FALSE]
  /\ batch' = [batch EXCEPT ![s] = "idle"]
  /\ leaving' = [leaving EXCEPT ![s] = "no"]
  /\ write' = [write EXCEPT ![s] = NoWrite]
  /\ UNCHANGED <<room, lease, who, sweep, quiet>>

----------------------------------------------------------------------------
(* sweepRooms, run by the holder of the maintenance lease.                 *)

\* Mutant: only the rooms of finished games are looked for.
StrandedByEnd == finished
Stranded      == finished \/ ~AnyPlayerLease

\* Expired leases go; a room without a deadline may get one, a room past its
\* deadline that nothing else needs is a candidate.  A gateway that a cutover
\* has left behind selects it in vain, for its DELETE asks for its own
\* ruleset_version.
SweepRead(own) ==
  /\ alive /\ sweep = "idle"
  /\ lease' = Expired
  /\ \/ gcAt = Never /\ Stranded /\ sweep' = "arming"
     \/ gcAt = 0 /\ ~inUse /\ own /\ sweep' = "doomed"
     \/ /\ ~(gcAt = Never /\ Stranded) /\ ~(gcAt = 0 /\ ~inUse /\ own)
        /\ lease' # lease /\ sweep' = "idle"
  /\ UNCHANGED <<room, flow, write, quiet>>

\* UPDATE rooms ... WHERE gc_at IS NULL.
SweepArm ==
  /\ alive /\ sweep = "arming"
  /\ gcAt' = IF gcAt = Never THEN Delay ELSE gcAt
  /\ sweep' = "idle"
  /\ UNCHANGED <<alive, finished, watchers, token, inUse, lease, flow, write, quiet>>

\* Mutant: whether the room is still needed is not read again.
StillSelected == gcAt = 0
\* Searches and the league are asked again under the format's lock, then
\* DELETE FROM rooms WHERE gc_at = the one selected.
StillDue == gcAt = 0 /\ ~inUse

SweepDelete ==
  /\ alive /\ sweep = "doomed"
  /\ alive' = ~StillDue
  /\ sweep' = "idle"
  /\ UNCHANGED <<finished, gcAt, watchers, token, inUse, lease, flow, write, quiet>>

----------------------------------------------------------------------------
(* What else needs the room: no command on it decides that.                *)

\* A search from bot practice comes to wait here, a league match is opened
\* or its deadline moved.
Reserve ==
  /\ alive /\ ~finished /\ ~inUse /\ inUse' = TRUE
  /\ UNCHANGED <<alive, finished, gcAt, watchers, token, lease, flow, write, sweep, quiet>>

\* The search ends or goes elsewhere; the match is decided, cancelled or past
\* its deadline.
Relinquish ==
  /\ alive /\ inUse /\ inUse' = FALSE
  /\ UNCHANGED <<alive, finished, gcAt, watchers, token, lease, flow, write, sweep, quiet>>

\* What is left of a deadline one tick later.
Left(deadline) == IF deadline > 0 THEN deadline - 1 ELSE deadline

\* Time passes, also while a handler runs; what the sweep has selected it
\* tries to delete within the tick.
Tick ==
  /\ alive /\ sweep # "doomed"
  /\ gcAt' = Left(gcAt)
  /\ lease' = [s \in Sock |-> IF Live(s) THEN lease[s] + 1 ELSE lease[s]]
  /\ write' = [s \in Sock |-> IF write[s] \in {NoWrite, Outdated} THEN write[s]
                              ELSE [write[s] EXCEPT !.gcAt = Left(@)]]
  /\ quiet' = IF quiet < Delay /\ ~finished THEN quiet + 1 ELSE quiet
  /\ UNCHANGED <<alive, finished, watchers, token, inUse, flow, sweep>>

----------------------------------------------------------------------------

\* What a handler that has begun goes on to do.
Handler(s) ==
  \/ Conflict(s) \/ PlaySave(s)
  \/ JoinSeat(s) \/ JoinWatch(s) \/ JoinFails(s) \/ JoinSave(s)
  \/ Attach(s) \/ Stamp(s) \/ Disarm(s) \/ Attached(s)
  \/ LeaveLease(s) \/ LeaveMember(s) \/ LeaveSeat(s)
  \/ LeaveWatch(s) \/ LeaveSave(s)

Sweep == SweepRead(TRUE) \/ SweepArm \/ SweepDelete

Next ==
  \/ \E s \in Sock : \/ Join(s) \/ Play(s) \/ Heartbeat(s) \/ Close(s)
                     \/ Crash(s) \/ Handler(s)
  \/ Sweep \/ SweepRead(FALSE)
  \/ Reserve \/ Relinquish
  \/ Tick

\* A gateway of the room's ruleset sweeps on its timer, time passes.  Nothing
\* is asked of handlers: they may hang wherever they are.
Fairness == WF_vars(Sweep) /\ WF_vars(Tick)

Spec     == Init /\ [][Next]_vars
FairSpec == Spec /\ Fairness

----------------------------------------------------------------------------
(* Properties.                                                             *)

\* A finished game's room goes when it was said to: no reconnect, command,
\* heartbeat or sweep moves its deadline (updateGc, "The FIRST arming wins -
\* reconnects and further actions don't push the deadline out").
FinishedDeadlineStays ==
  [][finished /\ gcAt # Never => gcAt' # Never /\ gcAt' <= gcAt]_vars

\* What is in use is not collected: no running game is deleted within the
\* delay after a command that found a player present took effect, and no room
\* that a search or a league match needs (leagueMatches.ts, "League rooms that
\* GC must keep"), whatever the sweep had read before and whoever joins,
\* leaves or crashes meanwhile.
UsedRoomStays ==
  [][alive /\ ~alive' => ~inUse /\ (~finished => quiet >= Delay)]_vars

Offline(s) == ~Busy(s)

\* Rooms do not pile up: one that neither a search nor a league match needs
\* goes when everyone has left it, also when their gateways were killed
\* (sweepRooms, "covers rooms stranded by a killed instance"), or when its game
\* is over, whoever stays in it.
RoomsEnd ==
  ~<>[](alive /\ ~inUse /\ (finished \/ \A s \in Sock : Offline(s)))

\* Rooms are deleted this long "after the game ends or both players
\* disconnect" (GC_DELAY_MS).
AbandonedRoomsEnd ==
  ~<>[](alive /\ ~inUse /\ (finished \/ \A s \in Sock : Plays(s) => Offline(s)))
============================================================================
