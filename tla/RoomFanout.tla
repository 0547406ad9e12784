------------------------------ MODULE RoomFanout ------------------------------
(***************************************************************************)
(* How a committed room version reaches a player's screen                  *)
(* (apps/server/src/clusterEvents.ts, roomBroadcaster.ts, index.ts and     *)
(* apps/client/src/versionGate.ts).  Every transaction inserts its events  *)
(* into cluster_events, where a sequence numbers them as they are inserted *)
(* and not as they commit.  A gateway polls the table from a cursor,       *)
(* coalesces the refreshes of the room, reads the room again and sends     *)
(* what it read to the sockets that were attached when it began.  A player *)
(* who rejoins is sent the state by a broadcast of its own, beside those.  *)
(* The client drops what its version gate finds old.                       *)
(***************************************************************************)
EXTENDS Naturals, Sequences, FiniteSets, FiniteSetsExt

CONSTANTS Batch,       \* batchSize of a poll
          Overtaking,  \* whether events may commit out of insertion order
          MaxVersion,  \* bound: room versions
          MaxId,       \* bound: cluster events
          MaxSessions  \* bound: sockets the player opens

ASSUME FanoutAssumption ==
  /\ Batch \in Nat \ {0} /\ Overtaking \in BOOLEAN
  /\ MaxVersion \in Nat \ {0} /\ MaxId \in Nat /\ MaxSessions \in Nat \ {0}

VARIABLES
  version,   \* rooms.version
  game,      \* the version of the newest command committed
  owed,      \* events handlers publish after their commit, not inserted yet
  nextId,    \* the sequence behind cluster_events.id
  open,      \* events of transactions that have not committed
  events,    \* committed events
  cursor, rows, refresh,  \* the gateway's consumer: read so far, rows of the
                          \* current batch, version of the coalesced refresh
  job,       \* the consumer's current broadcast
  join,      \* the handler of a rejoin, and its broadcast
  sess,      \* the player's attached socket, 0 if none
  sessions,  \* sockets opened so far
  inbox,     \* messages on their way on that socket
  gate,      \* the client's RoomVersionGate
  view,      \* the version of the state the client shows
  due        \* ghost: the newest refresh consumed for this socket while no
             \* join was under way

db       == <<version, game, owed, nextId, open, events>>
consumer == <<cursor, rows, refresh, job>>
client   == <<inbox, gate, view>>
vars     == <<db, consumer, join, sess, sessions, client, due>>

Versions == 0 .. MaxVersion
Hint  == [kind : {"sync", "presence", "other"}, version : Versions]
Event == [id : 1 .. MaxId, kind : {"sync", "presence", "other"}, version : Versions]
Types == {"joined", "state", "presence"}
Job   == [at : {"none", "commit", "mark", "ack", "read", "send"},
          kind : {"sync", "presence"}, got : Versions, to : 0 .. MaxSessions]
Idle  == [at |-> "none", kind |-> "sync", got |-> 0, to |-> 0]
Broadcast(kind) == [at |-> "read", kind |-> kind, got |-> 0, to |-> sess]
OpenGate == [latest |-> 0, seen |-> {}]
Later(a, b) == IF a > b THEN a ELSE b

TypeOK ==
  /\ version \in Versions /\ game \in 0 .. version
  /\ owed \subseteq Hint
  /\ nextId \in 1 .. MaxId + 1
  /\ open \subseteq Event /\ events \subseteq Event
  /\ cursor \in 0 .. nextId - 1 /\ rows \in Seq(Event) /\ refresh \in 0 .. version
  /\ job \in Job /\ join \in Job
  /\ sess \in 0 .. MaxSessions /\ sessions \in sess .. MaxSessions
  /\ inbox \in Seq([type : Types, version : Versions])
  /\ gate \in [latest : 0 .. version, seen : SUBSET Types]
  /\ view \in 0 .. version /\ due \in 0 .. version

\* A player is in the game and shows the version the room has.
Init ==
  /\ version = 1 /\ game = 1 /\ owed = {}
  /\ nextId = 1 /\ open = {} /\ events = {}
  /\ cursor = 0 /\ rows = <<>> /\ refresh = 0 /\ job = Idle /\ join = Idle
  /\ sess = 1 /\ sessions = 1 /\ inbox = <<>>
  /\ gate = [latest |-> 1, seen |-> {"state"}]
  /\ view = 1 /\ due = 0

----------------------------------------------------------------------------
(* The database.                                                           *)

RoomBusy == \E e \in open : e.kind = "sync" /\ e.version > version

Insert(kind, v) ==
  /\ nextId <= MaxId
  /\ open' = open \cup {[id |-> nextId, kind |-> kind, version |-> v]}
  /\ nextId' = nextId + 1

\* A command's transaction has updated the room's row and inserts its event.
BeginCommand ==
  /\ ~RoomBusy /\ version < MaxVersion
  /\ Insert("sync", version + 1)
  /\ UNCHANGED <<version, game, owed, events, consumer, join, sess, sessions,
                 client, due>>

\* A transaction about another room, an account, the queue.
BeginOther ==
  /\ Insert("other", 0)
  /\ UNCHANGED <<version, game, owed, events, consumer, join, sess, sessions,
                 client, due>>

\* publishRoomEvent: what a handler announces once its command has committed.
Publish(h) ==
  /\ h \in owed
  /\ Insert(h.kind, h.version)
  /\ owed' = owed \ {h}
  /\ UNCHANGED <<version, game, events, consumer, join, sess, sessions, client, due>>

\* The handler's gateway is gone, or the insertion failed.
NeverPublish(h) ==
  /\ h \in owed
  /\ owed' = owed \ {h}
  /\ UNCHANGED <<version, game, nextId, open, events, consumer, join, sess,
                 sessions, client, due>>

\* Mutant: the state is written without its version.
CommitUnversioned(e) ==
  /\ e \in open
  /\ Overtaking \/ \A f \in open : e.id <= f.id
  /\ open' = open \ {e} /\ events' = events \cup {e}
  /\ game' = IF e.kind = "sync" THEN Later(game, e.version) ELSE game
  /\ UNCHANGED <<version, owed, nextId, consumer, join, sess, sessions, client, due>>

\* The transaction commits: its event can be read from here on.  A command's
\* handler announces it a second time.
Commit(e) ==
  /\ e \in open
  /\ Overtaking \/ \A f \in open : e.id <= f.id
  /\ open' = open \ {e} /\ events' = events \cup {e}
  /\ IF e.kind = "sync" /\ e.version > version
     THEN /\ version' = e.version /\ game' = e.version
          /\ owed' = owed \cup {[kind |-> "sync", version |-> e.version]}
     ELSE UNCHANGED <<version, game, owed>>
  /\ UNCHANGED <<nextId, consumer, join, sess, sessions, client, due>>

\* It rolls back: its number is not given out again.
Abort(e) ==
  /\ e \in open
  /\ open' = open \ {e}
  /\ UNCHANGED <<version, game, owed, nextId, events, consumer, join, sess,
                 sessions, client, due>>

\* markPresent or markAbsent of the opponent: a version of its own.
PresenceBump ==
  /\ ~RoomBusy /\ version < MaxVersion
  /\ version' = version + 1
  /\ owed' = owed \cup {[kind |-> "presence", version |-> version + 1]}
  /\ UNCHANGED <<game, nextId, open, events, consumer, join, sess, sessions,
                 client, due>>

----------------------------------------------------------------------------
(* The gateway's consumer.                                                 *)

\* Whatever the consumer still has in hand for this poll.
Polling == rows # <<>> \/ refresh # 0 \/ job.at # "none"

Pending == {e \in events : e.id > cursor}

\* The oldest Batch of a set of events, in id order.
Oldest(S) ==
  LET n == IF Cardinality(S) < Batch THEN Cardinality(S) ELSE Batch
  IN  [i \in 1 .. n |->
         CHOOSE e \in S : Cardinality({f \in S : f.id < e.id}) = i - 1]

Poll ==
  /\ ~Polling /\ Pending # {}
  /\ rows' = Oldest(Pending)
  /\ UNCHANGED <<db, cursor, refresh, job, join, sess, sessions, client, due>>

\* Mutant: once a hint of the room waits, the next one replaces the room's
\* hint by nothing.
CoalesceToggle(v) == IF refresh = 0 THEN v ELSE 0

\* The newest hint stands for the ones before it.
Coalesce(v) == Later(refresh, v)

\* A refresh waits, in case another one of the batch follows.
TakeRefresh ==
  /\ rows # <<>> /\ Head(rows).kind = "sync" /\ job.at = "none"
  /\ cursor' = Head(rows).id /\ rows' = Tail(rows)
  /\ refresh' = Coalesce(Head(rows).version)
  /\ due' = IF sess = 0 \/ join # Idle THEN due ELSE Later(due, Head(rows).version)
  /\ UNCHANGED <<db, job, join, sess, sessions, client>>

\* Mutant: what waits is handled after the notice, or not at all.
TakeNoticeFirst ==
  /\ rows # <<>> /\ Head(rows).kind # "sync" /\ job.at = "none"
  /\ cursor' = Head(rows).id /\ refresh' = 0
  /\ IF Head(rows).kind = "presence"
     THEN rows' = Tail(rows) /\ job' = Broadcast("presence")
     ELSE rows' \in {Tail(rows), <<>>} /\ job' = job
  /\ UNCHANGED <<db, join, sess, sessions, client, due>>

\* Any other event is handled in its turn, what waits before it first.  When
\* the handler of one that is not the room's throws, the poll is over: the
\* rows behind it are read again, it is not.
TakeNotice ==
  /\ rows # <<>> /\ Head(rows).kind # "sync" /\ job.at = "none" /\ refresh = 0
  /\ cursor' = Head(rows).id
  /\ IF Head(rows).kind = "presence"
     THEN rows' = Tail(rows) /\ job' = Broadcast("presence")
     ELSE rows' \in {Tail(rows), <<>>} /\ job' = job
  /\ UNCHANGED <<db, refresh, join, sess, sessions, client, due>>

\* flushRoomRefreshes: before another event and at the end of the batch.
Flush ==
  /\ refresh # 0 /\ job.at = "none"
  /\ (rows # <<>> => Head(rows).kind # "sync")
  /\ job' = Broadcast("sync") /\ refresh' = 0
  /\ UNCHANGED <<db, cursor, rows, join, sess, sessions, client, due>>

----------------------------------------------------------------------------
(* A broadcast: the sockets are listed, the room is read, the lobby is     *)
(* told, the sockets are sent what was read.                               *)

HasRead(j) == [j EXCEPT !.at = "send", !.got = version]

ReadRoom ==
  /\ job.at = "read" /\ job' = HasRead(job)
  /\ UNCHANGED <<db, cursor, rows, refresh, join, sess, sessions, client, due>>

ReadRoomJoin ==
  /\ join.at = "read" /\ join' = HasRead(join)
  /\ UNCHANGED <<db, consumer, sess, sessions, client, due>>

Deliver(to, type, v) ==
  inbox' = IF to = sess /\ sess # 0
           THEN Append(inbox, [type |-> type, version |-> v]) ELSE inbox

Send ==
  /\ job.at = "send"
  /\ Deliver(job.to, IF job.kind = "sync" THEN "state" ELSE "presence", job.got)
  /\ job' = Idle
  /\ UNCHANGED <<db, cursor, rows, refresh, join, sess, sessions, gate, view, due>>

SendJoin ==
  /\ join.at = "send"
  /\ Deliver(join.to, "state", join.got)
  /\ join' = Idle
  /\ UNCHANGED <<db, consumer, sess, sessions, gate, view, due>>

----------------------------------------------------------------------------
(* Sockets.                                                                *)

CloseSocket == sess' = 0 /\ inbox' = <<>>

Disconnect ==
  /\ sess # 0 /\ CloseSocket
  /\ UNCHANGED <<db, consumer, join, sessions, gate, view, due>>

\* The room could not be read: every attached socket is told to resync.
Resync ==
  /\ sess # 0 /\ CloseSocket /\ gate' \in {gate, OpenGate}
  /\ \/ job.at = "read" /\ job' = Idle /\ UNCHANGED join
     \/ join.at = "read" /\ join' = Idle /\ UNCHANGED job
  /\ UNCHANGED <<db, cursor, rows, refresh, sessions, view, due>>

\* The gateway restarts and starts at the tail of the event log.
Restart ==
  /\ CloseSocket
  /\ cursor' = Max({0} \cup {e.id : e \in events})
  /\ rows' = <<>> /\ refresh' = 0 /\ job' = Idle /\ join' = Idle
  /\ UNCHANGED <<db, sessions, gate, view, due>>

\* joinRoom: a command of its own, which rotates the seat's token.
Rejoin ==
  /\ sess = 0 /\ sessions < MaxSessions /\ join = Idle
  /\ ~RoomBusy /\ version < MaxVersion
  /\ Insert("sync", version + 1)
  /\ join' = [Idle EXCEPT !.at = "commit", !.got = version + 1]
  /\ UNCHANGED <<version, game, owed, events, consumer, sess, sessions, client, due>>

\* connections.attach, or the join's transaction failed.
Attach ==
  /\ join.at = "commit" /\ \A e \in open : e.kind = "sync" => e.version # join.got
  /\ IF version < join.got
     THEN join' = Idle /\ UNCHANGED <<sess, sessions, inbox, due>>
     ELSE /\ sess' = sessions + 1 /\ sessions' = sessions + 1
          /\ inbox' = <<>> /\ due' = 0
          /\ join' = [join EXCEPT !.at = "mark", !.to = sessions + 1]
  /\ UNCHANGED <<db, consumer, gate, view>>

\* markPresent gives the join its version; a socket gone by then ends it.
MarkPresent ==
  /\ join.at = "mark"
  /\ IF sess # join.to THEN join' = Idle /\ UNCHANGED version
     ELSE /\ ~RoomBusy /\ version < MaxVersion
          /\ version' = version + 1
          /\ join' = [join EXCEPT !.at = "ack", !.got = version + 1]
  /\ UNCHANGED <<game, owed, nextId, open, events, consumer, sess, sessions,
                 client, due>>

\* The acknowledgement, then a broadcast to the sockets attached by now.
Acknowledge ==
  /\ join.at = "ack"
  /\ Deliver(join.to, "joined", join.got)
  /\ join' = Broadcast("sync")
  /\ UNCHANGED <<db, consumer, sess, sessions, gate, view, due>>

----------------------------------------------------------------------------
(* The client.                                                             *)

\* Mutant: drops repeated messages, not late ones.
AcceptsLate(g, m) == m.version # g.latest \/ m.type \notin g.seen

\* RoomVersionGate.accept.
Accepts(g, m) == m.version > g.latest \/ (m.version = g.latest /\ m.type \notin g.seen)

Seen(g, m) == [latest |-> m.version,
               seen   |-> (IF m.version = g.latest THEN g.seen ELSE {}) \cup {m.type}]

Receive ==
  /\ inbox # <<>>
  /\ inbox' = Tail(inbox)
  /\ LET m == Head(inbox)
         g == IF m.type = "joined" THEN OpenGate ELSE gate
     IN  IF Accepts(g, m)
         THEN /\ gate' = Seen(g, m)
              /\ view' = IF m.type = "state" THEN m.version ELSE view
         ELSE gate' = g /\ UNCHANGED view
  /\ UNCHANGED <<db, consumer, join, sess, sessions, due>>

----------------------------------------------------------------------------
Work == Flush \/ TakeRefresh \/ TakeNotice \/ ReadRoom \/ Send

JoinWork == Attach \/ MarkPresent \/ Acknowledge \/ ReadRoomJoin \/ SendJoin

Next ==
  \/ BeginCommand \/ BeginOther \/ PresenceBump
  \/ \E h \in owed : Publish(h) \/ NeverPublish(h)
  \/ \E e \in open : Commit(e) \/ Abort(e)
  \/ Poll \/ Work \/ JoinWork \/ Receive
  \/ Disconnect \/ Resync \/ Restart \/ Rejoin

Spec == Init /\ [][Next]_vars

\* The consumer polls on a timer and finishes what it polled, sockets deliver.
\* Nothing makes a transaction commit.
FairSpec == Spec /\ WF_vars(Poll) /\ WF_vars(Work) /\ WF_vars(Receive)

----------------------------------------------------------------------------
(* Properties.                                                             *)

\* The board never goes back to an older version of the room, whichever of
\* the broadcasts wins (versionGate.ts: "Drops out-of-order room
\* notifications").
BoardForward == [][view' >= view]_vars

\* A refresh the gateway has consumed while no join was under way is on the
\* board once the gateway's work is done: neither coalescing nor a notice
\* behind it in the batch loses it, and the gate does not drop its answer.
RefreshShown ==
  ~Polling /\ join.at = "none" /\ sess # 0 /\ inbox = <<>> => view >= due

\* An attached player catches up, again and again: every event past the cursor
\* is polled, and the refreshes among them that were consumed while no join
\* was under way are on the board.  Nothing is said of two kinds of command: one
\* whose event commits behind the cursor (NothingBehindCursor), and one whose
\* refresh is consumed during a rejoin (its broadcast may be beaten by a
\* presence broadcast; the next refresh makes up for it).
CatchesUp == []<>(sess # 0 => Pending = {} /\ view >= due)

\* index.ts, on starting at the tail of the log: "Events committed after this
\* snapshot are consumed".
NothingBehindCursor ==
  [][\A e \in events' \ events : e.id > cursor]_vars
============================================================================
