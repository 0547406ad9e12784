--------------------------- MODULE RoomFanoutProofs ---------------------------
(***************************************************************************)
(* For any number of versions, events and sockets and any order in which   *)
(* events commit: the board never goes back, and a refresh the gateway has *)
(* consumed is on the board once the gateway's work is done.               *)
(***************************************************************************)
EXTENDS RoomFanout, SequenceTheorems, Counting, TLAPS

-----------------------------------------------------------------------------
(* The inductive invariant                                                   *)

\* Events have numbers of their own, all of them given out.
Ids ==
  /\ IsFiniteSet(events)
  /\ \A e \in open \cup events : e.id < nextId
  /\ \A e, f \in open \cup events : e.id = f.id => e = f

\* What the consumer reads is committed.
Committed ==
  /\ \A e \in events : e.kind = "sync" => e.version <= version
  /\ rows \in Seq(events)

\* Nothing that was read of the room is ahead of the room.
Known ==
  /\ job.got <= version
  /\ join.at # "commit" => join.got <= version
  /\ \A i \in 1 .. Len(inbox) : inbox[i].version <= version

\* The attached socket is the last one that was opened.
Sockets ==
  /\ sess \in {0, sessions}
  /\ job.to <= sessions /\ join.to <= sessions
  /\ sess = 0 => inbox = <<>>
  /\ join.at = "commit" => sess = 0 /\ sessions < MaxSessions
  /\ sess # 0 /\ join # Idle => due = 0

PInv == TypeOK /\ Ids /\ Committed /\ Known /\ Sockets

\* A broadcast has read the room and is about to send the state to the socket.
JobSends  == job.at = "send" /\ job.kind = "sync" /\ job.to = sess /\ sess # 0
JoinSends == join.at = "send" /\ join.to = sess /\ sess # 0

IsState(i) == i \in 1 .. Len(inbox) /\ inbox[i].type = "state"

\* The state of version v has yet to be received, behind message k.
Coming(k, v) ==
  \/ \E j \in k + 1 .. Len(inbox) : IsState(j) /\ v = inbox[j].version
  \/ JobSends /\ v = job.got
  \/ JoinSends /\ v = join.got

\* Where the gate would let an older state through, none is coming.
NothingOlder ==
  gate.latest < view => \A v \in Versions : Coming(0, v) => v >= view

\* Nor is one behind an acknowledgement, which opens the gate.
NothingOlderBehindJoin ==
  \A k \in 1 .. Len(inbox) : inbox[k].type = "joined" =>
     \A v \in Versions : Coming(k, v) =>
        v >= view /\ \A i \in 1 .. k - 1 : IsState(i) => v >= inbox[i].version

\* Before the acknowledgement the consumer's broadcasts come in order.
InOrderBeforeJoin ==
  join.at \in {"mark", "ack"} /\ join.to = sess /\ JobSends =>
     job.got >= view /\ \A i \in 1 .. Len(inbox) : IsState(i) => job.got >= inbox[i].version

\* A state the gate has seen is on the board.
SeenShown == "state" \in gate.seen => view >= gate.latest

\* What is due is on the board or on its way to it.
CoveredByMessage(j) ==
  /\ IsState(j) /\ inbox[j].version >= due /\ gate.latest <= inbox[j].version
  /\ \A i \in 1 .. j - 1 : ~IsState(i) => inbox[i].version <= inbox[j].version

CoveredByJob ==
  /\ job.kind = "sync" /\ job.to = sess
  /\ \/ job.at = "read"
     \/ /\ job.at = "send" /\ job.got >= due /\ gate.latest <= job.got
        /\ \A i \in 1 .. Len(inbox) : inbox[i].version <= job.got

Covered ==
  sess # 0 => \/ view >= due \/ refresh >= due \/ CoveredByJob
              \/ \E j \in 1 .. Len(inbox) : CoveredByMessage(j)

IInv ==
  /\ PInv /\ NothingOlder /\ NothingOlderBehindJoin /\ InOrderBeforeJoin
  /\ SeenShown /\ Covered

-----------------------------------------------------------------------------
(* The plain part of the invariant: types, numbers, what is read              *)

Message == [type : Types, version : Versions]

\* The database, what the consumer took from it, and the sockets with the
\* client, as they are typed.
DbTyped ==
  /\ version \in Versions /\ game \in 0 .. version
  /\ owed \subseteq Hint
  /\ nextId \in 1 .. MaxId + 1
  /\ open \subseteq Event /\ events \subseteq Event
  /\ Ids
  /\ \A e \in events : e.kind = "sync" => e.version <= version

ConsumerTyped ==
  /\ cursor \in 0 .. nextId - 1 /\ rows \in Seq(events) /\ refresh \in 0 .. version
  /\ job \in Job /\ job.got <= version

ClientTyped ==
  /\ join \in Job /\ (join.at # "commit" => join.got <= version)
  /\ sess \in 0 .. MaxSessions /\ sessions \in sess .. MaxSessions
  /\ inbox \in Seq(Message) /\ (\A i \in 1 .. Len(inbox) : inbox[i].version <= version)
  /\ gate \in [latest : 0 .. version, seen : SUBSET Types]
  /\ view \in 0 .. version /\ due \in 0 .. version

LEMMA PlainParts == PInv <=> DbTyped /\ ConsumerTyped /\ ClientTyped /\ Sockets
<1>1. events \subseteq Event => Seq(events) \subseteq Seq(Event)
  BY SeqMonotonic
<1> QED
  BY <1>1 DEF PInv, TypeOK, Committed, Known, DbTyped, ConsumerTyped, ClientTyped, Message

LEMMA PlainStep == DbTyped' /\ ConsumerTyped' /\ ClientTyped' /\ Sockets' => PInv'
<1>1. events' \subseteq Event => Seq(events') \subseteq Seq(Event)
  BY SeqMonotonic
<1> QED
  BY <1>1 DEF PInv, TypeOK, Committed, Known, DbTyped, ConsumerTyped, ClientTyped, Message

(* What is read of a poll are committed events.                               *)
LEMMA OldestAreEvents ==
  ASSUME DbTyped, cursor \in Nat
  PROVE  Oldest(Pending) \in Seq(events)
<1>1. /\ Pending \subseteq events /\ IsFiniteSet(Pending)
      /\ Cardinality(Pending) \in Nat
  BY FS_Subset, FS_CardinalityType DEF Pending, DbTyped, Ids
<1>2. Numbered(Pending)
  BY <1>1, FanoutAssumption DEF Numbered, DbTyped, Ids, Event
<1> DEFINE n == IF Cardinality(Pending) < Batch THEN Cardinality(Pending) ELSE Batch
           Place(i) == CHOOSE e \in Pending :
                         Cardinality({f \in Pending : f.id < e.id}) = i - 1
<1>3. n \in Nat /\ n <= Cardinality(Pending)
  BY <1>1, FanoutAssumption
<1>4. \A i \in 1 .. n : Place(i) \in events
  <2>1. TAKE i \in 1 .. n
  <2>2. i - 1 \in 0 .. Cardinality(Pending) - 1
    BY <1>1, <1>3
  <2>3. \E e \in Pending : Cardinality({f \in Pending : f.id < e.id}) = i - 1
    BY <1>1, <1>2, <2>2, EveryPlace
  <2> QED
    BY <1>1, <2>3
<1> HIDE DEF n, Place
<1>5. [i \in 1 .. n |-> Place(i)] \in Seq(events)
  BY <1>3, <1>4, SeqDef
<1> QED
  BY <1>5 DEF Oldest, n, Place

(* The newest number at the tail of the log is one that was given out.        *)
LEMMA TailOfLog ==
  ASSUME DbTyped
  PROVE  Max({0} \cup {e.id : e \in events}) \in 0 .. nextId - 1
<1> DEFINE T == {0} \cup {e.id : e \in events}
<1>1. nextId \in Nat /\ nextId >= 1 /\ \A e \in events : e.id \in Nat /\ e.id < nextId
  BY FanoutAssumption DEF DbTyped, Ids, Event
<1>2. T \in SUBSET Nat /\ T # {} /\ \A x \in T : x <= nextId - 1 /\ nextId - 1 \in Nat
  BY <1>1
<1>3. \E x \in T : \A y \in T : x >= y
  <2> HIDE DEF T
  <2>1. \E x \in T : \A y \in T : y <= x
    BY <1>2, LargestNumber
  <2> QED
    BY <1>2, <2>1
<1>4. Max(T) \in T
  BY <1>3 DEF Max
<1> QED
  BY <1>2, <1>4

LEMMA InitPlain == Init => PInv
<1> SUFFICES ASSUME Init PROVE PInv
  OBVIOUS
<1> USE FanoutAssumption
<1>1. DbTyped
  BY FS_EmptySet DEF Init, DbTyped, Versions, Ids
<1>2. ConsumerTyped
  BY DEF Init, ConsumerTyped, Idle, Job, Versions
<1>3. ClientTyped
  BY DEF Init, ClientTyped, Idle, Job, Versions, Types, Message
<1>4. Sockets
  BY DEF Init, Sockets, Idle
<1> QED
  BY <1>1, <1>2, <1>3, <1>4, PlainParts

(* Versions are numbers.                                                      *)
LEMMA PlainNumbers ==
  ASSUME PInv
  PROVE  /\ version \in Nat /\ nextId \in Nat /\ game \in Nat /\ cursor \in Nat
         /\ refresh \in Nat /\ view \in Nat /\ due \in Nat /\ sess \in Nat /\ sessions \in Nat
         /\ gate.latest \in Nat /\ job.got \in Nat /\ job.to \in Nat
         /\ join.got \in Nat /\ join.to \in Nat /\ MaxVersion \in Nat /\ MaxSessions \in Nat
         /\ \A e \in open \cup events : e \in Event /\ e.id \in Nat /\ e.version \in Nat
         /\ \A i \in 1 .. Len(inbox) : inbox[i] \in Message /\ inbox[i].version \in Nat
<1> USE FanoutAssumption
<1>1. DbTyped /\ ConsumerTyped /\ ClientTyped
  BY PlainParts
<1>2. /\ version \in Nat /\ nextId \in Nat /\ game \in Nat
      /\ \A e \in open \cup events : e \in Event /\ e.id \in Nat /\ e.version \in Nat
  BY <1>1 DEF DbTyped, Versions, Event
<1>3. cursor \in Nat /\ refresh \in Nat /\ job.got \in Nat /\ job.to \in Nat
  BY <1>1, <1>2 DEF ConsumerTyped, Job, Versions
<1>4. /\ view \in Nat /\ due \in Nat /\ sess \in Nat /\ sessions \in Nat
      /\ gate.latest \in Nat /\ join.got \in Nat /\ join.to \in Nat
  BY <1>1, <1>2 DEF ClientTyped, Job, Versions
<1>5. \A i \in 1 .. Len(inbox) : inbox[i] \in Message /\ inbox[i].version \in Nat
  <2>1. TAKE i \in 1 .. Len(inbox)
  <2>2. inbox[i] \in Message
    BY <1>1, ElementOfSeq DEF ClientTyped
  <2>3. \A m \in Message : m.version \in Nat
    BY DEF Message, Versions
  <2> QED
    BY <2>2, <2>3
<1> QED
  BY <1>2, <1>3, <1>4, <1>5

(* A bound that grows takes in what it took in.                               *)
LEMMA RangeGrows ==
  ASSUME NEW a \in Nat, NEW b \in Nat, a <= b
  PROVE  /\ 0 .. a \subseteq 0 .. b
         /\ 0 .. a - 1 \subseteq 0 .. b - 1
OBVIOUS

(* What the database does on its own leaves what is known of it true.         *)
LEMMA DbGrows ==
  ASSUME PInv, DbTyped', version' >= version, nextId' >= nextId, events \subseteq events',
         UNCHANGED <<consumer, join, sess, sessions, client, due>>
  PROVE  PInv'
<1>1. /\ DbTyped /\ ConsumerTyped /\ ClientTyped /\ Sockets
      /\ version' \in Nat /\ nextId' \in Nat
  BY PlainParts, FanoutAssumption DEF DbTyped, Versions
<1>0. /\ version \in Nat /\ nextId \in Nat /\ job.got \in Nat /\ join.got \in Nat
      /\ \A i \in 1 .. Len(inbox) : inbox[i].version \in Nat
  BY PlainNumbers
<1>2. ConsumerTyped'
  <2>1. rows \in Seq(events')
    BY <1>1, SeqMonotonic DEF ConsumerTyped
  <2>3. cursor \in 0 .. nextId - 1 /\ refresh \in 0 .. version /\ job.got <= version
    BY <1>1 DEF ConsumerTyped
  <2>4. 0 .. nextId - 1 \subseteq 0 .. nextId' - 1 /\ 0 .. version \subseteq 0 .. version'
    <3>1. version \in Nat /\ nextId \in Nat /\ version' \in Nat /\ nextId' \in Nat
      BY <1>0, <1>1
    <3> QED
      BY <3>1, RangeGrows
  <2>5. job.got <= version'
    <3>1. job.got \in Nat /\ version \in Nat /\ version' \in Nat
      BY <1>0, <1>1
    <3> QED
      BY <2>3, <3>1
  <2>2. cursor \in 0 .. nextId' - 1 /\ refresh \in 0 .. version' /\ job.got <= version'
    BY <2>3, <2>4, <2>5
  <2> QED
    BY <1>1, <2>1, <2>2 DEF ConsumerTyped, consumer
<1>3. ClientTyped'
  <2>1. \A i \in 1 .. Len(inbox) : inbox[i].version <= version'
    BY <1>0, <1>1 DEF ClientTyped
  <2>2. 0 .. version \subseteq 0 .. version'
    BY <1>0, <1>1
  <2>3. gate \in [latest : 0 .. version', seen : SUBSET Types]
        /\ view \in 0 .. version' /\ due \in 0 .. version'
    BY <1>1, <2>2 DEF ClientTyped
  <2>4. join.at # "commit" => join.got <= version'
    BY <1>0, <1>1 DEF ClientTyped
  <2> QED
    BY <1>1, <2>1, <2>3, <2>4 DEF ClientTyped, client
<1>4. Sockets'
  BY <1>1 DEF Sockets, consumer, client
<1> QED
  BY <1>2, <1>3, <1>4, PlainStep

(* An event inserted has a number of its own.                                 *)
LEMMA InsertKeepsDb ==
  ASSUME DbTyped, NEW kind \in {"sync", "presence", "other"}, NEW v \in Versions,
         Insert(kind, v), version' = version, game' = game, events' = events,
         owed' \subseteq owed
  PROVE  DbTyped' /\ nextId' >= nextId
<1> USE FanoutAssumption
<1> DEFINE new == [id |-> nextId, kind |-> kind, version |-> v]
<1>1. /\ nextId' = nextId + 1 /\ nextId <= MaxId /\ nextId \in Nat /\ nextId >= 1
      /\ open' = open \cup {new}
  BY DEF Insert, DbTyped
<1>2. new \in Event
  BY <1>1 DEF Event
<1>3. \A e \in open \cup events : e.id \in Nat /\ e.id < nextId
  BY DEF DbTyped, Ids, Event
<1>4. Ids'
  <2>1. \A e \in open' \cup events' : e.id < nextId'
    BY <1>1, <1>3
  <2>2. \A e, f \in open' \cup events' : e.id = f.id => e = f
    BY <1>1, <1>3 DEF DbTyped, Ids
  <2> QED
    BY <2>1, <2>2 DEF DbTyped, Ids
<1> QED
  BY <1>1, <1>2, <1>4 DEF DbTyped

LEMMA CommitKeepsDb ==
  ASSUME DbTyped, NEW e \in open, Commit(e)
  PROVE  /\ DbTyped' /\ version' >= version /\ nextId' = nextId /\ events \subseteq events'
<1> USE FanoutAssumption
<1>1. /\ open' = open \ {e} /\ events' = events \cup {e} /\ nextId' = nextId
      /\ e \in Event /\ e.version \in Nat /\ e.version \in Versions /\ version \in Nat
  BY DEF Commit, DbTyped, Event, Versions
<1>2. Ids'
  BY <1>1, FS_AddElement DEF DbTyped, Ids
<1>3. CASE e.kind = "sync" /\ e.version > version
  <2>1. /\ version' = e.version /\ game' = e.version
        /\ owed' = owed \cup {[kind |-> "sync", version |-> e.version]}
    BY <1>3 DEF Commit
  <2>2. \A f \in events : f.version \in Nat
    BY DEF DbTyped, Event, Versions
  <2> QED
    BY <1>1, <1>2, <1>3, <2>1, <2>2 DEF DbTyped, Hint, Versions
<1>4. CASE ~ (e.kind = "sync" /\ e.version > version)
  <2>1. UNCHANGED <<version, game, owed>>
    BY <1>4 DEF Commit
  <2> QED
    BY <1>1, <1>2, <1>4, <2>1 DEF DbTyped
<1> QED
  BY <1>3, <1>4

LEMMA DbPlain ==
  ASSUME PInv,
         \/ BeginCommand \/ BeginOther \/ PresenceBump
         \/ \E h \in owed : Publish(h) \/ NeverPublish(h)
         \/ \E e \in open : Commit(e) \/ Abort(e)
  PROVE  PInv' /\ version' >= version
<1> USE FanoutAssumption
<1>0. DbTyped
  BY PlainParts
<1>1. CASE BeginCommand
  <2>1. version + 1 \in Versions
    BY <1>0, <1>1 DEF BeginCommand, DbTyped, Versions
  <2>2. DbTyped' /\ nextId' >= nextId
    BY <1>0, <1>1, <2>1, InsertKeepsDb DEF BeginCommand
  <2>3. /\ version' >= version /\ events' = events
        /\ UNCHANGED <<consumer, join, sess, sessions, client, due>>
    BY <1>1, PlainNumbers DEF BeginCommand
  <2> QED
    BY <2>2, <2>3, DbGrows
<1>2. CASE BeginOther
  <2>1. 0 \in Versions
    BY DEF Versions
  <2>2. DbTyped' /\ nextId' >= nextId
    BY <1>0, <1>2, <2>1, InsertKeepsDb DEF BeginOther
  <2> QED
    BY <1>2, <2>2, DbGrows, PlainNumbers DEF BeginOther
<1>3. CASE PresenceBump
  <2>1. DbTyped'
    <3>1. version + 1 \in Versions /\ version \in Nat
      BY <1>0, <1>3 DEF PresenceBump, DbTyped, Versions
    <3>2. Ids'
      BY <1>0, <1>3 DEF PresenceBump, DbTyped, Ids
    <3>3. game' \in 0 .. version' /\ owed' \subseteq Hint
      BY <1>0, <1>3, <3>1 DEF PresenceBump, DbTyped, Hint
    <3>4. \A e \in events' : e.kind = "sync" => e.version <= version'
      <4>1. \A e \in events : e.version \in Nat
        BY PlainNumbers
      <4> QED
        BY <1>0, <1>3, <3>1, <4>1 DEF PresenceBump, DbTyped
    <3> QED
      BY <1>0, <1>3, <3>1, <3>2, <3>3, <3>4 DEF PresenceBump, DbTyped
  <2>2. /\ version' >= version /\ events' = events /\ nextId' = nextId
        /\ UNCHANGED <<consumer, join, sess, sessions, client, due>>
    BY <1>3, PlainNumbers DEF PresenceBump
  <2>3. nextId' >= nextId
    BY <2>2, PlainNumbers
  <2> QED
    BY <2>1, <2>2, <2>3, DbGrows
<1>4. ASSUME NEW h \in owed, Publish(h) PROVE PInv' /\ version' >= version
  <2>1. h.kind \in {"sync", "presence", "other"} /\ h.version \in Versions
    BY <1>0 DEF DbTyped, Hint
  <2>2. DbTyped' /\ nextId' >= nextId
    BY <1>0, <1>4, <2>1, InsertKeepsDb DEF Publish
  <2> QED
    BY <1>4, <2>2, DbGrows, PlainNumbers DEF Publish
<1>5. ASSUME NEW h \in owed, NeverPublish(h) PROVE PInv' /\ version' >= version
  <2>1. DbTyped'
    BY <1>0, <1>5 DEF NeverPublish, DbTyped, Ids
  <2> QED
    BY <1>5, <2>1, DbGrows, PlainNumbers DEF NeverPublish
<1>6. ASSUME NEW e \in open, Commit(e) PROVE PInv' /\ version' >= version
  <2>1. DbTyped' /\ version' >= version /\ nextId' = nextId /\ events \subseteq events'
    BY <1>0, <1>6, CommitKeepsDb
  <2> QED
    BY <1>6, <2>1, DbGrows, PlainNumbers DEF Commit
<1>7. ASSUME NEW e \in open, Abort(e) PROVE PInv' /\ version' >= version
  <2>1. DbTyped'
    BY <1>0, <1>7 DEF Abort, DbTyped, Ids
  <2> QED
    BY <1>7, <2>1, DbGrows, PlainNumbers DEF Abort
<1> QED
  BY <1>1, <1>2, <1>3, <1>4, <1>5, <1>6, <1>7

LEMMA DbSame == DbTyped /\ UNCHANGED db => DbTyped'
<1> QED
  BY DEF db, DbTyped, Ids

(* What a broadcast's record holds.                                           *)
LEMMA Jobs ==
  ASSUME FanoutAssumption, version \in Versions, sess \in 0 .. MaxSessions
  PROVE  /\ Idle \in Job /\ Idle.at = "none" /\ Idle.got = 0 /\ Idle.to = 0
         /\ \A kind \in {"sync", "presence"} :
              /\ Broadcast(kind) \in Job /\ Broadcast(kind).at = "read"
              /\ Broadcast(kind).kind = kind /\ Broadcast(kind).got = 0
              /\ Broadcast(kind).to = sess
         /\ \A j \in Job :
              /\ HasRead(j) \in Job /\ HasRead(j).at = "send" /\ HasRead(j).kind = j.kind
              /\ HasRead(j).got = version /\ HasRead(j).to = j.to
<1>1. 0 \in Versions /\ 0 \in 0 .. MaxSessions
  BY FanoutAssumption DEF Versions
<1> QED
  BY <1>1 DEF Idle, Broadcast, HasRead, Job

(* A message that is delivered comes last.                                    *)
LEMMA Delivered ==
  ASSUME inbox \in Seq(Message), NEW to, NEW type \in Types, NEW v \in Versions,
         Deliver(to, type, v)
  PROVE  /\ inbox' \in Seq(Message) /\ Len(inbox) \in Nat
         /\ \A i \in 1 .. Len(inbox) : inbox'[i] = inbox[i]
         /\ to = sess /\ sess # 0 =>
              /\ Len(inbox') = Len(inbox) + 1
              /\ inbox'[Len(inbox) + 1].type = type
              /\ inbox'[Len(inbox) + 1].version = v
         /\ ~ (to = sess /\ sess # 0) => inbox' = inbox
<1> DEFINE m == [type |-> type, version |-> v]
<1>1. m \in Message /\ m.type = type /\ m.version = v
  BY DEF Message
<1>2. Len(inbox) \in Nat
  BY LenProperties
<1>3. CASE to = sess /\ sess # 0
  <2>1. inbox' = Append(inbox, m)
    BY <1>3 DEF Deliver
  <2> HIDE DEF m
  <2> QED
    BY <1>1, <1>2, <1>3, <2>1, AppendProperties
<1>4. CASE ~ (to = sess /\ sess # 0)
  BY <1>2, <1>4 DEF Deliver
<1> QED
  BY <1>3, <1>4

(* The head of the inbox is received; the others move up.                     *)
LEMMA Received ==
  ASSUME inbox \in Seq(Message), inbox # <<>>, inbox' = Tail(inbox)
  PROVE  /\ inbox' \in Seq(Message) /\ Len(inbox) \in Nat /\ Len(inbox) >= 1
         /\ Len(inbox') = Len(inbox) - 1
         /\ \A i \in 1 .. Len(inbox') : inbox'[i] = inbox[i + 1]
         /\ Head(inbox) = inbox[1] /\ Head(inbox) \in Message
<1>1. /\ inbox' \in Seq(Message) /\ Len(inbox') = Len(inbox) - 1
      /\ \A i \in 1 .. Len(inbox') : inbox'[i] = inbox[i + 1]
      /\ Head(inbox) \in Message
  BY HeadTailProperties
<1>2. Len(inbox) \in Nat /\ Len(inbox') \in Nat
  BY <1>1, LenProperties
<1> QED
  BY <1>1, <1>2, EmptySeq

LEMMA ConsumerPlain ==
  ASSUME PInv, Poll \/ Flush \/ TakeRefresh \/ TakeNotice \/ ReadRoom
  PROVE  PInv' /\ version' = version
<1>0. /\ DbTyped /\ ConsumerTyped /\ ClientTyped /\ Sockets
      /\ version \in Versions /\ version \in Nat /\ sess \in 0 .. MaxSessions
      /\ sessions \in Nat /\ cursor \in Nat /\ nextId \in Nat /\ refresh \in Nat /\ due \in Nat
  BY PlainParts, PlainNumbers DEF DbTyped, ClientTyped
<1>1. /\ UNCHANGED <<db, join, sess, sessions, client>>
  BY DEF Poll, Flush, TakeRefresh, TakeNotice, ReadRoom
<1>2. DbTyped' /\ version' = version /\ nextId' = nextId /\ events' = events
  BY <1>0, <1>1, DbSame DEF db
<1>3. \A j \in Job : j.got \in Nat /\ j.to \in Nat
  BY FanoutAssumption DEF Job, Versions
<1>4. rows # <<>> => /\ Head(rows) \in events /\ Tail(rows) \in Seq(events)
                     /\ Head(rows).id \in 0 .. nextId - 1 /\ Head(rows).version \in Nat
                     /\ Head(rows).kind = "sync" => Head(rows).version <= version
  <2>1. rows # <<>> => Head(rows) \in events /\ Tail(rows) \in Seq(events)
    BY <1>0, HeadTailProperties DEF ConsumerTyped
  <2>2. \A e \in events : /\ e.id \in 0 .. nextId - 1 /\ e.version \in Nat
                          /\ e.kind = "sync" => e.version <= version
    BY <1>0, FanoutAssumption DEF DbTyped, Ids, Event, Versions
  <2> QED
    BY <2>1, <2>2
<1>5. ConsumerTyped' /\ due' \in 0 .. version' /\ job'.to <= sessions'
      /\ (sess # 0 /\ join # Idle => due' = due)
  <2>1. CASE Poll
    <3>1. rows' \in Seq(events)
      BY <1>0, <2>1, OldestAreEvents DEF Poll
    <3> QED
      BY <1>0, <1>1, <1>2, <2>1, <3>1 DEF Poll, ConsumerTyped, ClientTyped, Sockets
  <2>2. CASE Flush
    <3>1. job' \in Job /\ job'.got = 0 /\ job'.to = sess
      BY <1>0, <2>2, Jobs, FanoutAssumption DEF Flush
    <3> QED
      BY <1>0, <1>1, <1>2, <2>2, <3>1 DEF Flush, ConsumerTyped, ClientTyped, Sockets
  <2>3. CASE TakeRefresh
    <3>1. /\ rows # <<>> /\ Head(rows).kind = "sync" /\ cursor' = Head(rows).id
          /\ rows' = Tail(rows) /\ refresh' = Later(refresh, Head(rows).version)
          /\ due' = (IF sess = 0 \/ join # Idle THEN due ELSE Later(due, Head(rows).version))
          /\ job' = job
      BY <2>3 DEF TakeRefresh, Coalesce
    <3>2. refresh' \in 0 .. version /\ due' \in 0 .. version
      BY <1>0, <1>4, <3>1 DEF Later, ConsumerTyped, ClientTyped
    <3> QED
      BY <1>0, <1>1, <1>2, <1>4, <3>1, <3>2 DEF ConsumerTyped, Sockets
  <2>4. CASE TakeNotice
    <3>1. /\ rows # <<>> /\ cursor' = Head(rows).id /\ due' = due /\ refresh' = refresh
          /\ \/ rows' = Tail(rows) /\ job' = Broadcast("presence")
             \/ rows' \in {Tail(rows), <<>>} /\ job' = job
      BY <2>4 DEF TakeNotice
    <3>2. job' \in Job /\ job'.got <= version /\ job'.to <= sessions
      BY <1>0, <3>1, Jobs, FanoutAssumption DEF ConsumerTyped, ClientTyped, Sockets
    <3>3. rows' \in Seq(events)
      BY <1>4, <3>1, EmptySeq
    <3> QED
      BY <1>0, <1>1, <1>2, <1>4, <3>1, <3>2, <3>3 DEF ConsumerTyped, ClientTyped, Sockets
  <2>5. CASE ReadRoom
    <3>1. job' \in Job /\ job'.got = version /\ job'.to = job.to
      BY <1>0, <2>5, Jobs, FanoutAssumption DEF ReadRoom, ConsumerTyped
    <3> QED
      BY <1>0, <1>1, <1>2, <2>5, <3>1 DEF ReadRoom, ConsumerTyped, ClientTyped, Sockets
  <2> QED
    BY <2>1, <2>2, <2>3, <2>4, <2>5
<1>6. ClientTyped' /\ Sockets'
  BY <1>0, <1>1, <1>2, <1>5 DEF ClientTyped, Sockets, client
<1> QED
  BY <1>2, <1>5, <1>6, PlainStep

(* A message whose version the room has does no harm to the inbox.            *)
LEMMA DeliveredTyped ==
  ASSUME inbox \in Seq(Message), \A i \in 1 .. Len(inbox) : inbox[i].version <= version,
         NEW to, NEW type \in Types, NEW v \in Versions, v <= version, Deliver(to, type, v)
  PROVE  /\ inbox' \in Seq(Message)
         /\ \A i \in 1 .. Len(inbox') : inbox'[i].version <= version
         /\ sess = 0 => inbox' = inbox
<1>1. /\ inbox' \in Seq(Message) /\ Len(inbox) \in Nat
      /\ \A i \in 1 .. Len(inbox) : inbox'[i] = inbox[i]
      /\ to = sess /\ sess # 0 => /\ Len(inbox') = Len(inbox) + 1
                                  /\ inbox'[Len(inbox) + 1].version = v
      /\ ~ (to = sess /\ sess # 0) => inbox' = inbox
  BY Delivered
<1>2. \A i \in 1 .. Len(inbox') : inbox'[i].version <= version
  <2>1. TAKE i \in 1 .. Len(inbox')
  <2>2. CASE i \in 1 .. Len(inbox)
    BY <1>1, <2>2
  <2>3. CASE i \notin 1 .. Len(inbox)
    <3>1. i = Len(inbox) + 1 /\ inbox'[i].version = v
      BY <1>1, <2>3
    <3> QED
      BY <3>1
  <2> QED
    BY <2>2, <2>3
<1> QED
  BY <1>1, <1>2

LEMMA SendPlain ==
  ASSUME PInv, Send \/ SendJoin \/ ReadRoomJoin \/ Acknowledge \/ Receive
  PROVE  PInv' /\ version' = version
<1> USE FanoutAssumption
<1>0. /\ DbTyped /\ ConsumerTyped /\ ClientTyped /\ Sockets
      /\ version \in Versions /\ version \in Nat /\ sess \in 0 .. MaxSessions
      /\ sessions \in Nat /\ job \in Job /\ join \in Job
      /\ inbox \in Seq(Message)
      /\ \A i \in 1 .. Len(inbox) : inbox[i].version <= version
  BY PlainParts, PlainNumbers DEF DbTyped, ConsumerTyped, ClientTyped
<1>1. UNCHANGED <<db, cursor, rows, refresh, sess, sessions, due>>
  BY DEF Send, SendJoin, ReadRoomJoin, Acknowledge, Receive, consumer
<1>2. DbTyped' /\ version' = version /\ nextId' = nextId /\ events' = events
  BY <1>0, <1>1, DbSame DEF db
<1>3. \A j \in Job : j.got \in Versions /\ j.to \in Nat
  BY DEF Job, Versions
<1>4. CASE Send
  <2>1. /\ Deliver(job.to, IF job.kind = "sync" THEN "state" ELSE "presence", job.got)
        /\ job' = Idle /\ join' = join /\ gate' = gate /\ view' = view
    BY <1>4 DEF Send
  <2>2. (IF job.kind = "sync" THEN "state" ELSE "presence") \in Types
    BY DEF Types
  <2>3. inbox' \in Seq(Message) /\ (\A i \in 1 .. Len(inbox') : inbox'[i].version <= version)
        /\ (sess = 0 => inbox' = inbox)
    BY <1>0, <1>3, <2>1, <2>2, DeliveredTyped DEF ConsumerTyped
  <2>4. ConsumerTyped' /\ ClientTyped' /\ Sockets'
    BY <1>0, <1>1, <1>2, <2>1, <2>3, Jobs DEF ConsumerTyped, ClientTyped, Sockets
  <2> QED
    BY <1>2, <2>4, PlainStep
<1>5. CASE SendJoin
  <2>1. /\ join.at = "send" /\ Deliver(join.to, "state", join.got)
        /\ join' = Idle /\ job' = job /\ gate' = gate /\ view' = view
    BY <1>5 DEF SendJoin, consumer
  <2>2. "state" \in Types /\ join.got <= version
    BY <1>0, <2>1 DEF Types, ClientTyped
  <2>3. inbox' \in Seq(Message) /\ (\A i \in 1 .. Len(inbox') : inbox'[i].version <= version)
        /\ (sess = 0 => inbox' = inbox)
    BY <1>0, <1>3, <2>1, <2>2, DeliveredTyped
  <2>4. ConsumerTyped' /\ ClientTyped' /\ Sockets'
    BY <1>0, <1>1, <1>2, <2>1, <2>3, Jobs DEF ConsumerTyped, ClientTyped, Sockets
  <2> QED
    BY <1>2, <2>4, PlainStep
<1>6. CASE ReadRoomJoin
  <2>1. /\ join.at = "read" /\ join' = HasRead(join) /\ job' = job /\ gate' = gate
        /\ view' = view /\ inbox' = inbox
    BY <1>6 DEF ReadRoomJoin, consumer, client
  <2>2. /\ join' \in Job /\ join'.at = "send" /\ join'.got = version /\ join'.to = join.to
        /\ join # Idle
    BY <1>0, <2>1, Jobs
  <2>3. ConsumerTyped' /\ ClientTyped' /\ Sockets'
    BY <1>0, <1>1, <1>2, <2>1, <2>2 DEF ConsumerTyped, ClientTyped, Sockets
  <2> QED
    BY <1>2, <2>3, PlainStep
<1>7. CASE Acknowledge
  <2>1. /\ join.at = "ack" /\ Deliver(join.to, "joined", join.got)
        /\ join' = Broadcast("sync") /\ job' = job /\ gate' = gate /\ view' = view
    BY <1>7 DEF Acknowledge, consumer
  <2>2. "joined" \in Types /\ join.got <= version
    BY <1>0, <2>1 DEF Types, ClientTyped
  <2>3. inbox' \in Seq(Message) /\ (\A i \in 1 .. Len(inbox') : inbox'[i].version <= version)
        /\ (sess = 0 => inbox' = inbox)
    BY <1>0, <1>3, <2>1, <2>2, DeliveredTyped
  <2>4. /\ join' \in Job /\ join'.at = "read" /\ join'.got = 0 /\ join'.to = sess /\ join # Idle
    BY <1>0, <2>1, Jobs
  <2>5. ConsumerTyped' /\ ClientTyped' /\ Sockets'
    BY <1>0, <1>1, <1>2, <2>1, <2>3, <2>4 DEF ConsumerTyped, ClientTyped, Sockets
  <2> QED
    BY <1>2, <2>5, PlainStep
<1>8. CASE Receive
  <2> DEFINE m == Head(inbox)
             g == IF m.type = "joined" THEN OpenGate ELSE gate
  <2>1. /\ inbox # <<>> /\ inbox' = Tail(inbox) /\ job' = job /\ join' = join
        /\ \/ gate' = Seen(g, m) /\ view' = (IF m.type = "state" THEN m.version ELSE view)
           \/ gate' = g /\ view' = view
    BY <1>8 DEF Receive, consumer
  <2>2. /\ inbox' \in Seq(Message) /\ Len(inbox) \in Nat /\ Len(inbox) >= 1
        /\ Len(inbox') = Len(inbox) - 1
        /\ \A i \in 1 .. Len(inbox') : inbox'[i] = inbox[i + 1]
        /\ m = inbox[1] /\ m \in Message
    BY <1>0, <2>1, Received
  <2>3. m.type \in Types /\ m.version \in 0 .. version
    BY <1>0, <2>2 DEF Message, Versions
  <2>4. \A i \in 1 .. Len(inbox') : inbox'[i].version <= version
    BY <1>0, <2>2
  <2>5. g \in [latest : 0 .. version, seen : SUBSET Types]
    BY <1>0 DEF OpenGate, ClientTyped
  <2>6. gate' \in [latest : 0 .. version, seen : SUBSET Types] /\ view' \in 0 .. version
    <3> HIDE DEF m, g
    <3>1. Seen(g, m) \in [latest : 0 .. version, seen : SUBSET Types]
      BY <2>3, <2>5 DEF Seen
    <3> QED
      BY <1>0, <2>1, <2>3, <2>5, <3>1 DEF ClientTyped
  <2>7. sess = 0 => inbox' = <<>>
    BY <1>0, <2>1 DEF Sockets
  <2>8. ConsumerTyped' /\ ClientTyped' /\ Sockets'
    BY <1>0, <1>1, <1>2, <2>1, <2>2, <2>4, <2>6, <2>7 DEF ConsumerTyped, ClientTyped, Sockets
  <2> QED
    BY <1>2, <2>8, PlainStep
<1> QED
  BY <1>4, <1>5, <1>6, <1>7, <1>8

LEMMA SocketPlain ==
  ASSUME PInv, Disconnect \/ Resync \/ Restart \/ Rejoin \/ Attach \/ MarkPresent
  PROVE  PInv' /\ version' >= version
<1> USE FanoutAssumption
<1>0. /\ DbTyped /\ ConsumerTyped /\ ClientTyped /\ Sockets
      /\ version \in Versions /\ version \in Nat /\ sess \in 0 .. MaxSessions
      /\ sessions \in Nat /\ job \in Job /\ join \in Job
      /\ inbox \in Seq(Message)
      /\ \A i \in 1 .. Len(inbox) : inbox[i].version <= version
  BY PlainParts, PlainNumbers DEF DbTyped, ConsumerTyped, ClientTyped
<1>1. \A j \in Job : j.got \in Versions /\ j.to \in Nat
  BY DEF Job, Versions
<1>2. <<>> \in Seq(Message) /\ \A i \in 1 .. Len(<<>>) : <<>>[i].version <= version
  BY EmptySeq
<1>3. OpenGate \in [latest : 0 .. version, seen : SUBSET Types]
  BY <1>0 DEF OpenGate
<1>4. /\ Idle \in Job /\ Idle.at = "none" /\ Idle.got = 0 /\ Idle.to = 0
      /\ Idle.got <= version /\ Idle.to <= sessions
  BY <1>0, Jobs
<1>5. CASE Disconnect
  <2>1. /\ sess' = 0 /\ inbox' = <<>>
        /\ UNCHANGED <<db, consumer, join, sessions, gate, view, due>>
    BY <1>5 DEF Disconnect, CloseSocket
  <2>2. DbTyped' /\ version' = version
    BY <1>0, <2>1, DbSame DEF db
  <2>3. ConsumerTyped' /\ ClientTyped' /\ Sockets'
    BY <1>0, <1>2, <2>1, <2>2 DEF ConsumerTyped, ClientTyped, Sockets, db, consumer
  <2> QED
    BY <1>0, <2>2, <2>3, PlainStep
<1>6. CASE Resync
  <2>1. /\ sess' = 0 /\ inbox' = <<>> /\ gate' \in {gate, OpenGate}
        /\ job' \in {job, Idle} /\ join' \in {join, Idle}
        /\ UNCHANGED <<db, cursor, rows, refresh, sessions, view, due>>
    BY <1>6 DEF Resync, CloseSocket
  <2>2. DbTyped' /\ version' = version
    BY <1>0, <2>1, DbSame DEF db
  <2>3. ConsumerTyped' /\ ClientTyped' /\ Sockets'
    BY <1>0, <1>2, <1>3, <1>4, <2>1, <2>2 DEF ConsumerTyped, ClientTyped, Sockets, db
  <2> QED
    BY <1>0, <2>2, <2>3, PlainStep
<1>7. CASE Restart
  <2>1. /\ sess' = 0 /\ inbox' = <<>> /\ cursor' = Max({0} \cup {e.id : e \in events})
        /\ rows' = <<>> /\ refresh' = 0 /\ job' = Idle /\ join' = Idle
        /\ UNCHANGED <<db, sessions, gate, view, due>>
    BY <1>7 DEF Restart, CloseSocket
  <2>2. DbTyped' /\ version' = version
    BY <1>0, <2>1, DbSame DEF db
  <2>3. cursor' \in 0 .. nextId' - 1
    BY <1>0, <2>1, TailOfLog DEF db
  <2>4. rows' \in Seq(events')
    BY <2>1, EmptySeq
  <2>5. ConsumerTyped' /\ ClientTyped' /\ Sockets'
    BY <1>0, <1>2, <1>4, <2>1, <2>2, <2>3, <2>4 DEF ConsumerTyped, ClientTyped, Sockets, db
  <2> QED
    BY <1>0, <2>2, <2>5, PlainStep
<1>8. CASE Rejoin
  <2>1. /\ sess = 0 /\ sessions < MaxSessions /\ version < MaxVersion
        /\ Insert("sync", version + 1)
        /\ join' = [Idle EXCEPT !.at = "commit", !.got = version + 1]
        /\ UNCHANGED <<version, game, owed, events, consumer, sess, sessions, client, due>>
    BY <1>8 DEF Rejoin
  <2>2. version + 1 \in Versions
    BY <1>0, <2>1 DEF Versions
  <2>3. DbTyped' /\ nextId' >= nextId
    BY <1>0, <2>1, <2>2, InsertKeepsDb
  <2>4. join' \in Job /\ join'.at = "commit" /\ join'.to = 0
    BY <1>4, <2>1, <2>2 DEF Idle, Job
  <2>5. nextId \in Nat /\ nextId' \in Nat
    BY <1>0, <2>3 DEF DbTyped
  <2>6. ConsumerTyped' /\ ClientTyped' /\ Sockets'
    <3>1. cursor \in 0 .. nextId' - 1
      <4>1. cursor \in 0 .. nextId - 1
        BY <1>0 DEF ConsumerTyped
      <4>2. 0 .. nextId - 1 \subseteq 0 .. nextId' - 1
        BY <2>3, <2>5, RangeGrows
      <4> QED
        BY <4>1, <4>2
    <3>2. ConsumerTyped'
      BY <1>0, <2>1, <3>1 DEF ConsumerTyped, consumer
    <3>3. ClientTyped' /\ Sockets'
      BY <1>0, <2>1, <2>4 DEF ConsumerTyped, ClientTyped, Sockets, consumer, client
    <3> QED
      BY <3>2, <3>3
  <2> QED
    BY <1>0, <2>1, <2>3, <2>6, PlainStep
<1>9. CASE Attach
  <2>1. /\ join.at = "commit" /\ UNCHANGED <<db, consumer, gate, view>>
        /\ IF version < join.got
           THEN join' = Idle /\ UNCHANGED <<sess, sessions, inbox, due>>
           ELSE /\ sess' = sessions + 1 /\ sessions' = sessions + 1
                /\ inbox' = <<>> /\ due' = 0
                /\ join' = [join EXCEPT !.at = "mark", !.to = sessions + 1]
    BY <1>9 DEF Attach
  <2>2. DbTyped' /\ version' = version /\ sess = 0 /\ sessions < MaxSessions
    BY <1>0, <2>1, DbSame DEF db, Sockets
  <2>3. ConsumerTyped'
    BY <1>0, <2>1 DEF ConsumerTyped, db, consumer
  <2>4. CASE version < join.got
    <3>1. ClientTyped' /\ Sockets'
      BY <1>0, <1>4, <2>1, <2>2, <2>4 DEF ClientTyped, Sockets, consumer
    <3> QED
      BY <1>0, <2>2, <2>3, <3>1, PlainStep
  <2>5. CASE ~ (version < join.got)
    <3>1. /\ join' \in Job /\ join'.at = "mark" /\ join'.to = sessions + 1
          /\ join'.got = join.got /\ join.got <= version
      <4>1. join' = [join EXCEPT !.at = "mark", !.to = sessions + 1]
        BY <2>1, <2>5
      <4>2. sessions + 1 \in 0 .. MaxSessions
        BY <1>0, <2>2
      <4>3. /\ join' \in Job /\ join'.at = "mark" /\ join'.to = sessions + 1
            /\ join'.got = join.got
        BY <1>0, <4>1, <4>2 DEF Job
      <4>4. join.got \in Nat
        BY <1>0, <1>1 DEF Versions
      <4> QED
        BY <1>0, <2>5, <4>3, <4>4
    <3>2. job.to <= sessions + 1 /\ job.to \in Nat
      BY <1>0, <1>1 DEF Sockets
    <3>3. /\ sess' = sessions + 1 /\ sessions' = sessions + 1 /\ inbox' = <<>> /\ due' = 0
          /\ gate' = gate /\ view' = view /\ job' = job
      BY <2>1, <2>5 DEF consumer
    <3>4. /\ sess' \in 0 .. MaxSessions /\ sessions' \in sess' .. MaxSessions
          /\ due' \in 0 .. version
      BY <1>0, <2>2, <3>3
    <3>5. ClientTyped'
      BY <1>0, <1>2, <2>2, <3>1, <3>3, <3>4 DEF ClientTyped
    <3>6. Sockets'
      BY <1>0, <3>1, <3>2, <3>3 DEF Sockets
    <3> QED
      BY <1>0, <2>2, <2>3, <3>5, <3>6, PlainStep
  <2> QED
    BY <2>4, <2>5
<1>10. CASE MarkPresent
  <2>1. /\ join.at = "mark"
        /\ IF sess # join.to THEN join' = Idle /\ UNCHANGED version
           ELSE /\ version < MaxVersion /\ version' = version + 1
                /\ join' = [join EXCEPT !.at = "ack", !.got = version + 1]
        /\ UNCHANGED <<game, owed, nextId, open, events, consumer, sess, sessions, client, due>>
    BY <1>10 DEF MarkPresent
  <2>2. /\ version' \in Versions /\ version' \in Nat /\ version' >= version
    BY <1>0, <2>1 DEF Versions
  <2>3. /\ join' \in Job /\ join'.got <= version' /\ join'.at # "commit"
        /\ join'.to <= sessions /\ join # Idle
    <3>1. CASE sess # join.to
      BY <1>0, <1>4, <2>1, <2>2, <3>1
    <3>2. CASE sess = join.to
      <4>1. join' = [join EXCEPT !.at = "ack", !.got = version + 1] /\ version' = version + 1
        BY <2>1, <3>2
      <4>2. /\ join' \in Job /\ join'.got = version + 1 /\ join'.at = "ack"
            /\ join'.to = join.to
        BY <1>0, <2>2, <4>1 DEF Job
      <4>3. join # Idle /\ join.to <= sessions
        BY <1>0, <1>4, <2>1 DEF Sockets
      <4> QED
        BY <1>0, <4>1, <4>2, <4>3
    <3> QED
      BY <3>1, <3>2
  <2>4. DbTyped'
    <3>1. \A e \in events : e.version \in Nat
      BY PlainNumbers
    <3> QED
      BY <1>0, <2>1, <2>2, <3>1 DEF DbTyped, Ids
  <2>5. \A i \in 1 .. Len(inbox) : inbox[i].version <= version'
    <3>1. \A i \in 1 .. Len(inbox) : inbox[i].version \in Nat
      BY PlainNumbers
    <3> QED
      BY <1>0, <2>2, <3>1
  <2>6. 0 .. version \subseteq 0 .. version'
    BY <1>0, <2>2
  <2>7. ConsumerTyped'
    <3>1. job.got \in Nat /\ job.got <= version /\ job.got <= version'
      BY <1>0, <2>2, PlainNumbers DEF ConsumerTyped
    <3> QED
      BY <1>0, <2>1, <2>6, <3>1 DEF ConsumerTyped, consumer
  <2>8. gate \in [latest : 0 .. version', seen : SUBSET Types]
        /\ view \in 0 .. version' /\ due \in 0 .. version'
    BY <1>0, <2>6 DEF ClientTyped
  <2>9. ClientTyped' /\ Sockets'
    BY <1>0, <2>1, <2>3, <2>5, <2>8 DEF ClientTyped, Sockets, consumer, client
  <2> QED
    BY <2>2, <2>4, <2>7, <2>9, PlainStep
<1> QED
  BY <1>5, <1>6, <1>7, <1>8, <1>9, <1>10

-----------------------------------------------------------------------------
(* The order of the states on their way                                      *)

InOrder ==
  NothingOlder /\ NothingOlderBehindJoin /\ InOrderBeforeJoin /\ SeenShown /\ Covered

LEMMA InitOrder == Init => InOrder
<1> SUFFICES ASSUME Init PROVE InOrder
  OBVIOUS
<1>1. /\ job.at = "none" /\ join.at = "none" /\ inbox = <<>> /\ Len(inbox) = 0
      /\ gate.latest = 1 /\ view = 1 /\ due = 0
  BY DEF Init, Idle
<1> QED
  BY <1>1 DEF InOrder, NothingOlder, NothingOlderBehindJoin, InOrderBeforeJoin, SeenShown,
              Covered, JobSends

(* A step away from the sockets and the broadcasts.                           *)
LEMMA OrderElsewhere ==
  ASSUME InOrder, UNCHANGED <<refresh, job, join, sess, client, due>>
  PROVE  InOrder'
<1>1. /\ refresh' = refresh /\ job' = job /\ join' = join /\ sess' = sess /\ inbox' = inbox
      /\ gate' = gate /\ view' = view /\ due' = due
  BY DEF client
<1>2. NothingOlder' /\ NothingOlderBehindJoin'
  BY <1>1 DEF InOrder, NothingOlder, NothingOlderBehindJoin, Coming, JobSends, JoinSends, IsState
<1>3. InOrderBeforeJoin' /\ SeenShown'
  BY <1>1 DEF InOrder, InOrderBeforeJoin, SeenShown, JobSends, IsState
<1>4. Covered'
  BY <1>1 DEF InOrder, Covered, CoveredByJob, CoveredByMessage, IsState
<1> QED
  BY <1>2, <1>3, <1>4 DEF InOrder

(* The consumer takes an event, or begins a broadcast: nothing is sent by it   *)
(* before or after.                                                           *)
LEMMA OrderTakes ==
  ASSUME PInv, InOrder, Flush \/ TakeRefresh \/ TakeNotice
  PROVE  InOrder'
<1>1. /\ join' = join /\ sess' = sess /\ inbox' = inbox /\ gate' = gate /\ view' = view
      /\ job.at = "none" /\ ~JobSends
  BY DEF Flush, TakeRefresh, TakeNotice, client, JobSends
<1>2. ~JobSends'
  BY <1>1 DEF Flush, TakeRefresh, TakeNotice, JobSends, Broadcast
<1>3. NothingOlder' /\ NothingOlderBehindJoin'
  BY <1>1, <1>2 DEF InOrder, NothingOlder, NothingOlderBehindJoin, Coming, JoinSends, IsState
<1>4. InOrderBeforeJoin' /\ SeenShown'
  BY <1>1, <1>2 DEF InOrder, InOrderBeforeJoin, SeenShown
<1>5. Covered'
  <2> SUFFICES ASSUME sess # 0
               PROVE  \/ view >= due' \/ refresh' >= due' \/ CoveredByJob'
                      \/ \E j \in 1 .. Len(inbox) : CoveredByMessage(j)'
    BY <1>1 DEF Covered
  <2>1. \/ view >= due \/ refresh >= due \/ \E j \in 1 .. Len(inbox) : CoveredByMessage(j)
    BY <1>1 DEF InOrder, Covered, CoveredByJob
  <2>2. /\ view \in Nat /\ due \in Nat /\ refresh \in Nat
        /\ rows # <<>> /\ Head(rows).kind = "sync" => Head(rows).version \in Nat
    <3>1. rows # <<>> => Head(rows) \in events
      BY HeadTailProperties DEF PInv, Committed
    <3> QED
      BY <3>1, PlainNumbers
  <2>3. CASE Flush
    <3>1. job' = [at |-> "read", kind |-> "sync", got |-> 0, to |-> sess] /\ due' = due
      BY <2>3 DEF Flush, Broadcast
    <3>2. CoveredByJob'
      BY <1>1, <3>1 DEF CoveredByJob
    <3> QED
      BY <3>2
  <2>4. CASE TakeNotice
    <3>1. due' = due /\ refresh' = refresh
      BY <2>4 DEF TakeNotice
    <3> QED
      BY <1>1, <2>1, <3>1 DEF CoveredByMessage, IsState
  <2>5. CASE TakeRefresh
    <3>1. /\ rows # <<>> /\ Head(rows).kind = "sync"
          /\ refresh' = Later(refresh, Head(rows).version)
          /\ due' = due \/ due' = Later(due, Head(rows).version)
      BY <2>5 DEF TakeRefresh, Coalesce
    <3>2. refresh' >= refresh /\ refresh' >= Head(rows).version
      BY <2>2, <3>1 DEF Later
    <3>3. due' = due \/ refresh' >= due'
      BY <2>2, <3>1, <3>2 DEF Later
    <3>4. CASE due' = due
      BY <1>1, <2>1, <2>2, <3>1, <3>2, <3>4 DEF CoveredByMessage, IsState, Later
    <3> QED
      BY <3>3, <3>4
  <2> QED
    BY <2>3, <2>4, <2>5
<1> QED
  BY <1>3, <1>4, <1>5 DEF InOrder

(* A broadcast reads the room: what it will send is the newest there is.       *)
LEMMA OrderReads ==
  ASSUME PInv, InOrder, ReadRoom \/ ReadRoomJoin
  PROVE  InOrder'
<1>0. /\ version \in Nat /\ view \in 0 .. version /\ due \in 0 .. version
      /\ gate.latest \in 0 .. version
      /\ (\A i \in 1 .. Len(inbox) : inbox[i].version <= version)
  BY PlainParts, PlainNumbers DEF ClientTyped
<1>1. /\ sess' = sess /\ inbox' = inbox /\ gate' = gate /\ view' = view /\ due' = due
      /\ refresh' = refresh /\ job \in Job /\ join \in Job
  BY PlainParts DEF ReadRoom, ReadRoomJoin, client, consumer, ConsumerTyped, ClientTyped
<1>2. \/ /\ job.at = "read" /\ join' = join /\ job'.at = "send" /\ job'.got = version
         /\ job'.kind = job.kind /\ job'.to = job.to
      \/ /\ join.at = "read" /\ job' = job /\ join'.at = "send" /\ join'.got = version
         /\ join'.to = join.to
  BY <1>1 DEF ReadRoom, ReadRoomJoin, HasRead, consumer, Job
<1>3. \A k \in Nat, v \in Versions : Coming(k, v)' => Coming(k, v) \/ v = version
  BY <1>1, <1>2 DEF Coming, JobSends, JoinSends, IsState
<1>4. NothingOlder'
  BY <1>0, <1>1, <1>3 DEF InOrder, NothingOlder
<1>5. NothingOlderBehindJoin'
  <2>1. SUFFICES ASSUME NEW k \in 1 .. Len(inbox), inbox[k].type = "joined",
                        NEW v \in Versions, Coming(k, v)'
                 PROVE  v >= view /\ \A i \in 1 .. k - 1 : IsState(i) => v >= inbox[i].version
    BY <1>1 DEF NothingOlderBehindJoin, IsState
  <2>2. CASE Coming(k, v)
    BY <2>1, <2>2 DEF InOrder, NothingOlderBehindJoin
  <2>3. CASE v = version
    BY <1>0, <2>3 DEF IsState
  <2> QED
    BY <1>3, <2>1, <2>2, <2>3
<1>6. InOrderBeforeJoin'
  <2>1. CASE job' = job
    <3>1. join'.at = "send"
      BY <1>2, <2>1
    <3> QED
      BY <3>1 DEF InOrderBeforeJoin
  <2>2. CASE job'.got = version
    BY <1>0, <1>1, <2>2 DEF InOrderBeforeJoin, IsState
  <2> QED
    BY <1>2, <2>1, <2>2
<1>7. SeenShown'
  BY <1>1 DEF InOrder, SeenShown
<1>8. Covered'
  <2>1. CASE job' = job
    BY <1>1, <2>1 DEF InOrder, Covered, CoveredByJob, CoveredByMessage, IsState
  <2>2. CASE job.at = "read" /\ job'.got = version /\ job'.at = "send" /\ job'.kind = job.kind
             /\ job'.to = job.to
    BY <1>0, <1>1, <2>2 DEF InOrder, Covered, CoveredByJob, CoveredByMessage, IsState
  <2> QED
    BY <1>2, <2>1, <2>2
<1> QED
  BY <1>4, <1>5, <1>6, <1>7, <1>8 DEF InOrder

(* A broadcast sends what it read: what was coming has come.                   *)
LEMMA OrderSends ==
  ASSUME PInv, InOrder, Send \/ SendJoin
  PROVE  InOrder'
<1> DEFINE L    == Len(inbox)
           sent == IF Send THEN IF job.kind = "sync" THEN "state" ELSE "presence" ELSE "state"
           got  == IF Send THEN job.got ELSE join.got
           to   == IF Send THEN job.to ELSE join.to
           here == to = sess /\ sess # 0
<1>0. /\ inbox \in Seq(Message) /\ job \in Job /\ join \in Job
      /\ view \in Nat /\ due \in Nat /\ refresh \in Nat
      /\ \A i \in 1 .. Len(inbox) : inbox[i].version \in Nat
  BY PlainParts, PlainNumbers DEF ConsumerTyped, ClientTyped
<1>1. /\ sess' = sess /\ gate' = gate /\ view' = view /\ due' = due /\ refresh' = refresh
      /\ Deliver(to, sent, got)
      /\ \/ job.at = "send" /\ job' = Idle /\ join' = join /\ Send
         \/ join.at = "send" /\ join' = Idle /\ job' = job /\ ~Send
  BY DEF Send, SendJoin, consumer, Idle
<1>2. sent \in Types /\ got \in Versions
  BY <1>0 DEF Types, Job
<1>3. /\ L \in Nat /\ \A i \in 1 .. L : inbox'[i] = inbox[i]
      /\ here => /\ Len(inbox') = L + 1 /\ inbox'[L + 1].type = sent
                 /\ inbox'[L + 1].version = got
      /\ ~here => inbox' = inbox
  <2> HIDE DEF sent, got, to
  <2> QED
    BY <1>0, <1>1, <1>2, Delivered
<1>4. here /\ sent = "state" =>
        \/ JobSends /\ got = job.got
        \/ JoinSends /\ got = join.got
  BY <1>1 DEF JobSends, JoinSends
<1>5. /\ JobSends' => JobSends /\ job' = job
      /\ JoinSends' => JoinSends /\ join' = join
  BY <1>1 DEF JobSends, JoinSends, Idle
<1> HIDE DEF sent, got, to, here, L
<1>6. ASSUME NEW k \in Nat, NEW v \in Versions, Coming(k, v)'
      PROVE  Coming(k, v)
  <2>1. CASE \E j \in k + 1 .. Len(inbox') : IsState(j)' /\ v = inbox'[j].version
    <3>1. PICK j \in k + 1 .. Len(inbox') : IsState(j)' /\ v = inbox'[j].version
      BY <2>1
    <3>2. CASE j \in 1 .. L
      BY <1>3, <3>1, <3>2 DEF Coming, IsState, L
    <3>3. CASE j \notin 1 .. L
      <4>1. here /\ j = L + 1
        BY <1>3, <3>1, <3>3 DEF L
      <4>2. sent = "state" /\ v = got
        BY <1>3, <3>1, <4>1 DEF IsState
      <4> QED
        BY <1>4, <4>1, <4>2 DEF Coming
    <3> QED
      BY <3>2, <3>3
  <2>2. CASE \/ JobSends' /\ v = job'.got
             \/ JoinSends' /\ v = join'.got
    BY <1>5, <2>2 DEF Coming
  <2> QED
    BY <1>6, <2>1, <2>2 DEF Coming
<1>7. NothingOlder'
  BY <1>1, <1>6 DEF InOrder, NothingOlder
<1>8. NothingOlderBehindJoin'
  <2>1. SUFFICES ASSUME NEW k \in 1 .. Len(inbox'), inbox'[k].type = "joined",
                        NEW v \in Versions, Coming(k, v)'
                 PROVE  v >= view /\ \A i \in 1 .. k - 1 : IsState(i)' => v >= inbox'[i].version
    BY <1>1 DEF NothingOlderBehindJoin
  <2>2. k \in 1 .. L /\ inbox[k].type = "joined"
    <3>1. sent # "joined"
      BY DEF sent
    <3>2. k \in 1 .. L
      BY <1>3, <2>1, <3>1 DEF L
    <3> QED
      BY <1>3, <2>1, <3>2
  <2>3. v >= view /\ \A i \in 1 .. k - 1 : IsState(i) => v >= inbox[i].version
    BY <1>6, <2>1, <2>2 DEF InOrder, NothingOlderBehindJoin, L
  <2>4. \A i \in 1 .. k - 1 : i \in 1 .. L /\ inbox'[i] = inbox[i]
    BY <1>3, <2>2
  <2> QED
    BY <2>3, <2>4 DEF IsState, L
<1>9. InOrderBeforeJoin' /\ SeenShown'
  <2>1. InOrderBeforeJoin'
    BY <1>1 DEF InOrderBeforeJoin, JobSends, Idle
  <2>2. SeenShown'
    BY <1>1 DEF InOrder, SeenShown
  <2> QED
    BY <2>1, <2>2
<1>10. Covered'
  <2> SUFFICES ASSUME sess # 0
               PROVE  \/ view >= due \/ refresh >= due \/ CoveredByJob'
                      \/ \E j \in 1 .. Len(inbox') : CoveredByMessage(j)'
    BY <1>1 DEF Covered
  <2>1. CASE ~Send
    <3>1. join # Idle
      BY <1>1, <2>1 DEF Idle
    <3>2. due = 0
      BY <3>1 DEF PInv, Sockets
    <3> QED
      BY <1>0, <3>2
  <2>2. CASE Send
    <3>1. CASE view >= due \/ refresh >= due
      BY <3>1
    <3>2. CASE CoveredByJob
      <4>1. /\ here /\ sent = "state" /\ got = job.got
        BY <1>1, <2>2, <3>2 DEF here, to, sent, got, CoveredByJob
      <4>2. /\ L + 1 \in 1 .. Len(inbox') /\ inbox'[L + 1].type = "state"
            /\ inbox'[L + 1].version = job.got
        BY <1>3, <4>1
      <4>3. /\ job.got >= due /\ gate.latest <= job.got
            /\ \A i \in 1 .. L : inbox'[i].version <= job.got
        BY <1>1, <1>3, <2>2, <3>2 DEF CoveredByJob, L
      <4>4. PICK j \in 1 .. Len(inbox') : j = L + 1
        BY <4>2
      <4>5. \A i \in 1 .. j - 1 : i \in 1 .. L
        BY <1>3, <4>4
      <4>6. CoveredByMessage(j)'
        BY <1>1, <4>2, <4>3, <4>4, <4>5 DEF CoveredByMessage, IsState
      <4> QED
        BY <4>6
    <3>3. ASSUME NEW j \in 1 .. Len(inbox), CoveredByMessage(j)
          PROVE  j \in 1 .. Len(inbox') /\ CoveredByMessage(j)'
      <4>1. j \in 1 .. Len(inbox') /\ 1 .. j \subseteq 1 .. L /\ inbox'[j] = inbox[j]
        BY <1>3 DEF L
      <4>2. \A i \in 1 .. j - 1 : /\ i \in 1 .. L /\ i \in 1 .. Len(inbox')
                                  /\ inbox'[i] = inbox[i]
        BY <1>3, <4>1 DEF L
      <4> QED
        BY <1>1, <3>3, <4>1, <4>2 DEF CoveredByMessage, IsState, L
    <3> QED
      BY <3>1, <3>2, <3>3 DEF InOrder, Covered
  <2> QED
    BY <2>1, <2>2
<1> QED
  BY <1>7, <1>8, <1>9, <1>10 DEF InOrder

(* The acknowledgement is sent behind every state the session has got so far.  *)
LEMMA OrderAcknowledges ==
  ASSUME PInv, InOrder, Acknowledge
  PROVE  InOrder'
<1> DEFINE L    == Len(inbox)
           here == join.to = sess /\ sess # 0
<1>0. /\ inbox \in Seq(Message) /\ job \in Job /\ join \in Job
      /\ view \in Nat /\ due \in Nat /\ refresh \in Nat
  BY PlainParts, PlainNumbers DEF ConsumerTyped, ClientTyped
<1>1. /\ sess' = sess /\ gate' = gate /\ view' = view /\ due' = due /\ refresh' = refresh
      /\ job' = job /\ join.at = "ack" /\ join'.at = "read"
      /\ Deliver(join.to, "joined", join.got)
  BY DEF Acknowledge, consumer, Broadcast
<1>2. "joined" \in Types /\ join.got \in Versions
  BY <1>0 DEF Types, Job
<1>3. /\ L \in Nat /\ \A i \in 1 .. L : inbox'[i] = inbox[i]
      /\ here => Len(inbox') = L + 1 /\ inbox'[L + 1].type = "joined"
      /\ ~here => inbox' = inbox
  BY <1>0, <1>1, <1>2, Delivered
<1> HIDE DEF here, L
<1>4. ASSUME NEW k \in Nat, NEW v \in Versions, Coming(k, v)'
      PROVE  Coming(k, v) /\ (k \notin 0 .. L - 1 => JobSends /\ v = job.got)
  <2>1. ASSUME NEW j \in k + 1 .. Len(inbox'), IsState(j)', v = inbox'[j].version
        PROVE  Coming(k, v) /\ k \in 0 .. L - 1
    <3>1. j \in 1 .. L
      BY <1>3, <2>1 DEF IsState, L
    <3> QED
      BY <1>3, <2>1, <3>1 DEF Coming, IsState, L
  <2>2. ~JoinSends' /\ JobSends' = JobSends
    BY <1>1 DEF JobSends, JoinSends
  <2> QED
    BY <1>1, <1>4, <2>1, <2>2 DEF Coming
<1>5. NothingOlder'
  BY <1>1, <1>4 DEF InOrder, NothingOlder
<1>6. NothingOlderBehindJoin'
  <2>1. SUFFICES ASSUME NEW k \in 1 .. Len(inbox'), inbox'[k].type = "joined",
                        NEW v \in Versions, Coming(k, v)'
                 PROVE  v >= view /\ \A i \in 1 .. k - 1 : IsState(i)' => v >= inbox'[i].version
    BY <1>1 DEF NothingOlderBehindJoin
  <2>2. \A i \in 1 .. k - 1 : i \in 1 .. L /\ inbox'[i] = inbox[i]
    BY <1>3 DEF L
  <2>3. CASE k \in 1 .. L
    <3>1. v >= view /\ \A i \in 1 .. k - 1 : IsState(i) => v >= inbox[i].version
      BY <1>3, <1>4, <2>1, <2>3 DEF InOrder, NothingOlderBehindJoin, L
    <3> QED
      BY <2>2, <3>1 DEF IsState, L
  <2>4. CASE k \notin 1 .. L
    <3>1. here /\ k = L + 1
      BY <1>3, <2>4 DEF L
    <3>2. JobSends /\ v = job.got
      BY <1>3, <1>4, <2>1, <3>1
    <3>3. job.got >= view /\ \A i \in 1 .. L : IsState(i) => job.got >= inbox[i].version
      BY <1>1, <3>1, <3>2 DEF InOrder, InOrderBeforeJoin, here, L
    <3> QED
      BY <2>2, <3>2, <3>3 DEF IsState, L
  <2> QED
    BY <2>3, <2>4
<1>7. InOrderBeforeJoin' /\ SeenShown'
  BY <1>1 DEF InOrder, InOrderBeforeJoin, SeenShown
<1>8. Covered'
  <2>1. sess # 0 => due = 0
    BY <1>1 DEF PInv, Sockets, Idle
  <2> QED
    BY <1>0, <1>1, <2>1 DEF Covered
<1> QED
  BY <1>5, <1>6, <1>7, <1>8 DEF InOrder

(* With no socket attached, or one just attached, nothing is on its way.       *)
LEMMA OrderNothingComes ==
  ASSUME inbox' = <<>>, ~JobSends', ~JoinSends', SeenShown', sess' = 0 \/ view' >= due'
  PROVE  InOrder'
<1>1. Len(inbox') = 0
  BY EmptySeq
<1>2. \A k \in Nat : \A v : ~Coming(k, v)'
  BY <1>1 DEF Coming, IsState
<1> QED
  BY <1>1, <1>2 DEF InOrder, NothingOlder, NothingOlderBehindJoin, InOrderBeforeJoin, Covered

LEMMA OrderSockets ==
  ASSUME PInv, InOrder, Disconnect \/ Resync \/ Restart \/ Rejoin \/ Attach \/ MarkPresent
  PROVE  InOrder'
<1>0. /\ job.to \in Nat /\ sessions \in Nat /\ view \in Nat /\ due \in Nat
      /\ job.to <= sessions /\ (sess = 0 => inbox = <<>>)
  BY PlainNumbers DEF PInv, Sockets
<1>1. CASE Disconnect \/ Resync \/ Restart
  <2>1. sess' = 0 /\ inbox' = <<>> /\ view' = view /\ gate' \in {gate, OpenGate}
    BY <1>1 DEF Disconnect, Resync, Restart, CloseSocket
  <2>2. SeenShown'
    BY <2>1 DEF InOrder, SeenShown, OpenGate
  <2> QED
    BY <2>1, <2>2, OrderNothingComes DEF JobSends, JoinSends
<1>2. CASE Rejoin
  <2>1. sess' = 0 /\ inbox' = <<>> /\ view' = view /\ gate' = gate
    BY <1>0, <1>2 DEF Rejoin, client
  <2>2. SeenShown'
    BY <2>1 DEF InOrder, SeenShown
  <2> QED
    BY <2>1, <2>2, OrderNothingComes DEF JobSends, JoinSends
<1>3. CASE Attach
  <2>1. /\ view' = view /\ gate' = gate /\ job' = job /\ inbox' = <<>> /\ join'.at # "send"
        /\ \/ sess' = 0
           \/ sess' = sessions + 1 /\ due' = 0
    <3>1. sess = 0 /\ join \in Job
      BY <1>3, PlainParts DEF PInv, Sockets, Attach, ClientTyped
    <3>2. /\ [join EXCEPT !.at = "mark", !.to = sessions + 1].at = "mark"
          /\ Idle.at = "none"
      BY <3>1 DEF Job, Idle
    <3>3. CASE version < join.got
      BY <1>0, <1>3, <3>1, <3>2, <3>3 DEF Attach, consumer
    <3>4. CASE ~ (version < join.got)
      <4>1. /\ join' = [join EXCEPT !.at = "mark", !.to = sessions + 1]
            /\ sess' = sessions + 1 /\ inbox' = <<>> /\ due' = 0
            /\ view' = view /\ gate' = gate /\ job' = job
        BY <1>3, <3>4 DEF Attach, consumer
      <4> QED
        BY <3>2, <4>1
    <3> QED
      BY <3>3, <3>4
  <2>2. SeenShown'
    BY <2>1 DEF InOrder, SeenShown
  <2>3. ~JobSends' /\ ~JoinSends'
    BY <1>0, <2>1 DEF JobSends, JoinSends
  <2> QED
    BY <1>0, <2>1, <2>2, <2>3, OrderNothingComes
<1>4. CASE MarkPresent
  <2>1. /\ job' = job /\ sess' = sess /\ inbox' = inbox /\ gate' = gate /\ view' = view
        /\ due' = due /\ refresh' = refresh
        /\ join.at = "mark" /\ join'.at \in {"none", "ack"}
        /\ join'.at = "ack" => join'.to = join.to
    <3>1. join \in Job
      BY PlainParts DEF ClientTyped
    <3>2. /\ [join EXCEPT !.at = "ack", !.got = version + 1].at = "ack"
          /\ [join EXCEPT !.at = "ack", !.got = version + 1].to = join.to
          /\ Idle.at = "none"
      BY <3>1 DEF Job, Idle
    <3>3. CASE sess # join.to
      BY <1>4, <3>2, <3>3 DEF MarkPresent, consumer, client
    <3>4. CASE sess = join.to
      <4>1. /\ join' = [join EXCEPT !.at = "ack", !.got = version + 1] /\ join.at = "mark"
            /\ UNCHANGED <<consumer, sess, client, due>>
        BY <1>4, <3>4 DEF MarkPresent
      <4> QED
        BY <3>2, <4>1 DEF consumer, client
    <3> QED
      BY <3>3, <3>4
  <2>2. ~JoinSends /\ ~JoinSends' /\ JobSends' = JobSends
    BY <2>1 DEF JobSends, JoinSends
  <2>3. NothingOlder' /\ NothingOlderBehindJoin'
    BY <2>1, <2>2 DEF InOrder, NothingOlder, NothingOlderBehindJoin, Coming, IsState
  <2>4. InOrderBeforeJoin' /\ SeenShown'
    BY <2>1, <2>2 DEF InOrder, InOrderBeforeJoin, SeenShown, IsState
  <2>5. Covered'
    BY <2>1 DEF InOrder, Covered, CoveredByJob, CoveredByMessage, IsState
  <2> QED
    BY <2>3, <2>4, <2>5 DEF InOrder
<1> QED
  BY <1>1, <1>2, <1>3, <1>4

(* The client takes a message: it never shows an older state than it shows,    *)
(* nor opens the way for one.                                                 *)
LEMMA OrderReceives ==
  ASSUME PInv, InOrder, Receive
  PROVE  InOrder' /\ view' >= view
<1> DEFINE m == Head(inbox)
           g == IF m.type = "joined" THEN OpenGate ELSE gate
<1>0. /\ inbox \in Seq(Message) /\ view \in Nat /\ due \in Nat /\ refresh \in Nat
      /\ gate.latest \in Nat /\ job.got \in Nat
      /\ \A i \in 1 .. Len(inbox) : inbox[i].version \in Nat
  BY PlainParts, PlainNumbers DEF ClientTyped
<1>1. /\ inbox # <<>> /\ inbox' = Tail(inbox) /\ job' = job /\ join' = join /\ sess' = sess
      /\ due' = due /\ refresh' = refresh
      /\ IF Accepts(g, m)
         THEN /\ gate' = Seen(g, m)
              /\ view' = (IF m.type = "state" THEN m.version ELSE view)
         ELSE gate' = g /\ view' = view
  BY DEF Receive, consumer
<1>2. /\ Len(inbox) \in Nat /\ Len(inbox) >= 1 /\ Len(inbox') = Len(inbox) - 1
      /\ \A i \in 1 .. Len(inbox') : inbox'[i] = inbox[i + 1]
      /\ m = inbox[1] /\ m \in Message /\ m.version \in Nat /\ m.version \in Versions
      /\ m.type \in Types
  <2>1. /\ Len(inbox) \in Nat /\ Len(inbox) >= 1 /\ Len(inbox') = Len(inbox) - 1
        /\ \A i \in 1 .. Len(inbox') : inbox'[i] = inbox[i + 1]
        /\ m = inbox[1] /\ m \in Message
    BY <1>0, <1>1, Received
  <2>2. \A msg \in Message : msg.version \in Nat /\ msg.version \in Versions /\ msg.type \in Types
    BY DEF Message, Versions
  <2> QED
    BY <2>1, <2>2
<1> HIDE DEF m, g
<1>3. \A k \in Nat, v \in Versions : Coming(k, v)' => Coming(k + 1, v)
  <2>1. SUFFICES ASSUME NEW k \in Nat, NEW v \in Versions, Coming(k, v)' PROVE Coming(k + 1, v)
    OBVIOUS
  <2>2. CASE \E j \in k + 1 .. Len(inbox') : IsState(j)' /\ v = inbox'[j].version
    <3>1. PICK j \in k + 1 .. Len(inbox') : IsState(j)' /\ v = inbox'[j].version
      BY <2>2
    <3>2. /\ j + 1 \in (k + 1) + 1 .. Len(inbox) /\ inbox[j + 1].type = "state"
          /\ v = inbox[j + 1].version /\ j + 1 \in 1 .. Len(inbox)
      <4>1. Len(inbox) \in Nat /\ Len(inbox') = Len(inbox) - 1 /\ j \in 1 .. Len(inbox')
        BY <1>2, <3>1
      <4>2. inbox'[j] = inbox[j + 1]
        BY <1>2, <4>1
      <4>3. j + 1 \in (k + 1) + 1 .. Len(inbox) /\ j + 1 \in 1 .. Len(inbox)
        BY <3>1, <4>1
      <4> QED
        BY <3>1, <4>2, <4>3 DEF IsState
    <3> QED
      BY <3>2 DEF Coming, IsState
  <2>3. CASE \/ JobSends' /\ v = job'.got
             \/ JoinSends' /\ v = join'.got
    BY <1>1, <2>3 DEF Coming, JobSends, JoinSends
  <2> QED
    BY <2>1, <2>2, <2>3 DEF Coming
<1>4. \A v \in Versions : Coming(1, v) => Coming(0, v)
  BY DEF Coming
<1>5. m.type = "state" => IsState(1) /\ Coming(0, m.version)
  BY <1>2 DEF IsState, Coming
<1>6. /\ m.type # "joined" => g = gate
      /\ m.type = "joined" => /\ g = OpenGate /\ Accepts(g, m)
                              /\ gate'.latest = m.version /\ gate'.seen = {"joined"}
  BY <1>1, <1>2 DEF g, OpenGate, Accepts, Seen
<1>7. view' >= view /\ (view' # view => m.type = "state" /\ view' = m.version)
  <2>1. CASE m.type = "state" /\ Accepts(g, m)
    <3>1. m.version >= gate.latest
      BY <1>0, <1>2, <1>6, <2>1 DEF Accepts
    <3>2. gate.latest < view => m.version >= view
      BY <1>2, <1>5, <2>1 DEF InOrder, NothingOlder
    <3> QED
      BY <1>0, <1>1, <1>2, <2>1, <3>1, <3>2
  <2>2. CASE ~ (m.type = "state" /\ Accepts(g, m))
    BY <1>0, <1>1, <2>2
  <2> QED
    BY <2>1, <2>2
<1>8. view' \in Nat
  BY <1>0, <1>1, <1>2
<1>9. NothingOlder'
  <2>1. SUFFICES ASSUME gate'.latest < view', NEW v \in Versions, Coming(0, v)'
                 PROVE  v >= view'
    BY DEF NothingOlder
  <2>2. Coming(1, v) /\ Coming(0, v)
    BY <1>3, <1>4, <2>1
  <2>3. CASE m.type = "joined"
    <3>1. view' = view
      BY <1>7, <2>3
    <3> QED
      BY <1>2, <2>2, <2>3, <3>1 DEF InOrder, NothingOlderBehindJoin
  <2>4. CASE m.type # "joined"
    <3>1. ~ (m.type = "state" /\ Accepts(g, m))
      BY <1>1, <1>2, <2>1, <2>4 DEF Seen
    <3>2. view' = view
      BY <1>1, <3>1
    <3>3. gate.latest < view
      BY <1>0, <1>1, <1>2, <1>6, <2>1, <2>4, <3>2 DEF Accepts, Seen
    <3> QED
      BY <2>2, <3>2, <3>3 DEF InOrder, NothingOlder
  <2> QED
    BY <2>3, <2>4
<1>10. NothingOlderBehindJoin'
  <2>1. SUFFICES ASSUME NEW k \in 1 .. Len(inbox'), inbox'[k].type = "joined",
                        NEW v \in Versions, Coming(k, v)'
                 PROVE  v >= view' /\ \A i \in 1 .. k - 1 : IsState(i)' => v >= inbox'[i].version
    BY DEF NothingOlderBehindJoin
  <2>2. k + 1 \in 1 .. Len(inbox) /\ inbox[k + 1].type = "joined" /\ Coming(k + 1, v)
    BY <1>2, <1>3, <2>1
  <2>3. v >= view /\ \A i \in 1 .. (k + 1) - 1 : IsState(i) => v >= inbox[i].version
    BY <2>2 DEF InOrder, NothingOlderBehindJoin
  <2>4. v >= view'
    <3>1. m.type = "state" => v >= m.version
      BY <1>2, <1>5, <2>1, <2>3
    <3> QED
      BY <1>7, <2>3, <3>1
  <2>5. \A i \in 1 .. k - 1 : IsState(i)' => v >= inbox'[i].version
    <3>1. SUFFICES ASSUME NEW i \in 1 .. k - 1, IsState(i)' PROVE v >= inbox'[i].version
      OBVIOUS
    <3>2. i \in 1 .. Len(inbox') /\ inbox'[i] = inbox[i + 1] /\ inbox[i + 1].type = "state"
      BY <1>2, <3>1 DEF IsState
    <3>3. i + 1 \in 1 .. (k + 1) - 1 /\ i + 1 \in 1 .. Len(inbox)
      BY <1>2, <2>1, <3>2
    <3> QED
      BY <2>3, <3>2, <3>3 DEF IsState
  <2> QED
    BY <2>4, <2>5
<1>11. InOrderBeforeJoin'
  <2>1. SUFFICES ASSUME join.at \in {"mark", "ack"}, join.to = sess, JobSends
                 PROVE  job.got >= view' /\ \A i \in 1 .. Len(inbox') :
                                               IsState(i)' => job.got >= inbox'[i].version
    BY <1>1 DEF InOrderBeforeJoin, JobSends
  <2>2. job.got >= view /\ \A i \in 1 .. Len(inbox) : IsState(i) => job.got >= inbox[i].version
    BY <2>1 DEF InOrder, InOrderBeforeJoin
  <2>3. m.type = "state" => job.got >= m.version
    BY <1>2, <1>5, <2>2
  <2>4. job.got >= view'
    BY <1>7, <2>2, <2>3
  <2>5. \A i \in 1 .. Len(inbox') : IsState(i)' => job.got >= inbox'[i].version
    <3>1. SUFFICES ASSUME NEW i \in 1 .. Len(inbox'), IsState(i)' PROVE job.got >= inbox'[i].version
      OBVIOUS
    <3>2. i + 1 \in 1 .. Len(inbox) /\ inbox'[i] = inbox[i + 1]
      BY <1>2
    <3> QED
      BY <2>2, <3>1, <3>2 DEF IsState
  <2> QED
    BY <2>4, <2>5
<1>12. SeenShown'
  <2>1. CASE m.type = "state" /\ Accepts(g, m)
    BY <1>1, <1>2, <2>1 DEF SeenShown, Seen
  <2>2. CASE m.type = "joined"
    BY <1>6, <2>2 DEF SeenShown
  <2>3. CASE m.type # "joined" /\ ~ (m.type = "state" /\ Accepts(g, m))
    BY <1>0, <1>1, <1>2, <1>6, <2>3 DEF InOrder, SeenShown, Accepts, Seen
  <2> QED
    BY <2>1, <2>2, <2>3
<1>13. /\ gate'.latest \in {gate.latest, m.version, 0}
       /\ m.type # "joined" => gate'.latest \in {gate.latest, m.version}
  BY <1>1, <1>6 DEF Seen, OpenGate
<1>14. Covered'
  <2> SUFFICES ASSUME sess # 0
               PROVE  \/ view' >= due \/ refresh >= due \/ CoveredByJob'
                      \/ \E j \in 1 .. Len(inbox') : CoveredByMessage(j)'
    BY <1>1 DEF Covered
  <2>1. CASE view >= due \/ refresh >= due
    BY <1>0, <1>7, <1>8, <2>1
  <2>2. CASE CoveredByJob
    <3>1. CASE job.at = "read"
      BY <1>1, <2>2, <3>1 DEF CoveredByJob
    <3>2. CASE job.at = "send"
      <4>1. /\ job.got >= due /\ gate.latest <= job.got
            /\ \A i \in 1 .. Len(inbox) : inbox[i].version <= job.got
        BY <2>2, <3>2 DEF CoveredByJob
      <4>2. m.version <= job.got
        BY <1>2, <4>1
      <4>3. gate'.latest <= job.got
        BY <1>0, <1>2, <1>13, <4>1, <4>2
      <4>4. \A i \in 1 .. Len(inbox') : inbox'[i].version <= job.got
        <5>1. TAKE i \in 1 .. Len(inbox')
        <5>2. i + 1 \in 1 .. Len(inbox) /\ inbox'[i] = inbox[i + 1]
          BY <1>2
        <5> QED
          BY <4>1, <5>2
      <4> QED
        BY <1>1, <2>2, <4>1, <4>3, <4>4 DEF CoveredByJob
    <3> QED
      BY <2>2, <3>1, <3>2 DEF CoveredByJob
  <2>3. ASSUME NEW j \in 1 .. Len(inbox), CoveredByMessage(j)
        PROVE  view' >= due \/ \E i \in 1 .. Len(inbox') : CoveredByMessage(i)'
    <3>1. /\ IsState(j) /\ inbox[j].version >= due /\ gate.latest <= inbox[j].version
          /\ \A i \in 1 .. j - 1 : ~IsState(i) => inbox[i].version <= inbox[j].version
          /\ inbox[j].version \in Nat
      BY <1>0, <2>3 DEF CoveredByMessage
    <3>2. CASE j = 1
      <4>1. m.type = "state" /\ m.version >= due /\ gate.latest <= m.version /\ g = gate
        BY <1>2, <1>6, <3>1, <3>2 DEF IsState
      <4>2. CASE Accepts(g, m)
        BY <1>1, <4>1, <4>2
      <4>3. CASE ~Accepts(g, m)
        <5>1. m.version = gate.latest /\ "state" \in gate.seen
          BY <1>0, <1>2, <4>1, <4>3 DEF Accepts
        <5>2. view >= m.version /\ view' = view
          BY <1>1, <4>3, <5>1 DEF InOrder, SeenShown
        <5> QED
          BY <1>0, <1>2, <4>1, <5>2
      <4> QED
        BY <4>2, <4>3
    <3>3. CASE j # 1
      <4>1. PICK l \in 1 .. Len(inbox') : l = j - 1
        BY <1>2, <3>3
      <4>2. inbox'[l] = inbox[j] /\ IsState(l)'
        BY <1>2, <3>1, <4>1 DEF IsState
      <4>3. \A i \in 1 .. l - 1 : ~IsState(i)' => inbox'[i].version <= inbox[j].version
        <5>1. SUFFICES ASSUME NEW i \in 1 .. l - 1, ~IsState(i)'
                       PROVE  inbox'[i].version <= inbox[j].version
          OBVIOUS
        <5>2. /\ i \in 1 .. Len(inbox') /\ inbox'[i] = inbox[i + 1]
              /\ i + 1 \in 1 .. j - 1 /\ i + 1 \in 1 .. Len(inbox)
          BY <1>2, <4>1
        <5> QED
          BY <3>1, <5>1, <5>2 DEF IsState
      <4>4. 1 \in 1 .. j - 1 /\ 1 \in 1 .. Len(inbox)
        BY <1>2, <3>3
      <4>5. m.type # "state" => m.version <= inbox[j].version
        BY <1>2, <3>1, <4>4 DEF IsState
      <4>6. CASE gate'.latest <= inbox[j].version
        BY <1>1, <3>1, <4>1, <4>2, <4>3, <4>6 DEF CoveredByMessage
      <4>7. CASE ~ (gate'.latest <= inbox[j].version)
        <5>1. m.type = "state" /\ Accepts(g, m)
          BY <1>0, <1>1, <1>2, <1>6, <1>13, <3>1, <4>5, <4>7
        <5>2. view' = m.version /\ gate'.latest = m.version
          BY <1>1, <5>1 DEF Seen
        <5> QED
          BY <1>0, <1>2, <3>1, <4>7, <5>2
      <4> QED
        BY <4>6, <4>7
    <3> QED
      BY <3>2, <3>3
  <2> QED
    BY <2>1, <2>2, <2>3 DEF InOrder, Covered
<1> QED
  BY <1>7, <1>9, <1>10, <1>11, <1>12, <1>14 DEF InOrder

-----------------------------------------------------------------------------
(* The theorems                                                              *)

LEMMA InvariantParts == IInv <=> PInv /\ InOrder
<1> QED
  BY DEF IInv, InOrder

LEMMA InitHolds == Init => IInv
<1> QED
  BY InitPlain, InitOrder, InvariantParts

LEMMA StepHolds == IInv /\ [Next]_vars => PInv' /\ InOrder' /\ view' >= view
<1> SUFFICES ASSUME IInv, [Next]_vars PROVE PInv' /\ InOrder' /\ view' >= view
  OBVIOUS
<1>0. PInv /\ InOrder /\ view \in Nat
  BY InvariantParts, PlainNumbers
<1>1. CASE \/ BeginCommand \/ BeginOther \/ PresenceBump
           \/ \E h \in owed : Publish(h) \/ NeverPublish(h)
           \/ \E e \in open : Commit(e) \/ Abort(e)
  <2>1. UNCHANGED <<consumer, join, sess, client, due>>
    BY <1>1 DEF BeginCommand, BeginOther, PresenceBump, Publish, NeverPublish, Commit, Abort
  <2> QED
    BY <1>0, <1>1, <2>1, DbPlain, OrderElsewhere DEF consumer, client
<1>2. CASE Poll
  BY <1>0, <1>2, ConsumerPlain, OrderElsewhere DEF Poll, client
<1>3. CASE Flush \/ TakeRefresh \/ TakeNotice
  BY <1>0, <1>3, ConsumerPlain, OrderTakes DEF Flush, TakeRefresh, TakeNotice, client
<1>4. CASE ReadRoom
  BY <1>0, <1>4, ConsumerPlain, OrderReads DEF ReadRoom, client
<1>5. CASE ReadRoomJoin
  BY <1>0, <1>5, SendPlain, OrderReads DEF ReadRoomJoin, client
<1>6. CASE Send \/ SendJoin
  BY <1>0, <1>6, SendPlain, OrderSends DEF Send, SendJoin
<1>7. CASE Acknowledge
  BY <1>0, <1>7, SendPlain, OrderAcknowledges DEF Acknowledge
<1>8. CASE Receive
  BY <1>0, <1>8, SendPlain, OrderReceives
<1>9. CASE Disconnect \/ Resync \/ Restart \/ Rejoin \/ Attach \/ MarkPresent
  BY <1>0, <1>9, SocketPlain, OrderSockets
     DEF Disconnect, Resync, Restart, Rejoin, Attach, MarkPresent, client
<1>10. CASE UNCHANGED vars
  <2>1. PInv'
    <3>1. DbTyped' /\ ConsumerTyped' /\ ClientTyped' /\ Sockets'
      BY <1>0, <1>10, PlainParts, DbSame
         DEF vars, db, consumer, client, ConsumerTyped, ClientTyped, Sockets
    <3> QED
      BY <3>1, PlainStep
  <2> QED
    BY <1>0, <1>10, <2>1, OrderElsewhere DEF vars, consumer, client
<1> QED
  BY <1>1, <1>2, <1>3, <1>4, <1>5, <1>6, <1>7, <1>8, <1>9, <1>10 DEF Next, Work, JoinWork

(* Whatever the order in which events commit, sockets drop and broadcasts end,  *)
(* the inductive invariant holds.                                             *)
THEOREM Invariance == Spec => []IInv
<1>1. IInv /\ [Next]_vars => IInv'
  BY StepHolds DEF IInv, InOrder
<1> QED
  BY <1>1, InitHolds, PTL DEF Spec

(* The log, the consumer's state, the sockets and the client keep their types:  *)
(* nothing is read, sent or shown that is ahead of the room.                  *)
THEOREM TypeCorrect == Spec => []TypeOK
<1>1. IInv => TypeOK
  BY DEF IInv, PInv
<1> QED
  BY <1>1, Invariance, PTL

(* versionGate.ts "drops out-of-order room notifications": with two broadcasts   *)
(* beside one another, and joins that open the gate again, the board never      *)
(* goes back.                                                                 *)
THEOREM NeverBack == Spec => BoardForward
<1>1. IInv /\ [Next]_vars => [view' >= view]_vars
  BY StepHolds
<1> QED
  BY <1>1, Invariance, PTL DEF Spec, BoardForward

(* A refresh the gateway's consumer has taken since the join was through is on   *)
(* the board when its work is done: coalescing loses none, the gate drops none. *)
THEOREM RefreshIsShown == Spec => []RefreshShown
<1>1. ASSUME IInv, ~Polling, sess # 0, inbox = <<>> PROVE view >= due
  <2>1. refresh = 0 /\ job.at = "none" /\ Len(inbox) = 0
    BY <1>1 DEF Polling
  <2>2. view >= due \/ refresh >= due
    BY <1>1, <2>1 DEF IInv, Covered, CoveredByJob
  <2>3. view \in Nat /\ due \in Nat
    BY <1>1, PlainNumbers DEF IInv
  <2> QED
    BY <2>1, <2>2, <2>3
<1>2. IInv => RefreshShown
  BY <1>1 DEF RefreshShown
<1> QED
  BY <1>2, Invariance, PTL
=============================================================================
