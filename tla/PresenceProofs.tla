--------------------------- MODULE PresenceProofs ---------------------------
(***************************************************************************)
(* For any number of players, watchers, sockets and running handlers, and  *)
(* any timeout and delay: the deadline of a finished room is never moved   *)
(* out, a room that is played is not deleted before the delay is over, and *)
(* one that a search or a league match needs is not deleted at all.        *)
(***************************************************************************)
EXTENDS Presence, TLAPS

-----------------------------------------------------------------------------
(* The inductive invariant *)

\* What a row a handler is about to write may say, the room being `over' or
\* not, with deadline g, and q ticks after the last command of a player there:
\* it does not bring a finished game back, it does not take its deadline away
\* or move it out, and the deadline it keeps has been running all that time.
HonestRow(r, over, g, q) ==
  r \in Row =>
    /\ over => r.finished
    /\ r.finished => r.gcAt # Never
    /\ over /\ g # Never => r.gcAt <= g
    /\ ~r.finished /\ r.gcAt # Never => r.gcAt + q >= Delay

RowsHonest == \A s \in Sock : HonestRow(write[s], finished, gcAt, quiet)

\* The deadline of a game that goes on was armed no later than the last command
\* that found a player there.
DeadlineFair == ~finished /\ gcAt # Never => gcAt + quiet >= Delay

IInv == TypeOK /\ RowsHonest /\ DeadlineFair

-----------------------------------------------------------------------------
(* Rows *)

(* What is not a row a handler loaded can be told from one by its kind. *)
LEMMA RowKinds ==
  /\ NoWrite \notin Row /\ Outdated \notin Row
  /\ \A r \in Row \cup {NoWrite, Outdated} :
       r.kind \in {"join", "play", "leave"} => r \in Row
BY DEF Row, NoWrite, Outdated

(* updateGc computes a deadline or none. *)
LEMMA DeadlineType ==
  ASSUME NEW over \in BOOLEAN, NEW present \in BOOLEAN, NEW old \in -1 .. Delay
  PROVE  /\ Deadline(over, present, old) \in -1 .. Delay
         /\ over => Deadline(over, present, old) # Never
         /\ old # Never => Deadline(over, present, old) \in {old, Never}
         /\ over /\ old # Never => Deadline(over, present, old) = old
         /\ old = Never => Deadline(over, present, old) \in {Delay, Never}
BY PresenceAssumption DEF Deadline, Never

(* Loading a room makes an honest row of an honest room, whatever the handler  *)
(* decides, unless it brings a finished game back.                             *)
LEMMA LoadedRow ==
  ASSUME IInv, NEW s \in Sock, NEW kind \in {"join", "play", "leave"},
         NEW rows \in SUBSET Watcher, NEW over \in BOOLEAN, finished => over,
         Load(s, kind, rows, over)
  PROVE  /\ write' \in [Sock -> Row \cup {NoWrite, Outdated}]
         /\ \A t \in Sock : HonestRow(write'[t], finished, gcAt, quiet)
<1> DEFINE r == [kind |-> kind, gcAt |-> Deadline(over, SeatPresent, gcAt),
                 watchers |-> rows, finished |-> over]
<1>1. SeatPresent \in BOOLEAN /\ gcAt \in -1 .. Delay /\ quiet \in 0 .. Delay
      /\ write \in [Sock -> Row \cup {NoWrite, Outdated}] /\ finished \in BOOLEAN
  BY DEF IInv, TypeOK, SeatPresent
<1>2. r \in Row
  BY <1>1, DeadlineType DEF Row
<1>3. write' = [write EXCEPT ![s] = r]
  BY DEF Load
<1>4. r.finished = over /\ r.gcAt = Deadline(over, SeatPresent, gcAt)
  OBVIOUS
<1>5. HonestRow(r, finished, gcAt, quiet)
  <2>1. CASE gcAt = Never
    <3>1. r.gcAt \in {Delay, Never} /\ (over => r.gcAt # Never)
      BY <1>1, <1>4, <2>1, DeadlineType, PresenceAssumption DEF Never
    <3>2. quiet \in Nat /\ Delay \in Nat
      BY <1>1, PresenceAssumption
    <3> HIDE DEF r
    <3> QED
      BY <1>4, <2>1, <3>1, <3>2 DEF HonestRow, Never
  <2>2. CASE gcAt # Never
    <3>1. r.gcAt \in {gcAt, Never} /\ (over => r.gcAt = gcAt)
      BY <1>1, <1>4, <2>2, DeadlineType
    <3>2. ~over => ~finished
      OBVIOUS
    <3> HIDE DEF r
    <3> QED
      BY <1>1, <1>4, <2>2, <3>1, <3>2 DEF HonestRow, IInv, DeadlineFair, Never
  <2> QED
    BY <2>1, <2>2
<1> HIDE DEF r
<1> QED
  BY <1>1, <1>2, <1>3, <1>5 DEF IInv, RowsHonest

(* The rows that are left when the version moves are none. *)
LEMMA MovedRows ==
  ASSUME TypeOK, NEW others \in SUBSET Sock
  PROVE  /\ Moved(others) \in [Sock -> Row \cup {NoWrite, Outdated}]
         /\ \A t \in others : Moved(others)[t] \notin Row
BY RowKinds DEF TypeOK, Moved

(* A save writes the row, and no other row is written any more. *)
LEMMA SavedRow ==
  ASSUME IInv, NEW s \in Sock, write[s] \in Row, Save(s)
  PROVE  /\ gcAt' \in -1 .. Delay /\ watchers' \subseteq Watcher
         /\ finished' \in BOOLEAN /\ quiet' \in 0 .. Delay /\ inUse' \in BOOLEAN
         /\ write' \in [Sock -> Row \cup {NoWrite, Outdated}]
         /\ RowsHonest' /\ DeadlineFair'
         /\ finished => finished'
         /\ finished /\ gcAt # Never => gcAt' # Never /\ gcAt' <= gcAt
<1>1. /\ write[s].gcAt \in -1 .. Delay /\ write[s].watchers \subseteq Watcher
      /\ write[s].finished \in BOOLEAN
  BY DEF Row
<1>2. gcAt' = write[s].gcAt /\ watchers' = write[s].watchers /\ finished' = write[s].finished
  BY DEF Save
<1>3. quiet' = IF write[s].finished \/ write[s].gcAt = Never THEN 0 ELSE quiet
  BY DEF Save
<1>4. quiet \in 0 .. Delay /\ gcAt \in -1 .. Delay /\ finished \in BOOLEAN
  BY DEF IInv, TypeOK
<1>5. quiet' \in 0 .. Delay
  BY <1>3, <1>4, PresenceAssumption
<1>6. write' = [Moved(Sock \ {s}) EXCEPT ![s] = NoWrite]
  BY DEF Save
<1>7. /\ write' \in [Sock -> Row \cup {NoWrite, Outdated}]
      /\ \A t \in Sock : write'[t] \notin Row
  BY <1>6, MovedRows, RowKinds DEF IInv
<1>8. RowsHonest'
  BY <1>7 DEF RowsHonest, HonestRow
<1>9. HonestRow(write[s], finished, gcAt, quiet)
  BY DEF IInv, RowsHonest
<1>10. DeadlineFair'
  BY <1>1, <1>2, <1>3, <1>4, <1>9 DEF DeadlineFair, HonestRow
<1>11. /\ finished => finished'
       /\ finished /\ gcAt # Never => gcAt' # Never /\ gcAt' <= gcAt
  BY <1>1, <1>2, <1>4, <1>9 DEF HonestRow
<1>12. inUse' \in BOOLEAN
  BY DEF Save, IInv, TypeOK
<1> QED
  BY <1>1, <1>2, <1>5, <1>7, <1>8, <1>10, <1>11, <1>12

(* A deadline that is armed where there was none leaves every row honest. *)
LEMMA ArmedRows ==
  ASSUME IInv, gcAt = Never
  PROVE  /\ \A s \in Sock : HonestRow(write[s], finished, Delay, quiet)
         /\ Delay + quiet >= Delay
<1>1. quiet \in 0 .. Delay
  BY DEF IInv, TypeOK
<1>2. ASSUME NEW r \in Row PROVE r.gcAt \in -1 .. Delay
  BY DEF Row
<1> QED
  BY <1>1, <1>2, PresenceAssumption DEF IInv, RowsHonest, HonestRow

-----------------------------------------------------------------------------
(* Every step keeps the invariant and moves no deadline of a finished room *)

\* What a step does to a deadline: once it is over, a game stays over, and its
\* deadline stays and comes nearer.
DeadlineKept ==
  /\ finished => finished'
  /\ finished /\ gcAt # Never => gcAt' # Never /\ gcAt' <= gcAt

(* Steps that touch neither the room nor a row about to be written. *)
LEMMA QuietSteps ==
  ASSUME IInv, NEW s,
         \/ /\ s \in Sock
            /\ \/ Join(s) \/ JoinFails(s) \/ Attach(s) \/ Heartbeat(s)
               \/ Stamp(s) \/ Close(s) \/ LeaveLease(s) \/ LeaveMember(s)
         \/ SweepRead(TRUE) \/ SweepRead(FALSE) \/ SweepDelete
         \/ Reserve \/ Relinquish
  PROVE  IInv' /\ DeadlineKept
<1> USE DEF IInv
<1>1. UNCHANGED <<finished, gcAt, watchers, token, write, quiet>> /\ TypeOK'
  <2>1. \A t \in Sock : lease[t] \in -1 .. Timeout
    BY DEF TypeOK
  <2>2. Expired \in [Sock -> -1 .. Timeout]
    BY <2>1, PresenceAssumption DEF Expired, NoLease
  <2>3. CASE s \in Sock /\ Join(s)
    BY <2>3 DEF Join, room, TypeOK
  <2>4. CASE s \in Sock /\ JoinFails(s)
    BY <2>4 DEF JoinFails, room, TypeOK
  <2>5. CASE s \in Sock /\ Attach(s)
    BY <2>2, <2>5 DEF Attach, Settle, room, TypeOK
  <2>6. CASE s \in Sock /\ Heartbeat(s)
    BY <2>6 DEF Heartbeat, room, TypeOK
  <2>7. CASE s \in Sock /\ Stamp(s)
    <3>1. 0 \in -1 .. Timeout
      BY PresenceAssumption
    <3>2. UNCHANGED <<alive, finished, gcAt, watchers, token, inUse, who, leaving, write, sweep, quiet>>
      BY <2>7 DEF Stamp, room
    <3>3. lease' \in [Sock -> -1 .. Timeout]
      BY <2>7, <3>1 DEF Stamp, TypeOK
    <3>4. batch' \in [Sock -> {"idle", "valid", "stamped", "disarmed"}]
      BY <2>7 DEF Stamp, TypeOK
    <3>5. /\ pc' \in [Sock -> {"off", "joining", "attaching", "open"}]
          /\ closed' \in [Sock -> BOOLEAN]
      BY <2>7 DEF Stamp, Settle, TypeOK
    <3> QED
      BY <3>2, <3>3, <3>4, <3>5 DEF TypeOK
  <2>8. CASE s \in Sock /\ Close(s)
    BY <2>8 DEF Close, room, TypeOK
  <2>9. CASE s \in Sock /\ LeaveLease(s)
    BY <2>9, PresenceAssumption DEF LeaveLease, NoLease, room, TypeOK
  <2>10. CASE s \in Sock /\ LeaveMember(s)
    BY <2>10 DEF LeaveMember, room, TypeOK
  <2>11. CASE SweepRead(TRUE) \/ SweepRead(FALSE)
    BY <2>2, <2>11 DEF SweepRead, room, flow, TypeOK
  <2>12. CASE SweepDelete
    BY <2>12 DEF SweepDelete, StillDue, flow, TypeOK
  <2>13. CASE Reserve \/ Relinquish
    BY <2>13 DEF Reserve, Relinquish, flow, TypeOK
  <2> QED
    BY <2>3, <2>4, <2>5, <2>6, <2>7, <2>8, <2>9, <2>10, <2>11, <2>12, <2>13
<1>2. RowsHonest' /\ DeadlineFair'
  BY <1>1 DEF RowsHonest, DeadlineFair
<1>3. DeadlineKept
  BY <1>1 DEF DeadlineKept, TypeOK
<1> QED
  BY <1>1, <1>2, <1>3

(* Steps that load the room. *)
LEMMA LoadingSteps ==
  ASSUME IInv, NEW s \in Sock,
         Play(s) \/ JoinSeat(s) \/ JoinWatch(s) \/ LeaveWatch(s)
  PROVE  IInv' /\ DeadlineKept
<1>0. watchers \subseteq Watcher /\ finished \in BOOLEAN
      /\ who \in [Sock -> Player \cup Watcher]
  BY DEF IInv, TypeOK
<1>1. UNCHANGED <<room, lease, flow, sweep, quiet>>
  BY DEF Play, JoinSeat, JoinWatch, LeaveWatch
<1>2. \E kind \in {"join", "play", "leave"}, rows \in SUBSET Watcher, over \in BOOLEAN :
        (finished => over) /\ Load(s, kind, rows, over)
  <2>1. CASE Play(s)
    BY <1>0, <2>1 DEF Play
  <2>2. CASE JoinSeat(s)
    BY <1>0, <2>2 DEF JoinSeat
  <2>3. CASE JoinWatch(s)
    <3>1. who[s] \in Watcher
      BY <1>0, <2>3 DEF JoinWatch, Plays
    <3>2. CASE Load(s, "join", watchers, finished)
      BY <1>0, <3>2
    <3>3. CASE Load(s, "join", {w \in watchers : Kept(w)} \cup {who[s]}, finished)
      <4>1. {w \in watchers : Kept(w)} \cup {who[s]} \in SUBSET Watcher
        BY <1>0, <3>1
      <4> QED
        BY <1>0, <3>3, <4>1
    <3> QED
      BY <2>3, <3>2, <3>3 DEF JoinWatch
  <2>4. CASE LeaveWatch(s)
    <3>1. watchers \ {who[s]} \in SUBSET Watcher
      BY <1>0
    <3> QED
      BY <1>0, <2>4, <3>1 DEF LeaveWatch
  <2> QED
    BY <2>1, <2>2, <2>3, <2>4
<1>3. /\ write' \in [Sock -> Row \cup {NoWrite, Outdated}]
      /\ \A t \in Sock : HonestRow(write'[t], finished, gcAt, quiet)
  BY <1>2, LoadedRow
<1>4. TypeOK'
  BY <1>1, <1>3 DEF IInv, TypeOK, room, flow
<1>5. RowsHonest' /\ DeadlineFair'
  BY <1>1, <1>3 DEF IInv, RowsHonest, DeadlineFair, room
<1>6. DeadlineKept
  BY <1>1 DEF IInv, TypeOK, DeadlineKept, room
<1> QED
  BY <1>4, <1>5, <1>6 DEF IInv

(* Steps that write a row. *)
LEMMA SavingSteps ==
  ASSUME IInv, NEW s \in Sock, PlaySave(s) \/ JoinSave(s) \/ LeaveSave(s)
  PROVE  IInv' /\ DeadlineKept
<1>1. write[s] \in Row /\ Save(s)
  <2>1. write[s] \in Row \cup {NoWrite, Outdated}
    BY DEF IInv, TypeOK
  <2>2. write[s].kind \in {"join", "play", "leave"} /\ Save(s)
    BY DEF PlaySave, JoinSave, LeaveSave
  <2> QED
    BY <2>1, <2>2, RowKinds
<1>2. /\ gcAt' \in -1 .. Delay /\ watchers' \subseteq Watcher
      /\ finished' \in BOOLEAN /\ quiet' \in 0 .. Delay /\ inUse' \in BOOLEAN
      /\ write' \in [Sock -> Row \cup {NoWrite, Outdated}]
      /\ RowsHonest' /\ DeadlineFair'
      /\ finished => finished'
      /\ finished /\ gcAt # Never => gcAt' # Never /\ gcAt' <= gcAt
  BY <1>1, SavedRow
<1>3. TypeOK'
  <2>1. CASE PlaySave(s)
    BY <1>2, <2>1 DEF PlaySave, IInv, TypeOK, flow
  <2>2. CASE JoinSave(s)
    <3>1. token' \in [Player -> 0 .. Sockets]
      <4>1. s \in 0 .. Sockets
        BY PresenceAssumption DEF Sock
      <4> QED
        BY <2>2, <4>1 DEF JoinSave, IInv, TypeOK, Plays
    <3> QED
      BY <1>2, <2>2, <3>1 DEF JoinSave, IInv, TypeOK
  <2>3. CASE LeaveSave(s)
    BY <1>2, <2>3 DEF LeaveSave, IInv, TypeOK
  <2> QED
    BY <2>1, <2>2, <2>3
<1> QED
  BY <1>2, <1>3 DEF IInv, DeadlineKept

(* Handlers that end without writing their row. *)
LEMMA EndingSteps ==
  ASSUME IInv, NEW s \in Sock, Conflict(s) \/ Crash(s)
  PROVE  IInv' /\ DeadlineKept
<1>1. UNCHANGED <<room, lease, sweep, quiet>> /\ write' = [write EXCEPT ![s] = NoWrite]
  BY DEF Conflict, Crash
<1>2. TypeOK'
  <2>1. CASE Conflict(s)
    BY <1>1, <2>1 DEF Conflict, IInv, TypeOK, room, flow
  <2>2. CASE Crash(s)
    BY <1>1, <2>2 DEF Crash, IInv, TypeOK, room
  <2> QED
    BY <2>1, <2>2
<1>3. RowsHonest'
  BY <1>1, RowKinds DEF IInv, TypeOK, RowsHonest, HonestRow, room
<1>4. DeadlineFair' /\ DeadlineKept
  BY <1>1 DEF IInv, TypeOK, DeadlineFair, DeadlineKept, room
<1> QED
  BY <1>2, <1>3, <1>4 DEF IInv

(* Writes to the deadline that do not come from a row a handler loaded. *)
LEMMA ArmingSteps ==
  ASSUME IInv, NEW s,
         \/ s \in Sock /\ (Disarm(s) \/ Attached(s) \/ LeaveSeat(s))
         \/ SweepArm
  PROVE  IInv' /\ DeadlineKept
<1>1. UNCHANGED <<alive, finished, watchers, token, inUse, quiet>>
  BY DEF Disarm, Attached, LeaveSeat, SweepArm, room
<1>2. /\ gcAt' \in {gcAt, Never, Delay}
      /\ gcAt' = Delay => gcAt = Delay \/ gcAt = Never
      /\ gcAt' = Never => gcAt = Never \/ ~finished
  <2>1. CASE s \in Sock /\ Disarm(s)
    BY <2>1, PresenceAssumption DEF Disarm, ArmedOnce, Never
  <2>2. CASE s \in Sock /\ Attached(s)
    BY <2>2 DEF Attached, room
  <2>3. CASE s \in Sock /\ LeaveSeat(s)
    BY <2>3 DEF LeaveSeat
  <2>4. CASE SweepArm
    BY <2>4 DEF SweepArm
  <2> QED
    BY <2>1, <2>2, <2>3, <2>4
<1>3. write' \in {write, Moved(Sock)}
  BY DEF Disarm, Attached, LeaveSeat, SweepArm
<1>4. /\ write' \in [Sock -> Row \cup {NoWrite, Outdated}]
      /\ \A t \in Sock : write'[t] \in Row => write'[t] = write[t]
  BY <1>3, MovedRows DEF IInv, TypeOK
<1>5. TypeOK'
  <2>0. gcAt' \in -1 .. Delay
    BY <1>2, PresenceAssumption DEF IInv, TypeOK, Never
  <2>1. CASE s \in Sock /\ Disarm(s)
    BY <1>1, <1>4, <2>0, <2>1 DEF Disarm, IInv, TypeOK
  <2>2. CASE s \in Sock /\ Attached(s)
    BY <1>1, <1>4, <2>0, <2>2 DEF Attached, Settle, IInv, TypeOK, room
  <2>3. CASE s \in Sock /\ LeaveSeat(s)
    BY <1>1, <1>4, <2>0, <2>3 DEF LeaveSeat, IInv, TypeOK
  <2>4. CASE SweepArm
    BY <1>1, <1>4, <2>0, <2>4 DEF SweepArm, IInv, TypeOK, flow
  <2> QED
    BY <2>1, <2>2, <2>3, <2>4
<1>6. RowsHonest'
  <2> SUFFICES ASSUME NEW t \in Sock, write'[t] \in Row
               PROVE  HonestRow(write'[t], finished, gcAt', quiet)
    BY <1>1 DEF RowsHonest, HonestRow
  <2>1. write'[t] = write[t] /\ HonestRow(write[t], finished, gcAt, quiet)
    BY <1>4 DEF IInv, RowsHonest
  <2>2. CASE gcAt' = gcAt
    BY <2>1, <2>2
  <2>3. CASE gcAt' = Never
    BY <2>1, <2>3 DEF HonestRow
  <2>4. CASE gcAt' = Delay /\ gcAt = Never
    BY <2>1, <2>4, ArmedRows
  <2> QED
    BY <1>2, <2>2, <2>3, <2>4
<1>7. DeadlineFair'
  BY <1>1, <1>2, ArmedRows DEF IInv, DeadlineFair
<1>8. DeadlineKept
  BY <1>1, <1>2 DEF IInv, TypeOK, DeadlineKept
<1> QED
  BY <1>5, <1>6, <1>7, <1>8 DEF IInv

(* Time passes for the deadline and for the rows that will be written alike. *)
LEMMA TickStep ==
  ASSUME IInv, Tick
  PROVE  IInv' /\ DeadlineKept
<1>1. UNCHANGED <<alive, finished, watchers, token, inUse, flow, sweep>>
  BY DEF Tick
<1>2. /\ gcAt \in -1 .. Delay /\ quiet \in 0 .. Delay /\ finished \in BOOLEAN
      /\ write \in [Sock -> Row \cup {NoWrite, Outdated}]
      /\ lease \in [Sock -> -1 .. Timeout]
  BY DEF IInv, TypeOK
<1>3. ASSUME NEW g \in -1 .. Delay
      PROVE  /\ Left(g) \in -1 .. Delay
             /\ Left(g) = Never <=> g = Never
             /\ Left(g) <= g
             /\ Left(g) = g \/ Left(g) = g - 1
             /\ \A h \in -1 .. Delay : h <= g => Left(h) <= Left(g)
  BY PresenceAssumption DEF Left, Never
<1>4. gcAt' = Left(gcAt)
  BY DEF Tick
<1>5. /\ quiet' \in 0 .. Delay
      /\ ~finished => quiet' = quiet + 1 \/ (quiet' = Delay /\ quiet = Delay)
      /\ finished => quiet' = quiet
  BY <1>2, PresenceAssumption DEF Tick
<1>6. ASSUME NEW t \in Sock
      PROVE  /\ write[t] \notin Row => write'[t] = write[t]
             /\ write[t] \in Row =>
                  /\ write'[t] \in Row
                  /\ write'[t].gcAt = Left(write[t].gcAt)
                  /\ write'[t].finished = write[t].finished
  <2>1. write'[t] = IF write[t] \in {NoWrite, Outdated} THEN write[t]
                    ELSE [write[t] EXCEPT !.gcAt = Left(@)]
    BY DEF Tick
  <2>2. CASE write[t] \notin Row
    BY <1>2, <2>1, <2>2
  <2>3. CASE write[t] \in Row
    <3>1. write'[t] = [write[t] EXCEPT !.gcAt = Left(@)]
      BY <2>1, <2>3, RowKinds
    <3>2. Left(write[t].gcAt) \in -1 .. Delay
      BY <1>3, <2>3 DEF Row
    <3> QED
      BY <2>3, <3>1, <3>2 DEF Row
  <2> QED
    BY <2>2, <2>3
<1>7. write' \in [Sock -> Row \cup {NoWrite, Outdated}]
  <2>1. ASSUME NEW t \in Sock PROVE write'[t] \in Row \cup {NoWrite, Outdated}
    BY <1>2, <1>6
  <2>2. write' = [t \in Sock |-> write'[t]]
    BY DEF Tick
  <2> QED
    BY <2>1, <2>2
<1>8. lease' \in [Sock -> -1 .. Timeout]
  BY <1>2, PresenceAssumption DEF Tick, Live, NoLease
<1>9. TypeOK'
  BY <1>1, <1>2, <1>3, <1>4, <1>5, <1>7, <1>8 DEF IInv, TypeOK, flow
<1>10. RowsHonest'
  <2> SUFFICES ASSUME NEW t \in Sock, write'[t] \in Row
               PROVE  HonestRow(write'[t], finished, gcAt', quiet')
    BY <1>1 DEF RowsHonest, HonestRow
  <2>1. /\ write[t] \in Row /\ write'[t].gcAt = Left(write[t].gcAt)
        /\ write'[t].finished = write[t].finished
        /\ write[t].gcAt \in -1 .. Delay /\ write[t].finished \in BOOLEAN
    BY <1>6 DEF Row
  <2>2. HonestRow(write[t], finished, gcAt, quiet)
    BY DEF IInv, RowsHonest
  <2> DEFINE old == write[t]
             new == write'[t]
  <2>3. (finished => new.finished) /\ (new.finished => new.gcAt # Never)
    BY <1>3, <2>1, <2>2 DEF HonestRow
  <2>4. finished /\ gcAt' # Never => new.gcAt <= gcAt'
    BY <1>2, <1>3, <1>4, <2>1, <2>2 DEF HonestRow
  <2>5. ~new.finished /\ new.gcAt # Never => new.gcAt + quiet' >= Delay
    <3> SUFFICES ASSUME ~new.finished, new.gcAt # Never
                 PROVE  new.gcAt + quiet' >= Delay
      OBVIOUS
    <3>1. ~finished /\ old.gcAt # Never /\ old.gcAt + quiet >= Delay
      BY <1>3, <2>1, <2>2, <2>3 DEF HonestRow
    <3>2. new.gcAt \in -1 .. Delay /\ (new.gcAt = old.gcAt \/ new.gcAt = old.gcAt - 1)
      BY <1>3, <2>1
    <3> HIDE DEF new, old
    <3>3. old.gcAt \in -1 .. Delay
      BY <2>1 DEF old
    <3> QED
      BY <1>2, <1>5, <3>1, <3>2, <3>3, PresenceAssumption DEF Never
  <2> QED
    BY <2>3, <2>4, <2>5 DEF HonestRow
<1>11. DeadlineFair'
  <2> SUFFICES ASSUME ~finished, gcAt' # Never PROVE gcAt' + quiet' >= Delay
    BY <1>1 DEF DeadlineFair
  <2>1. gcAt # Never /\ gcAt + quiet >= Delay
    BY <1>2, <1>3, <1>4 DEF IInv, DeadlineFair
  <2>2. gcAt' \in -1 .. Delay /\ (gcAt' = gcAt \/ gcAt' = gcAt - 1)
    BY <1>2, <1>3, <1>4
  <2> QED
    <3>1. quiet' = quiet + 1 \/ (quiet' = Delay /\ quiet = Delay)
      BY <1>5
    <3>2. gcAt' \in 0 .. Delay /\ gcAt \in 0 .. Delay
      BY <1>2, <2>1, <2>2 DEF Never
    <3> QED
      BY <1>2, <2>1, <2>2, <3>1, <3>2, PresenceAssumption
<1>12. DeadlineKept
  BY <1>1, <1>2, <1>3, <1>4 DEF DeadlineKept
<1> QED
  BY <1>9, <1>10, <1>11, <1>12 DEF IInv

(* Every step keeps the invariant and moves no deadline of a finished room. *)
LEMMA StepKeeps ==
  ASSUME IInv, [Next]_vars
  PROVE  IInv' /\ DeadlineKept
<1>1. CASE UNCHANGED vars
  <2>1. IInv'
    BY <1>1 DEF vars, IInv, TypeOK, RowsHonest, DeadlineFair
  <2>2. DeadlineKept
    BY <1>1 DEF vars, DeadlineKept, IInv, TypeOK
  <2> QED
    BY <2>1, <2>2
<1>2. ASSUME NEW s \in Sock,
             \/ Join(s) \/ Play(s) \/ Heartbeat(s) \/ Close(s) \/ Crash(s) \/ Handler(s)
      PROVE  IInv' /\ DeadlineKept
  BY <1>2, QuietSteps, LoadingSteps, SavingSteps, EndingSteps, ArmingSteps DEF Handler
<1>3. CASE Sweep \/ SweepRead(FALSE) \/ Reserve \/ Relinquish
  BY <1>3, QuietSteps, ArmingSteps DEF Sweep
<1>4. CASE Tick
  BY <1>4, TickStep
<1> QED
  BY <1>1, <1>2, <1>3, <1>4 DEF Next

-----------------------------------------------------------------------------
(* The theorems *)

(* The invariant holds of every behaviour: what a handler is about to write is *)
(* honest about the deadline, however old the row is that it loaded            *)
(* (store.ts updateGc and save).                                               *)
THEOREM Invariance == Spec => []IInv
<1>1. Init => IInv
  <2> SUFFICES ASSUME Init PROVE IInv
    OBVIOUS
  <2>1. TypeOK
    <3>1. /\ -1 \in -1 .. Timeout /\ 0 \in 0 .. Sockets
          /\ Delay \in -1 .. Delay /\ 0 \in 0 .. Delay
      BY PresenceAssumption
    <3>2. who \in [Sock -> Player \cup Watcher]
      BY DEF Init
    <3>3. write \in [Sock -> Row \cup {NoWrite, Outdated}]
      BY DEF Init
    <3> QED
      BY <3>1, <3>2, <3>3 DEF Init, TypeOK, NoSock, NoLease
  <2>2. RowsHonest
    BY RowKinds DEF Init, RowsHonest, HonestRow
  <2>3. DeadlineFair
    BY PresenceAssumption DEF Init, DeadlineFair
  <2> QED
    BY <2>1, <2>2, <2>3 DEF IInv
<1>2. IInv /\ [Next]_vars => IInv'
  BY StepKeeps
<1> QED
  BY <1>1, <1>2, PTL DEF Spec

(* The variables keep their types. *)
THEOREM TypeCorrect == Spec => []TypeOK
<1>1. IInv => TypeOK
  BY DEF IInv
<1> QED
  BY <1>1, Invariance, PTL

(* No join, command, heartbeat, departure or sweep takes a finished room's     *)
(* deadline away or moves it out (store.ts markPresentBatch, markAbsent,       *)
(* sweepRooms and updateGc).                                                   *)
THEOREM FinishedRoomsGo == Spec => FinishedDeadlineStays
<1>1. IInv /\ [Next]_vars => [finished /\ gcAt # Never => gcAt' # Never /\ gcAt' <= gcAt]_vars
  BY StepKeeps DEF DeadlineKept
<1> QED
  BY <1>1, Invariance, PTL DEF Spec, FinishedDeadlineStays

(* A room is deleted only when no search and no league match needs it, and its *)
(* game is over or no command has found a player there for the whole delay     *)
(* (store.ts sweepRooms).                                                      *)
THEOREM UsedRoomsStay == Spec => UsedRoomStays
<1>1. ASSUME IInv, Next, alive, ~alive' PROVE ~inUse /\ (~finished => quiet >= Delay)
  <2>1. SweepDelete
    <3>1. ASSUME NEW s \in Sock, Handler(s) PROVE alive' = alive
      <4>1. CASE Conflict(s) \/ PlaySave(s) \/ JoinSeat(s) \/ JoinWatch(s)
        BY <4>1 DEF Conflict, PlaySave, JoinSeat, JoinWatch, room
      <4>2. CASE JoinFails(s) \/ JoinSave(s) \/ Attach(s) \/ Stamp(s) \/ Disarm(s)
        BY <4>2 DEF JoinFails, JoinSave, Attach, Stamp, Disarm, room
      <4>3. CASE Attached(s) \/ LeaveLease(s) \/ LeaveMember(s) \/ LeaveSeat(s)
        BY <4>3 DEF Attached, LeaveLease, LeaveMember, LeaveSeat, room
      <4>4. CASE LeaveWatch(s) \/ LeaveSave(s)
        BY <4>4 DEF LeaveWatch, LeaveSave, room
      <4> QED
        BY <3>1, <4>1, <4>2, <4>3, <4>4 DEF Handler
    <3>2. ASSUME NEW s \in Sock,
                 Join(s) \/ Play(s) \/ Heartbeat(s) \/ Close(s) \/ Crash(s)
          PROVE  alive' = alive
      BY <3>2 DEF Join, Play, Heartbeat, Close, Crash, room
    <3>3. ASSUME \/ SweepRead(TRUE) \/ SweepRead(FALSE) \/ SweepArm \/ Tick
                 \/ Reserve \/ Relinquish
          PROVE  alive' = alive
      BY <3>3 DEF SweepRead, SweepArm, Tick, Reserve, Relinquish, room
    <3> QED
      BY <1>1, <3>1, <3>2, <3>3 DEF Next, Sweep
  <2>2. gcAt = 0 /\ ~inUse
    BY <1>1, <2>1 DEF SweepDelete, StillDue
  <2>3. quiet \in Nat /\ Delay \in Nat
    BY <1>1, PresenceAssumption DEF IInv, TypeOK
  <2> QED
    BY <1>1, <2>2, <2>3 DEF IInv, DeadlineFair, Never
<1>2. IInv /\ [Next]_vars => [alive /\ ~alive' => ~inUse /\ (~finished => quiet >= Delay)]_vars
  BY <1>1 DEF vars
<1> QED
  BY <1>2, Invariance, PTL DEF Spec, UsedRoomStays

=============================================================================
