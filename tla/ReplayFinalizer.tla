-------------------------- MODULE ReplayFinalizer --------------------------
(***************************************************************************)
(* From the end of a game to its replay file (apps/server/src/replays.ts,  *)
(* leases.ts and the maintenance timer of index.ts), for one recording and *)
(* several gateways.  A gateway queues the recording when it ends the game *)
(* or finds it unfinished; its queue takes a lease that runs out whether   *)
(* or not the work is done, reads the frames batch by batch, and writes    *)
(* the file, the re-keyed notes and the achievements in one transaction    *)
(* that deletes the frames.  A failed attempt is put off; a gateway that   *)
(* dies forgets its queue.                                                 *)
(*                                                                         *)
(* A frame is the room version it was recorded at.  That the frames are    *)
(* the game's line of play is what RoomHistory shows.                      *)
(***************************************************************************)
EXTENDS Naturals, FiniteSets

CONSTANTS Gateways,
          Versions,  \* the room versions of the recording's frames
          Earning,   \* the one whose view earns a history achievement
          Batch,     \* REPLAY_FRAME_BATCH_SIZE
          MaxFails,  \* bound: failed statements and dying gateways
          Nobody, Dead

ASSUME FinalizerAssumption ==
  /\ IsFiniteSet(Versions) /\ Versions \subseteq Nat /\ Earning \in Versions
  /\ Batch \in Nat \ {0} /\ MaxFails \in Nat
  /\ Nobody \notin Gateways /\ Dead \notin Gateways /\ Nobody # Dead

VARIABLES
  status,   \* replay_games.status, "gone" once the row is deleted
  winner,   \* replay_games.winner: "won", or "none" for NULL
  waiting,  \* finalization_retry_at is still to come
  frames,   \* replay_frames
  payload,  \* the frames in the participants' files
  count,    \* replay_games.frame_count
  awarded,  \* the achievement Earning is for has been unlocked
  notes,    \* replay_notes of a participant
  noted,    \* ghost: the versions that participant has a note about
  lease,    \* holder of replay:<id>; Dead: a process that is gone
  keeper,   \* holder of maintenance:gc
  at,       \* per gateway, where its queue is with the recording
  got,      \* per gateway, the frames its attempt has read
  fails

replay  == <<status, winner, waiting, frames, payload, count, awarded, notes, noted>>
gateway == <<at, got>>
vars    == <<replay, lease, keeper, gateway, fails>>

Frames == 0 .. Cardinality(Versions) - 1
Note   == [by : {"version"}, key : Versions, of : Versions]
            \cup [by : {"frame"}, key : Frames, of : Versions]
Places == {"down", "idle", "queued", "leased", "reading", "writing", "deferring"}

TypeOK ==
  /\ status \in {"recording", "finalizing", "ready", "gone"}
  /\ winner \in {"won", "none"} /\ waiting \in BOOLEAN
  /\ frames \subseteq Versions /\ payload \subseteq Versions
  /\ count \in 0 .. Cardinality(Versions)
  /\ awarded \in BOOLEAN
  /\ notes \subseteq Note /\ noted \subseteq Versions
  /\ lease \in Gateways \cup {Nobody, Dead}
  /\ keeper \in Gateways \cup {Nobody}
  /\ at \in [Gateways -> Places] /\ got \in [Gateways -> SUBSET Versions]
  /\ fails \in 0 .. MaxFails

\* A game is being played and recorded.
Init ==
  /\ status = "recording" /\ winner = "none" /\ waiting = FALSE
  /\ frames = Versions /\ payload = {} /\ count = 0 /\ awarded = FALSE
  /\ notes = {} /\ noted = {}
  /\ lease = Nobody /\ keeper = Nobody
  /\ at = [g \in Gateways |-> "idle"] /\ got = [g \in Gateways |-> {}]
  /\ fails = 0

----------------------------------------------------------------------------

Below(S, v) == {u \in S : u < v}

\* Mutant: the first view is number 1.
FrameIndexFromOne(S, v) == Cardinality(Below(S, v)) + 1

\* A view's place in the file.
FrameIndex(S, v) == Cardinality(Below(S, v))

\* Only the last view of a game that was won shows a winner.
ViewWinner(S) ==
  IF \E v \in S : \A u \in Versions : u <= v THEN winner ELSE "none"

\* Mutant: no winner check.
AnyFrames(S) == S # {}

\* finalizeReplay: "winner mismatch" otherwise.
WinnerMatches(S) == S # {} /\ ViewWinner(S) = winner

Go(g, place) == at' = [at EXCEPT ![g] = place]

----------------------------------------------------------------------------
(* The game.                                                               *)

\* The commit that ends the game; the handler then queues the recording,
\* unless its gateway dies first.
EndGame(g) ==
  /\ status = "recording" /\ at[g] = "idle"
  /\ status' = "finalizing" /\ winner' \in {"won", "none"}
  /\ Go(g, "queued") \/ UNCHANGED at
  /\ UNCHANGED <<waiting, frames, payload, count, awarded, notes, noted, lease,
                 keeper, got, fails>>

\* saveReplayNote writes or removes the note of a view, under its version or,
\* once there is a file, its place; it holds the rows finalizeReplay writes.
SaveNote(v) ==
  /\ \/ status \in {"recording", "finalizing"} /\ v \in frames
     \/ status = "ready" /\ v \in payload /\ FrameIndex(payload, v) < count
  /\ LET note == IF status = "ready"
                 THEN [by |-> "frame", key |-> FrameIndex(payload, v), of |-> v]
                 ELSE [by |-> "version", key |-> v, of |-> v]
         same == {n \in notes : n.by = note.by /\ n.key = note.key}
     IN  \/ notes' = (notes \ same) \cup {note} /\ noted' = noted \cup {v}
         \/ notes' = notes \ same /\ noted' = noted \ {v}
  /\ UNCHANGED <<status, winner, waiting, frames, payload, count, awarded, lease,
                 keeper, gateway, fails>>

\* sweepReplays, a ruleset cutover: the row goes and everything cascades.
Delete ==
  /\ status # "gone" /\ status' = "gone"
  /\ frames' = {} /\ payload' = {} /\ count' = 0 /\ notes' = {} /\ noted' = {}
  /\ UNCHANGED <<winner, waiting, awarded, lease, keeper, gateway, fails>>

----------------------------------------------------------------------------
(* One attempt.                                                            *)

\* tryAcquireLease; a recording somebody else works on is dropped.
TakeLease(g) ==
  /\ at[g] = "queued"
  /\ IF lease \in {Nobody, g}
     THEN lease' = g /\ Go(g, "leased")
     ELSE UNCHANGED lease /\ Go(g, "idle")
  /\ UNCHANGED <<replay, keeper, got, fails>>

\* finalizeReplay reads the row and the participants.
ReadRow(g) ==
  /\ at[g] = "leased"
  /\ Go(g, IF status = "finalizing" THEN "reading" ELSE "idle")
  /\ UNCHANGED <<replay, lease, keeper, got, fails>>

\* Mutant: no ORDER BY.
NextBatchAnyOrder(g) ==
  LET newer == {v \in frames : \A u \in got[g] : u < v}
  IN  {v \in newer : Cardinality({u \in newer : v < u}) < Batch}

\* The next batch: the oldest frames newer than those read.
NextBatch(g) ==
  LET newer == {v \in frames : \A u \in got[g] : u < v}
  IN  {v \in newer : Cardinality(Below(newer, v)) < Batch}

\* replayFiles reads on until a batch is short, then the winner is checked.
ReadBatch(g) ==
  /\ at[g] = "reading"
  /\ LET read == got[g] \cup NextBatch(g)
     IN  IF Cardinality(NextBatch(g)) = Batch
         THEN got' = [got EXCEPT ![g] = read] /\ UNCHANGED at
         ELSE IF WinnerMatches(read)
         THEN got' = [got EXCEPT ![g] = read] /\ Go(g, "writing")
         ELSE got' = [got EXCEPT ![g] = {}] /\ Go(g, "deferring")
  /\ UNCHANGED <<replay, lease, keeper, fails>>

\* Mutant: notes by room version are dropped first.
RekeyedTooLate(S) == {n \in notes : n.by = "frame"}

\* Notes by room version become notes by frame; those of no frame are dropped.
Rekeyed(S) ==
  {n \in notes : n.by = "frame"} \cup
  {[by |-> "frame", key |-> FrameIndex(S, n.of), of |-> n.of]
     : n \in {m \in notes : m.by = "version" /\ m.key \in S}}

\* The transaction that writes the files.  Whether the recording is still to
\* be finalized decides about the row, and about nothing else.
WriteFile(g) ==
  /\ at[g] = "writing"
  /\ payload' = IF status = "gone" THEN payload ELSE got[g]
  /\ IF status = "finalizing"
     THEN status' = "ready" /\ count' = Cardinality(got[g]) /\ waiting' = FALSE
     ELSE UNCHANGED <<status, count, waiting>>
  /\ awarded' = (awarded \/ (winner = "won" /\ Earning \in got[g]))
  /\ notes' = Rekeyed(got[g])
  /\ frames' = {}
  /\ got' = [got EXCEPT ![g] = {}] /\ Go(g, "idle")
  /\ UNCHANGED <<winner, noted, lease, keeper, fails>>

\* deferReplayFinalization.
Defer(g) ==
  /\ at[g] = "deferring"
  /\ waiting' = (waiting \/ status = "finalizing")
  /\ Go(g, "idle")
  /\ UNCHANGED <<status, winner, frames, payload, count, awarded, notes, noted,
                 lease, keeper, got, fails>>

Drain(g) == TakeLease(g) \/ ReadRow(g) \/ ReadBatch(g) \/ WriteFile(g) \/ Defer(g)

----------------------------------------------------------------------------
(* Time, failures, restarts.                                               *)

\* Whoever has the maintenance lease, and a gateway that starts, queues what
\* is due.
Recoverable == status = "finalizing" /\ ~waiting

Maintain(g) ==
  /\ at[g] # "down" /\ keeper \in {Nobody, g}
  /\ keeper' = g
  /\ IF Recoverable /\ at[g] = "idle" THEN Go(g, "queued") ELSE UNCHANGED at
  /\ UNCHANGED <<replay, lease, got, fails>>

Start(g) ==
  /\ at[g] = "down"
  /\ Go(g, IF Recoverable THEN "queued" ELSE "idle")
  /\ UNCHANGED <<replay, lease, keeper, got, fails>>

\* Its sweep outlasts the maintenance lease.
KeeperLapses ==
  /\ keeper # Nobody /\ keeper' = Nobody
  /\ UNCHANGED <<replay, lease, gateway, fails>>

\* Mutant: a lease is only taken over from a process that lives.
LeaseOfLivingRunsOut ==
  /\ lease \notin {Nobody, Dead} /\ lease' = Nobody
  /\ UNCHANGED <<replay, keeper, gateway, fails>>

\* The lease is as good as its time, whatever its holder is doing.
LeaseRunsOut ==
  /\ lease # Nobody /\ lease' = Nobody
  /\ UNCHANGED <<replay, keeper, gateway, fails>>

RetryDue ==
  /\ waiting /\ waiting' = FALSE
  /\ UNCHANGED <<status, winner, frames, payload, count, awarded, notes, noted,
                 lease, keeper, gateway, fails>>

\* A statement of the attempt, or the one that puts it off, fails.
Fail(g) ==
  /\ fails < MaxFails /\ fails' = fails + 1
  /\ at[g] \in {"queued", "leased", "reading", "writing", "deferring"}
  /\ Go(g, IF at[g] = "deferring" THEN "idle" ELSE "deferring")
  /\ got' = [got EXCEPT ![g] = {}]
  /\ UNCHANGED <<replay, lease, keeper>>

\* The gateway dies.  Its leases stand until they run out.
Crash(g) ==
  /\ fails < MaxFails /\ fails' = fails + 1
  /\ at[g] # "down" /\ Go(g, "down")
  /\ got' = [got EXCEPT ![g] = {}]
  /\ lease' = IF lease = g THEN Dead ELSE lease
  /\ keeper' = IF keeper = g THEN Nobody ELSE keeper
  /\ UNCHANGED replay

----------------------------------------------------------------------------

Next ==
  \/ \E g \in Gateways : EndGame(g) \/ Drain(g) \/ Maintain(g) \/ Start(g)
                           \/ Fail(g) \/ Crash(g)
  \/ \E v \in Versions : SaveNote(v)
  \/ LeaseRunsOut \/ KeeperLapses \/ RetryDue \/ Delete

Spec == Init /\ [][Next]_vars

\* Queues drain, timers fire, a gateway that died is started again.  Failures
\* end: MaxFails.
FairSpec ==
  /\ Spec /\ WF_vars(LeaseRunsOut) /\ WF_vars(RetryDue)
  /\ \A g \in Gateways : WF_vars(Drain(g)) /\ WF_vars(Maintain(g)) /\ WF_vars(Start(g))

----------------------------------------------------------------------------
(* Properties.                                                             *)

\* The replay of a game somebody won has every frame, says so, and earned
\* what the frames earn, also when a gateway whose lease ran out reads frames
\* another one is deleting, or writes after it (finalizeReplay's winner check).
ReadyIsWhole ==
  status = "ready" /\ winner = "won" =>
    payload = Versions /\ count = Cardinality(Versions) /\ awarded

\* Every note a player took stays, on the view it was about, while the file
\* replaces the frames (saveReplayNote and finalizeReplay's re-keying).
NotesStay ==
  winner = "won" \/ status # "ready" =>
    /\ {n.of : n \in notes} = noted
    /\ status = "ready" =>
         \A n \in notes : n.by = "frame" /\ n.key = FrameIndex(payload, n.of)

\* A finished game's recording does not stay unfinished, through crashes,
\* failures and refused leases.
Settles == status = "finalizing" ~> status \in {"ready", "gone"}

\* The inductive strengthening behind ReadyIsWhole and NotesStay.

\* Nobody works on a recording that is still growing.
Untouched ==
  status = "recording" => \A g \in Gateways : at[g] \in {"idle", "down"}

\* The frames go all at once, and only when the recording is done with.
FramesWhole ==
  /\ frames \in {Versions, {}}
  /\ status \in {"recording", "finalizing"} => frames = Versions

\* What an attempt has read has no gap, also when frames vanish under it.
ReadsInOrder ==
  \A g \in Gateways : \A v \in got[g], u \in Versions : u < v => u \in got[g]

\* The file about to be written for a won game is whole.
WritesWhole ==
  winner = "won" =>
    \A g \in Gateways : at[g] = "writing" => got[g] = Versions

\* Until there is a file a note is kept under the version it is about; none
\* outlives the recording.
NotesByVersion ==
  /\ status \in {"recording", "finalizing"} =>
       \A n \in notes : n.by = "version" /\ n.key = n.of
  /\ status = "gone" => notes = {} /\ noted = {}

IInv ==
  /\ TypeOK /\ Untouched /\ FramesWhole /\ ReadsInOrder /\ WritesWhole /\ ReadyIsWhole
  /\ NotesByVersion /\ NotesStay
============================================================================
