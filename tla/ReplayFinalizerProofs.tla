----------------------- MODULE ReplayFinalizerProofs -----------------------
(***************************************************************************)
(* For any number of gateways, frames and batch size, and however often    *)
(* leases run out, statements fail and gateways die, the replay of a won   *)
(* game is whole once it is ready, and every note is where its view is.    *)
(***************************************************************************)
EXTENDS ReplayFinalizer, Counting

(* A view of a file has a number below the number of recorded frames. *)
LEMMA FrameIndexRange ==
  ASSUME NEW S \in SUBSET Versions, NEW v \in Versions
  PROVE  FrameIndex(S, v) \in Frames
<1>1. IsFiniteSet(Versions) /\ v \in Nat
  BY FinalizerAssumption
<1>2. Below(S, v) \subseteq Versions /\ v \notin Below(S, v)
  <2>1. ~(v < v)
    BY <1>1
  <2> QED
    BY <2>1 DEF Below
<1>3. /\ Cardinality(Below(S, v)) <= Cardinality(Versions)
      /\ Cardinality(Versions) = Cardinality(Below(S, v)) => Versions = Below(S, v)
      /\ IsFiniteSet(Below(S, v))
  BY <1>1, <1>2, FS_Subset
<1>4. Cardinality(Versions) \in Nat /\ Cardinality(Below(S, v)) \in Nat
  BY <1>1, <1>3, FS_CardinalityType
<1> QED
  BY <1>2, <1>3, <1>4 DEF FrameIndex, Frames

(* A part of the recording is no longer than the recording. *)
LEMMA CountRange ==
  ASSUME NEW S \in SUBSET Versions
  PROVE  Cardinality(S) \in 0 .. Cardinality(Versions)
<1>1. IsFiniteSet(Versions)
  BY FinalizerAssumption
<1>2. IsFiniteSet(S) /\ Cardinality(S) <= Cardinality(Versions)
  BY <1>1, FS_Subset
<1> QED
  BY <1>1, <1>2, FS_CardinalityType

(* A batch adds the next frames in order: if no earlier frame was missing    *)
(* before, none is after, whether the frames are all there or all gone.      *)
LEMMA BatchInOrder ==
  ASSUME TypeOK, FramesWhole, ReadsInOrder, NEW g \in Gateways,
         NEW v \in got[g] \cup NextBatch(g), NEW u \in Versions, u < v
  PROVE  u \in got[g] \cup NextBatch(g)
<1>1. IsFiniteSet(Versions) /\ Versions \subseteq Nat /\ Batch \in Nat
  BY FinalizerAssumption
<1>2. CASE v \in got[g]
  BY <1>2 DEF ReadsInOrder
<1>3. CASE v \notin got[g]
  <2> DEFINE newer == {x \in frames : \A y \in got[g] : y < x}
  <2>0. u \in Nat /\ v \in Nat /\ u < v /\ \A x \in Versions : x \in Nat
    BY <1>1, <1>3 DEF NextBatch, TypeOK
  <2>1. v \in newer /\ Cardinality(Below(newer, v)) < Batch
    BY <1>3 DEF NextBatch
  <2>2. frames = Versions
    BY <2>1 DEF FramesWhole
  <2>3. got[g] \subseteq Versions
    BY DEF TypeOK
  <2>4. CASE \A y \in got[g] : y < u
    <3>1. u \in newer
      BY <2>2, <2>4
    <3>2. /\ newer \subseteq Versions
          /\ Below(newer, u) \subseteq Below(newer, v)
          /\ Below(newer, v) \subseteq Versions
      <4>1. newer \subseteq Versions
        BY <2>2
      <4> HIDE DEF newer
      <4>2. ASSUME NEW x \in newer, x < u PROVE x < v
        <5>1. x \in Nat
          BY <2>0, <4>1
        <5> QED
          BY <2>0, <4>2, <5>1
      <4> QED
        BY <4>1, <4>2 DEF Below
    <3>3. IsFiniteSet(Below(newer, v))
      BY <1>1, <3>2, FS_Subset
    <3>4. /\ IsFiniteSet(Below(newer, u))
          /\ Cardinality(Below(newer, u)) <= Cardinality(Below(newer, v))
      BY <3>2, <3>3, FS_Subset
    <3>5. Cardinality(Below(newer, u)) \in Nat /\ Cardinality(Below(newer, v)) \in Nat
      BY <3>3, <3>4, FS_CardinalityType
    <3>6. Cardinality(Below(newer, u)) < Batch
      BY <1>1, <2>1, <3>4, <3>5
    <3> HIDE DEF newer
    <3>7. u \in {x \in newer : Cardinality(Below(newer, x)) < Batch}
      BY <3>1, <3>6
    <3> QED
      BY <3>7 DEF newer, NextBatch
  <2>5. CASE \E y \in got[g] : ~(y < u)
    <3>1. PICK y \in got[g] : ~(y < u)
      BY <2>5
    <3>2. u = y \/ u < y
      <4>1. y \in Nat
        BY <1>1, <2>3
      <4> QED
        BY <2>0, <3>1, <4>1
    <3> QED
      BY <3>1, <3>2 DEF ReadsInOrder
  <2> QED
    BY <2>4, <2>5
<1> QED
  BY <1>2, <1>3

(* Frames without a gap that show the winner of a won game are all frames. *)
LEMMA WinnerMeansWhole ==
  ASSUME NEW S \in SUBSET Versions, winner = "won", WinnerMatches(S),
         \A v \in S, u \in Versions : u < v => u \in S
  PROVE  S = Versions
<1>1. PICK v \in S : \A u \in Versions : u <= v
  BY DEF WinnerMatches, ViewWinner
<1>2. \A u \in Versions : u < v \/ u = v
  BY <1>1, FinalizerAssumption
<1> QED
  BY <1>1, <1>2

(* The invariant holds when recording starts. *)
LEMMA InitInv == Init => IInv
<1> SUFFICES ASSUME Init PROVE IInv
  OBVIOUS
<1>1. 0 \in 0 .. Cardinality(Versions) /\ 0 \in 0 .. MaxFails
  BY FinalizerAssumption, FS_CardinalityType
<1>2. /\ at \in [Gateways -> Places] /\ got \in [Gateways -> SUBSET Versions]
      /\ lease \in Gateways \cup {Nobody, Dead} /\ keeper \in Gateways \cup {Nobody}
  BY DEF Init, Places
<1>3. TypeOK
  BY <1>1, <1>2 DEF Init, TypeOK
<1> QED
  BY <1>3 DEF Init, IInv, Untouched, FramesWhole, ReadsInOrder, WritesWhole, ReadyIsWhole,
     NotesByVersion, NotesStay

(* Every step keeps the types. *)
LEMMA TypeStep == TypeOK /\ [Next]_vars => TypeOK'
<1> SUFFICES ASSUME TypeOK, [Next]_vars PROVE TypeOK'
  OBVIOUS
<1> USE FinalizerAssumption
<1>1. ASSUME NEW g \in Gateways, EndGame(g) PROVE TypeOK'
  BY <1>1 DEF TypeOK, EndGame, Go, Places
<1>2. ASSUME NEW g \in Gateways, TakeLease(g) PROVE TypeOK'
  BY <1>2 DEF TypeOK, TakeLease, Go, Places, replay
<1>3. ASSUME NEW g \in Gateways, ReadRow(g) PROVE TypeOK'
  BY <1>3 DEF TypeOK, ReadRow, Go, Places, replay
<1>4. ASSUME NEW g \in Gateways, ReadBatch(g) PROVE TypeOK'
  <2>1. got[g] \cup NextBatch(g) \subseteq Versions
    BY DEF TypeOK, NextBatch
  <2> QED
    BY <1>4, <2>1 DEF TypeOK, ReadBatch, Go, Places, replay
<1>5. ASSUME NEW g \in Gateways, WriteFile(g) PROVE TypeOK'
  <2>1. got[g] \subseteq Versions
    BY DEF TypeOK
  <2>2. Cardinality(got[g]) \in 0 .. Cardinality(Versions)
    BY <2>1, CountRange
  <2>3. notes' \subseteq Note
    <3>1. \A n \in notes : n.by = "frame" => n \in Note
      BY DEF TypeOK
    <3>2. \A n \in notes : n.of \in Versions
      BY DEF TypeOK, Note
    <3>3. \A v \in Versions :
            [by |-> "frame", key |-> FrameIndex(got[g], v), of |-> v] \in Note
      BY <2>1, FrameIndexRange DEF Note
    <3> QED
      BY <1>5, <3>1, <3>2, <3>3 DEF WriteFile, Rekeyed
  <2>4. awarded' \in BOOLEAN
    BY <1>5 DEF WriteFile, TypeOK
  <2> QED
    BY <1>5, <2>1, <2>2, <2>3, <2>4 DEF TypeOK, WriteFile, Go, Places
<1>6. ASSUME NEW g \in Gateways, Defer(g) PROVE TypeOK'
  BY <1>6 DEF TypeOK, Defer, Go, Places
<1>7. ASSUME NEW g \in Gateways, Maintain(g) \/ Start(g) PROVE TypeOK'
  BY <1>7 DEF TypeOK, Maintain, Start, Go, Places, replay
<1>8. ASSUME NEW g \in Gateways, Fail(g) \/ Crash(g) PROVE TypeOK'
  <2>1. fails' \in 0 .. MaxFails
    BY <1>8 DEF TypeOK, Fail, Crash
  <2>2. /\ at' \in [Gateways -> Places] /\ got' \in [Gateways -> SUBSET Versions]
        /\ lease' \in Gateways \cup {Nobody, Dead} /\ keeper' \in Gateways \cup {Nobody}
    <3>1. CASE Fail(g)
      BY <3>1 DEF TypeOK, Fail, Go, Places
    <3>2. CASE Crash(g)
      BY <3>2 DEF TypeOK, Crash, Go, Places
    <3> QED
      BY <1>8, <3>1, <3>2
  <2>3. UNCHANGED replay
    BY <1>8 DEF Fail, Crash
  <2> QED
    BY <2>1, <2>2, <2>3 DEF TypeOK, replay
<1>9. ASSUME NEW v \in Versions, SaveNote(v) PROVE TypeOK'
  <2> DEFINE byFrame == [by |-> "frame", key |-> FrameIndex(payload, v), of |-> v]
             byVersion == [by |-> "version", key |-> v, of |-> v]
  <2>1. byFrame \in Note /\ byVersion \in Note
    BY FrameIndexRange DEF Note, TypeOK
  <2>2. notes' \subseteq notes \cup {byFrame, byVersion}
    BY <1>9 DEF SaveNote
  <2>3. notes' \subseteq Note
    BY <2>1, <2>2 DEF TypeOK
  <2>4. noted' \subseteq Versions
    BY <1>9 DEF SaveNote, TypeOK
  <2> QED
    BY <1>9, <2>3, <2>4 DEF TypeOK, SaveNote, gateway
<1>10. ASSUME LeaseRunsOut \/ KeeperLapses \/ RetryDue PROVE TypeOK'
  BY <1>10 DEF TypeOK, LeaseRunsOut, KeeperLapses, RetryDue, replay, gateway
<1>11. ASSUME Delete PROVE TypeOK'
  <2>1. Cardinality(Versions) \in Nat
    BY FS_CardinalityType
  <2> QED
    BY <1>11, <2>1 DEF TypeOK, Delete, gateway
<1>12. CASE UNCHANGED vars
  BY <1>12 DEF TypeOK, vars, replay, gateway
<1> QED
  BY <1>1, <1>2, <1>3, <1>4, <1>5, <1>6, <1>7, <1>8, <1>9, <1>10, <1>11, <1>12
  DEF Next, Drain

(* Every step keeps the recording untouched until the game is over, and its   *)
(* frames together.                                                           *)
LEMMA FramesStep ==
  TypeOK /\ Untouched /\ FramesWhole /\ [Next]_vars => Untouched' /\ FramesWhole'
<1> SUFFICES ASSUME TypeOK, Untouched, FramesWhole, [Next]_vars
             PROVE  Untouched' /\ FramesWhole'
  OBVIOUS
<1>1. ASSUME NEW g \in Gateways, EndGame(g) PROVE Untouched' /\ FramesWhole'
  BY <1>1 DEF EndGame, Untouched, FramesWhole
<1>2. ASSUME NEW g \in Gateways, TakeLease(g) \/ ReadRow(g) \/ ReadBatch(g)
      PROVE  Untouched' /\ FramesWhole'
  <2>1. status # "recording" /\ UNCHANGED <<status, frames>>
    BY <1>2 DEF TakeLease, ReadRow, ReadBatch, replay, Untouched
  <2> QED
    BY <2>1 DEF Untouched, FramesWhole
<1>3. ASSUME NEW g \in Gateways, WriteFile(g) PROVE Untouched' /\ FramesWhole'
  <2>1. status # "recording"
    BY <1>3 DEF WriteFile, Untouched
  <2>2. frames' = {} /\ status' \notin {"recording", "finalizing"}
    BY <1>3, <2>1 DEF WriteFile
  <2> QED
    BY <2>2 DEF Untouched, FramesWhole
<1>4. ASSUME NEW g \in Gateways, Defer(g) \/ Fail(g) PROVE Untouched' /\ FramesWhole'
  <2>1. status # "recording" /\ UNCHANGED <<status, frames>>
    BY <1>4 DEF Defer, Fail, replay, Untouched
  <2> QED
    BY <2>1 DEF Untouched, FramesWhole
<1>5. ASSUME NEW g \in Gateways, Maintain(g) \/ Start(g) \/ Crash(g)
      PROVE  Untouched' /\ FramesWhole'
  <2>1. UNCHANGED <<status, frames>>
    BY <1>5 DEF Maintain, Start, Crash, replay
  <2>2. \A h \in Gateways : status = "recording" /\ at[h] \in {"idle", "down"} =>
          at'[h] \in {"idle", "down"}
    BY <1>5 DEF Maintain, Start, Crash, Recoverable, Go, TypeOK
  <2> QED
    BY <2>1, <2>2 DEF Untouched, FramesWhole
<1>6. ASSUME NEW v \in Versions, SaveNote(v) PROVE Untouched' /\ FramesWhole'
  BY <1>6 DEF SaveNote, gateway, Untouched, FramesWhole
<1>7. ASSUME LeaseRunsOut \/ KeeperLapses \/ RetryDue \/ UNCHANGED vars
      PROVE  Untouched' /\ FramesWhole'
  BY <1>7 DEF LeaseRunsOut, KeeperLapses, RetryDue, vars, replay, gateway, Untouched,
     FramesWhole
<1>8. ASSUME Delete PROVE Untouched' /\ FramesWhole'
  BY <1>8 DEF Delete, Untouched, FramesWhole
<1> QED
  BY <1>1, <1>2, <1>3, <1>4, <1>5, <1>6, <1>7, <1>8 DEF Next, Drain

(* Every step leaves what the attempts have read without a gap: each either   *)
(* reads the next batch or starts over.                                       *)
LEMMA ReadsStep ==
  TypeOK /\ FramesWhole /\ ReadsInOrder /\ [Next]_vars => ReadsInOrder'
<1> SUFFICES ASSUME TypeOK, FramesWhole, ReadsInOrder, [Next]_vars,
                    NEW h \in Gateways, NEW v \in got'[h], NEW u \in Versions, u < v
             PROVE  u \in got'[h]
  BY DEF ReadsInOrder
<1>1. \/ got'[h] = got[h]
      \/ got'[h] = {}
      \/ got'[h] = got[h] \cup NextBatch(h)
  <2>1. ASSUME NEW g \in Gateways, ReadBatch(g)
        PROVE  got'[h] \in {got[h], {}, got[h] \cup NextBatch(h)}
    BY <2>1 DEF ReadBatch, TypeOK
  <2>2. ASSUME NEW g \in Gateways, WriteFile(g) \/ Fail(g) \/ Crash(g)
        PROVE  got'[h] \in {got[h], {}}
    BY <2>2 DEF WriteFile, Fail, Crash, TypeOK
  <2>3. ASSUME NEW g \in Gateways,
               EndGame(g) \/ TakeLease(g) \/ ReadRow(g) \/ Defer(g) \/ Maintain(g) \/ Start(g)
        PROVE  got' = got
    BY <2>3 DEF EndGame, TakeLease, ReadRow, Defer, Maintain, Start
  <2>4. ASSUME NEW w \in Versions, SaveNote(w) PROVE got' = got
    BY <2>4 DEF SaveNote, gateway
  <2>5. ASSUME LeaseRunsOut \/ KeeperLapses \/ RetryDue \/ Delete \/ UNCHANGED vars
        PROVE  got' = got
    BY <2>5 DEF LeaseRunsOut, KeeperLapses, RetryDue, Delete, vars, gateway
  <2> QED
    BY <2>1, <2>2, <2>3, <2>4, <2>5 DEF Next, Drain
<1>2. CASE got'[h] = got[h]
  BY <1>2 DEF ReadsInOrder
<1>3. CASE got'[h] = {}
  BY <1>3
<1>4. CASE got'[h] = got[h] \cup NextBatch(h)
  BY <1>4, BatchInOrder
<1> QED
  BY <1>1, <1>2, <1>3, <1>4

(* Every step leaves the file about to be written for a won game whole: a     *)
(* gateway starts to write when what it read shows the winner.                *)
LEMMA WritesStep ==
  IInv /\ [Next]_vars => WritesWhole'
<1> SUFFICES ASSUME IInv, [Next]_vars, winner' = "won",
                    NEW h \in Gateways, at'[h] = "writing"
             PROVE  got'[h] = Versions
  BY DEF WritesWhole
<1> USE DEF IInv
<1>1. ASSUME NEW g \in Gateways, EndGame(g) PROVE FALSE
  <2>1. at[h] \in {"idle", "down"}
    BY <1>1 DEF EndGame, Untouched
  <2> QED
    BY <1>1, <2>1 DEF EndGame, Go, TypeOK
<1>2. ASSUME NEW g \in Gateways, ReadBatch(g) PROVE got'[h] = Versions
  <2>1. winner = "won"
    BY <1>2 DEF ReadBatch, replay
  <2>2. CASE h = g /\ at'[g] = "writing"
    <3>1. got'[g] = got[g] \cup NextBatch(g) /\ WinnerMatches(got[g] \cup NextBatch(g))
      BY <1>2, <2>2 DEF ReadBatch, Go, TypeOK
    <3>2. got[g] \cup NextBatch(g) \subseteq Versions
      BY DEF TypeOK, NextBatch
    <3> QED
      BY <2>1, <2>2, <3>1, <3>2, BatchInOrder, WinnerMeansWhole
  <2>3. CASE h # g
    BY <1>2, <2>1, <2>3 DEF ReadBatch, Go, TypeOK, WritesWhole
  <2> QED
    BY <2>2, <2>3
<1>3. ASSUME NEW g \in Gateways,
             \/ TakeLease(g) \/ ReadRow(g) \/ WriteFile(g) \/ Defer(g)
             \/ Maintain(g) \/ Start(g) \/ Fail(g) \/ Crash(g)
      PROVE  got'[h] = Versions
  <2>1. winner = "won"
    BY <1>3 DEF TakeLease, ReadRow, WriteFile, Defer, Maintain, Start, Fail, Crash, replay
  <2>2. at[h] = "writing" /\ got'[h] = got[h]
    <3>1. CASE TakeLease(g) \/ ReadRow(g)
      BY <3>1 DEF TakeLease, ReadRow, Go, TypeOK
    <3>2. CASE WriteFile(g) \/ Defer(g)
      BY <3>2 DEF WriteFile, Defer, Go, TypeOK
    <3>3. CASE Maintain(g) \/ Start(g)
      BY <3>3 DEF Maintain, Start, Go, TypeOK
    <3>4. CASE Fail(g) \/ Crash(g)
      BY <3>4 DEF Fail, Crash, Go, TypeOK
    <3> QED
      BY <1>3, <3>1, <3>2, <3>3, <3>4
  <2> QED
    BY <2>1, <2>2 DEF WritesWhole
<1>4. ASSUME \/ \E v \in Versions : SaveNote(v)
             \/ LeaseRunsOut \/ KeeperLapses \/ RetryDue \/ Delete \/ UNCHANGED vars
      PROVE  got'[h] = Versions
  <2>1. UNCHANGED <<winner, at, got>>
    BY <1>4 DEF SaveNote, LeaseRunsOut, KeeperLapses, RetryDue, Delete, vars, replay, gateway
  <2> QED
    BY <2>1 DEF WritesWhole
<1> QED
  BY <1>1, <1>2, <1>3, <1>4 DEF Next, Drain

(* Every step leaves the replay of a won game whole, the second writing of    *)
(* a file that is there already included.                                     *)
LEMMA ReadyStep ==
  IInv /\ [Next]_vars => ReadyIsWhole'
<1> SUFFICES ASSUME IInv, [Next]_vars PROVE ReadyIsWhole'
  OBVIOUS
<1> USE DEF IInv
<1>1. ASSUME NEW g \in Gateways, WriteFile(g) PROVE ReadyIsWhole'
  <2> SUFFICES ASSUME status' = "ready", winner' = "won"
               PROVE  payload' = Versions /\ count' = Cardinality(Versions) /\ awarded'
    BY DEF ReadyIsWhole
  <2>1. winner = "won" /\ got[g] = Versions
    BY <1>1 DEF WriteFile, WritesWhole
  <2>2. status \in {"finalizing", "ready"}
    BY <1>1 DEF WriteFile
  <2>3. payload' = Versions /\ awarded'
    BY <1>1, <2>1, <2>2, FinalizerAssumption DEF WriteFile
  <2>4. count' = Cardinality(Versions)
    BY <1>1, <2>1, <2>2 DEF WriteFile, ReadyIsWhole
  <2> QED
    BY <2>3, <2>4
<1>2. ASSUME NEW g \in Gateways, EndGame(g) PROVE ReadyIsWhole'
  BY <1>2 DEF EndGame, ReadyIsWhole
<1>3. ASSUME Delete PROVE ReadyIsWhole'
  BY <1>3 DEF Delete, ReadyIsWhole
<1>4. ASSUME NEW g \in Gateways,
             \/ TakeLease(g) \/ ReadRow(g) \/ ReadBatch(g) \/ Defer(g)
             \/ Maintain(g) \/ Start(g) \/ Fail(g) \/ Crash(g)
      PROVE  ReadyIsWhole'
  BY <1>4 DEF TakeLease, ReadRow, ReadBatch, Defer, Maintain, Start, Fail, Crash, replay,
     ReadyIsWhole
<1>5. ASSUME \/ \E v \in Versions : SaveNote(v)
             \/ LeaseRunsOut \/ KeeperLapses \/ RetryDue \/ UNCHANGED vars
      PROVE  ReadyIsWhole'
  BY <1>5 DEF SaveNote, LeaseRunsOut, KeeperLapses, RetryDue, vars, replay, ReadyIsWhole
<1> QED
  BY <1>1, <1>2, <1>3, <1>4, <1>5 DEF Next, Drain

(* Two views of a file are at different places. *)
LEMMA PlacesDiffer ==
  ASSUME NEW S \in SUBSET Versions, NEW u \in S, NEW v \in S,
         FrameIndex(S, u) = FrameIndex(S, v)
  PROVE  u = v
<1>1. S \in SUBSET Nat /\ IsFiniteSet(S) /\ u \in Nat /\ v \in Nat
  BY FinalizerAssumption, FS_Subset
<1>2. FrameIndex(S, u) = Rank(S, u) /\ FrameIndex(S, v) = Rank(S, v)
  BY DEF FrameIndex, Below, Rank, Lesser
<1>3. /\ u < v => Rank(S, u) < Rank(S, v)
      /\ v < u => Rank(S, v) < Rank(S, u)
      /\ Rank(S, u) \in Int /\ Rank(S, v) \in Int
  <2>1. Cardinality(S) \in Nat
    BY <1>1, FS_CardinalityType
  <2> QED
    BY <1>1, <2>1, RankGrows
<1>4. Rank(S, u) = Rank(S, v)
  BY <1>2
<1>5. ~(u < v) /\ ~(v < u)
  <2>1. ~(Rank(S, u) < Rank(S, v)) /\ ~(Rank(S, v) < Rank(S, u))
    BY <1>3, <1>4
  <2> QED
    BY <1>3, <2>1
<1> QED
  <2>1. u \in Nat /\ v \in Nat
    BY <1>1
  <2> QED
    BY <1>5, <2>1

(* Writing or removing one note replaces the notes of its view and no other,   *)
(* if notes of different views have different keys.                            *)
LEMMA OneNote ==
  ASSUME NEW v, NEW note, NEW same \in SUBSET notes, note.of = v,
         \A n \in same : n.of = v, \A n \in notes : n.of = v => n \in same,
         {n.of : n \in notes} = noted
  PROVE  /\ {n.of : n \in (notes \ same) \cup {note}} = noted \cup {v}
         /\ {n.of : n \in notes \ same} = noted \ {v}
<1>1. \A w : w \in noted <=> \E n \in notes : n.of = w
  OBVIOUS
<1>2. \A n \in notes : n \in same <=> n.of = v
  OBVIOUS
<1>3. {n.of : n \in notes \ same} = noted \ {v}
  BY <1>1, <1>2
<1>4. {n.of : n \in (notes \ same) \cup {note}} = {n.of : n \in notes \ same} \cup {v}
  OBVIOUS
<1> QED
  BY <1>1, <1>3, <1>4

(* saveReplayNote keeps the notes in place, under the version before there is  *)
(* a file and under the frame afterwards.                                      *)
LEMMA SaveNoteStep ==
  ASSUME IInv, NEW v \in Versions, SaveNote(v)
  PROVE  NotesByVersion' /\ NotesStay'
<1> USE DEF IInv
<1>1. UNCHANGED <<status, winner, payload>>
  BY DEF SaveNote
<1>2. CASE status \in {"recording", "finalizing"}
  <2> DEFINE note == [by |-> "version", key |-> v, of |-> v]
             same == {n \in notes : n.by = note.by /\ n.key = note.key}
  <2>1. \/ notes' = (notes \ same) \cup {note} /\ noted' = noted \cup {v}
        \/ notes' = notes \ same /\ noted' = noted \ {v}
    BY <1>2 DEF SaveNote
  <2>2. \A n \in notes : n.by = "version" /\ n.key = n.of
    BY <1>2 DEF NotesByVersion
  <2>3. /\ note.by = "version" /\ note.key = v /\ note.of = v
        /\ same \in SUBSET notes
        /\ \A n \in same : n.of = v
        /\ \A n \in notes : n.of = v => n \in same
    BY <2>2
  <2>4. {n.of : n \in notes} = noted
    BY <1>2 DEF NotesStay
  <2> HIDE DEF note, same
  <2>5. {n.of : n \in notes'} = noted'
    BY <2>1, <2>3, <2>4, OneNote
  <2>6. \A n \in notes' : n.by = "version" /\ n.key = n.of
    BY <2>1, <2>2, <2>3
  <2> QED
    BY <1>1, <1>2, <2>5, <2>6 DEF NotesByVersion, NotesStay
<1>3. CASE status = "ready" /\ winner = "won"
  <2> DEFINE note == [by |-> "frame", key |-> FrameIndex(payload, v), of |-> v]
             same == {n \in notes : n.by = note.by /\ n.key = note.key}
  <2>1. \/ notes' = (notes \ same) \cup {note} /\ noted' = noted \cup {v}
        \/ notes' = notes \ same /\ noted' = noted \ {v}
    BY <1>3 DEF SaveNote
  <2>2. /\ \A n \in notes : n.by = "frame" /\ n.key = FrameIndex(payload, n.of)
        /\ {n.of : n \in notes} = noted
    BY <1>3 DEF NotesStay
  <2>3. payload = Versions /\ \A n \in notes : n.of \in payload
    BY <1>3 DEF ReadyIsWhole, TypeOK, Note
  <2>4. \A n \in notes : FrameIndex(payload, n.of) = FrameIndex(payload, v) <=> n.of = v
    BY <2>3, PlacesDiffer
  <2>5. note.by = "frame" /\ note.key = FrameIndex(payload, v) /\ note.of = v
    OBVIOUS
  <2>6. /\ same \in SUBSET notes
        /\ \A n \in same : n.of = v
        /\ \A n \in notes : n.of = v => n \in same
    BY <2>2, <2>4, <2>5
  <2> HIDE DEF note, same
  <2>7. {n.of : n \in notes'} = noted'
    BY <2>1, <2>2, <2>5, <2>6, OneNote
  <2>8. \A n \in notes' : n.by = "frame" /\ n.key = FrameIndex(payload, n.of)
    BY <2>1, <2>2, <2>5
  <2>9. \A n \in notes' : n.key = FrameIndex(payload', n.of)
    BY <1>1, <2>8
  <2> QED
    BY <1>1, <1>3, <2>7, <2>8, <2>9 DEF NotesByVersion, NotesStay
<1>4. CASE status = "ready" /\ winner # "won"
  BY <1>1, <1>4 DEF NotesByVersion, NotesStay
<1> QED
  BY <1>2, <1>3, <1>4 DEF SaveNote, TypeOK

(* finalizeReplay keeps the notes in place: it is the frames it read that      *)
(* decide which are re-keyed, and those are all, or the game was not won.      *)
LEMMA WriteFileStep ==
  ASSUME IInv, NEW g \in Gateways, WriteFile(g)
  PROVE  NotesByVersion' /\ NotesStay'
<1> USE DEF IInv
<1>1. /\ status # "recording" /\ winner' = winner /\ noted' = noted
      /\ notes' = Rekeyed(got[g])
  BY DEF WriteFile, Untouched
<1>2. CASE status = "gone"
  <2>1. notes = {} /\ noted = {} /\ status' = "gone"
    BY <1>2 DEF WriteFile, NotesByVersion
  <2>2. notes' = {}
    BY <1>1, <2>1 DEF Rekeyed
  <2> QED
    BY <1>1, <2>1, <2>2 DEF NotesByVersion, NotesStay
<1>3. CASE status # "gone" /\ winner = "won"
  <2>1. got[g] = Versions /\ payload' = Versions /\ status' = "ready"
    <3>1. got[g] = Versions
      BY <1>3 DEF WritesWhole, WriteFile
    <3>2. status \in {"finalizing", "ready"}
      BY <1>1, <1>3 DEF TypeOK
    <3> QED
      BY <3>1, <3>2 DEF WriteFile
  <2>2. CASE status = "finalizing"
    <3>1. \A n \in notes : /\ n.by = "version" /\ n.key = n.of
                           /\ n.of \in Versions
      BY <2>2 DEF NotesByVersion, TypeOK, Note
    <3>2. notes' = {[by |-> "frame", key |-> FrameIndex(Versions, n.of), of |-> n.of]
                      : n \in notes}
      BY <1>1, <2>1, <3>1 DEF Rekeyed
    <3>3. \A n \in notes' : n.by = "frame" /\ n.key = FrameIndex(Versions, n.of)
      BY <3>2
    <3>4. \A n \in notes' : n.key = FrameIndex(payload', n.of)
      BY <2>1, <3>3
    <3>5. {n.of : n \in notes'} = {n.of : n \in notes}
      <4>1. \A n \in notes' : \E m \in notes : m.of = n.of
        BY <3>2
      <4>2. \A m \in notes : \E n \in notes' : m.of = n.of
        <5>1. TAKE m \in notes
        <5>2. [by |-> "frame", key |-> FrameIndex(Versions, m.of), of |-> m.of] \in notes'
          BY <3>2
        <5> QED
          BY <5>2
      <4> QED
        BY <4>1, <4>2
    <3>6. {n.of : n \in notes} = noted
      BY <2>2 DEF NotesStay
    <3> QED
      BY <1>1, <2>1, <3>3, <3>4, <3>5, <3>6 DEF NotesByVersion, NotesStay
  <2>3. CASE status = "ready"
    <3>1. /\ \A n \in notes : n.by = "frame" /\ n.key = FrameIndex(payload, n.of)
          /\ {n.of : n \in notes} = noted /\ payload = Versions
      BY <1>3, <2>3 DEF NotesStay, ReadyIsWhole
    <3>2. notes' = notes
      BY <1>1, <3>1 DEF Rekeyed
    <3>3. \A n \in notes' : n.by = "frame" /\ n.key = FrameIndex(payload', n.of)
      BY <2>1, <3>1, <3>2
    <3> QED
      BY <1>1, <2>1, <3>1, <3>2, <3>3 DEF NotesByVersion, NotesStay
  <2> QED
    BY <1>1, <1>3, <2>2, <2>3 DEF TypeOK
<1>4. CASE status # "gone" /\ winner # "won"
  <2>1. status' = "ready"
    BY <1>1, <1>4 DEF WriteFile, TypeOK
  <2> QED
    BY <1>1, <1>4, <2>1 DEF NotesByVersion, NotesStay
<1> QED
  BY <1>2, <1>3, <1>4

(* Every step keeps the notes in place. *)
LEMMA NotesStep ==
  IInv /\ [Next]_vars => NotesByVersion' /\ NotesStay'
<1> SUFFICES ASSUME IInv, [Next]_vars PROVE NotesByVersion' /\ NotesStay'
  OBVIOUS
<1> USE DEF IInv
<1>1. ASSUME NEW g \in Gateways, EndGame(g) PROVE NotesByVersion' /\ NotesStay'
  <2>1. /\ status = "recording" /\ status' = "finalizing"
        /\ UNCHANGED <<notes, noted, payload>>
    BY <1>1 DEF EndGame
  <2> QED
    BY <2>1 DEF NotesByVersion, NotesStay
<1>2. ASSUME Delete PROVE NotesByVersion' /\ NotesStay'
  BY <1>2 DEF Delete, NotesByVersion, NotesStay
<1>3. ASSUME UNCHANGED <<status, winner, payload, notes, noted>>
      PROVE  NotesByVersion' /\ NotesStay'
  <2>1. \A n \in notes : FrameIndex(payload, n.of) = FrameIndex(payload', n.of)
    BY <1>3
  <2> QED
    BY <1>3, <2>1 DEF NotesByVersion, NotesStay
<1>4. ASSUME NEW g \in Gateways,
             \/ TakeLease(g) \/ ReadRow(g) \/ ReadBatch(g) \/ Defer(g)
             \/ Maintain(g) \/ Start(g) \/ Fail(g) \/ Crash(g)
      PROVE  UNCHANGED <<status, winner, payload, notes, noted>>
  BY <1>4 DEF TakeLease, ReadRow, ReadBatch, Defer, Maintain, Start, Fail, Crash, replay
<1>5. ASSUME LeaseRunsOut \/ KeeperLapses \/ RetryDue \/ UNCHANGED vars
      PROVE  UNCHANGED <<status, winner, payload, notes, noted>>
  BY <1>5 DEF LeaseRunsOut, KeeperLapses, RetryDue, vars, replay
<1> QED
  BY <1>1, <1>2, <1>3, <1>4, <1>5, SaveNoteStep, WriteFileStep DEF Next, Drain

----------------------------------------------------------------------------

(* The types, the gap-free reads and what they are for hold in every state a  *)
(* recording can get into.                                                    *)
THEOREM Invariance == Spec => []IInv
<1>1. IInv /\ [Next]_vars => IInv'
  <2> SUFFICES ASSUME IInv, [Next]_vars PROVE IInv'
    OBVIOUS
  <2>1. TypeOK'
    BY TypeStep DEF IInv
  <2>2. Untouched' /\ FramesWhole'
    BY FramesStep DEF IInv
  <2>3. ReadsInOrder'
    BY ReadsStep DEF IInv
  <2> QED
    BY <2>1, <2>2, <2>3, WritesStep, ReadyStep, NotesStep DEF IInv
<1> QED
  BY InitInv, <1>1, PTL DEF Spec

(* The rows, the queues and the leases have their types. *)
THEOREM TypeCorrect == Spec => []TypeOK
<1>1. IInv => TypeOK
  BY DEF IInv
<1> QED
  BY Invariance, <1>1, PTL

(* The replay of a game somebody won is whole and has earned what it earns,   *)
(* for any number of gateways and frames, however often a lease runs out      *)
(* under its holder.                                                          *)
THEOREM WonReplaysWhole == Spec => []ReadyIsWhole
<1>1. IInv => ReadyIsWhole
  BY DEF IInv
<1> QED
  BY Invariance, <1>1, PTL

(* Every note a player took on a game somebody won stays on the view it was   *)
(* about, whichever of several attempts writes the file and whenever it does. *)
THEOREM NotesKept == Spec => []NotesStay
<1>1. IInv => NotesStay
  BY DEF IInv
<1> QED
  BY Invariance, <1>1, PTL
============================================================================
