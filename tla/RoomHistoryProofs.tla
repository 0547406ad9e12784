------------------------- MODULE RoomHistoryProofs -------------------------
(***************************************************************************)
(* For any cap, any number of turns and any run of commits and undos: undo *)
(* goes back along the line of play, history stays bounded, the recording  *)
(* is the line, clients are told a true transition.                        *)
(***************************************************************************)
EXTENDS RoomHistory, SequenceTheorems, Counting, TLAPS

-----------------------------------------------------------------------------
(* Prefixes                                                                  *)

(* A strict prefix is a shorter sequence with the same elements in front. *)
LEMMA StrictPrefix ==
  ASSUME NEW S, NEW s \in Seq(S), NEW t \in Seq(S)
  PROVE  IsStrictPrefix(s, t) <=>
           Len(s) < Len(t) /\ \A i \in 1 .. Len(s) : s[i] = t[i]
<1>1. SubSeq(s, 1, Len(s)) = s /\ Len(s) \in Nat /\ Len(t) \in Nat
  BY SubSeqFull, LenProperties
<1>2. ASSUME Len(s) <= Len(t)
      PROVE  SubSeq(t, 1, Len(s)) = s <=> \A i \in 1 .. Len(s) : s[i] = t[i]
  <2>1. \A i \in 1 .. Len(s) : t[i] \in S
    BY <1>1, <1>2, ElementOfSeq
  <2>2. /\ SubSeq(t, 1, Len(s)) \in Seq(S)
        /\ Len(SubSeq(t, 1, Len(s))) = Len(s)
        /\ \A i \in 1 .. Len(s) : SubSeq(t, 1, Len(s))[i] = t[i]
    BY <1>1, <2>1, SubSeqProperties
  <2> QED
    BY <2>2, SeqEqual
<1>3. Len(s) = Len(t) /\ (\A i \in 1 .. Len(s) : s[i] = t[i]) => s = t
  BY SeqEqual
<1> QED
  BY <1>1, <1>2, <1>3 DEF IsStrictPrefix, IsPrefix

(* A sequence is a strict prefix of itself with one element more, and so is   *)
(* every strict prefix of it.                                                 *)
LEMMA PrefixOfAppend ==
  ASSUME NEW S, NEW t \in Seq(S), NEW e \in S
  PROVE  /\ IsStrictPrefix(t, Append(t, e))
         /\ \A s \in Seq(S) : IsStrictPrefix(s, t) => IsStrictPrefix(s, Append(t, e))
<1> DEFINE u == Append(t, e)
<1>1. /\ u \in Seq(S) /\ Len(u) = Len(t) + 1
      /\ \A i \in 1 .. Len(t) : u[i] = t[i]
  BY AppendProperties
<1> HIDE DEF u
<1>2. Len(t) \in Nat /\ \A s \in Seq(S) : Len(s) \in Nat
  BY LenProperties
<1>3. IsStrictPrefix(t, u)
  BY <1>1, <1>2, StrictPrefix
<1>4. ASSUME NEW s \in Seq(S), IsStrictPrefix(s, t) PROVE IsStrictPrefix(s, u)
  <2>1. Len(s) < Len(t) /\ \A i \in 1 .. Len(s) : s[i] = t[i]
    BY <1>4, StrictPrefix
  <2>2. Len(s) < Len(u) /\ \A i \in 1 .. Len(s) : s[i] = u[i]
    BY <1>1, <1>2, <2>1
  <2> QED
    BY <1>1, <2>2, StrictPrefix
<1> QED
  BY <1>3, <1>4 DEF u

(* Of two strict prefixes of one sequence, the shorter is a strict prefix of  *)
(* the longer, and is followed by the same element.                           *)
LEMMA ShorterPrefix ==
  ASSUME NEW S, NEW s \in Seq(S), NEW t \in Seq(S), NEW u \in Seq(S),
         IsStrictPrefix(s, u), IsStrictPrefix(t, u), Len(s) < Len(t)
  PROVE  IsStrictPrefix(s, t) /\ t[Len(s) + 1] = u[Len(s) + 1]
<1>1. Len(s) \in Nat /\ Len(t) \in Nat /\ Len(u) \in Nat
  BY LenProperties
<1>2. /\ \A i \in 1 .. Len(s) : s[i] = u[i]
      /\ \A i \in 1 .. Len(t) : t[i] = u[i]
  BY StrictPrefix
<1>3. \A i \in 1 .. Len(s) : s[i] = t[i]
  BY <1>1, <1>2
<1>4. IsStrictPrefix(s, t)
  BY <1>3, StrictPrefix
<1> QED
  BY <1>1, <1>2, <1>4

-----------------------------------------------------------------------------
(* The inductive invariant                                                   *)

Line == Seq(1 .. MaxVersion)

\* A line is in the order of its versions, the newest of which is committed.
InOrder(line) ==
  /\ line # <<>>
  /\ \A i, j \in 1 .. Len(line) : i < j => line[i] < line[j]

LineGrows ==
  /\ InOrder(game.line)
  /\ \A i \in 1 .. Len(game.line) : game.line[i] <= version
  /\ lineAt[version] = game.line

\* Where a row cuts the line of play: the version that replaced its state is
\* the next one on the line.
CutsAt(r, line) ==
  IsStrictPrefix(r.game.line, line) /\ line[Len(r.game.line) + 1] = r.version

RowsCut ==
  \A r \in history : /\ r.version \in 2 .. version /\ r.game.line # <<>>
                     /\ CutsAt(r, game.line)
                     /\ lineAt[r.version - 1] = r.game.line

RowsDistinct ==
  IsFiniteSet(history) /\ \A q, r \in history : q.version = r.version => q = r

\* Turns do not go back along the rows, and no row is of a later turn than the
\* game is on.
TurnsAlong ==
  /\ \A r \in history \cup dropped : r.version <= version /\ r.game.turn <= game.turn
  /\ \A q, r \in history \cup dropped :
        q.version <= r.version => q.game.turn <= r.game.turn

\* A row that was dropped is not the start of one of the two latest turns
\* anybody was on: an older row of its turn is kept.
StartsKept ==
  \A d \in dropped : d.game.turn >= reached - 1 =>
     \E q \in TurnStart(history, d.game.turn) : q.version < d.version

\* What ended, ended: for the recording and for the match history.
EndsOnce ==
  /\ replay = "finalizing" => phase # "playing"
  /\ matches # <<>> => phase # "playing" /\ replay # "recording"

PastOnly ==
  /\ \A v \in silent : v <= version
  /\ transition.from < version

IInv ==
  /\ TypeOK /\ LineGrows /\ RowsCut /\ RowsDistinct /\ HistoryBounded
  /\ TurnsAlong /\ StartsKept /\ EndsOnce /\ PastOnly
  /\ ReplayIsLine /\ TransitionHonest

-----------------------------------------------------------------------------
(* What pruning keeps                                                        *)

(* A turn has one start at most.                                             *)
LEMMA OneTurnStart ==
  ASSUME NEW rows, NEW turn, \A r \in rows : r.version \in Nat,
         \A q, r \in rows : q.version = r.version => q = r
  PROVE  /\ TurnStart(rows, turn) \subseteq rows
         /\ IsFiniteSet(TurnStart(rows, turn)) /\ Cardinality(TurnStart(rows, turn)) <= 1
<1>1. \A q, r \in TurnStart(rows, turn) : q = r
  BY DEF TurnStart
<1>2. CASE TurnStart(rows, turn) = {}
  BY <1>2, FS_EmptySet
<1>3. CASE TurnStart(rows, turn) # {}
  <2>1. PICK r \in TurnStart(rows, turn) : TRUE
    BY <1>3
  <2>2. TurnStart(rows, turn) = {r}
    BY <1>1, <2>1
  <2>3. IsFiniteSet({r}) /\ Cardinality({r}) = 1
    BY FS_Singleton
  <2>4. TurnStart(rows, turn) \subseteq rows
    BY DEF TurnStart
  <2> QED
    BY <2>2, <2>3, <2>4
<1> QED
  BY <1>2, <1>3 DEF TurnStart

(* The oldest of a turn's rows is its start.                                 *)
LEMMA SomeTurnStart ==
  ASSUME NEW rows, NEW d \in rows, \A r \in rows : r.version \in Nat
  PROVE  \E q \in TurnStart(rows, d.game.turn) : q.version <= d.version
<1> DEFINE Of == {r \in rows : r.game.turn = d.game.turn}
           V  == {r.version : r \in Of}
<1>1. V \in SUBSET Nat /\ d.version \in V /\ d.version \in Nat
  OBVIOUS
<1>2. PICK v \in V : \A w \in V : v <= w
  <2> HIDE DEF V
  <2> QED
    BY <1>1, SmallestNumber
<1>3. PICK q \in Of : q.version = v
  BY <1>2
<1>4. q \in TurnStart(rows, d.game.turn)
  BY <1>2, <1>3 DEF TurnStart
<1> QED
  BY <1>1, <1>2, <1>3, <1>4

(* The newest rows are no more than the cap.                                 *)
LEMMA NewestBounded ==
  ASSUME NEW rows, IsFiniteSet(rows), \A r \in rows : r.version \in Nat,
         \A q, r \in rows : q.version = r.version => q = r
  PROVE  IsFiniteSet(Newest(rows)) /\ Cardinality(Newest(rows)) <= Cap
<1> USE HistoryAssumption
<1>1. Newest(rows) \subseteq rows /\ IsFiniteSet(Newest(rows))
  BY FS_Subset DEF Newest
<1>2. CASE Newest(rows) = {}
  BY <1>1, <1>2, FS_EmptySet
<1>3. CASE Newest(rows) # {}
  <2> DEFINE V == {r.version : r \in Newest(rows)}
  <2>1. V \in SUBSET Nat /\ V # {}
    BY <1>1, <1>3
  <2>2. PICK v \in V : \A w \in V : v <= w
    <3> HIDE DEF V
    <3> QED
      BY <2>1, SmallestNumber
  <2>3. PICK m \in Newest(rows) : m.version = v
    BY <2>2
  <2> DEFINE After == {q \in rows : q.version > m.version}
  <2>4. IsFiniteSet(After) /\ Cardinality(After) \in Nat /\ Cardinality(After) < Cap
    BY FS_Subset, FS_CardinalityType DEF Newest
  <2>5. Newest(rows) \subseteq After \cup {m}
    <3>1. SUFFICES ASSUME NEW r \in Newest(rows) PROVE r \in After \cup {m}
      OBVIOUS
    <3>2. r \in rows /\ m \in rows /\ m.version <= r.version
      BY <1>1, <2>2, <2>3
    <3>3. r.version = m.version \/ r.version > m.version
      BY <3>2
    <3> QED
      BY <3>2, <3>3
  <2> HIDE DEF After
  <2>6. /\ IsFiniteSet(After \cup {m}) /\ Cardinality(After \cup {m}) \in Nat
        /\ Cardinality(After \cup {m}) <= Cardinality(After) + 1
    <3>1. /\ IsFiniteSet(After \cup {m})
          /\ Cardinality(After \cup {m})
               = IF m \in After THEN Cardinality(After) ELSE Cardinality(After) + 1
      BY <2>4, FS_AddElement
    <3> QED
      BY <2>4, <3>1
  <2>7. Cardinality(Newest(rows)) <= Cardinality(After \cup {m})
    BY <2>5, <2>6, FS_Subset
  <2>8. Cardinality(Newest(rows)) \in Nat
    BY <1>1, FS_CardinalityType
  <2> QED
    BY <1>1, <2>4, <2>6, <2>7, <2>8
<1> QED
  BY <1>2, <1>3

(* Pruning keeps Cap + 2 rows at most, and of the two latest turns the start. *)
LEMMA RetainedRows ==
  ASSUME NEW rows, NEW turn \in Nat, IsFiniteSet(rows), \A r \in rows : r.version \in Nat,
         \A q, r \in rows : q.version = r.version => q = r
  PROVE  /\ Retained(rows, turn) \subseteq rows
         /\ IsFiniteSet(Retained(rows, turn))
         /\ Cardinality(Retained(rows, turn)) <= Cap + 2
         /\ \A t \in {turn, turn - 1} : TurnStart(rows, t) \subseteq Retained(rows, turn)
<1> USE HistoryAssumption
<1>1. CASE Cardinality(rows) <= Cap
  BY <1>1, FS_CardinalityType DEF Retained, TurnStart
<1>2. CASE ~(Cardinality(rows) <= Cap)
  <2> DEFINE N == Newest(rows)
             A == TurnStart(rows, turn)
             B == TurnStart(rows, turn - 1)
  <2>1. Retained(rows, turn) = (N \cup A) \cup B
    BY <1>2 DEF Retained
  <2>2. /\ N \subseteq rows /\ A \subseteq rows /\ B \subseteq rows
        /\ IsFiniteSet(N) /\ IsFiniteSet(A) /\ IsFiniteSet(B)
        /\ Cardinality(N) <= Cap /\ Cardinality(A) <= 1 /\ Cardinality(B) <= 1
    BY NewestBounded, OneTurnStart DEF Newest
  <2> HIDE DEF N, A, B
  <2>3. /\ Cardinality(N) \in Nat /\ Cardinality(A) \in Nat /\ Cardinality(B) \in Nat
    BY <2>2, FS_CardinalityType
  <2>4. /\ IsFiniteSet(N \cup A) /\ Cardinality(N \cup A) \in Nat
        /\ Cardinality(N \cup A) <= Cardinality(N) + Cardinality(A)
    <3>1. /\ IsFiniteSet(N \cup A) /\ Cardinality(N \cup A) \in Nat
          /\ Cardinality(N \cup A) = Cardinality(N) + Cardinality(A) - Cardinality(N \cap A)
      BY <2>2, FS_Union, FS_CardinalityType
    <3>2. Cardinality(N \cap A) \in Nat
      BY <2>2, FS_Intersection, FS_CardinalityType
    <3> QED
      BY <2>3, <3>1, <3>2
  <2>5. /\ IsFiniteSet((N \cup A) \cup B) /\ Cardinality((N \cup A) \cup B) \in Nat
        /\ Cardinality((N \cup A) \cup B) <= Cardinality(N \cup A) + Cardinality(B)
    <3>1. /\ IsFiniteSet((N \cup A) \cup B) /\ Cardinality((N \cup A) \cup B) \in Nat
          /\ Cardinality((N \cup A) \cup B)
               = Cardinality(N \cup A) + Cardinality(B) - Cardinality((N \cup A) \cap B)
      BY <2>2, <2>4, FS_Union, FS_CardinalityType
    <3>2. Cardinality((N \cup A) \cap B) \in Nat
      BY <2>2, <2>4, FS_Intersection, FS_CardinalityType
    <3> QED
      BY <2>3, <2>4, <3>1, <3>2
  <2>6. Cardinality((N \cup A) \cup B) <= Cap + 2
    BY <2>2, <2>3, <2>4, <2>5
  <2>7. \A t \in {turn, turn - 1} : TurnStart(rows, t) \subseteq Retained(rows, turn)
    BY <2>1 DEF A, B
  <2> QED
    BY <2>1, <2>2, <2>5, <2>6, <2>7
<1> QED
  BY <1>1, <1>2

-----------------------------------------------------------------------------
(* One commit                                                                *)

\* The part of the type invariant and of the inductive invariant that only the
\* commit and the pruning of history change.
LogTyped ==
  /\ version \in 1 .. MaxVersion /\ game \in Game
  /\ \A r \in history \cup dropped : r \in Row
  /\ lineAt \in Seq(Line) /\ Len(lineAt) = version
  /\ reached \in game.turn .. MaxTurn

RowsKept ==
  /\ LineGrows /\ RowsCut /\ RowsDistinct /\ HistoryBounded /\ TurnsAlong /\ StartsKept

LEMMA GameParts ==
  ASSUME NEW g \in Game
  PROVE  /\ g.line \in Line /\ g.turn \in 1 .. MaxTurn /\ g.turn \in Nat
         /\ Len(g.line) \in Nat
<1> QED
  BY HistoryAssumption, LenProperties DEF Game, Line

(* A commit adds one line to those the versions had, and leaves the others.   *)
LEMMA CommitLog ==
  ASSUME LogTyped, version < MaxVersion, NEW g \in Game, CommitGame(g)
  PROVE  /\ version' = version + 1 /\ version' \in 1 .. MaxVersion
         /\ game' = g /\ g.line \in Line
         /\ lineAt' \in Seq(Line) /\ Len(lineAt') = version'
         /\ \A i \in 1 .. version : lineAt'[i] = lineAt[i]
         /\ lineAt'[version'] = g.line
         /\ reached' \in g.turn .. MaxTurn /\ reached' >= reached
<1>1. version \in Nat /\ MaxVersion \in Nat /\ version >= 1 /\ MaxTurn \in Nat
  BY HistoryAssumption DEF LogTyped
<1>2. g.line \in Line /\ g.turn \in 1 .. MaxTurn /\ game.turn \in 1 .. MaxTurn
  BY GameParts DEF LogTyped
<1>3. /\ lineAt' \in Seq(Line) /\ Len(lineAt') = version + 1
      /\ \A i \in 1 .. version : lineAt'[i] = lineAt[i]
      /\ lineAt'[version + 1] = g.line
  BY <1>2, AppendProperties DEF CommitGame, LogTyped
<1>4. reached' \in g.turn .. MaxTurn /\ reached' >= reached
  BY <1>1, <1>2 DEF CommitGame, LogTyped, Later
<1> QED
  BY <1>1, <1>2, <1>3, <1>4 DEF CommitGame

(* Appending the version being committed keeps a line in order.              *)
LEMMA OrderedAppend ==
  ASSUME NEW line \in Line, InOrder(line), NEW v \in 1 .. MaxVersion,
         \A i \in 1 .. Len(line) : line[i] < v
  PROVE  /\ Append(line, v) \in Line /\ InOrder(Append(line, v))
         /\ Len(Append(line, v)) = Len(line) + 1
         /\ \A i \in 1 .. Len(line) : Append(line, v)[i] = line[i]
         /\ Append(line, v)[Len(line) + 1] = v
         /\ \A i \in 1 .. Len(Append(line, v)) : Append(line, v)[i] <= v
<1>1. /\ Append(line, v) \in Line
      /\ Len(Append(line, v)) = Len(line) + 1
      /\ \A i \in 1 .. Len(line) : Append(line, v)[i] = line[i]
      /\ Append(line, v)[Len(line) + 1] = v
      /\ Len(line) \in Nat
  BY AppendProperties, LenProperties DEF Line
<1> DEFINE u == Append(line, v)
<1> HIDE DEF u
<1>2. \A i, j \in 1 .. Len(u) : i < j => u[i] < u[j]
  <2>1. TAKE i, j \in 1 .. Len(u)
  <2>2. HAVE i < j
  <2>3. i \in 1 .. Len(line) /\ u[i] = line[i]
    BY <1>1, <2>2 DEF u
  <2>4. CASE j = Len(line) + 1
    BY <1>1, <2>3, <2>4 DEF u
  <2>5. CASE j # Len(line) + 1
    <3>1. j \in 1 .. Len(line) /\ u[j] = line[j]
      BY <1>1, <2>5 DEF u
    <3> QED
      BY <2>2, <2>3, <3>1 DEF InOrder
  <2> QED
    BY <2>4, <2>5
<1>3. \A i \in 1 .. Len(u) : u[i] <= v
  <2>1. TAKE i \in 1 .. Len(u)
  <2>2. CASE i = Len(line) + 1
    BY <1>1, <2>2 DEF u
  <2>3. CASE i # Len(line) + 1
    <3>1. i \in 1 .. Len(line) /\ u[i] = line[i]
      BY <1>1, <2>3 DEF u
    <3>2. line[i] \in 1 .. MaxVersion /\ MaxVersion \in Nat
      BY <3>1, ElementOfSeq, HistoryAssumption DEF Line
    <3> QED
      BY <3>1, <3>2
  <2> QED
    BY <2>2, <2>3
<1>4. u # <<>>
  BY <1>1, EmptySeq DEF u
<1> QED
  BY <1>1, <1>2, <1>3, <1>4 DEF u, InOrder

(* Where a row cuts a line it cuts every continuation of that line.           *)
LEMMA CutsOn ==
  ASSUME NEW r \in Row, NEW line \in Line, NEW v \in 1 .. MaxVersion, CutsAt(r, line)
  PROVE  CutsAt(r, Append(line, v))
<1>1. r.game \in Game /\ r.game.line \in Line /\ Len(r.game.line) \in Nat
  BY GameParts DEF Row
<1>2. Len(r.game.line) < Len(line) /\ Len(line) \in Nat
  BY <1>1, StrictPrefix, LenProperties DEF CutsAt, Line
<1>3. Append(line, v)[Len(r.game.line) + 1] = line[Len(r.game.line) + 1]
  BY <1>1, <1>2, AppendProperties DEF Line
<1>4. IsStrictPrefix(r.game.line, Append(line, v))
  BY <1>1, PrefixOfAppend DEF CutsAt, Line
<1> QED
  BY <1>3, <1>4 DEF CutsAt

(* The state before the commit cuts the line at the version of the commit.    *)
LEMMA CutsHere ==
  ASSUME NEW r \in Row, NEW v \in 1 .. MaxVersion, r.version = v
  PROVE  CutsAt(r, Append(r.game.line, v))
<1>1. r.game \in Game /\ r.game.line \in Line
  BY GameParts DEF Row
<1>2. r.game.line \in Seq(1 .. MaxVersion)
  BY <1>1 DEF Line
<1>3. Append(r.game.line, v)[Len(r.game.line) + 1] = v
  BY <1>2, AppendProperties
<1>4. IsStrictPrefix(r.game.line, Append(r.game.line, v))
  BY <1>2, PrefixOfAppend
<1> QED
  BY <1>3, <1>4 DEF CutsAt

(* Play goes on from the state the room is on: the rows there are stay good,  *)
(* and so is the new one; what pruning drops is no start of the latest turns. *)
LEMMA ForwardKeeps ==
  ASSUME LogTyped, RowsKept, version < MaxVersion, NEW g \in Game, CommitGame(g),
         g.line = Append(game.line, version + 1), g.turn >= game.turn,
         Snapshot(g) \/ NoSnapshot
  PROVE  LogTyped' /\ RowsKept'
<1> DEFINE new  == [version |-> version + 1, game |-> game]
           rows == history \cup {new}
<1>1. /\ version \in Nat /\ version >= 1 /\ MaxVersion \in Nat
      /\ version + 1 \in 1 .. MaxVersion /\ MaxTurn \in Nat
      /\ game.line \in Line /\ game.turn \in 1 .. MaxTurn /\ g.turn \in 1 .. MaxTurn
  BY GameParts, HistoryAssumption DEF LogTyped
<1>2. /\ version' = version + 1 /\ game' = g
      /\ lineAt' \in Seq(Line) /\ Len(lineAt') = version'
      /\ \A i \in 1 .. version : lineAt'[i] = lineAt[i]
      /\ lineAt'[version'] = g.line
      /\ reached' \in g.turn .. MaxTurn /\ reached' >= reached
  BY CommitLog
<1>3. new \in Row /\ (\A r \in history \cup dropped : r \in Row)
  BY <1>1 DEF Row, LogTyped
<1>4. \A r \in history \cup dropped : /\ r.version \in Nat /\ r.version <= version
                                     /\ r.game.turn \in Nat
                                     /\ r.game.turn <= game.turn
  BY <1>3, GameParts, HistoryAssumption DEF RowsKept, TurnsAlong, Row
<1>5. /\ IsFiniteSet(rows) /\ \A r \in rows : r.version \in Nat
      /\ \A q, r \in rows : q.version = r.version => q = r
  <2>1. IsFiniteSet(rows)
    BY FS_AddElement DEF RowsKept, RowsDistinct
  <2>2. \A r \in rows : r.version \in Nat
    BY <1>1, <1>4
  <2>3. \A q, r \in rows : q.version = r.version => q = r
    BY <1>1, <1>4 DEF RowsKept, RowsDistinct
  <2> QED
    BY <2>1, <2>2, <2>3
<1>6. /\ history' \subseteq rows /\ IsFiniteSet(history')
      /\ Cardinality(history') <= Cap + 2
      /\ dropped' \subseteq dropped \cup rows
  <2>1. CASE Snapshot(g)
    <3>1. history' = Retained(rows, g.turn) /\ dropped' = dropped \cup (rows \ history')
      BY <2>1 DEF Snapshot
    <3> HIDE DEF rows
    <3> QED
      BY <1>1, <1>5, <3>1, RetainedRows
  <2>2. CASE NoSnapshot
    BY <2>2 DEF NoSnapshot, RowsKept, RowsDistinct, HistoryBounded
  <2> QED
    BY <2>1, <2>2
<1>7. LogTyped'
  BY <1>1, <1>2, <1>3, <1>6 DEF LogTyped
<1>8. LineGrows'
  <2>1. InOrder(game.line) /\ \A i \in 1 .. Len(game.line) : game.line[i] \in Nat
                                                             /\ game.line[i] <= version
    BY <1>1, ElementOfSeq DEF RowsKept, LineGrows, Line
  <2>2. InOrder(g.line) /\ \A i \in 1 .. Len(g.line) : g.line[i] <= version + 1
    BY <1>1, <2>1, OrderedAppend
  <2> QED
    BY <1>2, <2>2 DEF LineGrows
<1>9. RowsCut'
  <2>1. ASSUME NEW r \in history
        PROVE  /\ r.version \in 2 .. version' /\ r.game.line # <<>>
               /\ CutsAt(r, g.line) /\ lineAt'[r.version - 1] = r.game.line
    <3>1. /\ r.version \in 2 .. version /\ r.game.line # <<>>
          /\ CutsAt(r, game.line) /\ lineAt[r.version - 1] = r.game.line
      BY DEF RowsKept, RowsCut
    <3>2. CutsAt(r, g.line)
      BY <1>1, <1>3, <3>1, CutsOn
    <3>3. r.version - 1 \in 1 .. version
      BY <1>1, <3>1
    <3> QED
      BY <1>1, <1>2, <3>1, <3>2, <3>3
  <2>2. /\ new.version \in 2 .. version' /\ new.game.line # <<>>
        /\ CutsAt(new, g.line) /\ lineAt'[new.version - 1] = new.game.line
    <3>1. CutsAt(new, g.line)
      BY <1>1, <1>3, CutsHere
    <3>2. game.line # <<>> /\ lineAt[version] = game.line
      BY DEF RowsKept, LineGrows, InOrder
    <3>3. lineAt'[version] = lineAt[version]
      BY <1>1, <1>2
    <3> QED
      BY <1>1, <1>2, <3>1, <3>2, <3>3
  <2> QED
    BY <1>2, <1>6, <2>1, <2>2 DEF RowsCut
<1>10. RowsDistinct' /\ HistoryBounded'
  BY <1>5, <1>6 DEF RowsDistinct, HistoryBounded
<1>11. TurnsAlong'
  <2>1. history' \cup dropped' \subseteq (history \cup dropped) \cup {new}
    BY <1>6
  <2>2. \A r \in (history \cup dropped) \cup {new} :
          r.version <= version + 1 /\ r.game.turn <= g.turn
    BY <1>1, <1>4
  <2>3. ASSUME NEW q \in (history \cup dropped) \cup {new},
               NEW r \in (history \cup dropped) \cup {new}, q.version <= r.version
        PROVE  q.game.turn <= r.game.turn
    <3>1. CASE q \in history \cup dropped /\ r \in history \cup dropped
      BY <2>3, <3>1 DEF RowsKept, TurnsAlong
    <3>2. CASE r = new
      BY <1>1, <1>4, <3>2
    <3>3. CASE q = new /\ r \in history \cup dropped
      BY <1>1, <1>4, <2>3, <3>3
    <3> QED
      BY <3>1, <3>2, <3>3
  <2> QED
    BY <1>2, <2>1, <2>2, <2>3 DEF TurnsAlong
<1>12. StartsKept'
  <2>1. SUFFICES ASSUME NEW d \in dropped', d.game.turn >= reached' - 1
                 PROVE  \E q \in TurnStart(history', d.game.turn) : q.version < d.version
    BY DEF StartsKept, TurnStart
  <2>2. reached \in Nat /\ reached' \in Nat /\ reached' >= g.turn
    BY <1>1, <1>2 DEF LogTyped
  <2>3. d \in dropped \cup rows /\ d.game.turn \in Nat /\ d.version \in Nat
        /\ d.game.turn <= game.turn
    BY <1>1, <1>4, <1>6
  <2>4. d.game.turn \in {g.turn, g.turn - 1} /\ d.game.turn >= reached - 1
    <3>1. d.game.turn >= g.turn - 1 /\ d.game.turn >= reached - 1
      BY <1>1, <1>2, <2>1, <2>2, <2>3
    <3>2. d.game.turn <= g.turn
      BY <1>1, <2>3
    <3> QED
      BY <1>1, <2>3, <3>1, <3>2
  <2>5. ASSUME d \in dropped
        PROVE  \E q \in TurnStart(history, d.game.turn) :
                  q.version < d.version /\ q \in TurnStart(rows, d.game.turn)
    <3>1. PICK q \in TurnStart(history, d.game.turn) : q.version < d.version
      BY <2>4, <2>5 DEF RowsKept, StartsKept
    <3>2. q \in TurnStart(rows, d.game.turn)
      BY <1>1, <1>4, <3>1 DEF TurnStart
    <3> QED
      BY <3>1, <3>2
  <2>6. CASE Snapshot(g)
    <3> HIDE DEF rows
    <3>1. history' = Retained(rows, g.turn) /\ dropped' = dropped \cup (rows \ history')
      BY <2>6 DEF Snapshot, rows
    <3>2. TurnStart(rows, d.game.turn) \subseteq TurnStart(history', d.game.turn)
      <4>1. TurnStart(rows, d.game.turn) \subseteq history' /\ history' \subseteq rows
        BY <1>1, <1>5, <2>4, <3>1, RetainedRows
      <4> QED
        BY <4>1 DEF TurnStart
    <3>3. CASE d \in dropped
      BY <2>5, <3>2, <3>3
    <3>4. CASE d \in rows \ history'
      <4>1. PICK q \in TurnStart(rows, d.game.turn) : q.version <= d.version
        BY <1>5, <3>4, SomeTurnStart
      <4>2. q \in rows /\ q \in history' /\ q # d /\ d \in rows
        BY <3>2, <3>4, <4>1 DEF TurnStart
      <4>3. q.version < d.version
        BY <1>5, <4>1, <4>2
      <4> QED
        BY <3>2, <4>1, <4>3
    <3> QED
      BY <2>3, <3>1, <3>3, <3>4
  <2>7. CASE NoSnapshot
    BY <2>5, <2>7 DEF NoSnapshot
  <2> QED
    BY <2>6, <2>7
<1> QED
  BY <1>7, <1>8, <1>9, <1>10, <1>11, <1>12 DEF RowsKept

(* A version that leaves the game alone leaves history alone, or takes it all. *)
LEMMA StayKeeps ==
  ASSUME LogTyped, RowsKept, version < MaxVersion, CommitGame(game),
         \/ history' = history /\ dropped' = dropped
         \/ history' = {} /\ dropped' = {}
  PROVE  LogTyped' /\ RowsKept'
<1>1. /\ version \in Nat /\ version >= 1 /\ MaxVersion \in Nat /\ version < MaxVersion
      /\ game \in Game /\ game.line \in Line /\ game.turn \in Nat /\ reached \in Nat
      /\ reached >= game.turn
  BY GameParts, HistoryAssumption DEF LogTyped
<1>2. /\ version' = version + 1 /\ game' = game /\ version' \in 1 .. MaxVersion
      /\ lineAt' \in Seq(Line) /\ Len(lineAt') = version'
      /\ \A i \in 1 .. version : lineAt'[i] = lineAt[i]
      /\ lineAt'[version'] = game.line
      /\ reached' \in game.turn .. MaxTurn /\ reached' = reached
  <2>1. reached' = reached
    BY <1>1 DEF CommitGame, Later
  <2> QED
    BY <1>1, <2>1, CommitLog
<1>3. history' \subseteq history /\ dropped' \subseteq dropped
  OBVIOUS
<1>4. LogTyped'
  BY <1>1, <1>2, <1>3 DEF LogTyped
<1>5. LineGrows'
  <2>1. \A i \in 1 .. Len(game.line) : game.line[i] \in Nat /\ game.line[i] <= version
    BY <1>1, ElementOfSeq DEF RowsKept, LineGrows, Line
  <2> QED
    BY <1>1, <1>2, <2>1 DEF RowsKept, LineGrows
<1>6. RowsCut'
  <2>1. ASSUME NEW r \in history
        PROVE  /\ r.version \in 2 .. version' /\ r.game.line # <<>>
               /\ CutsAt(r, game.line) /\ lineAt'[r.version - 1] = r.game.line
    <3>1. /\ r.version \in 2 .. version /\ r.game.line # <<>>
          /\ CutsAt(r, game.line) /\ lineAt[r.version - 1] = r.game.line
      BY DEF RowsKept, RowsCut
    <3>2. r.version - 1 \in 1 .. version
      BY <1>1, <3>1
    <3> QED
      BY <1>1, <1>2, <3>1, <3>2
  <2> QED
    BY <1>2, <1>3, <2>1 DEF RowsCut
<1>7. RowsDistinct'
  BY <1>3, FS_Subset DEF RowsKept, RowsDistinct
<1>8. HistoryBounded'
  <2>1. CASE history' = history
    BY <2>1 DEF RowsKept, HistoryBounded
  <2>2. CASE history' = {}
    BY <2>2, FS_EmptySet, HistoryAssumption DEF HistoryBounded
  <2> QED
    BY <2>1, <2>2
<1>9. TurnsAlong'
  <2>1. \A r \in history \cup dropped : /\ r.version \in Nat /\ r.version <= version
    BY HistoryAssumption DEF LogTyped, Row, RowsKept, TurnsAlong
  <2>2. \A r \in history \cup dropped : r.version <= version'
    BY <1>1, <1>2, <2>1
  <2>3. history' \cup dropped' \subseteq history \cup dropped
    BY <1>3
  <2> QED
    BY <1>2, <2>2, <2>3 DEF RowsKept, TurnsAlong
<1>10. StartsKept'
  BY <1>2 DEF RowsKept, StartsKept, TurnStart
<1> QED
  BY <1>4, <1>5, <1>6, <1>7, <1>8, <1>9, <1>10 DEF RowsKept

(* Of two rows on the line of play, the older one cuts the state of the newer. *)
LEMMA OlderRowCuts ==
  ASSUME LogTyped, RowsKept, NEW q \in history, NEW r \in history, q.version < r.version
  PROVE  CutsAt(q, r.game.line)
<1>1. /\ q \in Row /\ r \in Row /\ q.game.line \in Line /\ r.game.line \in Line
      /\ game.line \in Line /\ q.version \in Nat /\ r.version \in Nat
  BY GameParts, HistoryAssumption DEF LogTyped, Row
<1>2. /\ IsStrictPrefix(q.game.line, game.line) /\ game.line[Len(q.game.line) + 1] = q.version
      /\ IsStrictPrefix(r.game.line, game.line) /\ game.line[Len(r.game.line) + 1] = r.version
  BY DEF RowsKept, RowsCut, CutsAt
<1>3. /\ Len(q.game.line) \in Nat /\ Len(r.game.line) \in Nat /\ Len(game.line) \in Nat
      /\ Len(q.game.line) < Len(game.line) /\ Len(r.game.line) < Len(game.line)
  BY <1>1, <1>2, LenProperties, StrictPrefix DEF Line
<1>4. Len(q.game.line) < Len(r.game.line)
  <2>1. \A i, j \in 1 .. Len(game.line) : i < j => game.line[i] < game.line[j]
    BY DEF RowsKept, LineGrows, InOrder
  <2>2. Len(q.game.line) # Len(r.game.line)
    <3>1. q.version # r.version
      BY <1>1
    <3> QED
      BY <1>2, <3>1
  <2>3. ~ (Len(r.game.line) < Len(q.game.line))
    <3>1. ASSUME Len(r.game.line) < Len(q.game.line)
          PROVE  game.line[Len(r.game.line) + 1] < game.line[Len(q.game.line) + 1]
      <4>1. PICK i \in 1 .. Len(game.line), j \in 1 .. Len(game.line) :
              i = Len(r.game.line) + 1 /\ j = Len(q.game.line) + 1
        BY <1>3
      <4>2. i < j
        BY <1>3, <3>1, <4>1
      <4>3. game.line[i] < game.line[j]
        BY <2>1, <4>2
      <4> QED
        BY <4>1, <4>3
    <3> QED
      BY <1>1, <1>2, <3>1
  <2> QED
    BY <1>3, <2>2, <2>3
<1> QED
  BY <1>1, <1>2, <1>4, ShorterPrefix DEF CutsAt, Line

(* What a row's state was led by is what the line of play has before it.      *)
LEMMA RowLine ==
  ASSUME LogTyped, RowsKept, NEW r \in history
  PROVE  /\ r.game.line \in Line /\ InOrder(r.game.line)
         /\ \A i \in 1 .. Len(r.game.line) : r.game.line[i] < r.version
         /\ Range(r.game.line) = {f \in Range(game.line) : f < r.version}
<1>1. /\ r \in Row /\ r.game.line \in Line /\ game.line \in Line /\ r.version \in Nat
  BY GameParts, HistoryAssumption DEF LogTyped, Row
<1> DEFINE n == Len(r.game.line)
<1>2. /\ IsStrictPrefix(r.game.line, game.line) /\ game.line[n + 1] = r.version
      /\ r.game.line # <<>>
  BY DEF RowsKept, RowsCut, CutsAt
<1>3. n \in Nat /\ Len(game.line) \in Nat
  BY <1>1, LenProperties DEF Line
<1>4. n < Len(game.line) /\ \A i \in 1 .. n : r.game.line[i] = game.line[i]
  BY <1>1, <1>2, StrictPrefix DEF Line
<1>5. \A i, j \in 1 .. Len(game.line) : i < j => game.line[i] < game.line[j]
  BY DEF RowsKept, LineGrows, InOrder
<1>6. \A i \in 1 .. Len(game.line) : game.line[i] \in Nat
  BY <1>1, ElementOfSeq, HistoryAssumption DEF Line
<1>7. \A i \in 1 .. n : r.game.line[i] < r.version
  <2>1. TAKE i \in 1 .. n
  <2>2. i \in 1 .. Len(game.line) /\ n + 1 \in 1 .. Len(game.line) /\ i < n + 1
    BY <1>3, <1>4
  <2>3. game.line[i] < game.line[n + 1]
    BY <1>5, <2>2
  <2> QED
    BY <1>2, <1>4, <2>3
<1>8. \A i \in 1 .. Len(game.line) : game.line[i] < r.version => i \in 1 .. n
  <2>1. SUFFICES ASSUME NEW i \in 1 .. Len(game.line), game.line[i] < r.version
                 PROVE  i \in 1 .. n
    OBVIOUS
  <2>2. ASSUME i > n + 1 PROVE FALSE
    <3>1. game.line[n + 1] < game.line[i]
      BY <1>3, <1>4, <1>5, <2>2
    <3> QED
      BY <1>1, <1>2, <1>6, <2>1, <3>1
  <2>3. i # n + 1
    BY <1>1, <1>2, <2>1
  <2> QED
    BY <1>3, <2>2, <2>3
<1>9. Range(r.game.line) = {f \in Range(game.line) : f < r.version}
  <2>1. /\ Range(r.game.line) = {r.game.line[i] : i \in 1 .. n}
        /\ Range(game.line) = {game.line[i] : i \in 1 .. Len(game.line)}
    BY <1>1, LenProperties DEF Range, Line
  <2>2. ASSUME NEW f \in Range(r.game.line) PROVE f \in Range(game.line) /\ f < r.version
    <3>1. PICK i \in 1 .. n : f = r.game.line[i]
      BY <2>1
    <3>2. i \in 1 .. Len(game.line)
      BY <1>3, <1>4
    <3> QED
      BY <1>4, <1>7, <2>1, <3>1, <3>2
  <2>3. ASSUME NEW f \in Range(game.line), f < r.version PROVE f \in Range(r.game.line)
    <3>1. PICK i \in 1 .. Len(game.line) : f = game.line[i]
      BY <2>1
    <3>2. i \in 1 .. n
      BY <1>8, <2>3, <3>1
    <3> QED
      BY <1>4, <2>1, <3>1, <3>2
  <2> QED
    BY <2>2, <2>3
<1>10. InOrder(r.game.line)
  BY <1>2, <1>3, <1>4, <1>5 DEF InOrder
<1> QED
  BY <1>1, <1>7, <1>9, <1>10

(* The engine leads on from a state, on its turn or a later one.              *)
LEMMA OutcomeParts ==
  ASSUME NEW h \in Game, version \in 1 .. MaxVersion, version < MaxVersion,
         botRoom \in BOOLEAN, NEW g \in Outcomes(h)
  PROVE  g \in Game /\ g.line = Append(h.line, version + 1) /\ g.turn >= h.turn
<1>1. h.line \in Line /\ h.turn \in 1 .. MaxTurn /\ version + 1 \in 1 .. MaxVersion
      /\ TurnSkip \in Nat /\ MaxTurn \in Nat
  BY GameParts, HistoryAssumption
<1>2. Append(h.line, version + 1) \in Line
  BY <1>1, AppendProperties DEF Line
<1>3. PICK t \in {u \in h.turn .. h.turn + TurnSkip : u <= MaxTurn}, a \in Actors :
        g = [line |-> Append(h.line, version + 1), turn |-> t, actor |-> a]
  BY DEF Outcomes
<1>4. t \in 1 .. MaxTurn /\ t >= h.turn /\ a \in {0, 1}
  BY <1>1, <1>3 DEF Actors, HumanSeat, BotSeat
<1> QED
  BY <1>2, <1>3, <1>4 DEF Game, Line

LEMMA SelectedRow ==
  ASSUME NEW target \in Targets PROVE Selected(target) \subseteq history
<1>1. CASE target = "last-action"
  BY <1>1 DEF Selected
<1>2. CASE target = "current-turn"
  BY <1>2 DEF Selected, TurnStart
<1>3. CASE target = "previous-turn"
  BY <1>3 DEF Selected, TurnStart
<1> QED
  BY <1>1, <1>2, <1>3 DEF Targets

(* An undo cuts the line at the row it restores, and with it the rows from    *)
(* there on; whatever the shortcuts then lead to continues the line that is   *)
(* left.                                                                      *)
LEMMA UndoKeeps ==
  ASSUME LogTyped, RowsKept, version < MaxVersion, botRoom \in BOOLEAN,
         NEW r \in history, NEW g \in {r.game} \cup Outcomes(r.game), CommitGame(g),
         history' = RowsBefore(history, r.version), dropped' = RowsBefore(dropped, r.version)
  PROVE  LogTyped' /\ RowsKept'
<1>1. /\ version \in Nat /\ version >= 1 /\ MaxVersion \in Nat /\ version < MaxVersion
      /\ version + 1 \in 1 .. MaxVersion
      /\ r \in Row /\ r.game \in Game /\ r.game.line \in Line /\ r.game.turn \in Nat
      /\ r.version \in 2 .. version /\ r.version \in Nat
  BY GameParts, HistoryAssumption DEF LogTyped, Row, RowsKept, RowsCut
<1>2. /\ g \in Game /\ g.turn \in Nat /\ g.turn >= r.game.turn
      /\ g.line \in {r.game.line, Append(r.game.line, version + 1)}
  <2>1. CASE g = r.game
    BY <1>1, <2>1
  <2>2. CASE g \in Outcomes(r.game)
    <3>1. g \in Game /\ g.line = Append(r.game.line, version + 1) /\ g.turn >= r.game.turn
      BY <1>1, <2>2, OutcomeParts DEF LogTyped
    <3> QED
      BY <3>1, GameParts
  <2> QED
    BY <2>1, <2>2
<1>3. /\ version' = version + 1 /\ game' = g /\ version' \in 1 .. MaxVersion
      /\ lineAt' \in Seq(Line) /\ Len(lineAt') = version'
      /\ \A i \in 1 .. version : lineAt'[i] = lineAt[i]
      /\ lineAt'[version'] = g.line
      /\ reached' \in g.turn .. MaxTurn /\ reached' >= reached
  BY <1>2, CommitLog
<1>4. /\ history' = {q \in history : q.version < r.version}
      /\ dropped' = {q \in dropped : q.version < r.version}
  BY DEF RowsBefore
<1>5. \A q \in history \cup dropped : q \in Row /\ q.version \in Nat /\ q.game.turn \in Nat
  BY GameParts, HistoryAssumption DEF LogTyped, Row
<1>6. LogTyped'
  BY <1>2, <1>3, <1>4, <1>5 DEF LogTyped
<1>7. LineGrows'
  <2>1. /\ InOrder(r.game.line)
        /\ \A i \in 1 .. Len(r.game.line) : /\ r.game.line[i] \in Nat
                                            /\ r.game.line[i] < version + 1
    <3>1. /\ InOrder(r.game.line)
          /\ \A i \in 1 .. Len(r.game.line) : r.game.line[i] < r.version
      BY RowLine
    <3>2. \A i \in 1 .. Len(r.game.line) : r.game.line[i] \in Nat
      BY <1>1, ElementOfSeq DEF Line
    <3>3. r.version \in Nat /\ version \in Nat /\ r.version < version + 1
      BY <1>1
    <3>4. ASSUME NEW i \in 1 .. Len(r.game.line) PROVE r.game.line[i] < version + 1
      <4>1. r.game.line[i] \in Nat /\ r.game.line[i] < r.version
        BY <3>1, <3>2
      <4> QED
        BY <3>3, <4>1
    <3> QED
      BY <3>1, <3>2, <3>4
  <2>2. InOrder(g.line) /\ \A i \in 1 .. Len(g.line) : g.line[i] <= version + 1
    <3>1. CASE g.line = r.game.line
      BY <1>1, <2>1, <3>1
    <3>2. CASE g.line = Append(r.game.line, version + 1)
      <4>1. /\ r.game.line \in Line /\ version + 1 \in 1 .. MaxVersion
            /\ \A i \in 1 .. Len(r.game.line) : r.game.line[i] < version + 1
        BY <1>1, <2>1
      <4>2. /\ InOrder(Append(r.game.line, version + 1))
            /\ \A i \in 1 .. Len(Append(r.game.line, version + 1)) :
                 Append(r.game.line, version + 1)[i] <= version + 1
        BY <2>1, <4>1, OrderedAppend
      <4> QED
        BY <3>2, <4>2
    <3> QED
      BY <1>2, <3>1, <3>2
  <2> QED
    BY <1>3, <2>2 DEF LineGrows
<1>8. RowsCut'
  <2>1. SUFFICES ASSUME NEW q \in history, q.version < r.version
                 PROVE  /\ q.version \in 2 .. version' /\ q.game.line # <<>>
                        /\ CutsAt(q, g.line) /\ lineAt'[q.version - 1] = q.game.line
    BY <1>3, <1>4 DEF RowsCut
  <2>2. /\ q.version \in 2 .. version /\ q.game.line # <<>>
        /\ lineAt[q.version - 1] = q.game.line
    BY DEF RowsKept, RowsCut
  <2>3. CutsAt(q, r.game.line)
    BY <2>1, OlderRowCuts
  <2>4. CutsAt(q, g.line)
    BY <1>1, <1>2, <1>5, <2>3, CutsOn
  <2>5. q.version - 1 \in 1 .. version
    BY <1>1, <2>2
  <2> QED
    BY <1>1, <1>3, <2>2, <2>4, <2>5
<1>9. RowsDistinct' /\ HistoryBounded'
  <2>1. /\ IsFiniteSet(history) /\ Cardinality(history) <= Cap + 2
        /\ history' \subseteq history /\ Cap \in Nat
    BY <1>4, HistoryAssumption DEF RowsKept, RowsDistinct, HistoryBounded
  <2>2. /\ IsFiniteSet(history') /\ Cardinality(history') <= Cardinality(history)
        /\ Cardinality(history') \in Nat /\ Cardinality(history) \in Nat
    <3>1. IsFiniteSet(history') /\ Cardinality(history') <= Cardinality(history)
      BY <2>1, FS_Subset
    <3> QED
      BY <2>1, <3>1, FS_CardinalityType
  <2>3. Cardinality(history') <= Cap + 2
    BY <2>1, <2>2
  <2> QED
    BY <2>1, <2>2, <2>3 DEF RowsKept, RowsDistinct, HistoryBounded
<1>10. TurnsAlong'
  <2>1. \A q \in history' \cup dropped' :
           q \in history \cup dropped /\ q.version < r.version
    BY <1>4
  <2>2. \A p, q \in history \cup dropped :
           p.version <= q.version => p.game.turn <= q.game.turn
    BY DEF RowsKept, TurnsAlong
  <2>3. ASSUME NEW q \in history' \cup dropped'
        PROVE  q.version <= version' /\ q.game.turn <= g.turn
    <3>1. q.version \in Nat /\ q.version < r.version /\ q.game.turn \in Nat
      BY <1>5, <2>1
    <3>2. q.game.turn <= r.game.turn
      BY <1>1, <2>1, <2>2, <3>1
    <3> QED
      BY <1>1, <1>2, <1>3, <3>1, <3>2
  <2> QED
    BY <1>3, <2>1, <2>2, <2>3 DEF TurnsAlong
<1>11. StartsKept'
  <2>1. SUFFICES ASSUME NEW d \in dropped', d.game.turn >= reached' - 1
                 PROVE  \E q \in TurnStart(history', d.game.turn) : q.version < d.version
    BY DEF StartsKept, TurnStart
  <2>2. /\ d \in dropped /\ d.version < r.version /\ d.version \in Nat
        /\ d.game.turn \in Nat
    BY <1>4, <1>5
  <2>3. reached \in Nat /\ reached' \in Nat
    BY <1>1, <1>2, <1>3, GameParts, HistoryAssumption DEF LogTyped
  <2>4. d.game.turn >= reached - 1
    BY <1>3, <2>1, <2>2, <2>3
  <2>5. PICK q \in TurnStart(history, d.game.turn) : q.version < d.version
    BY <2>2, <2>4 DEF RowsKept, StartsKept
  <2>6. q \in history /\ q.version < r.version
    BY <1>1, <1>5, <2>2, <2>5 DEF TurnStart
  <2>7. q \in TurnStart(history', d.game.turn)
    BY <1>4, <2>5, <2>6 DEF TurnStart
  <2> QED
    BY <2>5, <2>7
<1> QED
  BY <1>6, <1>7, <1>8, <1>9, <1>10, <1>11 DEF RowsKept

-----------------------------------------------------------------------------
(* The inductive invariant holds at first and is kept by every action         *)

RestTyped ==
  /\ phase \in {"playing", "over", "deleted"}
  /\ frames \subseteq 1 .. MaxVersion
  /\ replay \in {"none", "recording", "finalizing"}
  /\ transition \in [from : Nat, kind : {"none", "forward", "replace"}, restore : Nat]
  /\ matches \in Seq({"played", "claimed-idle", "ended"})
  /\ botRoom \in BOOLEAN
  /\ silent \subseteq 1 .. MaxVersion

LEMMA InvariantParts ==
  IInv <=> /\ LogTyped /\ RowsKept /\ RestTyped
           /\ EndsOnce /\ PastOnly /\ ReplayIsLine /\ TransitionHonest
<1> QED
  BY DEF IInv, TypeOK, LogTyped, RowsKept, RestTyped, Line

LEMMA InitHolds == Init => IInv
<1> SUFFICES ASSUME Init PROVE IInv
  OBVIOUS
<1> USE HistoryAssumption
<1>1. PICK a \in Actors : game = [line |-> <<1>>, turn |-> 1, actor |-> a]
  BY DEF Init
<1>2. a \in {0, 1} /\ 1 \in 1 .. MaxVersion /\ 1 \in 1 .. MaxTurn
  BY DEF Actors, HumanSeat, BotSeat
<1>3. /\ <<1>> \in Line /\ Len(<<1>>) = 1 /\ <<1>>[1] = 1
      /\ <<<<1>>>> \in Seq(Line) /\ Len(<<<<1>>>>) = 1 /\ <<<<1>>>>[1] = <<1>>
  BY <1>2 DEF Line
<1>4. game \in Game
  BY <1>1, <1>2, <1>3 DEF Game, Line
<1>5. LogTyped
  BY <1>1, <1>2, <1>3, <1>4 DEF Init, LogTyped
<1>6. LineGrows
  BY <1>1, <1>3 DEF Init, LineGrows, InOrder
<1>7. RowsCut /\ TurnsAlong /\ StartsKept /\ RowsDistinct /\ HistoryBounded
  BY FS_EmptySet DEF Init, RowsCut, TurnsAlong, StartsKept, RowsDistinct, HistoryBounded
<1>8. RestTyped /\ EndsOnce /\ PastOnly /\ TransitionHonest
  BY <1>2 DEF Init, RestTyped, EndsOnce, PastOnly, TransitionHonest
<1>9. ReplayIsLine
  <2>1. Range(<<1>>) = {1}
    BY <1>3 DEF Range
  <2> QED
    BY <1>1, <2>1 DEF Init, ReplayIsLine
<1> QED
  BY <1>5, <1>6, <1>7, <1>8, <1>9, InvariantParts DEF RowsKept

(* The frame of a commit that continues the line keeps the recording the line. *)
LEMMA FrameKeeps ==
  ASSUME IInv, version < MaxVersion, phase = "playing", NEW ends \in BOOLEAN, Frame(ends),
         game'.line = Append(game.line, version + 1), silent' = silent
  PROVE  /\ ReplayIsLine' /\ frames' \subseteq 1 .. MaxVersion
         /\ replay' \in {"none", "recording", "finalizing"}
         /\ (ends => replay' # "recording") /\ (~ends => replay' # "finalizing")
<1>1. /\ version + 1 \in 1 .. MaxVersion /\ game.line \in Line /\ frames \subseteq 1 .. MaxVersion
      /\ replay \in {"none", "recording"} /\ version + 1 \notin silent
  <2>1. version \in 1 .. MaxVersion /\ MaxVersion \in Nat /\ silent \subseteq 1 .. MaxVersion
        /\ game.line \in Line
    BY GameParts, HistoryAssumption DEF IInv, TypeOK
  <2>2. \A v \in silent : v <= version
    BY DEF IInv, PastOnly
  <2> QED
    BY <2>1, <2>2 DEF IInv, TypeOK, EndsOnce
<1>2. Range(game'.line) = Range(game.line) \cup {version + 1}
  <2> DEFINE line == game.line
             u    == Append(line, version + 1)
             n    == Len(line)
  <2>1. /\ n \in Nat /\ Len(u) = n + 1 /\ u[n + 1] = version + 1
        /\ \A i \in 1 .. n : u[i] = line[i]
        /\ u \in Seq(1 .. MaxVersion) /\ line \in Seq(1 .. MaxVersion)
    BY <1>1, AppendProperties, LenProperties DEF Line
  <2> HIDE DEF u, line, n
  <2>2. 1 .. n + 1 = 1 .. n \cup {n + 1}
    BY <2>1
  <2>3. Range(u) = {u[i] : i \in 1 .. n} \cup {u[n + 1]}
    <3>1. Range(u) = {u[i] : i \in 1 .. n + 1}
      BY <2>1, LenProperties DEF Range
    <3> QED
      BY <2>2, <3>1
  <2>4. {u[i] : i \in 1 .. n} = {line[i] : i \in 1 .. n}
    BY <2>1
  <2>5. Range(line) = {line[i] : i \in 1 .. n}
    BY <2>1, LenProperties DEF Range, n
  <2> QED
    BY <2>1, <2>3, <2>4, <2>5 DEF u, line
<1>3. CASE replay = "recording" /\ replay' # "none"
  <2>1. frames = Range(game.line) \ silent
    BY <1>3 DEF IInv, ReplayIsLine
  <2>2. frames' = frames \cup {version + 1}
    BY <1>3 DEF Frame
  <2>3. frames' = Range(game'.line) \ silent'
    BY <1>1, <1>2, <2>1, <2>2
  <2> QED
    BY <1>1, <1>3, <2>2, <2>3 DEF Frame, ReplayIsLine
<1>4. CASE replay # "recording" \/ replay' = "none"
  BY <1>1, <1>4 DEF Frame, ReplayIsLine
<1> QED
  BY <1>3, <1>4

LEMMA AdvanceKeeps ==
  ASSUME IInv, version < MaxVersion, NEW snapshot \in BOOLEAN, Advance(snapshot)
  PROVE  IInv'
<1>1. PICK g \in Outcomes(game), ends \in BOOLEAN :
        /\ CommitGame(g)
        /\ IF snapshot THEN Snapshot(g) ELSE NoSnapshot
        /\ Frame(ends)
        /\ phase' = (IF ends THEN "over" ELSE "playing")
        /\ matches' = (IF ends THEN Append(matches, "played") ELSE matches)
  BY DEF Advance
<1>2. /\ phase = "playing" /\ botRoom' = botRoom /\ silent' = silent
      /\ transition' = [from |-> version, kind |-> "forward", restore |-> 0]
  BY DEF Advance
<1>3. /\ LogTyped /\ RowsKept /\ RestTyped /\ EndsOnce /\ PastOnly
      /\ version \in 1 .. MaxVersion /\ MaxVersion \in Nat /\ version \in Nat
  BY InvariantParts, HistoryAssumption DEF LogTyped
<1>4. g \in Game /\ g.line = Append(game.line, version + 1) /\ g.turn >= game.turn
  BY <1>3, OutcomeParts DEF LogTyped, RestTyped
<1>5. /\ version' = version + 1 /\ game' = g
      /\ \A i \in 1 .. version : lineAt'[i] = lineAt[i]
  BY <1>1, <1>3, <1>4, CommitLog
<1>6. LogTyped' /\ RowsKept'
  BY <1>1, <1>3, <1>4, ForwardKeeps
<1>7. /\ ReplayIsLine' /\ frames' \subseteq 1 .. MaxVersion
      /\ replay' \in {"none", "recording", "finalizing"}
      /\ (ends => replay' # "recording") /\ (~ends => replay' # "finalizing")
  BY <1>1, <1>2, <1>4, <1>5, FrameKeeps
<1>8. matches \in Seq({"played", "claimed-idle", "ended"}) /\ matches = <<>>
  BY <1>2, <1>3 DEF RestTyped, EndsOnce
<1>9. RestTyped'
  <2>1. matches' \in Seq({"played", "claimed-idle", "ended"})
    <3>1. CASE ends
      BY <1>1, <1>8, <3>1, AppendProperties
    <3>2. CASE ~ends
      BY <1>1, <1>8, <3>2
    <3> QED
      BY <3>1, <3>2
  <2> QED
    BY <1>1, <1>2, <1>3, <1>7, <2>1 DEF RestTyped
<1>10. EndsOnce'
  BY <1>1, <1>7, <1>8 DEF EndsOnce
<1>11. PastOnly'
  <2>1. \A v \in silent : v \in Nat /\ v <= version
    BY <1>3 DEF PastOnly, RestTyped
  <2> QED
    BY <1>2, <1>3, <1>5, <2>1 DEF PastOnly
<1>12. TransitionHonest'
  <2>1. lineAt'[version' - 1] = game.line
    BY <1>3, <1>5 DEF RowsKept, LineGrows
  <2> QED
    BY <1>2, <1>3, <1>4, <1>5, <2>1 DEF TransitionHonest
<1> QED
  BY <1>6, <1>7, <1>9, <1>10, <1>11, <1>12
     DEF IInv, TypeOK, LogTyped, RowsKept, RestTyped, Line

LEMMA ClaimKeeps ==
  ASSUME IInv, version < MaxVersion, ClaimVictory
  PROVE  IInv'
<1> DEFINE g == [game EXCEPT !.line = Append(@, version + 1)]
<1>1. /\ phase = "playing" /\ phase' = "over" /\ CommitGame(g) /\ Snapshot(g) /\ Frame(TRUE)
      /\ matches' = Append(matches, "claimed-idle")
      /\ transition' = transition /\ botRoom' = botRoom /\ silent' = silent
  BY DEF ClaimVictory
<1>2. /\ LogTyped /\ RowsKept /\ RestTyped /\ EndsOnce /\ PastOnly
      /\ version \in 1 .. MaxVersion /\ MaxVersion \in Nat /\ version \in Nat
      /\ game \in Game /\ game.line \in Line /\ game.turn \in Nat
  BY InvariantParts, GameParts, HistoryAssumption DEF LogTyped
<1>3. g \in Game /\ g.line = Append(game.line, version + 1) /\ g.turn >= game.turn
  <2>1. version + 1 \in 1 .. MaxVersion
    BY <1>2
  <2>2. Append(game.line, version + 1) \in Line
    BY <1>2, <2>1, AppendProperties DEF Line
  <2> DEFINE line == Append(game.line, version + 1)
  <2> HIDE DEF line
  <2>3. /\ [game EXCEPT !.line = line] \in Game
        /\ [game EXCEPT !.line = line].line = line
        /\ [game EXCEPT !.line = line].turn = game.turn
    BY <1>2, <2>2 DEF Game, Line, line
  <2> QED
    BY <1>2, <2>3 DEF line
<1> HIDE DEF g
<1>4. version' = version + 1 /\ game' = g
  BY <1>1, <1>2, <1>3, CommitLog
<1>5. LogTyped' /\ RowsKept'
  BY <1>1, <1>2, <1>3, ForwardKeeps
<1>6. /\ ReplayIsLine' /\ frames' \subseteq 1 .. MaxVersion
      /\ replay' \in {"none", "recording", "finalizing"} /\ replay' # "recording"
  BY <1>1, <1>3, <1>4, FrameKeeps
<1>7. matches' \in Seq({"played", "claimed-idle", "ended"})
  BY <1>1, <1>2, AppendProperties DEF RestTyped
<1>8. RestTyped' /\ EndsOnce'
  BY <1>1, <1>2, <1>6, <1>7 DEF RestTyped, EndsOnce
<1>9. PastOnly' /\ TransitionHonest'
  <2>1. \A v \in silent : v \in Nat /\ v <= version
    BY <1>2 DEF PastOnly, RestTyped
  <2>2. transition.from \in Nat /\ transition.from < version
    BY <1>2 DEF PastOnly, RestTyped
  <2> QED
    BY <1>1, <1>2, <1>4, <2>1, <2>2 DEF PastOnly, TransitionHonest
<1> QED
  BY <1>5, <1>6, <1>8, <1>9 DEF IInv, TypeOK, LogTyped, RowsKept, RestTyped, Line

(* What is left of the recording is the line that is left of the game.        *)
LEMMA UndoKeepsInvariant ==
  ASSUME IInv, version < MaxVersion, Undo
  PROVE  IInv'
<1> DEFINE Restored(r, g, ends) ==
        /\ CommitGame(g)
        /\ history' = RowsBefore(history, r.version)
        /\ dropped' = RowsBefore(dropped, r.version)
        /\ frames' = FramesBefore(r.version)
        /\ transition' = [from |-> version, kind |-> "replace",
                          restore |-> RestoreVersion(r)]
        /\ silent' = (IF g = r.game THEN silent ELSE silent \cup {version + 1})
        /\ phase' = (IF ends THEN "over" ELSE "playing")
<1>0a. PICK target \in Targets :
        \E r \in Selected(target) : \E g \in {r.game} \cup Outcomes(r.game), ends \in BOOLEAN :
           Restored(r, g, ends)
  BY DEF Undo
<1>0b. PICK r \in Selected(target) :
        \E g \in {r.game} \cup Outcomes(r.game), ends \in BOOLEAN : Restored(r, g, ends)
  BY <1>0a
<1>1. PICK g \in {r.game} \cup Outcomes(r.game), ends \in BOOLEAN : Restored(r, g, ends)
  BY <1>0b
<1>2. /\ phase = "playing" /\ replay' = replay /\ matches' = matches /\ botRoom' = botRoom
  BY DEF Undo, UndoAllowed
<1>3. /\ LogTyped /\ RowsKept /\ RestTyped /\ EndsOnce /\ PastOnly /\ ReplayIsLine
      /\ version \in 1 .. MaxVersion /\ MaxVersion \in Nat /\ version \in Nat
      /\ r \in history
  BY SelectedRow, InvariantParts, HistoryAssumption DEF LogTyped
<1>4. /\ r \in Row /\ r.game \in Game /\ r.game.line \in Line
      /\ r.version \in 2 .. version /\ lineAt[r.version - 1] = r.game.line
  BY <1>3, GameParts DEF LogTyped, Row, RowsKept, RowsCut
<1>5. g \in Game /\ (g # r.game => g.line = Append(r.game.line, version + 1))
  BY <1>3, <1>4, OutcomeParts DEF RestTyped
<1>6. /\ version' = version + 1 /\ game' = g
      /\ \A i \in 1 .. version : lineAt'[i] = lineAt[i]
  BY <1>1, <1>3, <1>5, CommitLog
<1>7. LogTyped' /\ RowsKept'
  <2>1. botRoom \in BOOLEAN
    BY <1>3 DEF RestTyped
  <2> QED
    BY <1>1, <1>3, <2>1, UndoKeeps
<1>8. \A v \in silent' : v \in 1 .. MaxVersion /\ v <= version'
  <2>1. \A v \in silent : v \in 1 .. MaxVersion /\ v <= version
    BY <1>3 DEF PastOnly, RestTyped
  <2> QED
    BY <1>1, <1>3, <1>6, <2>1
<1>9. transition' \in [from : Nat, kind : {"none", "forward", "replace"}, restore : Nat]
  <2>1. RestoreVersion(r) \in Nat
    BY <1>3, <1>4 DEF RestoreVersion
  <2> QED
    BY <1>1, <1>3, <2>1
<1>10. RestTyped' /\ EndsOnce' /\ PastOnly'
  <2>1. frames' \subseteq 1 .. MaxVersion
    BY <1>1, <1>3 DEF FramesBefore, RestTyped
  <2>2. RestTyped'
    BY <1>1, <1>2, <1>3, <1>8, <1>9, <2>1 DEF RestTyped
  <2>3. EndsOnce' /\ PastOnly'
    BY <1>1, <1>2, <1>3, <1>6, <1>8 DEF EndsOnce, PastOnly
  <2> QED
    BY <2>2, <2>3
<1>11. ReplayIsLine'
  <2>1. CASE replay = "recording"
    <3>1. frames' = {f \in Range(game.line) \ silent : f < r.version}
      BY <1>1, <1>3, <2>1 DEF FramesBefore, ReplayIsLine
    <3>2. Range(r.game.line) = {f \in Range(game.line) : f < r.version}
      BY <1>3, RowLine
    <3>3. frames' = Range(r.game.line) \ silent
      BY <3>1, <3>2
    <3>4. CASE g = r.game
      BY <1>1, <1>6, <3>3, <3>4 DEF ReplayIsLine
    <3>5. CASE g # r.game
      <4> DEFINE line == r.game.line
                 u    == Append(line, version + 1)
                 n    == Len(line)
      <4>1. version + 1 \in 1 .. MaxVersion
        BY <1>3
      <4>2. /\ n \in Nat /\ Len(u) = n + 1 /\ u[n + 1] = version + 1
            /\ \A i \in 1 .. n : u[i] = line[i]
            /\ u \in Seq(1 .. MaxVersion) /\ line \in Seq(1 .. MaxVersion)
            /\ line \in Line
        BY <1>4, <4>1, AppendProperties, LenProperties DEF Line
      <4> HIDE DEF u, line, n
      <4>3. Range(u) = {u[i] : i \in 1 .. n + 1} /\ Range(line) = {line[i] : i \in 1 .. n}
        BY <4>2, LenProperties DEF Range, n
      <4>4. 1 .. n + 1 = 1 .. n \cup {n + 1}
        BY <4>2
      <4>5. Range(u) = Range(line) \cup {version + 1}
        <5>1. {u[i] : i \in 1 .. n} = {line[i] : i \in 1 .. n}
          BY <4>2
        <5>2. Range(u) = {u[i] : i \in 1 .. n} \cup {u[n + 1]}
          BY <4>3, <4>4
        <5> QED
          BY <4>2, <4>3, <5>1, <5>2
      <4>6. \A f \in Range(line) : f < r.version
        BY <3>2 DEF line
      <4>7. version + 1 \notin Range(line)
        BY <1>3, <1>4, <4>6
      <4>8. game'.line = u /\ silent' = silent \cup {version + 1}
        BY <1>1, <1>5, <1>6, <3>5 DEF u, line
      <4>9. frames' = Range(line) \ silent
        BY <3>3 DEF line
      <4> QED
        BY <4>5, <4>7, <4>8, <4>9 DEF ReplayIsLine
    <3> QED
      BY <3>4, <3>5
  <2>2. CASE replay # "recording"
    BY <1>2, <1>3, <2>2 DEF EndsOnce, ReplayIsLine
  <2> QED
    BY <2>1, <2>2
<1>12. TransitionHonest'
  <2>1. r.version - 1 \in 1 .. version
    BY <1>3, <1>4
  <2>2. lineAt'[RestoreVersion(r)] = r.game.line
    BY <1>4, <1>6, <2>1 DEF RestoreVersion
  <2>3. game'.line \in {lineAt'[RestoreVersion(r)], Append(lineAt'[RestoreVersion(r)], version')}
    BY <1>5, <1>6, <2>2
  <2> QED
    BY <1>1, <2>3 DEF TransitionHonest
<1> QED
  BY <1>7, <1>10, <1>11, <1>12 DEF IInv, TypeOK, LogTyped, RowsKept, RestTyped, Line

(* A version that leaves the game alone.                                      *)
LEMMA BumpKeeps ==
  ASSUME IInv, version < MaxVersion, Bump
  PROVE  IInv'
<1>1. /\ CommitGame(game) /\ phase' = phase /\ history' = history /\ frames' = frames
      /\ replay' = replay /\ transition' = transition /\ matches' = matches
      /\ botRoom' = botRoom /\ silent' = silent /\ dropped' = dropped
  BY DEF Bump
<1>2. /\ LogTyped /\ RowsKept /\ RestTyped /\ EndsOnce /\ PastOnly /\ ReplayIsLine
      /\ version \in 1 .. MaxVersion /\ MaxVersion \in Nat /\ version \in Nat /\ game \in Game
  BY InvariantParts, HistoryAssumption DEF LogTyped
<1>3. LogTyped' /\ RowsKept' /\ version' = version + 1 /\ game' = game
  BY <1>1, <1>2, StayKeeps DEF CommitGame
<1>4. RestTyped' /\ EndsOnce' /\ ReplayIsLine'
  BY <1>1, <1>2, <1>3 DEF RestTyped, EndsOnce, ReplayIsLine
<1>5. PastOnly' /\ TransitionHonest'
  <2>1. \A v \in silent : v \in Nat /\ v <= version
    BY <1>2 DEF PastOnly, RestTyped
  <2>2. transition.from \in Nat /\ transition.from < version
    BY <1>2 DEF PastOnly, RestTyped
  <2> QED
    BY <1>1, <1>2, <1>3, <2>1, <2>2 DEF PastOnly, TransitionHonest
<1> QED
  BY <1>3, <1>4, <1>5 DEF IInv, TypeOK, LogTyped, RowsKept, RestTyped, Line

LEMMA DeleteKeeps ==
  ASSUME IInv, version < MaxVersion, DeleteBotRoom
  PROVE  IInv'
<1>1. /\ CommitGame(game) /\ phase' = "deleted" /\ history' = {} /\ dropped' = {}
      /\ replay' = (IF replay = "recording" THEN "finalizing" ELSE replay)
      /\ matches' = (IF phase = "playing" THEN Append(matches, "ended") ELSE matches)
      /\ frames' = frames /\ transition' = transition /\ botRoom' = botRoom
      /\ silent' = silent
  BY DEF DeleteBotRoom
<1>2. /\ LogTyped /\ RowsKept /\ RestTyped /\ EndsOnce /\ PastOnly /\ ReplayIsLine
      /\ version \in 1 .. MaxVersion /\ MaxVersion \in Nat /\ version \in Nat /\ game \in Game
  BY InvariantParts, HistoryAssumption DEF LogTyped
<1>3. LogTyped' /\ RowsKept' /\ version' = version + 1 /\ game' = game
  BY <1>1, <1>2, StayKeeps DEF CommitGame
<1>4. matches' \in Seq({"played", "claimed-idle", "ended"})
  <2>1. CASE phase = "playing"
    BY <1>1, <1>2, <2>1, AppendProperties DEF RestTyped
  <2>2. CASE phase # "playing"
    BY <1>1, <1>2, <2>2 DEF RestTyped
  <2> QED
    BY <2>1, <2>2
<1>5. RestTyped' /\ EndsOnce'
  BY <1>1, <1>2, <1>4 DEF RestTyped, EndsOnce
<1>6. ReplayIsLine' /\ TransitionHonest'
  BY <1>1, <1>2, <1>3 DEF ReplayIsLine, TransitionHonest, RestTyped
<1>7. PastOnly'
  <2>1. \A v \in silent : v \in Nat /\ v <= version
    BY <1>2 DEF PastOnly, RestTyped
  <2>2. transition.from \in Nat /\ transition.from < version
    BY <1>2 DEF PastOnly, RestTyped
  <2> QED
    BY <1>1, <1>2, <1>3, <2>1, <2>2 DEF PastOnly
<1> QED
  BY <1>3, <1>5, <1>6, <1>7 DEF IInv, TypeOK, LogTyped, RowsKept, RestTyped, Line

LEMMA NextKeeps == IInv /\ [Next]_vars => IInv'
<1> SUFFICES ASSUME IInv, [Next]_vars PROVE IInv'
  OBVIOUS
<1>1. CASE Next
  <2>1. version < MaxVersion
    BY <1>1 DEF Next
  <2>2. CASE ApplyIntent
    BY <2>1, <2>2, AdvanceKeeps DEF ApplyIntent
  <2>3. CASE ApplyBotIntent
    BY <2>1, <2>3, AdvanceKeeps DEF ApplyBotIntent
  <2>4. CASE SetPassUntil
    BY <2>1, <2>4, AdvanceKeeps DEF SetPassUntil
  <2>5. CASE ChangePreference
    BY <2>1, <2>5, AdvanceKeeps DEF ChangePreference
  <2>6. CASE ClaimVictory
    BY <2>1, <2>6, ClaimKeeps
  <2>7. CASE Undo
    BY <2>1, <2>7, UndoKeepsInvariant
  <2>8. CASE Bump
    BY <2>1, <2>8, BumpKeeps
  <2>9. CASE DeleteBotRoom
    BY <2>1, <2>9, DeleteKeeps
  <2> QED
    BY <1>1, <2>2, <2>3, <2>4, <2>5, <2>6, <2>7, <2>8, <2>9 DEF Next
<1>2. CASE UNCHANGED vars
  BY <1>2
     DEF vars, IInv, TypeOK, LineGrows, RowsCut, RowsDistinct, HistoryBounded, TurnsAlong,
         StartsKept, TurnStart, EndsOnce, PastOnly, ReplayIsLine, TransitionHonest
<1> QED
  BY <1>1, <1>2

-----------------------------------------------------------------------------
(* The theorems                                                              *)

(* Whatever the cap, the number of turns and the commands, the inductive       *)
(* invariant holds after every commit of store.ts.                            *)
THEOREM Invariance == Spec => []IInv
<1> QED
  BY InitHolds, NextKeeps, PTL DEF Spec

(* The tables, the state and the transition keep their types through every    *)
(* command.                                                                   *)
THEOREM TypeCorrect == Spec => []TypeOK
<1>1. IInv => TypeOK
  BY DEF IInv
<1> QED
  BY <1>1, Invariance, PTL

(* saveSnapshot bounds room_history at HISTORY_CAP + 2, for any cap and any     *)
(* number of actions in a turn.                                               *)
THEOREM BoundedHistory == Spec => []HistoryBounded
<1>1. IInv => HistoryBounded
  BY DEF IInv
<1> QED
  BY <1>1, Invariance, PTL

(* Undo goes back along the line of play: the rows of room_history are states   *)
(* the running game came through, in order, each the one its version replaced. *)
THEOREM UndoOnLine == Spec => []HistoryOnLine
<1>1. ASSUME IInv PROVE HistoryOnLine
  <2>1. LogTyped /\ RowsKept
    BY <1>1, InvariantParts
  <2>2. \A r \in history : IsStrictPrefix(r.game.line, game.line)
                           /\ lineAt[r.version - 1] = r.game.line
    BY <2>1 DEF RowsKept, RowsCut, CutsAt
  <2>3. \A q, r \in history :
           q.version < r.version => IsStrictPrefix(q.game.line, r.game.line)
    BY <2>1, OlderRowCuts DEF CutsAt
  <2> QED
    BY <2>2, <2>3 DEF HistoryOnLine
<1> QED
  BY <1>1, Invariance, PTL

(* As long as no undo left a turn, "undo the turn" and "undo the last turn" go  *)
(* back to the first snapshot of the turn, however many actions it had.        *)
THEOREM TrueTurnStarts == Spec => []TurnStartsKeptForward
<1>1. ASSUME IInv, reached = game.turn PROVE TurnStartsKept
  <2>1. game.turn \in Nat /\ (\A d \in dropped : d.game.turn \in {game.turn, game.turn - 1}
                                                   => d.game.turn >= reached - 1)
    BY <1>1, GameParts DEF IInv, TypeOK
  <2> QED
    BY <1>1, <2>1 DEF IInv, StartsKept, TurnStartsKept
<1>2. IInv => TurnStartsKeptForward
  BY <1>1 DEF TurnStartsKeptForward
<1> QED
  BY <1>2, Invariance, PTL

(* replay_frames records every state of the line of play and none that was     *)
(* undone, but for what an undo's own shortcuts produced.                     *)
THEOREM RecordingIsLine == Spec => []ReplayIsLine
<1>1. IInv => ReplayIsLine
  BY DEF IInv
<1> QED
  BY <1>1, Invariance, PTL

(* The transition stateMessage attaches leads where it says it does.           *)
THEOREM HonestTransition == Spec => []TransitionHonest
<1>1. IInv => TransitionHonest
  BY DEF IInv
<1> QED
  BY <1>1, Invariance, PTL

(* A game whose result is recorded is never played on, recorded again, undone   *)
(* or given another frame.                                                    *)
THEOREM StaysFinished == Spec => FinishedStays
<1> DEFINE Finished == matches # <<>> =>
             /\ matches' = matches /\ phase' # "playing"
             /\ frames' = frames /\ replay' = replay
<1>1. ASSUME IInv, Next, matches # <<>> PROVE Finished
  <2>1. phase # "playing" /\ replay # "recording"
    BY <1>1 DEF IInv, EndsOnce
  <2>2. Bump \/ DeleteBotRoom
    BY <1>1, <2>1 DEF Next, ApplyIntent, ApplyBotIntent, SetPassUntil, ChangePreference,
                      Advance, ClaimVictory, Undo, UndoAllowed
  <2> QED
    BY <2>1, <2>2 DEF Bump, DeleteBotRoom
<1>2. IInv /\ [Next]_vars => [Finished]_vars
  BY <1>1
<1> QED
  BY <1>2, Invariance, PTL DEF Spec, FinishedStays
=============================================================================
