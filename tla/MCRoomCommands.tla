--------------------------- MODULE MCRoomCommands ---------------------------
(* Small instances of RoomCommands: two or three commands of two players,   *)
(* two gateways.                                                           *)
EXTENDS RoomCommands, TLC

CONSTANTS c1, c2, c3

\* An action, a preference change of the opponent, and an undo.
MixedKind == [c \in Commands |->
                IF c = c1 THEN "intent" ELSE IF c = c2 THEN "mode" ELSE "undo"]
\* The kinds MixedKind leaves out.
OtherKind == [c \in Commands |->
                IF c = c1 THEN "pass-until" ELSE IF c = c2 THEN "mode" ELSE "claim"]
MCSeat    == [c \in Commands |-> IF c = c2 THEN 1 ELSE 0]
PauseMode == [c \in Commands |-> "always-pause"]
AutoMode  == [c \in Commands |-> "auto-pass"]

\* Latches armed or not; with and without auto-pass.
AnyLatch == {p \in [Seats -> Pref] : \A s \in Seats : p[s].mode = "always-pause"}
AnyPref  == [Seats -> Pref]

Gateways == Permutations(Workers)
=============================================================================
