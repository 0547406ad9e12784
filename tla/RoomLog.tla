------------------------------ MODULE RoomLog ------------------------------
(***************************************************************************)
(* What a room promises the players' clients, whatever gateways, retries   *)
(* and duplicate deliveries do underneath: a room is one linear history of *)
(* committed versions, its state has the effects of exactly the commands   *)
(* in it, a command enters it at most once, directly after the version its *)
(* client was looking at, and a command that is answered "ok" with version *)
(* v is the command that produced version v.                               *)
(***************************************************************************)
EXTENDS Naturals, Sequences

CONSTANTS Commands,   \* ids a client gives its room commands
          NoCommand,  \* a version produced by something else than a command
          Unsent      \* the expected version of a command not issued yet

VARIABLES history,    \* history[v] is the command that produced version v
          effects,    \* the commands the room's state has the effects of
          expected,   \* the version each command was issued against
          answered    \* pairs <<command, version>> answered "ok"

logVars == <<history, effects, expected, answered>>

LInit ==
  /\ history = <<>>
  /\ effects = {}
  /\ expected = [c \in Commands |-> Unsent]
  /\ answered = {}

LIssue(c) ==
  /\ expected[c] = Unsent
  /\ \E v \in 0 .. Len(history) : expected' = [expected EXCEPT ![c] = v]
  /\ UNCHANGED <<history, effects, answered>>

\* A command is committed, and answered in the same step: the answer is
\* computed by the transaction that commits.
LCommit(c) ==
  /\ expected[c] = Len(history)
  /\ history' = Append(history, c)
  /\ effects' = effects \cup {c}
  /\ answered' = answered \cup {<<c, Len(history) + 1>>}
  /\ UNCHANGED expected

LOther ==
  /\ history' = Append(history, NoCommand)
  /\ UNCHANGED <<effects, expected, answered>>

\* A redelivered command is answered with the version it already produced.
LRepeat(c) ==
  /\ \E v \in 1 .. Len(history) :
        history[v] = c /\ answered' = answered \cup {<<c, v>>}
  /\ UNCHANGED <<history, effects, expected>>

LNext == LOther \/ \E c \in Commands : LIssue(c) \/ LCommit(c) \/ LRepeat(c)

LogSpec == LInit /\ [][LNext]_logVars
============================================================================
