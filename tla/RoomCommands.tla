---------------------------- MODULE RoomCommands ----------------------------
(***************************************************************************)
(* One room and the gateways that run its commands                         *)
(* (apps/server/src/store.ts, withRetry and undo).  A command is run as a   *)
(* READ COMMITTED transaction of several statements:                       *)
(*                                                                         *)
(*   load room and seats -> look for a receipt -> check expectedVersion    *)
(*   -> compute -> write the changed seat preferences -> UPDATE rooms      *)
(*   WHERE version = <loaded> -> stamp seats -> insert receipt -> COMMIT   *)
(*                                                                         *)
(* Every statement reads what is committed when it runs; a row an open     *)
(* transaction wrote stays locked until that transaction ends; another     *)
(* UPDATE of the row waits and then sees the new version.  A request may   *)
(* be delivered any number of times, to any gateway; a gateway may crash   *)
(* between any two statements.                                             *)
(***************************************************************************)
EXTENDS Naturals, Sequences, FiniteSets

CONSTANTS Commands,    \* ids of the room commands clients issue
          Workers,     \* gateway request handlers, one transaction each
          Kind,        \* Kind[c]: "intent", "pass-until", "mode", "undo", "claim"
          SeatOf,      \* SeatOf[c]: the seat whose client issues c
          ModeOf,      \* ModeOf[c]: the mode a "mode" command asks for
          InitialPrefs,\* preferences the seats may have recorded beforehand
          MaxRetries,  \* MAX_RETRIES of retryVersionConflicts
          MaxOther,    \* bound: versions after which only commands commit
          Nobody, NoCommand, Unsent

Seats == {0, 1}
Modes == {"always-pause", "auto-pass"}
Pref  == [mode : Modes, latch : BOOLEAN]
Kinds == {"intent", "pass-until", "mode", "undo", "claim"}

ASSUME CommandsAssumption ==
  /\ Kind \in [Commands -> Kinds]
  /\ SeatOf \in [Commands -> Seats]
  /\ ModeOf \in [Commands -> Modes]
  /\ InitialPrefs \subseteq [Seats -> Pref]
  /\ MaxRetries \in Nat \ {0}
  /\ MaxOther \in Nat
  /\ Nobody \notin Workers
  /\ NoCommand \notin Commands
  /\ Unsent \notin Nat

VARIABLES
  version,   \* rooms.version
  merged,    \* the commands whose effect the columns of rooms hold
  prefs,     \* preference columns of room_seats, per seat
  receipts,  \* room_commands: <<command, committed_version>>
  roomLock,  \* transaction holding the rooms row, or Nobody
  seatLock,  \* per seat, transaction holding the room_seats row
  pc, cmd, tries,  \* each worker's statement, command and attempt
  base,      \* the room version its attempt loaded
  seen,      \* the merged commands and preferences its attempt loaded
  plan,      \* what its attempt computed from them
  todo,      \* the seat rows it has yet to write
  log,       \* log[v]: the commit that produced version v
  expected,  \* expectedVersion each command was issued with
  answered   \* <<command, version>> pairs answered "ok"

db     == <<version, merged, prefs, receipts>>
locks  == <<roomLock, seatLock>>
local  == <<cmd, tries, base, seen, plan, todo>>
client == <<log, expected, answered>>
vars   == <<db, locks, pc, local, client>>

Plan == [neutral : BOOLEAN, stamps : BOOLEAN, prefs : [Seats -> Pref]]
Entry == Commands \cup {NoCommand}
PCs == {"idle", "load", "check", "prefs", "seats"}

NoPrefs == [s \in Seats |-> [mode |-> "always-pause", latch |-> FALSE]]
NoPlan  == [neutral |-> TRUE, stamps |-> FALSE, prefs |-> NoPrefs]

TypeOK ==
  /\ version \in Nat
  /\ merged \in SUBSET Commands
  /\ prefs \in [Seats -> Pref]
  /\ receipts \in SUBSET (Commands \X (Nat \ {0}))
  /\ roomLock \in Workers \cup {Nobody}
  /\ seatLock \in [Seats -> Workers \cup {Nobody}]
  /\ pc \in [Workers -> PCs]
  /\ cmd \in [Workers -> Commands \cup {NoCommand}]
  /\ tries \in [Workers -> 0 .. MaxRetries - 1]
  /\ base \in [Workers -> Nat]
  /\ seen \in [Workers -> [merged : SUBSET Commands, prefs : [Seats -> Pref]]]
  /\ plan \in [Workers -> Plan]
  /\ todo \in [Workers -> SUBSET Seats]
  /\ log \in Seq(Entry)
  /\ expected \in [Commands -> Nat \cup {Unsent}]
  /\ answered \in SUBSET (Commands \X (Nat \ {0}))

Init ==
  /\ version = 0 /\ merged = {} /\ receipts = {}
  /\ prefs \in InitialPrefs
  /\ roomLock = Nobody
  /\ seatLock = [s \in Seats |-> Nobody]
  /\ pc = [w \in Workers |-> "idle"]
  /\ cmd = [w \in Workers |-> NoCommand]
  /\ tries = [w \in Workers |-> 0]
  /\ base = [w \in Workers |-> 0]
  /\ seen = [w \in Workers |-> [merged |-> {}, prefs |-> NoPrefs]]
  /\ plan = [w \in Workers |-> NoPlan]
  /\ todo = [w \in Workers |-> {}]
  /\ log = <<>>
  /\ expected = [c \in Commands |-> Unsent]
  /\ answered = {}

----------------------------------------------------------------------------
(* What a mutation computes from the room it loaded.                       *)

\* applyServerShortcuts drops a latch that has run out, at any seat, whatever
\* windows it passes.
Expired(p) ==
  {[s \in Seats |-> [p[s] EXCEPT !.latch = @ /\ s \notin gone]]
     : gone \in SUBSET {s \in Seats : p[s].latch}}

Neutral(p) == [neutral |-> TRUE, stamps |-> FALSE, prefs |-> p]

Advances(p, stamps) ==
  {[neutral |-> FALSE, stamps |-> stamps, prefs |-> q] : q \in Expired(p)}

\* setPriorityMode: version-neutral unless it passes an empty window now.
ModePlans(c, p) ==
  LET q == [p EXCEPT ![SeatOf[c]].mode = ModeOf[c]]
  IN  {Neutral(q)} \cup
      IF ModeOf[c] = "auto-pass" THEN Advances(q, FALSE) ELSE {}

\* setPassUntil: cancels the seat's latch, or arms it and may pass at once.
PassUntilPlans(c, p) ==
  LET set(b) == [p EXCEPT ![SeatOf[c]].latch = b]
  IN  {Neutral(set(FALSE)), Neutral(set(TRUE))} \cup Advances(set(TRUE), TRUE)

\* undo clears both latches before the shortcuts run and stamps nobody.
UndoPlans(p) ==
  Advances([s \in Seats |-> [p[s] EXCEPT !.latch = FALSE]], FALSE)

ClaimPlan(p) == [neutral |-> FALSE, stamps |-> FALSE, prefs |-> p]

Plans(c, p) ==
  CASE Kind[c] = "intent"     -> Advances(p, TRUE)
    [] Kind[c] = "pass-until" -> PassUntilPlans(c, p)
    [] Kind[c] = "mode"       -> ModePlans(c, p)
    [] Kind[c] = "undo"       -> UndoPlans(p)
    [] Kind[c] = "claim"      -> {ClaimPlan(p)}

ChangedRows(p, q) == {s \in Seats : p[s] # q[s]}

----------------------------------------------------------------------------
(* Steps of one attempt.                                                   *)

\* COMMIT or ROLLBACK: every row lock of the transaction is released.
ReleaseLocks(w) ==
  /\ roomLock' = IF roomLock = w THEN Nobody ELSE roomLock
  /\ seatLock' = [s \in Seats |-> IF seatLock[s] = w THEN Nobody ELSE seatLock[s]]

\* The handler returns; its transaction is over.
Return(w) ==
  /\ ReleaseLocks(w)
  /\ pc' = [pc EXCEPT ![w] = "idle"]
  /\ cmd' = [cmd EXCEPT ![w] = NoCommand]
  /\ tries' = [tries EXCEPT ![w] = 0]
  /\ base' = [base EXCEPT ![w] = 0]
  /\ seen' = [seen EXCEPT ![w] = [merged |-> {}, prefs |-> NoPrefs]]
  /\ plan' = [plan EXCEPT ![w] = NoPlan]
  /\ todo' = [todo EXCEPT ![w] = {}]

\* A client issues a command against a version it has seen.
Issue(c) ==
  /\ expected[c] = Unsent
  /\ \E v \in 0 .. version : expected' = [expected EXCEPT ![c] = v]
  /\ UNCHANGED <<db, locks, pc, local, log, answered>>

\* A gateway receives it, for the first time or again.
Begin(w, c) ==
  /\ pc[w] = "idle"
  /\ expected[c] # Unsent
  /\ pc' = [pc EXCEPT ![w] = "load"]
  /\ cmd' = [cmd EXCEPT ![w] = c]
  /\ UNCHANGED <<db, locks, tries, base, seen, plan, todo, client>>

Load(w) ==
  /\ pc[w] = "load"
  /\ base' = [base EXCEPT ![w] = version]
  /\ seen' = [seen EXCEPT ![w] = [merged |-> merged, prefs |-> prefs]]
  /\ pc' = [pc EXCEPT ![w] = "check"]
  /\ UNCHANGED <<db, locks, cmd, tries, plan, todo, client>>

Receipted(c) == \E r \in receipts : r[1] = c

\* Mutant: answers with the version the room has by now.
DuplicateAnswersCurrent(w) ==
  /\ pc[w] = "check"
  /\ Receipted(cmd[w])
  /\ answered' = answered \cup {<<cmd[w], base[w]>>}
  /\ Return(w)
  /\ UNCHANGED <<db, log, expected>>

\* Mutant: answers the receipt's expected_version.
DuplicateAnswersExpected(w) ==
  /\ pc[w] = "check"
  /\ Receipted(cmd[w])
  /\ answered' = answered \cup {<<cmd[w], expected[cmd[w]]>>}
  /\ Return(w)
  /\ UNCHANGED <<db, log, expected>>

\* The receipt is there: answer what the first delivery was answered.
Duplicate(w) ==
  /\ pc[w] = "check"
  /\ \E r \in receipts :
        /\ r[1] = cmd[w]
        /\ answered' = answered \cup {<<cmd[w], r[2]>>}
  /\ Return(w)
  /\ UNCHANGED <<db, log, expected>>

\* "stale room version", or an error from the mutation itself.
Refuse(w) ==
  /\ pc[w] = "check"
  /\ ~Receipted(cmd[w])
  /\ Return(w)
  /\ UNCHANGED <<db, client>>

\* Mutant: trusts the receipts alone, no expectedVersion check.
ComputeAnyVersion(w) ==
  /\ pc[w] = "check"
  /\ ~Receipted(cmd[w])
  /\ \E p \in Plans(cmd[w], seen[w].prefs) :
        /\ plan' = [plan EXCEPT ![w] = p]
        /\ todo' = [todo EXCEPT ![w] = ChangedRows(seen[w].prefs, p.prefs)]
  /\ pc' = [pc EXCEPT ![w] = "prefs"]
  /\ UNCHANGED <<db, locks, cmd, tries, base, seen, client>>

Compute(w) ==
  /\ pc[w] = "check"
  /\ ~Receipted(cmd[w])
  /\ base[w] = expected[cmd[w]]
  /\ \E p \in Plans(cmd[w], seen[w].prefs) :
        /\ plan' = [plan EXCEPT ![w] = p]
        /\ todo' = [todo EXCEPT ![w] = ChangedRows(seen[w].prefs, p.prefs)]
  /\ pc' = [pc EXCEPT ![w] = "prefs"]
  /\ UNCHANGED <<db, locks, cmd, tries, base, seen, client>>

\* The rows are written seat 0 first; NextRow is the one in turn.
NextRow(w) == IF 0 \in todo[w] THEN 0 ELSE 1

\* UPDATE room_seats: preferences before the room, activity after it.
WriteRow(w) ==
  /\ pc[w] \in {"prefs", "seats"}
  /\ todo[w] # {}
  /\ seatLock[NextRow(w)] \in {Nobody, w}
  /\ seatLock' = [seatLock EXCEPT ![NextRow(w)] = w]
  /\ todo' = [todo EXCEPT ![w] = @ \ {NextRow(w)}]
  /\ UNCHANGED <<db, roomLock, pc, cmd, tries, base, seen, plan, client>>

\* The preference columns the transaction wrote become visible; all four
\* columns of a row are written, the loaded values included.
CommitPrefs(w) ==
  prefs' = [s \in Seats |->
              IF s \in ChangedRows(seen[w].prefs, plan[w].prefs)
              THEN plan[w].prefs[s] ELSE prefs[s]]

\* A version-neutral mutation commits its preferences and nothing else.
CommitNeutral(w) ==
  /\ pc[w] = "prefs" /\ todo[w] = {} /\ plan[w].neutral
  /\ CommitPrefs(w)
  /\ Return(w)
  /\ UNCHANGED <<version, merged, receipts, client>>

\* Mutant: UPDATE rooms without WHERE version.
SaveUnchecked(w) ==
  /\ pc[w] = "prefs" /\ todo[w] = {} /\ ~plan[w].neutral
  /\ roomLock = Nobody
  /\ roomLock' = w
  /\ pc' = [pc EXCEPT ![w] = "seats"]
  /\ todo' = [todo EXCEPT ![w] = IF plan[w].stamps THEN Seats ELSE {}]
  /\ UNCHANGED <<db, seatLock, cmd, tries, base, seen, plan, client>>

\* Mutant: the row is not kept locked until COMMIT.
SaveUnlocked(w) ==
  /\ pc[w] = "prefs" /\ todo[w] = {} /\ ~plan[w].neutral
  /\ version = base[w]
  /\ pc' = [pc EXCEPT ![w] = "seats"]
  /\ todo' = [todo EXCEPT ![w] = IF plan[w].stamps THEN Seats ELSE {}]
  /\ UNCHANGED <<db, locks, cmd, tries, base, seen, plan, client>>

\* UPDATE rooms ... WHERE version = base, the row being free.
Save(w) ==
  /\ pc[w] = "prefs" /\ todo[w] = {} /\ ~plan[w].neutral
  /\ roomLock = Nobody
  /\ version = base[w]
  /\ roomLock' = w
  /\ pc' = [pc EXCEPT ![w] = "seats"]
  /\ todo' = [todo EXCEPT ![w] = IF plan[w].stamps THEN Seats ELSE {}]
  /\ UNCHANGED <<db, seatLock, cmd, tries, base, seen, plan, client>>

\* Mutant: the UPDATE alone is tried again, with the room that was loaded.
ConflictRetriesSave(w) ==
  /\ pc[w] = "prefs" /\ todo[w] = {} /\ ~plan[w].neutral
  /\ roomLock = Nobody
  /\ version # base[w]
  /\ UNCHANGED vars

\* The UPDATE matched no row: VERSION_CONFLICT, roll back, try again.
Conflict(w) ==
  /\ pc[w] = "prefs" /\ todo[w] = {} /\ ~plan[w].neutral
  /\ roomLock = Nobody
  /\ version # base[w]
  /\ IF tries[w] + 1 < MaxRetries
     THEN /\ ReleaseLocks(w)
          /\ pc' = [pc EXCEPT ![w] = "load"]
          /\ tries' = [tries EXCEPT ![w] = @ + 1]
          /\ UNCHANGED <<cmd, base, seen, plan, todo>>
     ELSE Return(w)
  /\ UNCHANGED <<db, client>>

Commit(w) ==
  /\ pc[w] = "seats" /\ todo[w] = {}
  /\ version' = version + 1
  /\ merged' = seen[w].merged \cup {cmd[w]}
  /\ CommitPrefs(w)
  /\ receipts' = receipts \cup {<<cmd[w], base[w] + 1>>}
  /\ log' = Append(log, cmd[w])
  /\ answered' = answered \cup {<<cmd[w], base[w] + 1>>}
  /\ Return(w)
  /\ UNCHANGED expected

----------------------------------------------------------------------------
(* The surroundings.                                                       *)

\* The row's holder a transaction is waiting for.
BlockedBy(w) ==
  IF pc[w] \in {"prefs", "seats"} /\ todo[w] # {} THEN seatLock[NextRow(w)]
  ELSE IF pc[w] = "prefs" /\ ~plan[w].neutral THEN roomLock
  ELSE Nobody

InCycle(w) == \E S \in SUBSET Workers :
                 w \in S /\ \A u \in S : BlockedBy(u) \in S \ {u}

\* PostgreSQL aborts one transaction of a wait cycle; the error is not a
\* VERSION_CONFLICT, so the handler fails.
Deadlock(w) ==
  /\ InCycle(w)
  /\ Return(w)
  /\ UNCHANGED <<db, client>>

Crash(w) ==
  /\ pc[w] # "idle"
  /\ Return(w)
  /\ UNCHANGED <<db, client>>

\* A join, a presence change or a kick commits a version of its own.
OtherCommit ==
  /\ roomLock = Nobody
  /\ version < MaxOther
  /\ version' = version + 1
  /\ log' = Append(log, NoCommand)
  /\ UNCHANGED <<merged, prefs, receipts, locks, pc, local, expected, answered>>

\* sweepRoomCommands: a receipt outlives its retention.
SweepReceipt(r) ==
  /\ r \in receipts
  /\ receipts' = receipts \ {r}
  /\ UNCHANGED <<version, merged, prefs, locks, pc, local, client>>

Step(w) ==
  \/ Load(w) \/ Duplicate(w) \/ Refuse(w) \/ Compute(w) \/ WriteRow(w)
  \/ CommitNeutral(w) \/ Save(w) \/ Conflict(w) \/ Commit(w)

Next ==
  \/ \E c \in Commands : Issue(c)
  \/ \E w \in Workers : Step(w) \/ Deadlock(w) \/ Crash(w)
  \/ \E w \in Workers, c \in Commands : Begin(w, c)
  \/ \E r \in receipts : SweepReceipt(r)
  \/ OtherCommit

Spec == Init /\ [][Next]_vars

\* A handler goes on as long as it can, PostgreSQL grants a contended row in
\* queue order and breaks wait cycles.  Nothing makes clients send.
FairSpec == Spec /\ \A w \in Workers : SF_vars(Step(w)) /\ WF_vars(Deadlock(w))

----------------------------------------------------------------------------
(* Properties.                                                             *)

\* No committed command is lost: the state column, written whole from what
\* the transaction loaded, holds the effect of every command in the log, and
\* rooms.version counts the commits (save's WHERE version = loaded).
NothingLost ==
  /\ version = Len(log)
  /\ merged = {log[v] : v \in 1 .. Len(log)} \ {NoCommand}

\* A command takes effect at most once however often it is delivered, also
\* after its receipt has been swept (room_commands and expectedVersion).
AtMostOnce ==
  \A i, j \in 1 .. Len(log) :
     log[i] = log[j] /\ log[i] # NoCommand => i = j

\* A client that is told its command produced version v is told the truth,
\* also when the answer comes from a receipt (committed_version).
AnswersHonest ==
  \A a \in answered : a[2] \in 1 .. Len(log) /\ log[a[2]] = a[1]

\* A room is the linear history RoomLog describes, and the state column,
\* rewritten whole by every command, is the state that history leads to.
Promise == INSTANCE RoomLog WITH history <- log, effects <- merged
LogSpec == Promise!LogSpec

\* Every request is answered or dies with its gateway: lock waits, version
\* conflicts and wait cycles between a preference row and the room row end.
RequestsEnd == \A w \in Workers : pc[w] # "idle" ~> pc[w] = "idle"

\* The inductive strengthening behind the three invariants above.

\* A busy handler works on an issued command.
BusyIssued ==
  \A w \in Workers : pc[w] # "idle" =>
     cmd[w] \in Commands /\ expected[cmd[w]] # Unsent

\* An attempt never looks ahead, and what it loaded of a version is all of it.
SeenAtBase ==
  \A w \in Workers : pc[w] \in {"check", "prefs", "seats"} =>
     base[w] <= version /\ (base[w] = version => seen[w].merged = merged)

\* Past the check, the loaded version is the one the client saw.
BaseExpected ==
  \A w \in Workers : pc[w] \in {"prefs", "seats"} => base[w] = expected[cmd[w]]

\* Only the holder of the room row is past save, on the current version.
SaveIsCurrent ==
  \A w \in Workers : /\ pc[w] = "seats" => roomLock = w /\ base[w] = version
                     /\ roomLock = w => pc[w] = "seats"

\* A command sits directly after the version it expected: hence only once.
InItsPlace ==
  \A v \in 1 .. Len(log) :
     log[v] # NoCommand => expected[log[v]] = v - 1

ReceiptsHonest ==
  \A r \in receipts : r[2] \in 1 .. Len(log) /\ log[r[2]] = r[1]

IInv ==
  /\ TypeOK /\ NothingLost /\ AnswersHonest
  /\ BusyIssued /\ SeenAtBase /\ BaseExpected /\ SaveIsCurrent
  /\ InItsPlace /\ ReceiptsHonest

\* setPriorityMode: "Record a seat's priority preference."  Only a mode
\* command of the seat changes the mode recorded for it.
PreferenceStands ==
  [][\A s \in Seats : prefs'[s].mode # prefs[s].mode =>
       \E w \in Workers : cmd[w] # NoCommand /\ cmd'[w] = NoCommand
          /\ Kind[cmd[w]] = "mode" /\ SeatOf[cmd[w]] = s]_vars
============================================================================
