------------------------- MODULE RoomCommandsProofs -------------------------
(***************************************************************************)
(* RoomCommands keeps its promises for every set of commands, gateways and *)
(* retry limit: the type invariant, the inductive invariant IInv, the three *)
(* safety invariants it implies, and that the transactions implement the   *)
(* linear log of RoomLog.                                                  *)
(***************************************************************************)
EXTENDS RoomCommands, SequenceTheorems, TLAPS

(* Whatever a mutation computes from well-formed preferences is a plan. *)
LEMMA PlansType ==
  ASSUME NEW c \in Commands, NEW p \in [Seats -> Pref], NEW a \in Plans(c, p)
  PROVE  a \in Plan
<1> USE CommandsAssumption
<1>1. \A q \in [Seats -> Pref] : Neutral(q) \in Plan
  BY DEF Neutral, Plan
<1>2. \A q \in [Seats -> Pref], b \in BOOLEAN : Advances(q, b) \subseteq Plan
  <2> SUFFICES ASSUME NEW q \in [Seats -> Pref], NEW b \in BOOLEAN,
                      NEW x \in Advances(q, b)
               PROVE  x \in Plan
    OBVIOUS
  <2>1. Expired(q) \subseteq [Seats -> Pref]
    <3> SUFFICES ASSUME NEW r \in Expired(q) PROVE r \in [Seats -> Pref]
      OBVIOUS
    <3>0. PICK gone \in SUBSET {s \in Seats : q[s].latch} :
             r = [s \in Seats |-> [q[s] EXCEPT !.latch = @ /\ s \notin gone]]
      BY DEF Expired
    <3>1. \A s \in Seats : (q[s].latch /\ s \notin gone) \in BOOLEAN
      OBVIOUS
    <3> QED
      BY <3>0, <3>1 DEF Pref
  <2>2. PICK r \in Expired(q) : x = [neutral |-> FALSE, stamps |-> b, prefs |-> r]
    BY DEF Advances
  <2> QED
    BY <2>1, <2>2 DEF Plan
<1>3. CASE Kind[c] = "intent"
  BY <1>2, <1>3 DEF Plans
<1>4. CASE Kind[c] = "pass-until"
  <2>1. \A b \in BOOLEAN : [p EXCEPT ![SeatOf[c]].latch = b] \in [Seats -> Pref]
    BY DEF Pref
  <2>2. a \in PassUntilPlans(c, p)
    BY <1>4 DEF Plans
  <2> QED
    BY <1>1, <1>2, <2>1, <2>2 DEF PassUntilPlans
<1>5. CASE Kind[c] = "mode"
  <2>1. [p EXCEPT ![SeatOf[c]].mode = ModeOf[c]] \in [Seats -> Pref]
    BY DEF Pref
  <2>2. a \in ModePlans(c, p)
    BY <1>5 DEF Plans
  <2> QED
    BY <1>1, <1>2, <2>1, <2>2 DEF ModePlans
<1>6. CASE Kind[c] = "undo"
  <2>1. [s \in Seats |-> [p[s] EXCEPT !.latch = FALSE]] \in [Seats -> Pref]
    BY DEF Pref
  <2>2. a \in UndoPlans(p)
    BY <1>6 DEF Plans
  <2> QED
    BY <1>2, <2>1, <2>2 DEF UndoPlans
<1>7. CASE Kind[c] = "claim"
  <2>1. a = ClaimPlan(p)
    BY <1>7 DEF Plans
  <2> QED
    BY <2>1 DEF ClaimPlan, Plan
<1> QED
  BY <1>3, <1>4, <1>5, <1>6, <1>7 DEF Kinds

(* An idle handler's plan and preferences are well-formed. *)
LEMMA NoPlanType == NoPlan \in Plan /\ NoPrefs \in [Seats -> Pref]
  BY DEF NoPlan, Plan, NoPrefs, Pref, Modes

(* Releasing a transaction's locks leaves them well-formed. *)
LEMMA ReleaseLocksType ==
  ASSUME TypeOK, NEW w \in Workers, ReleaseLocks(w)
  PROVE  /\ roomLock' \in Workers \cup {Nobody}
         /\ seatLock' \in [Seats -> Workers \cup {Nobody}]
  BY DEF TypeOK, ReleaseLocks

(* Ending a transaction leaves its variables well-formed. *)
LEMMA ReturnType ==
  ASSUME TypeOK, NEW w \in Workers, Return(w)
  PROVE  /\ roomLock' \in Workers \cup {Nobody}
         /\ seatLock' \in [Seats -> Workers \cup {Nobody}]
         /\ pc' \in [Workers -> PCs]
         /\ cmd' \in [Workers -> Commands \cup {NoCommand}]
         /\ tries' \in [Workers -> 0 .. MaxRetries - 1]
         /\ base' \in [Workers -> Nat]
         /\ seen' \in [Workers -> [merged : SUBSET Commands, prefs : [Seats -> Pref]]]
         /\ plan' \in [Workers -> Plan]
         /\ todo' \in [Workers -> SUBSET Seats]
<1>1. ReleaseLocks(w)
  BY DEF Return
<1>2. /\ roomLock' \in Workers \cup {Nobody}
      /\ seatLock' \in [Seats -> Workers \cup {Nobody}]
  BY <1>1, ReleaseLocksType
<1>3. /\ pc' \in [Workers -> PCs]
      /\ cmd' \in [Workers -> Commands \cup {NoCommand}]
      /\ todo' \in [Workers -> SUBSET Seats]
  BY DEF TypeOK, Return, PCs
<1>4. /\ tries' \in [Workers -> 0 .. MaxRetries - 1]
      /\ base' \in [Workers -> Nat]
  BY CommandsAssumption DEF TypeOK, Return
<1>5. /\ seen' \in [Workers -> [merged : SUBSET Commands, prefs : [Seats -> Pref]]]
      /\ plan' \in [Workers -> Plan]
  BY NoPlanType DEF TypeOK, Return
<1> QED
  BY <1>2, <1>3, <1>4, <1>5

(* What a transaction writes to the seat rows is well-formed. *)
LEMMA CommitPrefsType ==
  ASSUME TypeOK, NEW w \in Workers, CommitPrefs(w)
  PROVE  prefs' \in [Seats -> Pref]
  BY DEF TypeOK, CommitPrefs, Plan

(* Every step keeps the variables well-formed. *)
LEMMA TypeStep == TypeOK /\ BusyIssued /\ [Next]_vars => TypeOK'
<1> SUFFICES ASSUME TypeOK, BusyIssued, [Next]_vars PROVE TypeOK'
  OBVIOUS
<1> USE CommandsAssumption
<1>1. ASSUME NEW c \in Commands, Issue(c) PROVE TypeOK'
  BY <1>1 DEF TypeOK, Issue, db, locks, local
<1>2. ASSUME NEW w \in Workers, NEW c \in Commands, Begin(w, c) PROVE TypeOK'
  BY <1>2 DEF TypeOK, Begin, db, locks, client, PCs
<1>3. ASSUME NEW w \in Workers, Load(w) PROVE TypeOK'
  BY <1>3 DEF TypeOK, Load, db, locks, client, PCs
<1>4. ASSUME NEW w \in Workers, Duplicate(w) PROVE TypeOK'
  <2>1. answered' \in SUBSET (Commands \X (Nat \ {0}))
    BY <1>4 DEF TypeOK, Duplicate
  <2> QED
    BY <1>4, <2>1, ReturnType DEF TypeOK, Duplicate, db
<1>5. ASSUME NEW w \in Workers, Refuse(w) PROVE TypeOK'
  BY <1>5, ReturnType DEF TypeOK, Refuse, db, client
<1>6. ASSUME NEW w \in Workers, Compute(w) PROVE TypeOK'
  <2>1. PICK p \in Plans(cmd[w], seen[w].prefs) :
           /\ plan' = [plan EXCEPT ![w] = p]
           /\ todo' = [todo EXCEPT ![w] = ChangedRows(seen[w].prefs, p.prefs)]
    BY <1>6 DEF Compute
  <2>2. cmd[w] \in Commands /\ seen[w].prefs \in [Seats -> Pref]
    BY <1>6 DEF TypeOK, BusyIssued, Compute
  <2>3. p \in Plan
    BY <2>2, PlansType
  <2> QED
    BY <1>6, <2>1, <2>3 DEF TypeOK, Compute, ChangedRows, db, locks, client, PCs
<1>7. ASSUME NEW w \in Workers, WriteRow(w) PROVE TypeOK'
  BY <1>7 DEF TypeOK, WriteRow, NextRow, Seats, db, client
<1>8. ASSUME NEW w \in Workers, CommitNeutral(w) PROVE TypeOK'
  BY <1>8, ReturnType, CommitPrefsType DEF TypeOK, CommitNeutral, client
<1>9. ASSUME NEW w \in Workers, Save(w) PROVE TypeOK'
  BY <1>9 DEF TypeOK, Save, db, client, PCs
<1>10. ASSUME NEW w \in Workers, Conflict(w) PROVE TypeOK'
  <2>1. CASE tries[w] + 1 < MaxRetries
    <3>1. ReleaseLocks(w) /\ tries' = [tries EXCEPT ![w] = @ + 1]
      BY <1>10, <2>1 DEF Conflict
    <3>2. tries' \in [Workers -> 0 .. MaxRetries - 1]
      BY <2>1, <3>1 DEF TypeOK
    <3> QED
      BY <1>10, <2>1, <3>1, <3>2, ReleaseLocksType
      DEF TypeOK, Conflict, db, client, PCs
  <2>2. CASE ~(tries[w] + 1 < MaxRetries)
    BY <1>10, <2>2, ReturnType DEF TypeOK, Conflict, db, client
  <2> QED
    BY <2>1, <2>2
<1>11. ASSUME NEW w \in Workers, Commit(w) PROVE TypeOK'
  <2>1. /\ Return(w) /\ CommitPrefs(w)
        /\ version' = version + 1
        /\ merged' = seen[w].merged \cup {cmd[w]}
        /\ receipts' = receipts \cup {<<cmd[w], base[w] + 1>>}
        /\ log' = Append(log, cmd[w])
        /\ answered' = answered \cup {<<cmd[w], base[w] + 1>>}
        /\ expected' = expected
    BY <1>11 DEF Commit
  <2>2. version \in Nat /\ base[w] + 1 \in Nat /\ cmd[w] \in Commands \cup {NoCommand}
    BY DEF TypeOK
  <2>3. cmd[w] \in Commands
    BY <1>11 DEF BusyIssued, Commit
  <2>5. log' \in Seq(Entry)
    BY <2>1, <2>3 DEF TypeOK, Entry
  <2>6. /\ version' \in Nat /\ merged' \in SUBSET Commands
        /\ receipts' \in SUBSET (Commands \X (Nat \ {0}))
        /\ answered' \in SUBSET (Commands \X (Nat \ {0}))
    BY <2>1, <2>2, <2>3 DEF TypeOK
  <2>7. expected' \in [Commands -> Nat \cup {Unsent}]
    BY <2>1 DEF TypeOK
  <2>8. prefs' \in [Seats -> Pref]
    BY <2>1, CommitPrefsType
  <2> QED
    BY <2>1, <2>5, <2>6, <2>7, <2>8, ReturnType DEF TypeOK
<1>12. ASSUME NEW w \in Workers, Deadlock(w) PROVE TypeOK'
  BY <1>12, ReturnType DEF TypeOK, Deadlock, db, client
<1>13. ASSUME NEW w \in Workers, Crash(w) PROVE TypeOK'
  BY <1>13, ReturnType DEF TypeOK, Crash, db, client
<1>14. CASE OtherCommit
  BY <1>14 DEF TypeOK, OtherCommit, Entry, locks, local
<1>15. ASSUME NEW r \in receipts, SweepReceipt(r) PROVE TypeOK'
  BY <1>15 DEF TypeOK, SweepReceipt, locks, local, client
<1>16. CASE UNCHANGED vars
  BY <1>16 DEF TypeOK, vars, db, locks, local, client
<1> QED
  BY <1>1, <1>2, <1>3, <1>4, <1>5, <1>6, <1>7, <1>8, <1>9, <1>10, <1>11,
     <1>12, <1>13, <1>14, <1>15, <1>16 DEF Next, Step

(* Appending an entry adds its position and leaves the others alone. *)
LEMMA AppendEntry ==
  ASSUME NEW l \in Seq(Entry), NEW e \in Entry
  PROVE  LET m == Append(l, e) IN
         /\ Len(m) = Len(l) + 1
         /\ \A v \in 1 .. Len(l) : m[v] = l[v]
         /\ m[Len(l) + 1] = e
         /\ {m[v] : v \in 1 .. Len(m)} = {l[v] : v \in 1 .. Len(l)} \cup {e}
<1> DEFINE m == Append(l, e)
<1>1. Len(m) = Len(l) + 1 /\ Len(l) \in Nat
  OBVIOUS
<1>2. \A v \in 1 .. Len(l) : m[v] = l[v]
  OBVIOUS
<1>3. m[Len(l) + 1] = e
  OBVIOUS
<1>4. 1 .. Len(m) = (1 .. Len(l)) \cup {Len(l) + 1}
  BY <1>1
<1> HIDE DEF m
<1>5. {m[v] : v \in 1 .. Len(m)} = {l[v] : v \in 1 .. Len(l)} \cup {e}
  BY <1>2, <1>3, <1>4
<1> QED
  BY <1>1, <1>2, <1>3, <1>5 DEF m

(* The parts of IInv that are not about types. *)
Safe == /\ NothingLost /\ AnswersHonest /\ BusyIssued /\ SeenAtBase
        /\ BaseExpected /\ SaveIsCurrent /\ InItsPlace /\ ReceiptsHonest

(* A transaction that ends without committing disturbs nothing. *)
LEMMA ReturnSafe ==
  ASSUME TypeOK, Safe, NEW w \in Workers, Return(w),
         UNCHANGED <<version, merged, receipts, log, expected, answered>>
  PROVE  Safe'
<1> USE CommandsAssumption
<1>1. /\ pc' = [pc EXCEPT ![w] = "idle"]
      /\ cmd' = [cmd EXCEPT ![w] = NoCommand]
      /\ base' = [base EXCEPT ![w] = 0]
      /\ \A u \in Workers \ {w} : seen'[u] = seen[u]
      /\ roomLock' = IF roomLock = w THEN Nobody ELSE roomLock
  BY DEF Return, ReleaseLocks, TypeOK
<1>2. NothingLost' /\ AnswersHonest' /\ InItsPlace' /\ ReceiptsHonest'
  BY DEF Safe, NothingLost, AnswersHonest, InItsPlace, ReceiptsHonest
<1>3. BusyIssued'
  BY <1>1 DEF Safe, BusyIssued, TypeOK
<1>4. SeenAtBase'
  BY <1>1 DEF Safe, SeenAtBase, TypeOK
<1>5. BaseExpected'
  BY <1>1 DEF Safe, BaseExpected, TypeOK
<1>6. SaveIsCurrent'
  BY <1>1 DEF Safe, SaveIsCurrent, TypeOK
<1> QED
  BY <1>2, <1>3, <1>4, <1>5, <1>6 DEF Safe

(* A step that moves one busy handler and touches neither room nor log. *)
LEMMA LocalSafe ==
  ASSUME TypeOK, Safe,
         UNCHANGED <<version, merged, receipts, log, expected, answered>>
  PROVE  NothingLost' /\ AnswersHonest' /\ InItsPlace' /\ ReceiptsHonest'
BY DEF Safe, NothingLost, AnswersHonest, InItsPlace, ReceiptsHonest

(* A new version of the room: what was true of the log stays true. *)
LEMMA AppendSafe ==
  ASSUME TypeOK, Safe, NEW e \in Entry,
         log' = Append(log, e), version' = version + 1, expected' = expected,
         e # NoCommand => expected[e] = version,
         merged' = merged \cup ({e} \ {NoCommand}),
         receipts' \subseteq receipts \cup {<<e, version + 1>>},
         answered' \subseteq answered \cup {<<e, version + 1>>}
  PROVE  NothingLost' /\ AnswersHonest' /\ InItsPlace' /\ ReceiptsHonest'
<1>1. /\ Len(log') = Len(log) + 1
      /\ \A v \in 1 .. Len(log) : log'[v] = log[v]
      /\ log'[Len(log) + 1] = e
      /\ {log'[v] : v \in 1 .. Len(log')}
           = {log[v] : v \in 1 .. Len(log)} \cup {e}
  BY AppendEntry DEF TypeOK
<1>2. version = Len(log) /\ Len(log) \in Nat
  BY DEF Safe, NothingLost, TypeOK
<1>3. NothingLost'
  <2>1. version' = Len(log')
    BY <1>1, <1>2
  <2>2. merged = {log[v] : v \in 1 .. Len(log)} \ {NoCommand}
    BY DEF Safe, NothingLost
  <2>3. merged' = {log'[v] : v \in 1 .. Len(log')} \ {NoCommand}
    BY <1>1, <2>2
  <2> QED
    BY <2>1, <2>3 DEF NothingLost
<1>4. AnswersHonest'
  BY <1>1, <1>2 DEF Safe, AnswersHonest
<1>5. InItsPlace'
  <2>1. \A v \in 1 .. Len(log') : v \in 1 .. Len(log) \/ v = Len(log) + 1
    BY <1>1, <1>2
  <2> QED
    BY <1>1, <1>2, <2>1 DEF Safe, InItsPlace
<1>6. ReceiptsHonest'
  BY <1>1, <1>2 DEF Safe, ReceiptsHonest
<1> QED
  BY <1>3, <1>4, <1>5, <1>6

(* Every step keeps the safe part of the invariant. *)
LEMMA SafeStep == TypeOK /\ Safe /\ [Next]_vars => Safe'
<1> SUFFICES ASSUME TypeOK, Safe, [Next]_vars PROVE Safe'
  OBVIOUS
<1> USE CommandsAssumption
<1>1. ASSUME NEW c \in Commands, Issue(c) PROVE Safe'
  <2>1. /\ expected[c] = Unsent
        /\ \A d \in Commands \ {c} : expected'[d] = expected[d]
        /\ expected'[c] \in Nat
        /\ UNCHANGED <<version, merged, receipts, log, answered, roomLock, pc,
                       cmd, base, seen>>
    BY <1>1 DEF Issue, TypeOK, db, locks, local
  <2>2. NothingLost' /\ AnswersHonest' /\ ReceiptsHonest' /\ SeenAtBase' /\ SaveIsCurrent'
    BY <2>1 DEF Safe, NothingLost, AnswersHonest, ReceiptsHonest, SeenAtBase, SaveIsCurrent
  <2>3. BusyIssued' /\ BaseExpected'
    BY <2>1 DEF Safe, BusyIssued, BaseExpected, TypeOK, PCs
  <2>4. InItsPlace'
    <3> SUFFICES ASSUME NEW v \in 1 .. Len(log), log[v] # NoCommand
                 PROVE  expected'[log[v]] = v - 1
      BY <2>1 DEF InItsPlace
    <3>1. expected[log[v]] = v - 1 /\ v - 1 \in Nat
      BY DEF Safe, InItsPlace
    <3>2. log[v] \in Entry
      BY DEF TypeOK
    <3>3. log[v] \in Commands
      BY <3>2 DEF Entry
    <3> QED
      BY <2>1, <3>1, <3>3
  <2> QED
    BY <2>2, <2>3, <2>4 DEF Safe
<1>2. ASSUME NEW w \in Workers, NEW c \in Commands, Begin(w, c) PROVE Safe'
  <2>1. NothingLost' /\ AnswersHonest' /\ InItsPlace' /\ ReceiptsHonest'
    BY <1>2, LocalSafe DEF Begin, db, client
  <2>2. BusyIssued' /\ SeenAtBase' /\ BaseExpected' /\ SaveIsCurrent'
    BY <1>2 DEF Begin, Safe, BusyIssued, SeenAtBase, BaseExpected, SaveIsCurrent,
                TypeOK, db, locks, client
  <2> QED
    BY <2>1, <2>2 DEF Safe
<1>3. ASSUME NEW w \in Workers, Load(w) PROVE Safe'
  <2>1. NothingLost' /\ AnswersHonest' /\ InItsPlace' /\ ReceiptsHonest'
    BY <1>3, LocalSafe DEF Load, db, client
  <2>2. BusyIssued' /\ SeenAtBase' /\ BaseExpected' /\ SaveIsCurrent'
    BY <1>3 DEF Load, Safe, BusyIssued, SeenAtBase, BaseExpected, SaveIsCurrent,
                TypeOK, db, locks, client
  <2> QED
    BY <2>1, <2>2 DEF Safe
<1>4. ASSUME NEW w \in Workers, Duplicate(w) PROVE Safe'
  <2>1. PICK r \in receipts : r[1] = cmd[w] /\ answered' = answered \cup {<<cmd[w], r[2]>>}
    BY <1>4 DEF Duplicate
  <2>2. UNCHANGED <<version, merged, receipts, log, expected>> /\ Return(w)
    BY <1>4 DEF Duplicate, db
  <2>3. AnswersHonest'
    BY <2>1, <2>2 DEF Safe, AnswersHonest, ReceiptsHonest
  <2>4. NothingLost' /\ InItsPlace' /\ ReceiptsHonest'
    BY <2>2 DEF Safe, NothingLost, InItsPlace, ReceiptsHonest
  <2>5. BusyIssued' /\ SeenAtBase' /\ BaseExpected' /\ SaveIsCurrent'
    BY <2>2 DEF Return, ReleaseLocks, Safe, BusyIssued, SeenAtBase, BaseExpected,
                SaveIsCurrent, TypeOK
  <2> QED
    BY <2>3, <2>4, <2>5 DEF Safe
<1>5. ASSUME NEW w \in Workers, Refuse(w) PROVE Safe'
  BY <1>5, ReturnSafe DEF Refuse, db, client
<1>6. ASSUME NEW w \in Workers, Compute(w) PROVE Safe'
  <2>1. NothingLost' /\ AnswersHonest' /\ InItsPlace' /\ ReceiptsHonest'
    BY <1>6, LocalSafe DEF Compute, db, client
  <2>2. BusyIssued' /\ SeenAtBase' /\ BaseExpected' /\ SaveIsCurrent'
    BY <1>6 DEF Compute, Safe, BusyIssued, SeenAtBase, BaseExpected, SaveIsCurrent,
                TypeOK, db, locks, client
  <2> QED
    BY <2>1, <2>2 DEF Safe
<1>7. ASSUME NEW w \in Workers, WriteRow(w) PROVE Safe'
  <2>1. NothingLost' /\ AnswersHonest' /\ InItsPlace' /\ ReceiptsHonest'
    BY <1>7, LocalSafe DEF WriteRow, db, client
  <2>2. BusyIssued' /\ SeenAtBase' /\ BaseExpected' /\ SaveIsCurrent'
    BY <1>7 DEF WriteRow, Safe, BusyIssued, SeenAtBase, BaseExpected, SaveIsCurrent,
                db, client
  <2> QED
    BY <2>1, <2>2 DEF Safe
<1>8. ASSUME NEW w \in Workers, CommitNeutral(w) PROVE Safe'
  BY <1>8, ReturnSafe DEF CommitNeutral, client
<1>9. ASSUME NEW w \in Workers, Save(w) PROVE Safe'
  <2>1. NothingLost' /\ AnswersHonest' /\ InItsPlace' /\ ReceiptsHonest'
    BY <1>9, LocalSafe DEF Save, db, client
  <2>2. BusyIssued' /\ SeenAtBase' /\ BaseExpected'
    BY <1>9 DEF Save, Safe, BusyIssued, SeenAtBase, BaseExpected, TypeOK, db, client
  <2>3. SaveIsCurrent'
    BY <1>9 DEF Save, Safe, SaveIsCurrent, TypeOK, db
  <2> QED
    BY <2>1, <2>2, <2>3 DEF Safe
<1>10. ASSUME NEW w \in Workers, Conflict(w) PROVE Safe'
  <2>1. CASE tries[w] + 1 < MaxRetries
    <3>0. ReleaseLocks(w) /\ UNCHANGED <<cmd, base, seen>>
          /\ pc' = [pc EXCEPT ![w] = "load"]
      BY <1>10, <2>1 DEF Conflict
    <3>1. /\ pc' = [pc EXCEPT ![w] = "load"]
          /\ roomLock = Nobody /\ roomLock' = Nobody
          /\ UNCHANGED <<version, merged, receipts, log, expected, answered,
                         cmd, base, seen>>
      BY <1>10, <3>0 DEF Conflict, ReleaseLocks, db, client
    <3>2. NothingLost' /\ AnswersHonest' /\ InItsPlace' /\ ReceiptsHonest'
      BY <3>1, LocalSafe
    <3>3. BusyIssued' /\ SeenAtBase' /\ BaseExpected' /\ SaveIsCurrent'
      BY <1>10, <3>1 DEF Conflict, Safe, BusyIssued, SeenAtBase, BaseExpected,
                         SaveIsCurrent, TypeOK
    <3> QED
      BY <3>2, <3>3 DEF Safe
  <2>2. CASE ~(tries[w] + 1 < MaxRetries)
    BY <1>10, <2>2, ReturnSafe DEF Conflict, db, client
  <2> QED
    BY <2>1, <2>2
<1>11. ASSUME NEW w \in Workers, Commit(w) PROVE Safe'
  <2> DEFINE e == cmd[w]
  <2>1. /\ Return(w) /\ log' = Append(log, e)
        /\ version' = version + 1 /\ expected' = expected
        /\ merged' = seen[w].merged \cup {cmd[w]}
        /\ receipts' = receipts \cup {<<cmd[w], base[w] + 1>>}
        /\ answered' = answered \cup {<<cmd[w], base[w] + 1>>}
    BY <1>11 DEF Commit
  <2>2. /\ cmd[w] \in Commands /\ base[w] = version /\ roomLock = w
        /\ seen[w].merged = merged /\ expected[cmd[w]] = version
    BY <1>11 DEF Commit, Safe, BusyIssued, SaveIsCurrent, SeenAtBase, BaseExpected
  <2>3. e \in Entry
    BY <2>2 DEF Entry
  <2>4. NothingLost' /\ AnswersHonest' /\ InItsPlace' /\ ReceiptsHonest'
    BY <2>1, <2>2, <2>3, AppendSafe
  <2>5. BusyIssued' /\ SeenAtBase' /\ BaseExpected' /\ SaveIsCurrent'
    BY <2>1, <2>2 DEF Return, ReleaseLocks, Safe, BusyIssued, SeenAtBase, BaseExpected,
                      SaveIsCurrent, TypeOK
  <2> QED
    BY <2>4, <2>5 DEF Safe
<1>12. ASSUME NEW w \in Workers, Deadlock(w) PROVE Safe'
  BY <1>12, ReturnSafe DEF Deadlock, db, client
<1>13. ASSUME NEW w \in Workers, Crash(w) PROVE Safe'
  BY <1>13, ReturnSafe DEF Crash, db, client
<1>14. CASE OtherCommit
  <2>1. NoCommand \in Entry
    BY DEF Entry
  <2>2. NothingLost' /\ AnswersHonest' /\ InItsPlace' /\ ReceiptsHonest'
    BY <1>14, <2>1, AppendSafe DEF OtherCommit
  <2>3. BusyIssued' /\ SeenAtBase' /\ BaseExpected' /\ SaveIsCurrent'
    BY <1>14 DEF OtherCommit, Safe, BusyIssued, SeenAtBase, BaseExpected,
                 SaveIsCurrent, TypeOK, locks, local
  <2> QED
    BY <2>2, <2>3 DEF Safe
<1>15. ASSUME NEW r \in receipts, SweepReceipt(r) PROVE Safe'
  <2>1. NothingLost' /\ AnswersHonest' /\ InItsPlace' /\ ReceiptsHonest'
    BY <1>15 DEF SweepReceipt, Safe, NothingLost, AnswersHonest, InItsPlace,
                 ReceiptsHonest, client
  <2>2. BusyIssued' /\ SeenAtBase' /\ BaseExpected' /\ SaveIsCurrent'
    BY <1>15 DEF SweepReceipt, Safe, BusyIssued, SeenAtBase, BaseExpected,
                 SaveIsCurrent, locks, local, client
  <2> QED
    BY <2>1, <2>2 DEF Safe
<1>16. CASE UNCHANGED vars
  BY <1>16 DEF vars, db, locks, local, client, Safe, NothingLost, AnswersHonest,
     BusyIssued, SeenAtBase, BaseExpected, SaveIsCurrent, InItsPlace, ReceiptsHonest
<1> QED
  BY <1>1, <1>2, <1>3, <1>4, <1>5, <1>6, <1>7, <1>8, <1>9, <1>10, <1>11,
     <1>12, <1>13, <1>14, <1>15, <1>16 DEF Next, Step

(* The invariant holds before any command. *)
LEMMA InitIInv == Init => IInv
<1> SUFFICES ASSUME Init PROVE IInv
  OBVIOUS
<1> USE CommandsAssumption
<1>1. TypeOK
  <2>1. log \in Seq(Entry)
    BY DEF Init
  <2> QED
    BY <2>1, NoPlanType DEF Init, TypeOK, PCs
<1>2. NothingLost
  BY DEF Init, NothingLost
<1> QED
  BY <1>1, <1>2 DEF Init, IInv, AnswersHonest, BusyIssued, SeenAtBase,
     BaseExpected, SaveIsCurrent, InItsPlace, ReceiptsHonest

(* The inductive invariant of the room's transactions (withRetry, undo). *)
THEOREM Invariance == Spec => []IInv
<1>1. IInv /\ [Next]_vars => IInv'
  BY TypeStep, SafeStep DEF IInv, Safe
<1> QED
  BY InitIInv, <1>1, PTL DEF Spec

(* The variables keep their types. *)
THEOREM TypeCorrect == Spec => []TypeOK
<1>1. IInv => TypeOK
  BY DEF IInv
<1> QED
  BY <1>1, Invariance, PTL

(* No committed command is lost: every save follows the version it loaded. *)
THEOREM NoLostUpdate == Spec => []NothingLost
<1>1. IInv => NothingLost
  BY DEF IInv
<1> QED
  BY <1>1, Invariance, PTL

(* A command commits at most once, however often it is delivered and even   *)
(* when its receipt is gone: its place in the log is fixed by the version   *)
(* it was issued against.                                                  *)
THEOREM ExactlyOnce == Spec => []AtMostOnce
<1>1. IInv => AtMostOnce
  BY DEF IInv, InItsPlace, AtMostOnce
<1> QED
  BY <1>1, Invariance, PTL

(* An answer "ok, version v" names the version the command produced. *)
THEOREM HonestAnswers == Spec => []AnswersHonest
<1>1. IInv => AnswersHonest
  BY DEF IInv
<1> QED
  BY <1>1, Invariance, PTL

(* The transactions implement the linear log: a commit appends directly     *)
(* after the version its client saw, everything else only answers.          *)
LEMMA InitLog == Init => Promise!LInit
  BY DEF Init, Promise!LInit

(* Steps that leave log, state, expectations and answers alone are stutters. *)
LEMMA QuietLog == UNCHANGED <<client, merged>> => UNCHANGED Promise!logVars
  BY DEF client, Promise!logVars

(* Every step of the transactions is a step of the log, or a stutter. *)
LEMMA StepLog == IInv /\ [Next]_vars => [Promise!LNext]_(Promise!logVars)
<1> SUFFICES ASSUME IInv, [Next]_vars PROVE [Promise!LNext]_(Promise!logVars)
  OBVIOUS
<1> USE CommandsAssumption
<1>0. TypeOK /\ version = Len(log)
  BY DEF IInv, NothingLost
<1>1. ASSUME NEW c \in Commands, Issue(c) PROVE Promise!LIssue(c)
  BY <1>0, <1>1 DEF Issue, Promise!LIssue, db
<1>2. ASSUME NEW w \in Workers, Duplicate(w) PROVE Promise!LRepeat(cmd[w])
  <2>1. PICK r \in receipts : r[1] = cmd[w] /\ answered' = answered \cup {<<cmd[w], r[2]>>}
    BY <1>2 DEF Duplicate
  <2>2. r[2] \in 1 .. Len(log) /\ log[r[2]] = cmd[w]
    BY <2>1 DEF IInv, ReceiptsHonest
  <2>3. UNCHANGED <<log, merged, expected>>
    BY <1>2 DEF Duplicate, db
  <2> QED
    BY <2>1, <2>2, <2>3 DEF Promise!LRepeat
<1>3. ASSUME NEW w \in Workers, NEW c \in Commands, c = cmd[w], Commit(w)
      PROVE  Promise!LCommit(c)
  <2>1. /\ base[w] = version /\ expected[cmd[w]] = version
        /\ seen[w].merged = merged
    BY <1>3 DEF Commit, IInv, BusyIssued, SaveIsCurrent, BaseExpected, SeenAtBase
  <2>2. /\ log' = Append(log, cmd[w]) /\ expected' = expected
        /\ merged' = seen[w].merged \cup {cmd[w]}
        /\ answered' = answered \cup {<<cmd[w], base[w] + 1>>}
    BY <1>3 DEF Commit
  <2> QED
    BY <1>0, <1>3, <2>1, <2>2 DEF Promise!LCommit
<1>4. CASE OtherCommit
  BY <1>4 DEF OtherCommit, Promise!LNext, Promise!LOther
<1>5. ASSUME NEW w \in Workers,
             Load(w) \/ Refuse(w) \/ Compute(w) \/ WriteRow(w) \/ CommitNeutral(w)
             \/ Save(w) \/ Conflict(w) \/ Deadlock(w) \/ Crash(w)
      PROVE  UNCHANGED <<client, merged>>
  BY <1>5 DEF Load, Refuse, Compute, WriteRow, CommitNeutral, Save, Conflict,
     Deadlock, Crash, db
<1>6. ASSUME NEW w \in Workers, NEW c \in Commands, Begin(w, c) PROVE UNCHANGED <<client, merged>>
  BY <1>6 DEF Begin, db
<1>7. ASSUME NEW r \in receipts, SweepReceipt(r) PROVE UNCHANGED <<client, merged>>
  BY <1>7 DEF SweepReceipt
<1>9. ASSUME NEW w \in Workers, Duplicate(w) PROVE cmd[w] \in Commands
  BY <1>9 DEF Duplicate, IInv, BusyIssued
<1>10. (\E c \in Commands : Issue(c)) => Promise!LNext
  BY <1>1 DEF Promise!LNext
<1>11. (\E w \in Workers : Duplicate(w) \/ Commit(w)) => Promise!LNext
  <2>1. ASSUME NEW w \in Workers, Duplicate(w) PROVE Promise!LNext
    BY <1>2, <1>9, <2>1, Zenon DEF Promise!LNext
  <2>2. ASSUME NEW w \in Workers, Commit(w) PROVE Promise!LNext
    <3>1. PICK c \in Commands : c = cmd[w]
      BY <2>2 DEF Commit, IInv, BusyIssued
    <3>2. Promise!LCommit(c)
      BY <1>3, <2>2, <3>1
    <3> QED
      BY <3>2 DEF Promise!LNext
  <2> QED
    BY <2>1, <2>2
<1>12. \/ \E c \in Commands : Issue(c)
       \/ \E w \in Workers : Duplicate(w) \/ Commit(w)
       \/ OtherCommit
       \/ UNCHANGED <<client, merged>>
  BY <1>5, <1>6, <1>7 DEF Next, Step, vars, db
<1> QED
  BY <1>4, <1>10, <1>11, <1>12, QuietLog

(* What clients are promised (RoomLog) is what the transactions deliver. *)
THEOREM ImplementsLog == Spec => LogSpec
<1>1. Init => Promise!LInit
  BY InitLog
<1>2. IInv /\ [Next]_vars => [Promise!LNext]_(Promise!logVars)
  BY StepLog
<1> QED
  BY <1>1, <1>2, Invariance, PTL DEF Spec, LogSpec, Promise!LogSpec
=============================================================================
