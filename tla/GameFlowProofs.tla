--------------------------- MODULE GameFlowProofs ---------------------------
(***************************************************************************)
(* For any budget of scripted effects: the engine never waits for nobody,  *)
(* an announced layer never resolves unanswered, combat damage of a link   *)
(* is calculated once and go again pays at most once.                      *)
(*                                                                         *)
(* The procedures of the engine tail-call each other.  Each has a contract *)
(* (Ready), what must hold of the state when it is called; a decision has  *)
(* one too (Settled), what must hold of the state it stands in, so that    *)
(* the procedure its answer calls finds its contract kept.                 *)
(***************************************************************************)
EXTENDS GameFlow, Counting, SequenceTheorems

(* The turn player may act: nothing is under way.                           *)
Bare(s) ==
  /\ s.phase = "action" /\ s.priority = s.active /\ s.link = None
  /\ s.stack = <<>> /\ s.resume \in {"none", "begin-action"}

(* The link and the step the stack goes on with belong together.            *)
Combat(s) ==
  /\ s.link = None => s.resume \notin CombatResumes
  /\ s.link # None =>
       /\ s.phase \in {"layer", "defend", "reaction"}
       /\ s.resume \in CombatResumes \cup {"none"}
       /\ s.resume = "start-attack-step" => ~s.link.began
       /\ s.resume \in CombatResumes \ {"start-attack-step"} => s.link.began
       /\ s.resume \in {"continue-attack", "start-reaction-step"} => ~s.link.damaged
       /\ s.resume \in {"start-attack-step", "continue-attack", "finish-link-resolution"} =>
            s.phase = "layer"
       /\ s.phase = "reaction" => s.resume = "none"
       /\ ~s.link.began => s.phase = "layer" /\ ~s.link.damaged /\ ~s.link.resolving

(* Nothing a player announced is on the stack where nobody gets priority.   *)
Unannounced(s) ==
  ~GivesPriority(s.phase) => \A i \in 1 .. Len(s.stack) : ~Announced(s.stack[i])

(* Go again that is still to be paid.                                       *)
Unpaid(link) ==
  IF link = None THEN 0 ELSE IF link.again /\ ~link.resolving THEN 1 ELSE 0

(* The turn's own action point, until its action phase begins.              *)
Due(resume) == IF resume = "begin-action-phase" THEN 1 ELSE 0

Owes(s) ==
  /\ s.ap + AgainOn(s.stack) + AgainOn(s.queue) + Unpaid(s.link) + Due(s.resume) <= s.owed
  /\ s.owed + s.fuel <= Budget + 1

Sound(s) == s \in States /\ Combat(s) /\ Unannounced(s) /\ Owes(s)

(* No procedure has taken the combat step up that the stack goes on with.   *)
Resumable(s) ==
  /\ s.link # None =>
       /\ s.link.damaged => s.resume = "finish-link-resolution"
       /\ ~s.link.began => s.resume = "start-attack-step"
       /\ s.phase = "defend" => s.resume = "start-reaction-step"
  /\ s.link = None /\ s.phase \in {"defend", "reaction"} => s.resume = "begin-action"

Steady(s) ==
  /\ Resumable(s)
  /\ s.link = None /\ s.phase \in {"defend", "reaction"} => s.stack = <<>>

(* Someone is attacking, and the stack is empty.                            *)
Fighting(s, phases) ==
  /\ s.link # None /\ s.link.began /\ s.phase \in phases
  /\ s.stack = <<>> /\ s.resume = "none"

Declared(s) ==
  /\ s.link # None /\ s.link.began /\ ~s.link.damaged
  /\ s.phase = "layer" /\ s.resume = "none"

(* What an answer to a choice needs, by the procedure that goes on.         *)
Continues(s, then) ==
  /\ then = "none" => Bare(s)
  /\ then = "continue" => Steady(s)
  /\ then = "declare" => Declared(s)
  /\ then = "card" => Steady(s) /\ s.stack # <<>>
  /\ then = "damage" => Fighting(s, {"reaction"}) /\ s.link.damaged
  /\ then = "reopen" => Steady(s) /\ s.phase = "reaction" /\ s.link # None
  /\ then = "window" => Steady(s) /\ s.phase = "layer" /\ s.passes < 2 /\ s.stack # <<>>

WindowSteps ==
  {"start-attack-step", "continue-attack", "finish-link-resolution", "end-action-phase"}

(* What every decision needs of the state it stands in.                     *)
Settled(s) ==
  /\ s.decision.kind = "none" => s.phase = "game-over" \/ Bare(s)
  /\ s.decision.kind = "window" =>
       /\ Steady(s) /\ s.phase = "layer" /\ s.decision.player = s.priority /\ s.passes < 2
       /\ s.stack = <<>> => s.resume \in WindowSteps
  /\ s.decision.kind = "reaction" =>
       /\ Steady(s) /\ s.phase = "reaction" /\ s.link # None
       /\ s.decision.player = s.priority /\ s.passes < 2
  /\ s.decision.kind = "defend" =>
       /\ s.phase = "defend" /\ s.link # None /\ s.priority = Opp(s.active)
       /\ s.link.began /\ ~s.link.damaged /\ s.resume = "none"
  /\ s.decision.kind = "optional" => Steady(s) /\ s.stack # <<>>
  /\ s.decision.kind \in {"arsenal", "pitch"} => s.stack = <<>> /\ s.link = None
  /\ s.decision.kind = "choice" =>
       /\ Continues(s, s.decision.then)
       /\ s.decision.then = "reopen" => s.decision.seat \in Seats

(* Of the decisions only a choice can be open while a procedure runs.       *)
Free(s) == s.decision.kind \notin {"optional", "pitch", "arsenal"}
Undecided(s) == Free(s) /\ ~Asked(s)

(* What every procedure needs of the state it is called in.                 *)
Ready(s, c) ==
  /\ c.op \in {"idle", "settle"} => Settled(s)
  /\ c.op = "continue" =>
       /\ Steady(s) /\ Free(s)
       /\ Asked(s) => \/ s.decision.then = "continue"
                      \/ s.decision.then = "none" /\ Bare(s)
  /\ c.op = "window" =>
       /\ Steady(s) /\ Free(s)
       /\ Asked(s) => s.stack = <<>>
       /\ s.link # None =>
            s.phase # "reaction" /\ (s.stack = <<>> => s.resume \in CombatResumes)
  /\ c.op = "advance" =>
       /\ Steady(s) /\ Free(s)
       /\ Asked(s) => s.stack = <<>>
       /\ s.link # None /\ s.stack = <<>> => s.resume \in CombatResumes
       /\ s.stack # <<>> /\ Announced(Head(s.stack)) => c.from = "passes"
  /\ c.op = "queue" =>
       /\ Steady(s) /\ Undecided(s) /\ s.link = None /\ s.stack = <<>>
       /\ c.from \in {"continue", "defer", "finish"}
       /\ c.from \in {"defer", "finish"} => s.decision = Nobody /\ s.resume = "none"
       /\ c.from = "finish" => Bare(s)
  /\ c.op = "finish-card" => Steady(s) /\ Free(s) /\ s.stack # <<>>
  /\ c.op = "phantasm-gone" =>
       /\ s.decision = Nobody /\ s.link = None /\ s.resume = "none"
       /\ s.phase = "action" /\ s.priority = s.active
  /\ c.op = "attack-step" =>
       /\ s.link # None /\ ~s.link.began /\ s.phase = "layer"
       /\ s.stack = <<>> /\ s.resume = "none" /\ s.decision = Nobody
  /\ c.op = "declared" => Declared(s) /\ Undecided(s)
  /\ c.op = "damage" => Fighting(s, {"reaction"}) /\ ~s.link.damaged /\ Undecided(s)
  /\ c.op = "apply-damage" => Fighting(s, {"reaction"}) /\ s.link.damaged /\ Undecided(s)
  /\ c.op \in {"finish-damage", "finish-link"} =>
       Fighting(s, {"reaction", "layer"}) /\ Free(s)
  /\ c.op = "end-turn" =>
       s.stack = <<>> /\ s.link = None /\ s.resume = "none" /\ Undecided(s)
  /\ c.op \in {"bottom", "complete"} => s.stack = <<>> /\ s.link = None /\ Undecided(s)

Good(s, c) == Sound(s) /\ Ready(s, c)

(* The inductive invariant. *)
IInv == call \in Calls /\ Good(state, call)

-----------------------------------------------------------------------------
(* How much go again a sequence of objects has                               *)

Own(e) == IF e.again THEN 1 ELSE 0

(* It is a natural number, and none where nothing has it. *)
LEMMA AgainCounts ==
  ASSUME NEW S, NEW q \in Seq(S)
  PROVE  /\ AgainOn(q) \in Nat /\ IsFiniteSet({i \in 1 .. Len(q) : q[i].again})
         /\ AgainOn(q) = Cardinality({i \in 1 .. Len(q) : q[i].again})
         /\ (\A i \in 1 .. Len(q) : ~q[i].again) => AgainOn(q) = 0
<1>1. Len(q) \in Nat /\ DOMAIN q = 1 .. Len(q)
  BY LenProperties
<1>2. IsFiniteSet(1 .. Len(q))
  BY <1>1, FS_Interval
<1>3. IsFiniteSet({i \in 1 .. Len(q) : q[i].again})
  BY <1>2, FS_Subset
<1>4. (\A i \in 1 .. Len(q) : ~q[i].again) => {i \in 1 .. Len(q) : q[i].again} = {}
  OBVIOUS
<1> QED
  BY <1>1, <1>3, <1>4, FS_CardinalityType, FS_EmptySet DEF AgainOn

LEMMA AgainNone ==
  ASSUME NEW S
  PROVE  <<>> \in Seq(S) /\ AgainOn(<<>>) = 0
<1>1. PICK q : q = <<>>
  OBVIOUS
<1>2. q \in Seq(S) /\ Len(q) = 0
  BY <1>1, EmptySeq
<1>3. \A i \in 1 .. Len(q) : ~q[i].again
  BY <1>2
<1>4. AgainOn(q) = 0
  BY <1>2, <1>3, AgainCounts
<1> QED
  BY <1>1, <1>2, <1>4

(* It adds up. *)
LEMMA AgainTogether ==
  ASSUME NEW S, NEW p \in Seq(S), NEW q \in Seq(S)
  PROVE  AgainOn(p \o q) = AgainOn(p) + AgainOn(q)
<1> DEFINE n == Len(p)
           A == {i \in 1 .. n : p[i].again}
           B == {i \in 1 .. Len(q) : q[i].again}
           C == {i \in 1 .. n + Len(q) : (p \o q)[i].again}
           D == C \ A
           f == [i \in B |-> n + i]
<1>1. n \in Nat /\ Len(q) \in Nat
  BY LenProperties
<1>2. /\ p \o q \in Seq(S) /\ Len(p \o q) = n + Len(q)
      /\ \A i \in 1 .. n + Len(q) : (p \o q)[i] = IF i <= n THEN p[i] ELSE q[i - n]
  BY ConcatProperties
<1>3. /\ IsFiniteSet(A) /\ IsFiniteSet(B) /\ IsFiniteSet(C)
      /\ AgainOn(p) = Cardinality(A) /\ AgainOn(q) = Cardinality(B)
      /\ AgainOn(p \o q) = Cardinality(C)
  BY <1>2, AgainCounts
<1>4. A \subseteq C
  <2>1. ASSUME NEW i \in A PROVE i \in C
    <3>1. i \in 1 .. n + Len(q) /\ i <= n /\ p[i].again
      BY <1>1
    <3>2. (p \o q)[i] = p[i]
      BY <1>2, <3>1
    <3> QED
      BY <3>1, <3>2
  <2> QED
    BY <2>1
<1>5. D = {i \in n + 1 .. n + Len(q) : q[i - n].again}
  <2>1. ASSUME NEW i \in 1 .. n + Len(q), i <= n PROVE i \in C <=> i \in A
    <3>1. (p \o q)[i] = p[i] /\ i \in 1 .. n
      BY <1>1, <1>2, <2>1
    <3> QED
      BY <3>1
  <2>2. ASSUME NEW i \in 1 .. n + Len(q), ~(i <= n)
        PROVE  i \notin A /\ (i \in C <=> q[i - n].again) /\ i \in n + 1 .. n + Len(q)
    <3>1. (p \o q)[i] = q[i - n] /\ i \notin 1 .. n
      BY <1>1, <1>2, <2>2
    <3> QED
      BY <1>1, <2>2, <3>1
  <2>3. \A i \in n + 1 .. n + Len(q) : i \in 1 .. n + Len(q) /\ ~(i <= n)
    BY <1>1
  <2>4. ASSUME NEW i \in D PROVE i \in n + 1 .. n + Len(q) /\ q[i - n].again
    <3>1. i \in 1 .. n + Len(q) /\ i \in C /\ i \notin A
      OBVIOUS
    <3> HIDE DEF C, A, D
    <3> QED
      BY <3>1, <2>1, <2>2
  <2>5. ASSUME NEW i \in n + 1 .. n + Len(q), q[i - n].again PROVE i \in D
    <3>1. i \in 1 .. n + Len(q) /\ ~(i <= n)
      BY <2>3
    <3> HIDE DEF C, A
    <3> QED
      BY <3>1, <2>2, <2>5
  <2> HIDE DEF C, A, D
  <2> QED
    BY <2>4, <2>5
<1>6. f \in Bijection(B, D)
  <2>1. ASSUME NEW i \in B PROVE n + i \in D
    <3>1. i \in 1 .. Len(q) /\ q[i].again
      OBVIOUS
    <3>2. n + i \in n + 1 .. n + Len(q) /\ (n + i) - n = i
      BY <1>1, <3>1
    <3> HIDE DEF D
    <3> QED
      BY <1>5, <3>1, <3>2
  <2>2. \A i, j \in B : n + i = n + j => i = j
    BY <1>1
  <2>3. ASSUME NEW k \in D PROVE \E i \in B : n + i = k
    <3>1. k \in n + 1 .. n + Len(q) /\ q[k - n].again
      BY <1>5
    <3>2. k - n \in 1 .. Len(q) /\ n + (k - n) = k
      BY <1>1, <3>1
    <3> QED
      BY <3>1, <3>2
  <2> HIDE DEF B, D
  <2>4. f \in [B -> D] /\ \A i \in B : f[i] = n + i
    BY <2>1
  <2> QED
    BY <2>2, <2>3, <2>4 DEF Bijection, Injection, IsInjective, Surjection
<1> HIDE DEF A, B, C, f
<1>7. IsFiniteSet(D) /\ Cardinality(D) = Cardinality(B)
  <2>1. ExistsBijection(B, D)
    BY <1>6 DEF ExistsBijection
  <2> HIDE DEF D
  <2> QED
    BY <1>3, <2>1, FS_Bijection
<1>8. C = A \cup D /\ A \cap D = {}
  BY <1>4
<1> HIDE DEF D
<1>9. /\ Cardinality(A \cup D) = Cardinality(A) + Cardinality(D) - Cardinality(A \cap D)
      /\ Cardinality(A) \in Nat /\ Cardinality(D) \in Nat
  BY <1>3, <1>7, FS_Union, FS_CardinalityType
<1>10. Cardinality(A \cap D) = 0
  BY <1>8, FS_EmptySet
<1> QED
  BY <1>3, <1>7, <1>8, <1>9, <1>10

(* One object has it once. *)
LEMMA AgainAlone ==
  ASSUME NEW S, NEW e \in S
  PROVE  <<e>> \in Seq(S) /\ AgainOn(<<e>>) = Own(e)
<1>1. <<e>> \in Seq(S) /\ Len(<<e>>) = 1 /\ <<e>>[1] = e
  OBVIOUS
<1>2. {i \in 1 .. 1 : <<e>>[i].again} = IF e.again THEN {1} ELSE {}
  <2>1. 1 .. 1 = {1}
    OBVIOUS
  <2> QED
    BY <1>1, <2>1
<1>3. Cardinality({1}) = 1 /\ Cardinality({}) = 0
  BY FS_Singleton, FS_EmptySet
<1>4. AgainOn(<<e>>) = Cardinality({i \in 1 .. 1 : <<e>>[i].again})
  BY <1>1, AgainCounts
<1>5. Cardinality({i \in 1 .. 1 : <<e>>[i].again}) = Own(e)
  BY <1>2, <1>3 DEF Own
<1> QED
  BY <1>1, <1>4, <1>5

(* The first object's and the others'. *)
LEMMA AgainFirst ==
  ASSUME NEW S, NEW q \in Seq(S), q # <<>>
  PROVE  AgainOn(q) = Own(Head(q)) + AgainOn(Tail(q))
<1>1. /\ Head(q) \in S /\ Tail(q) \in Seq(S)
      /\ Len(Tail(q)) = Len(q) - 1 /\ \A i \in 1 .. Len(Tail(q)) : Tail(q)[i] = q[i + 1]
      /\ Len(q) \in Nat /\ Len(q) > 0 /\ Head(q) = q[1]
  BY HeadTailProperties, LenProperties, EmptySeq
<1> DEFINE t == <<Head(q)>> \o Tail(q)
<1>2. <<Head(q)>> \in Seq(S) /\ AgainOn(<<Head(q)>>) = Own(Head(q))
  BY <1>1, AgainAlone
<1>3. /\ t \in Seq(S) /\ Len(t) = 1 + Len(Tail(q))
      /\ \A i \in 1 .. 1 + Len(Tail(q)) : t[i] = IF i <= 1 THEN <<Head(q)>>[i] ELSE Tail(q)[i - 1]
  <2>1. Len(<<Head(q)>>) = 1
    OBVIOUS
  <2> QED
    BY <1>1, <1>2, <2>1, ConcatProperties
<1>4. \A i \in 1 .. Len(q) : q[i] = t[i]
  <2> SUFFICES ASSUME NEW i \in 1 .. Len(q) PROVE q[i] = t[i]
    OBVIOUS
  <2> HIDE DEF t
  <2>1. CASE i = 1
    <3>1. t[1] = Head(q)
      BY <1>1, <1>3, <2>1
    <3> QED
      BY <1>1, <2>1, <3>1
  <2>2. CASE i # 1
    <3>1. i - 1 \in 1 .. Len(Tail(q)) /\ i \in 1 .. 1 + Len(Tail(q)) /\ ~(i <= 1)
      BY <1>1, <2>2
    <3>2. Tail(q)[i - 1] = q[(i - 1) + 1]
      BY <1>1, <3>1
    <3>3. (i - 1) + 1 = i
      BY <3>1
    <3> QED
      BY <1>3, <3>1, <3>2, <3>3
  <2> QED
    BY <2>1, <2>2
<1>5. q = t
  <2> HIDE DEF t
  <2> QED
    BY <1>1, <1>3, <1>4, SeqEqual
<1> QED
  BY <1>1, <1>2, <1>5, AgainTogether

(* One more at the top or at the end. *)
LEMMA AgainMore ==
  ASSUME NEW S, NEW q \in Seq(S), NEW e \in S
  PROVE  /\ AgainOn(<<e>> \o q) = Own(e) + AgainOn(q)
         /\ AgainOn(Append(q, e)) = AgainOn(q) + Own(e)
<1>1. <<e>> \in Seq(S) /\ AgainOn(<<e>>) = Own(e)
  BY AgainAlone
<1>2. Append(q, e) = q \o <<e>>
  BY AppendIsConcat
<1> QED
  BY <1>1, <1>2, AgainTogether

(* What follows an object has no more than all without that object. *)
LEMMA AgainBehind ==
  ASSUME NEW S, NEW q \in Seq(S), NEW i \in 1 .. Len(q)
  PROVE  /\ SubSeq(q, i + 1, Len(q)) \in Seq(S)
         /\ AgainOn(SubSeq(q, i + 1, Len(q))) + Own(q[i]) <= AgainOn(q)
<1> DEFINE before == SubSeq(q, 1, i - 1)
           here   == SubSeq(q, i, i)
           after  == SubSeq(q, i + 1, Len(q))
<1>1. Len(q) \in Nat /\ i \in Nat /\ i >= 1 /\ i <= Len(q) /\ \A j \in 1 .. Len(q) : q[j] \in S
  BY LenProperties, ElementOfSeq
<1>2. before \in Seq(S) /\ after \in Seq(S)
  <2>1. \A j \in 1 .. i - 1 : q[j] \in S
    BY <1>1
  <2>2. \A j \in i + 1 .. Len(q) : q[j] \in S
    BY <1>1
  <2> QED
    BY <1>1, <2>1, <2>2, SubSeqProperties
<1>3. SubSeq(q, i, Len(q)) = <<q[i]>> \o after
  BY <1>1, SubSeqRecursiveFirst
<1>4. SubSeq(q, i, Len(q)) \in Seq(S)
  <2>1. \A j \in i .. Len(q) : q[j] \in S
    BY <1>1
  <2> QED
    BY <1>1, <2>1, SubSeqProperties
<1>5. q = before \o SubSeq(q, i, Len(q))
  <2>1. SubSeq(q, 1, i - 1) \o SubSeq(q, (i - 1) + 1, Len(q)) = SubSeq(q, 1, Len(q))
    <3>1. 1 \in 1 .. Len(q) + 1 /\ i - 1 \in 1 - 1 .. Len(q) /\ Len(q) \in i - 1 .. Len(q)
      BY <1>1
    <3> QED
      BY <3>1, ConcatAdjacentSubSeq
  <2>2. (i - 1) + 1 = i
    BY <1>1
  <2> QED
    BY <2>1, <2>2, SubSeqFull
<1> HIDE DEF before, after
<1>6. /\ AgainOn(q) = AgainOn(before) + AgainOn(SubSeq(q, i, Len(q)))
      /\ AgainOn(SubSeq(q, i, Len(q))) = Own(q[i]) + AgainOn(after)
  <2>1. AgainOn(before \o SubSeq(q, i, Len(q))) = AgainOn(before) + AgainOn(SubSeq(q, i, Len(q)))
    BY <1>2, <1>4, AgainTogether
  <2>2. AgainOn(<<q[i]>> \o after) = Own(q[i]) + AgainOn(after)
    BY <1>1, <1>2, AgainMore
  <2> QED
    BY <1>3, <1>5, <2>1, <2>2
<1>7. AgainOn(before) \in Nat /\ AgainOn(after) \in Nat /\ Own(q[i]) \in Nat
  BY <1>2, AgainCounts DEF Own
<1>8. AgainOn(after) + Own(q[i]) <= AgainOn(q)
  BY <1>6, <1>7
<1> QED
  BY <1>2, <1>8 DEF after

(* The permanents that are held back have none. *)
LEMMA HeldBackFacts ==
  ASSUME NEW q \in Seq(Entries)
  PROVE  HeldBack(q) \in Seq(Entries) /\ AgainOn(HeldBack(q)) = 0
<1> DEFINE n == Cardinality({j \in DOMAIN q : ~q[j].ready})
           h == [i \in 1 .. n |-> Queued(FALSE, FALSE)]
<1>1. n \in Nat
  <2>1. DOMAIN q = 1 .. Len(q) /\ Len(q) \in Nat
    BY LenProperties
  <2>2. IsFiniteSet(1 .. Len(q))
    BY <2>1, FS_Interval
  <2>3. IsFiniteSet({j \in 1 .. Len(q) : ~q[j].ready})
    BY <2>2, FS_Subset
  <2> QED
    BY <2>1, <2>3, FS_CardinalityType
<1>2. Queued(FALSE, FALSE) \in Entries /\ ~Queued(FALSE, FALSE).again
  BY DEF Queued, Entries
<1> HIDE DEF n
<1>3. h \in Seq(Entries) /\ Len(h) = n /\ \A i \in 1 .. n : h[i] = Queued(FALSE, FALSE)
  <2>1. h \in [1 .. n -> Entries] /\ \A i \in 1 .. n : h[i] = Queued(FALSE, FALSE)
    BY <1>2
  <2> HIDE DEF h
  <2>2. h \in Seq(Entries)
    BY <1>1, <2>1, SeqDef
  <2>3. DOMAIN h = 1 .. n /\ DOMAIN h = 1 .. Len(h) /\ Len(h) \in Nat
    BY <2>1, <2>2, LenProperties
  <2>4. Len(h) = n
    BY <1>1, <2>3
  <2> QED
    BY <2>1, <2>2, <2>4
<1> HIDE DEF h
<1>4. AgainOn(h) = 0
  BY <1>2, <1>3, AgainCounts
<1> QED
  BY <1>3, <1>4 DEF h, n, HeldBack

-----------------------------------------------------------------------------
(* States that differ in little                                              *)

(* A link's flags, without whether its attack has gone. *)
SameLink(l, m) ==
  /\ l = None <=> m = None
  /\ l # None => /\ m.again = l.again /\ m.began = l.began
                 /\ m.damaged = l.damaged /\ m.resolving = l.resolving

SameFlow(s, t) ==
  /\ t.phase = s.phase /\ t.active = s.active /\ t.priority = s.priority
  /\ t.stack = s.stack /\ t.resume = s.resume /\ t.passes = s.passes
  /\ SameLink(s.link, t.link)

(* A decision may have been opened, a layer raised, an attack queued.       *)
Kept(s, t) ==
  /\ t \in States /\ SameFlow(s, t)
  /\ t.ap = s.ap /\ t.owed = s.owed /\ t.fuel <= s.fuel
  /\ AgainOn(t.queue) <= AgainOn(s.queue)

(* The parts of a state have their types, and its counts are numbers. *)
LEMMA Parts ==
  ASSUME NEW s \in States
  PROVE  /\ s.phase \in Phases /\ s.active \in Seats /\ s.priority \in Seats
         /\ s.decision \in Decisions /\ s.stack \in Seq(Layers) /\ s.resume \in Resumes
         /\ s.passes \in Passes /\ s.link \in Links \cup {None} /\ s.open \in BOOLEAN
         /\ s.queue \in Seq(Entries) /\ s.pending \in [Seats -> Seq(Raised)]
         /\ s.ap \in Points /\ s.owed \in Points /\ s.fuel \in Fuels
  BY DEF States

LEMMA Numbers ==
  ASSUME NEW s \in States
  PROVE  /\ Budget \in Nat /\ s.ap \in Nat /\ s.owed \in Nat /\ s.fuel \in Nat
         /\ s.fuel <= Budget /\ s.ap <= Budget + 1 /\ s.owed <= Budget + 1
         /\ AgainOn(s.stack) \in Nat /\ AgainOn(s.queue) \in Nat /\ Unpaid(s.link) \in Nat
         /\ Due(s.resume) \in Nat
<1>1. /\ s.stack \in Seq(Layers) /\ s.queue \in Seq(Entries)
      /\ s.ap \in Points /\ s.owed \in Points /\ s.fuel \in Fuels
  BY Parts
<1>2. AgainOn(s.stack) \in Nat /\ AgainOn(s.queue) \in Nat
  BY <1>1, AgainCounts
<1>3. Unpaid(s.link) \in Nat /\ Due(s.resume) \in Nat
  BY DEF Unpaid, Due
<1> QED
  BY <1>1, <1>2, <1>3, BudgetAssumption DEF Points, Fuels

LEMMA SameUnpaid ==
  ASSUME NEW l, NEW m, SameLink(l, m)
  PROVE  Unpaid(l) = Unpaid(m)
  BY DEF SameLink, Unpaid

LEMMA KeptOwes ==
  ASSUME NEW s \in States, NEW t, Owes(s), Kept(s, t)
  PROVE  Owes(t)
<1>1. t \in States /\ SameFlow(s, t)
  BY DEF Kept
<1>2. Unpaid(t.link) = Unpaid(s.link) /\ AgainOn(t.stack) = AgainOn(s.stack)
  BY <1>1, SameUnpaid DEF SameFlow
<1>3. /\ s.ap + AgainOn(s.stack) + AgainOn(s.queue) + Unpaid(s.link) + Due(s.resume) <= s.owed
      /\ s.owed + s.fuel <= Budget + 1
      /\ Due(t.resume) = Due(s.resume) /\ t.ap = s.ap /\ t.owed = s.owed /\ t.fuel <= s.fuel
      /\ AgainOn(t.queue) <= AgainOn(s.queue)
  BY DEF Owes, Kept, SameFlow
<1>4. /\ Budget \in Nat /\ s.ap \in Nat /\ s.owed \in Nat /\ s.fuel \in Nat
      /\ AgainOn(s.stack) \in Nat /\ AgainOn(s.queue) \in Nat /\ Unpaid(s.link) \in Nat
      /\ Due(s.resume) \in Nat /\ t.fuel \in Nat /\ AgainOn(t.queue) \in Nat
  BY <1>1, Numbers
<1> QED
  BY <1>2, <1>3, <1>4 DEF Owes

LEMMA KeptSound ==
  ASSUME NEW s, NEW t, Sound(s), Kept(s, t)
  PROVE  Sound(t)
<1>1. s \in States /\ t \in States /\ SameFlow(s, t)
  BY DEF Sound, Kept
<1>2. Combat(t)
  BY <1>1 DEF Sound, Combat, SameFlow, SameLink
<1>3. Unannounced(t)
  BY <1>1 DEF Sound, Unannounced, SameFlow
<1>4. Owes(t)
  BY KeptOwes DEF Sound
<1> QED
  BY <1>1, <1>2, <1>3, <1>4 DEF Sound

LEMMA SameFits ==
  ASSUME NEW s, NEW t, SameFlow(s, t)
  PROVE  /\ Steady(s) <=> Steady(t)
         /\ Bare(s) <=> Bare(t)
         /\ Declared(s) <=> Declared(t)
         /\ Fighting(s, {"reaction"}) <=> Fighting(t, {"reaction"})
         /\ Fighting(s, {"reaction", "layer"}) <=> Fighting(t, {"reaction", "layer"})
<1>1. Steady(s) <=> Steady(t)
  BY DEF Steady, Resumable, SameFlow, SameLink
<1>2. Bare(s) <=> Bare(t)
  BY DEF Bare, SameFlow, SameLink
<1> QED
  BY <1>1, <1>2 DEF Fighting, Declared, SameFlow, SameLink

Thens == {"none", "continue", "declare", "card", "damage", "reopen", "window"}

LEMMA SameContinues ==
  ASSUME NEW s, NEW t, SameFlow(s, t), NEW then \in Thens, Continues(s, then)
  PROVE  Continues(t, then)
<1>1. /\ Steady(s) <=> Steady(t)
      /\ Bare(s) <=> Bare(t)
      /\ Declared(s) <=> Declared(t)
      /\ Fighting(s, {"reaction"}) <=> Fighting(t, {"reaction"})
  BY SameFits
<1>2. CASE then \in {"none", "continue", "card", "window"}
  BY <1>1, <1>2 DEF Continues, SameFlow
<1>3. CASE then \in {"declare", "damage", "reopen"}
  BY <1>1, <1>3 DEF Continues, SameFlow, SameLink
<1> QED
  BY <1>2, <1>3 DEF Thens

(* Decisions that are opened. *)
LEMMA Opened ==
  /\ Nobody \in Decisions /\ Choice \in Decisions
  /\ Nobody.kind = "none" /\ Nobody.then = "none"
  /\ Choice.kind = "choice" /\ Choice.then = "none"
  /\ \A kind \in {"window", "reaction", "defend", "arsenal", "pitch", "optional"},
        seat \in Seats \cup {NoSeat} :
       /\ Prompt(kind, seat) \in Decisions /\ Prompt(kind, seat).kind = kind
       /\ Prompt(kind, seat).player = seat /\ Prompt(kind, seat).then = "none"
  /\ NoSeat \notin Seats /\ \A seat \in Seats : Opp(seat) \in Seats
  BY DEF Nobody, Choice, Prompt, Decisions, Seats, NoSeat, Opp

LEMMA RaiseFacts ==
  ASSUME NEW pending \in [Seats -> Seq(Raised)], NEW kind \in {"trigger", "phantasm"},
         NEW seat \in Seats
  PROVE  Raise(pending, kind, seat) \in [Seats -> Seq(Raised)]
<1>1. Layer(kind, seat, FALSE) \in Raised
  BY DEF Layer, Raised
<1>2. Append(pending[seat], Layer(kind, seat, FALSE)) \in Seq(Raised)
  BY <1>1, AppendProperties
<1> QED
  BY <1>2 DEF Raise

LEMMA NothingFacts == Nothing \in [Seats -> Seq(Raised)]
  BY EmptySeq DEF Nothing

(* What a script does keeps the flow of the game, but for a choice. *)
LEMMA EffectsKeep ==
  ASSUME NEW s \in States, NEW does, NEW t \in Effects(s, does)
  PROVE  /\ Kept(s, t) /\ t.open = s.open
         /\ t.decision = s.decision \/ (t.decision = Choice /\ ~Asked(s) /\ "ask" \in does)
         /\ Asked(t) /\ ~Asked(s) => t.decision = Choice
<1> DEFINE paid == [s EXCEPT !.fuel = @ - 1]
<1>0. SameFlow(s, s) /\ Kept(s, s)
  BY Numbers DEF SameFlow, SameLink, Kept
<1>1. CASE t = s
  BY <1>0, <1>1
<1>2. CASE t # s
  <2>1. /\ s.fuel # 0 /\ s.fuel \in Nat /\ s.fuel <= Budget /\ Budget \in Nat
        /\ s.fuel - 1 \in Fuels /\ s.fuel - 1 <= s.fuel
    <3>1. s.fuel # 0
      BY <1>2 DEF Effects
    <3>2. s.fuel \in Nat /\ s.fuel <= Budget /\ Budget \in Nat
      BY Numbers
    <3> QED
      BY <3>1, <3>2 DEF Fuels
  <2>2. paid = [s EXCEPT !.fuel = s.fuel - 1] /\ paid \in States
    BY <2>1 DEF States
  <2>3. /\ paid.phase = s.phase /\ paid.active = s.active /\ paid.priority = s.priority
        /\ paid.decision = s.decision /\ paid.stack = s.stack /\ paid.resume = s.resume
        /\ paid.passes = s.passes /\ paid.link = s.link /\ paid.open = s.open
        /\ paid.queue = s.queue /\ paid.pending = s.pending
        /\ paid.ap = s.ap /\ paid.owed = s.owed /\ paid.fuel <= s.fuel
    BY <2>1, <2>2 DEF States
  <2> HIDE DEF paid
  <2>4. \/ t = [paid EXCEPT !.decision = Choice] /\ ~Asked(s) /\ "ask" \in does
        \/ \E seat \in Seats : t = [paid EXCEPT !.pending = Raise(@, "trigger", seat)]
        \/ t = [paid EXCEPT !.link.gone = TRUE] /\ s.link # None
        \/ t = [paid EXCEPT !.queue = Append(@, Queued(FALSE, FALSE))]
    BY <1>2 DEF Effects, paid
  <2>5. AgainOn(s.queue) \in Nat /\ AgainOn(s.queue) <= AgainOn(s.queue)
    BY Numbers
  <2>6. CASE t = [paid EXCEPT !.decision = Choice] /\ ~Asked(s) /\ "ask" \in does
    <3>1. t \in States
      BY <2>2, <2>6, Opened DEF States
    <3>2. /\ t.phase = s.phase /\ t.active = s.active /\ t.priority = s.priority
          /\ t.decision = Choice /\ t.stack = s.stack /\ t.resume = s.resume
          /\ t.passes = s.passes /\ t.link = s.link /\ t.open = s.open
          /\ t.queue = s.queue
          /\ t.ap = s.ap /\ t.owed = s.owed /\ t.fuel <= s.fuel
      BY <2>2, <2>3, <2>6 DEF States
    <3> QED
      BY <2>5, <2>6, <3>1, <3>2 DEF Kept, SameFlow, SameLink
  <2>7. CASE \E seat \in Seats : t = [paid EXCEPT !.pending = Raise(@, "trigger", seat)]
    <3>1. PICK seat \in Seats : t = [paid EXCEPT !.pending = Raise(@, "trigger", seat)]
      BY <2>7
    <3>2. PICK p : p = Raise(paid.pending, "trigger", seat)
      OBVIOUS
    <3>3. p \in [Seats -> Seq(Raised)]
      BY <2>2, <3>2, Parts, RaiseFacts
    <3>4. t = [paid EXCEPT !.pending = p]
      BY <3>1, <3>2
    <3>5. t \in States
      BY <2>2, <3>3, <3>4 DEF States
    <3>6. /\ t.phase = s.phase /\ t.active = s.active /\ t.priority = s.priority
          /\ t.decision = s.decision /\ t.stack = s.stack /\ t.resume = s.resume
          /\ t.passes = s.passes /\ t.link = s.link /\ t.open = s.open
          /\ t.queue = s.queue
          /\ t.ap = s.ap /\ t.owed = s.owed /\ t.fuel <= s.fuel
      BY <2>2, <2>3, <3>4 DEF States
    <3> QED
      BY <2>5, <3>5, <3>6 DEF Kept, SameFlow, SameLink, Asked
  <2>8. CASE t = [paid EXCEPT !.link.gone = TRUE] /\ s.link # None
    <3>1. PICK l : l = [paid.link EXCEPT !.gone = TRUE]
      OBVIOUS
    <3>2. s.link \in Links /\ paid.link = s.link
      BY <2>3, <2>8, Parts
    <3>3. l \in Links /\ l # None
      <4>1. l \in Links
        BY <3>1, <3>2 DEF Links
      <4> QED
        BY <4>1, NoneAssumption
    <3>4. /\ l.again = s.link.again /\ l.began = s.link.began
          /\ l.damaged = s.link.damaged /\ l.resolving = s.link.resolving
      BY <3>1, <3>2 DEF Links
    <3>5. t = [paid EXCEPT !.link = l]
      BY <2>8, <3>1
    <3>6. t \in States
      BY <2>2, <3>3, <3>5 DEF States
    <3>7. /\ t.phase = s.phase /\ t.active = s.active /\ t.priority = s.priority
          /\ t.decision = s.decision /\ t.stack = s.stack /\ t.resume = s.resume
          /\ t.passes = s.passes /\ t.link = l /\ t.open = s.open
          /\ t.queue = s.queue
          /\ t.ap = s.ap /\ t.owed = s.owed /\ t.fuel <= s.fuel
      BY <2>2, <2>3, <3>5 DEF States
    <3>8. SameLink(s.link, t.link)
      BY <2>8, <3>3, <3>4, <3>7 DEF SameLink
    <3> QED
      BY <2>5, <3>6, <3>7, <3>8 DEF Kept, SameFlow, Asked
  <2>9. CASE t = [paid EXCEPT !.queue = Append(@, Queued(FALSE, FALSE))]
    <3>1. PICK q : q = Append(paid.queue, Queued(FALSE, FALSE))
      OBVIOUS
    <3>2. Queued(FALSE, FALSE) \in Entries /\ ~Queued(FALSE, FALSE).again
      BY DEF Queued, Entries
    <3>3. s.queue \in Seq(Entries)
      BY Parts
    <3>4. q \in Seq(Entries) /\ AgainOn(q) <= AgainOn(s.queue)
      <4>1. q = Append(s.queue, Queued(FALSE, FALSE))
        BY <2>3, <3>1
      <4>2. q \in Seq(Entries)
        BY <3>2, <3>3, <4>1, AppendProperties
      <4>3. AgainOn(q) = AgainOn(s.queue) + Own(Queued(FALSE, FALSE))
        BY <3>2, <3>3, <4>1, AgainMore
      <4>4. Own(Queued(FALSE, FALSE)) = 0
        BY <3>2, Zenon DEF Own
      <4>5. AgainOn(q) = AgainOn(s.queue) + 0
        BY <4>3, <4>4, Zenon
      <4> QED
        BY <2>5, <4>2, <4>5
    <3>5. t = [paid EXCEPT !.queue = q]
      BY <2>9, <3>1
    <3>6. t \in States
      BY <2>2, <3>4, <3>5 DEF States
    <3>7. /\ t.phase = s.phase /\ t.active = s.active /\ t.priority = s.priority
          /\ t.decision = s.decision /\ t.stack = s.stack /\ t.resume = s.resume
          /\ t.passes = s.passes /\ t.link = s.link /\ t.open = s.open
          /\ t.queue = q
          /\ t.ap = s.ap /\ t.owed = s.owed /\ t.fuel <= s.fuel
      BY <2>2, <2>3, <3>5 DEF States
    <3> QED
      BY <2>5, <3>4, <3>6, <3>7 DEF Kept, SameFlow, SameLink, Asked
  <2> QED
    BY <2>4, <2>6, <2>7, <2>8, <2>9
<1> QED
  BY <1>1, <1>2

-----------------------------------------------------------------------------
(* Calls: what has to be shown of the state a procedure is called in.       *)

Origins == {"engine", "passes", "continue", "defer", "finish"}

LEMMA Called ==
  ASSUME NEW s, NEW op \in Procedures, NEW seat \in Seats \cup {NoSeat}, NEW from \in Origins,
         Call(s, op, seat, from),
         Sound(s), Ready(s, [op |-> op, seat |-> seat, from |-> from])
  PROVE  IInv'
<1>1. state' = s /\ call' = [op |-> op, seat |-> seat, from |-> from]
  BY DEF Call
<1>2. call' \in Calls
  BY <1>1 DEF Calls, Origins
<1> QED
  BY <1>1, <1>2 DEF IInv, Good

LEMMA ToRest ==
  ASSUME NEW s, NEW op \in {"idle", "settle"}, Go(s, op, NoSeat), Sound(s), Settled(s)
  PROVE  IInv'
<1>1. Ready(s, [op |-> op, seat |-> NoSeat, from |-> "engine"])
  BY DEF Ready
<1> QED
  BY <1>1, Called DEF Go, Procedures, Origins

LEMMA ToDone ==
  ASSUME NEW s, Done(s), Sound(s), Settled(s)
  PROVE  IInv'
  BY ToRest DEF Done

LEMMA ToContinue ==
  ASSUME NEW s, NEW seat \in Seats \cup {NoSeat}, Go(s, "continue", seat),
         Sound(s), Steady(s), Free(s),
         Asked(s) => s.decision.then = "continue" \/ (s.decision.then = "none" /\ Bare(s))
  PROVE  IInv'
<1>1. Ready(s, [op |-> "continue", seat |-> seat, from |-> "engine"])
  BY DEF Ready
<1> QED
  BY <1>1, Called DEF Go, Procedures, Origins

LEMMA ToWindow ==
  ASSUME NEW s, NEW seat \in Seats \cup {NoSeat}, Go(s, "window", seat),
         Sound(s), Steady(s), Free(s), Asked(s) => s.stack = <<>>,
         s.link # None =>
           s.phase # "reaction" /\ (s.stack = <<>> => s.resume \in CombatResumes)
  PROVE  IInv'
<1>1. Ready(s, [op |-> "window", seat |-> seat, from |-> "engine"])
  BY DEF Ready
<1> QED
  BY <1>1, Called DEF Go, Procedures, Origins

LEMMA ToAdvance ==
  ASSUME NEW s, NEW from \in {"engine", "passes"}, Call(s, "advance", NoSeat, from),
         Sound(s), Steady(s), Free(s), Asked(s) => s.stack = <<>>,
         s.link # None /\ s.stack = <<>> => s.resume \in CombatResumes,
         s.stack # <<>> /\ Announced(Head(s.stack)) => from = "passes"
  PROVE  IInv'
<1>1. Ready(s, [op |-> "advance", seat |-> NoSeat, from |-> from])
  BY DEF Ready
<1> QED
  BY <1>1, Called DEF Procedures, Origins

LEMMA ToQueue ==
  ASSUME NEW s, NEW seat \in Seats \cup {NoSeat}, NEW from \in {"continue", "defer", "finish"},
         Call(s, "queue", seat, from),
         Sound(s), Steady(s), Undecided(s), s.link = None, s.stack = <<>>,
         from \in {"defer", "finish"} => s.decision = Nobody /\ s.resume = "none",
         from = "finish" => Bare(s)
  PROVE  IInv'
<1>1. Ready(s, [op |-> "queue", seat |-> seat, from |-> from])
  BY DEF Ready
<1> QED
  BY <1>1, Called DEF Procedures, Origins

LEMMA ToFinishCard ==
  ASSUME NEW s, NEW seat \in Seats \cup {NoSeat}, Go(s, "finish-card", seat),
         Sound(s), Steady(s), Free(s), s.stack # <<>>
  PROVE  IInv'
<1>1. Ready(s, [op |-> "finish-card", seat |-> seat, from |-> "engine"])
  BY DEF Ready
<1> QED
  BY <1>1, Called DEF Go, Procedures, Origins

LEMMA ToPhantasmGone ==
  ASSUME NEW s, NEW seat \in Seats \cup {NoSeat}, Go(s, "phantasm-gone", seat), Sound(s),
         s.decision = Nobody, s.link = None, s.resume = "none",
         s.phase = "action", s.priority = s.active
  PROVE  IInv'
<1>1. Ready(s, [op |-> "phantasm-gone", seat |-> seat, from |-> "engine"])
  BY DEF Ready
<1> QED
  BY <1>1, Called DEF Go, Procedures, Origins

LEMMA ToAttackStep ==
  ASSUME NEW s, Go(s, "attack-step", NoSeat), Sound(s),
         s.link # None, ~s.link.began, s.phase = "layer",
         s.stack = <<>>, s.resume = "none", s.decision = Nobody
  PROVE  IInv'
<1>1. Ready(s, [op |-> "attack-step", seat |-> NoSeat, from |-> "engine"])
  BY DEF Ready
<1> QED
  BY <1>1, Called DEF Go, Procedures, Origins

LEMMA ToDeclared ==
  ASSUME NEW s, Go(s, "declared", NoSeat), Sound(s), Declared(s), Undecided(s)
  PROVE  IInv'
<1>1. Ready(s, [op |-> "declared", seat |-> NoSeat, from |-> "engine"])
  BY DEF Ready
<1> QED
  BY <1>1, Called DEF Go, Procedures, Origins

LEMMA ToDamage ==
  ASSUME NEW s, NEW from \in Origins, Call(s, "damage", NoSeat, from), Sound(s),
         Fighting(s, {"reaction"}), ~s.link.damaged, Undecided(s)
  PROVE  IInv'
<1>1. Ready(s, [op |-> "damage", seat |-> NoSeat, from |-> from])
  BY DEF Ready
<1> QED
  BY <1>1, Called DEF Procedures

LEMMA ToApplyDamage ==
  ASSUME NEW s, Go(s, "apply-damage", NoSeat), Sound(s),
         Fighting(s, {"reaction"}), s.link.damaged, Undecided(s)
  PROVE  IInv'
<1>1. Ready(s, [op |-> "apply-damage", seat |-> NoSeat, from |-> "engine"])
  BY DEF Ready
<1> QED
  BY <1>1, Called DEF Go, Procedures, Origins

LEMMA ToFinish ==
  ASSUME NEW s, NEW op \in {"finish-damage", "finish-link"}, Go(s, op, NoSeat), Sound(s),
         Fighting(s, {"reaction", "layer"}), Free(s)
  PROVE  IInv'
<1>1. Ready(s, [op |-> op, seat |-> NoSeat, from |-> "engine"])
  BY DEF Ready
<1> QED
  BY <1>1, Called DEF Go, Procedures, Origins

LEMMA ToTurn ==
  ASSUME NEW s, NEW op \in {"end-turn", "bottom", "complete"}, NEW seat \in Seats \cup {NoSeat},
         Go(s, op, seat), Sound(s), s.stack = <<>>, s.link = None, Undecided(s),
         op = "end-turn" => s.resume = "none"
  PROVE  IInv'
<1>1. Ready(s, [op |-> op, seat |-> seat, from |-> "engine"])
  BY DEF Ready
<1> QED
  BY <1>1, Called DEF Go, Procedures, Origins

-----------------------------------------------------------------------------
(* Decisions that are left standing                                          *)

LEMMA AfterFacts ==
  ASSUME NEW s \in States, NEW then \in Thens, NEW seat \in Seats \cup {NoSeat}
  PROVE  /\ Kept(s, After(s, then, seat))
         /\ After(s, then, seat).decision.kind = s.decision.kind
         /\ After(s, then, seat).decision.then = then
         /\ After(s, then, seat).decision.seat = seat
<1>1. PICK d : d = [s.decision EXCEPT !.then = then, !.seat = seat]
  OBVIOUS
<1>2. s.decision \in Decisions
  BY Parts
<1>3. /\ d \in Decisions /\ d.kind = s.decision.kind
      /\ d.then = then /\ d.seat = seat
  BY <1>1, <1>2 DEF Decisions, Thens
<1>4. PICK t : t = [s EXCEPT !.decision = d]
  OBVIOUS
<1>5. After(s, then, seat) = t
  <2>1. PICK e : e = [s.decision EXCEPT !.then = then]
    OBVIOUS
  <2>2. d = [e EXCEPT !.seat = seat]
    BY <1>1, <1>2, <2>1 DEF Decisions
  <2>3. PICK u : u = [s EXCEPT !.decision.then = then]
    OBVIOUS
  <2>4. u = [s EXCEPT !.decision = e]
    BY <2>1, <2>3
  <2>5. u.decision = e
    BY <2>4 DEF States
  <2>6. [u EXCEPT !.decision.seat = seat] = [u EXCEPT !.decision = d]
    BY <2>2, <2>5
  <2>7. [u EXCEPT !.decision = d] = t
    BY <1>4, <2>4 DEF States
  <2>8. After(s, then, seat) = [u EXCEPT !.decision.seat = seat]
    BY <2>3 DEF After
  <2> QED
    BY <2>6, <2>7, <2>8
<1>6. t \in States
  BY <1>3, <1>4 DEF States
<1>7. /\ t.phase = s.phase /\ t.active = s.active /\ t.priority = s.priority
      /\ t.decision = d /\ t.stack = s.stack /\ t.resume = s.resume
      /\ t.passes = s.passes /\ t.link = s.link /\ t.queue = s.queue
      /\ t.ap = s.ap /\ t.owed = s.owed /\ t.fuel = s.fuel
  BY <1>4 DEF States
<1>8. s.fuel <= s.fuel /\ AgainOn(s.queue) <= AgainOn(s.queue)
  BY Numbers
<1>9. Kept(s, t)
  BY <1>6, <1>7, <1>8 DEF Kept, SameFlow, SameLink
<1> QED
  BY <1>3, <1>5, <1>7, <1>9

(* A choice left open needs what its answer will need. *)
LEMMA ChoiceDone ==
  ASSUME NEW s, Done(s), Sound(s), s.decision.kind = "choice",
         Continues(s, s.decision.then), s.decision.then = "reopen" => s.decision.seat \in Seats
  PROVE  IInv'
<1>1. Settled(s)
  BY DEF Settled
<1> QED
  BY <1>1, ToDone

LEMMA AfterDone ==
  ASSUME NEW s, NEW then \in Thens, NEW seat \in Seats \cup {NoSeat},
         Done(After(s, then, seat)), Sound(s), s.decision.kind = "choice",
         Continues(s, then), then = "reopen" => seat \in Seats
  PROVE  IInv'
<1>1. PICK t : t = After(s, then, seat)
  OBVIOUS
<1>2. /\ Kept(s, t) /\ t.decision.kind = "choice"
      /\ t.decision.then = then /\ t.decision.seat = seat
  BY <1>1, AfterFacts DEF Sound
<1>3. Sound(t) /\ Continues(t, then)
  BY <1>2, KeptSound, SameContinues DEF Kept
<1> QED
  BY <1>1, <1>2, <1>3, ChoiceDone

LEMMA AskedIsChoice ==
  ASSUME NEW s, Asked(s), Free(s)
  PROVE  s.decision.kind = "choice"
  BY DEF Asked, Free

(* States with only some parts changed; x stands for the changed values. *)
LEMMA FlowFacts ==
  ASSUME NEW s \in States, NEW phase \in Phases, NEW priority \in Seats, NEW passes \in Passes,
         NEW decision \in Decisions,
         NEW t, t = [s EXCEPT !.phase = phase, !.passes = passes, !.priority = priority,
                              !.decision = decision]
  PROVE  /\ t \in States
         /\ t.phase = phase /\ t.active = s.active /\ t.priority = priority
         /\ t.decision = decision /\ t.stack = s.stack /\ t.resume = s.resume
         /\ t.passes = passes /\ t.link = s.link /\ t.open = s.open /\ t.queue = s.queue
         /\ t.pending = s.pending /\ t.ap = s.ap /\ t.owed = s.owed /\ t.fuel = s.fuel
  BY DEF States

LEMMA SameOwes ==
  ASSUME NEW s, NEW t, Owes(s), t.ap = s.ap, t.owed = s.owed, t.fuel = s.fuel,
         AgainOn(t.stack) = AgainOn(s.stack), AgainOn(t.queue) = AgainOn(s.queue),
         Unpaid(t.link) = Unpaid(s.link), t.resume = s.resume
  PROVE  Owes(t)
  BY DEF Owes

(* A window may stand over a stack, and over a step that opens one. *)
LEMMA WindowDone ==
  ASSUME NEW s, NEW seat \in Seats, NEW passes \in {0, 1}, Done(OpenWindow(s, seat, passes)),
         Sound(s), Resumable(s), s.stack # <<>> \/ s.resume \in WindowSteps
  PROVE  IInv'
<1>1. PICK t : t = OpenWindow(s, seat, passes)
  OBVIOUS
<1>2. s \in States /\ Combat(s) /\ Owes(s)
  BY DEF Sound
<1>3. /\ t \in States
      /\ t.phase = "layer" /\ t.active = s.active /\ t.priority = seat
      /\ t.decision = Prompt("window", seat) /\ t.stack = s.stack /\ t.resume = s.resume
      /\ t.passes = passes /\ t.link = s.link /\ t.queue = s.queue
      /\ t.ap = s.ap /\ t.owed = s.owed /\ t.fuel = s.fuel
  <2>1. "layer" \in Phases /\ passes \in Passes /\ Prompt("window", seat) \in Decisions
    BY Opened DEF Phases, Passes
  <2>2. t = [s EXCEPT !.phase = "layer", !.passes = passes, !.priority = seat,
                      !.decision = Prompt("window", seat)]
    BY <1>1 DEF OpenWindow
  <2> QED
    BY <1>2, <2>1, <2>2 DEF States
<1>4. Prompt("window", seat).kind = "window" /\ Prompt("window", seat).player = seat
  BY Opened
<1>5. Combat(t)
  BY <1>2, <1>3 DEF Combat
<1>6. Unannounced(t)
  BY <1>3 DEF Unannounced, GivesPriority
<1>7. Sound(t)
  BY <1>2, <1>3, <1>5, <1>6, SameOwes DEF Sound
<1>8. Steady(t)
  BY <1>3 DEF Steady, Resumable
<1>9. Settled(t)
  BY <1>3, <1>4, <1>8 DEF Settled
<1> QED
  BY <1>1, <1>7, <1>9, ToDone

(* Reactions are open while damage is still to come. *)
LEMMA ReactionsDone ==
  ASSUME NEW s, NEW seat \in Seats, Done(OpenReactions(s, seat)), Sound(s),
         s.link # None, s.link.began, ~s.link.damaged, s.resume = "none"
  PROVE  IInv'
<1>1. PICK t : t = OpenReactions(s, seat)
  OBVIOUS
<1>2. s \in States /\ Combat(s) /\ Owes(s)
  BY DEF Sound
<1>3. /\ t \in States
      /\ t.phase = "reaction" /\ t.active = s.active /\ t.priority = seat
      /\ t.decision = Prompt("reaction", seat) /\ t.stack = s.stack /\ t.resume = s.resume
      /\ t.passes = 0 /\ t.link = s.link /\ t.queue = s.queue
      /\ t.ap = s.ap /\ t.owed = s.owed /\ t.fuel = s.fuel
  <2>1. "reaction" \in Phases /\ 0 \in Passes /\ Prompt("reaction", seat) \in Decisions
    BY Opened DEF Phases, Passes
  <2>2. t = [s EXCEPT !.phase = "reaction", !.passes = 0, !.priority = seat,
                      !.decision = Prompt("reaction", seat)]
    BY <1>1 DEF OpenReactions
  <2> QED
    BY <1>2, <2>1, <2>2 DEF States
<1>4. Prompt("reaction", seat).kind = "reaction" /\ Prompt("reaction", seat).player = seat
  BY Opened
<1>5. Combat(t)
  BY <1>2, <1>3 DEF Combat, CombatResumes
<1>6. Unannounced(t)
  BY <1>3 DEF Unannounced, GivesPriority
<1>7. Sound(t)
  BY <1>2, <1>3, <1>5, <1>6, SameOwes DEF Sound
<1>8. Steady(t)
  BY <1>3 DEF Steady, Resumable
<1>9. Settled(t)
  BY <1>3, <1>4, <1>8 DEF Settled
<1> QED
  BY <1>1, <1>7, <1>9, ToDone

(* A player who acted keeps the window. *)
LEMMA HeldDone ==
  ASSUME NEW s, NEW kind \in {"window", "reaction"}, NEW seat \in Seats,
         Done(HoldWindow(s, kind, seat)), Sound(s), Steady(s),
         kind = "window" => s.phase = "layer" /\ s.stack # <<>>,
         kind = "reaction" => s.phase = "reaction" /\ s.link # None
  PROVE  IInv'
<1>1. PICK t : t = HoldWindow(s, kind, seat)
  OBVIOUS
<1>2. s \in States /\ Combat(s) /\ Owes(s) /\ Unannounced(s)
  BY DEF Sound
<1>3. /\ t \in States
      /\ t.phase = s.phase /\ t.active = s.active /\ t.priority = seat
      /\ t.decision = Prompt(kind, seat) /\ t.stack = s.stack /\ t.resume = s.resume
      /\ t.passes = 0 /\ t.link = s.link /\ t.queue = s.queue
      /\ t.ap = s.ap /\ t.owed = s.owed /\ t.fuel = s.fuel
  <2>1. 0 \in Passes /\ Prompt(kind, seat) \in Decisions
    BY Opened DEF Passes
  <2>2. t = [s EXCEPT !.passes = 0, !.priority = seat, !.decision = Prompt(kind, seat)]
    BY <1>1 DEF HoldWindow
  <2> QED
    BY <1>2, <2>1, <2>2 DEF States
<1>4. Prompt(kind, seat).kind = kind /\ Prompt(kind, seat).player = seat
  BY Opened
<1>5. Combat(t)
  BY <1>2, <1>3 DEF Combat
<1>6. Unannounced(t)
  BY <1>2, <1>3 DEF Unannounced
<1>7. Sound(t)
  BY <1>2, <1>3, <1>5, <1>6, SameOwes DEF Sound
<1>8. Steady(t)
  BY <1>3 DEF Steady, Resumable
<1>9. Settled(t)
  BY <1>3, <1>4, <1>8 DEF Settled
<1> QED
  BY <1>1, <1>7, <1>9, ToDone

(* Back in the action phase, with nothing under way. *)
LEMMA ToActionFacts ==
  ASSUME NEW s \in States
  PROVE  /\ ToAction(s) \in States
         /\ ToAction(s).phase = "action" /\ ToAction(s).active = s.active
         /\ ToAction(s).priority = s.active /\ ToAction(s).decision = s.decision
         /\ ToAction(s).stack = s.stack /\ ToAction(s).resume = s.resume
         /\ ToAction(s).passes = s.passes /\ ToAction(s).link = s.link
         /\ ToAction(s).open = s.open /\ ToAction(s).queue = s.queue
         /\ ToAction(s).pending = s.pending /\ ToAction(s).ap = s.ap
         /\ ToAction(s).owed = s.owed /\ ToAction(s).fuel = s.fuel
<1>1. "action" \in Phases /\ s.active \in Seats
  BY Parts DEF Phases
<1> QED
  BY <1>1 DEF ToAction, States

LEMMA ToActionSound ==
  ASSUME NEW s, Sound(s), s.link = None
  PROVE  Sound(ToAction(s))
<1>1. PICK t : t = ToAction(s)
  OBVIOUS
<1>2. s \in States /\ Combat(s) /\ Owes(s)
  BY DEF Sound
<1>3. /\ t \in States
      /\ t.phase = "action" /\ t.stack = s.stack /\ t.resume = s.resume
      /\ t.link = s.link /\ t.queue = s.queue
      /\ t.ap = s.ap /\ t.owed = s.owed /\ t.fuel = s.fuel
  BY <1>1, <1>2, ToActionFacts
<1>4. Combat(t)
  BY <1>2, <1>3 DEF Combat
<1>5. Unannounced(t)
  BY <1>3 DEF Unannounced, GivesPriority
<1> QED
  BY <1>1, <1>2, <1>3, <1>4, <1>5, SameOwes DEF Sound

LEMMA ActionDone ==
  ASSUME NEW s, Done(ToAction(s)), Sound(s), s.link = None, s.stack = <<>>,
         s.resume \in {"none", "begin-action"}, s.decision = Nobody \/ s.decision = Choice
  PROVE  IInv'
<1>1. PICK t : t = ToAction(s)
  OBVIOUS
<1>2. /\ t.phase = "action" /\ t.priority = t.active /\ t.stack = <<>>
      /\ t.resume \in {"none", "begin-action"} /\ t.link = None /\ t.decision = s.decision
  BY <1>1, ToActionFacts DEF Sound
<1>3. Bare(t)
  BY <1>2 DEF Bare
<1>4. Settled(t)
  <2>1. CASE s.decision = Nobody
    BY <1>2, <1>3, <2>1, Opened DEF Settled
  <2>2. CASE s.decision = Choice
    BY <1>2, <1>3, <2>2, Opened DEF Settled, Continues
  <2> QED
    BY <2>1, <2>2
<1> QED
  BY <1>1, <1>4, ToDone, ToActionSound

-----------------------------------------------------------------------------
(* Layers that are placed on the stack                                       *)

Pendings == [Seats -> Seq(Raised)]

LEMMA TogetherFacts ==
  ASSUME NEW p \in Pendings, NEW q \in Pendings
  PROVE  Together(p, q) \in Pendings
<1>1. \A seat \in Seats : p[seat] \o q[seat] \in Seq(Raised)
  BY ConcatProperties DEF Pendings
<1> QED
  BY <1>1 DEF Together, Pendings

LEMMA OneTriggerFacts ==
  /\ Nothing \in Pendings /\ OneTrigger \subseteq Pendings
  /\ \A p \in Pendings, kind \in {"trigger", "phantasm"}, seat \in Seats :
       /\ Raise(p, kind, seat) \in Pendings
       /\ Raise(p, kind, seat)[seat] # <<>>
<1>1. Nothing \in Pendings
  BY NothingFacts DEF Pendings
<1>2. ASSUME NEW p \in Pendings, NEW kind \in {"trigger", "phantasm"}, NEW seat \in Seats
      PROVE  Raise(p, kind, seat) \in Pendings /\ Raise(p, kind, seat)[seat] # <<>>
  <2>1. Raise(p, kind, seat) \in Pendings
    BY RaiseFacts DEF Pendings
  <2>2. p[seat] \in Seq(Raised) /\ Layer(kind, seat, FALSE) \in Raised
    BY DEF Pendings, Layer, Raised
  <2>3. Len(Append(p[seat], Layer(kind, seat, FALSE))) = Len(p[seat]) + 1 /\ Len(p[seat]) \in Nat
    BY <2>2, AppendProperties, LenProperties
  <2>4. Append(p[seat], Layer(kind, seat, FALSE)) # <<>>
    <3>1. PICK a : a = Append(p[seat], Layer(kind, seat, FALSE))
      OBVIOUS
    <3>2. a = <<>> => Len(a) = 0
      OBVIOUS
    <3>3. Len(a) # 0
      BY <2>3, <3>1
    <3> QED
      BY <3>1, <3>2, <3>3
  <2>5. Raise(p, kind, seat)[seat] = Append(p[seat], Layer(kind, seat, FALSE))
    BY DEF Raise, Pendings
  <2> QED
    BY <2>1, <2>4, <2>5
<1> QED
  BY <1>1, <1>2 DEF OneTrigger

LEMMA InOrder ==
  ASSUME NEW s \in States, NEW p \in Pendings
  PROVE  InTurnOrder(s, p) \in Seq(Raised) /\ (p[s.active] # <<>> => InTurnOrder(s, p) # <<>>)
<1>1. s.active \in Seats /\ Opp(s.active) \in Seats
  BY Parts, Opened
<1>2. p[s.active] \in Seq(Raised) /\ p[Opp(s.active)] \in Seq(Raised)
  BY <1>1 DEF Pendings
<1> HIDE DEF Pendings
<1>3. PICK x, y : x = p[s.active] /\ y = p[Opp(s.active)]
  OBVIOUS
<1>4. x \o y \in Seq(Raised) /\ Len(x \o y) = Len(x) + Len(y) /\ Len(x) \in Nat /\ Len(y) \in Nat
  BY <1>2, <1>3, ConcatProperties, LenProperties
<1>5. x # <<>> => x \o y # <<>>
  <2>1. x # <<>> => Len(x) # 0
    BY <1>2, <1>3, EmptySeq
  <2>2. x \o y = <<>> => Len(x \o y) = 0
    OBVIOUS
  <2> QED
    BY <1>4, <2>1, <2>2
<1> QED
  BY <1>3, <1>4, <1>5 DEF InTurnOrder

(* Raised layers, placed above or below a stack, announce nothing and have no
   go again. *)
LEMMA Onto ==
  ASSUME NEW k \in Seq(Raised), NEW q \in Seq(Layers), NEW t, t = k \o q \/ t = q \o k
  PROVE  /\ t \in Seq(Layers) /\ AgainOn(t) = AgainOn(q)
         /\ (\A i \in 1 .. Len(q) : ~Announced(q[i])) => \A i \in 1 .. Len(t) : ~Announced(t[i])
         /\ q # <<>> => t # <<>>
         /\ k # <<>> => t # <<>>
<1>1. Len(k) \in Nat /\ Len(q) \in Nat /\ \A i \in 1 .. Len(k) : k[i] \in Raised
  BY LenProperties, ElementOfSeq
<1>2. Raised \subseteq Layers /\ \A r \in Raised : ~r.again /\ ~Announced(r)
  BY DEF Raised, Layers, LayerKinds, Announced
<1>3. k \in Seq(Layers) /\ AgainOn(k) = 0
  <2>1. k \in Seq(Layers)
    <3>1. k \in [1 .. Len(k) -> Raised]
      BY LenProperties
    <3>2. k \in [1 .. Len(k) -> Layers]
      BY <1>2, <3>1
    <3> QED
      BY <1>1, <3>2, SeqDef
  <2> QED
    BY <1>1, <1>2, <2>1, AgainCounts
<1>4. AgainOn(q) \in Nat
  BY AgainCounts
<1>5. t \in Seq(Layers) /\ AgainOn(t) = AgainOn(q) /\ Len(t) = Len(k) + Len(q)
  <2>1. CASE t = k \o q
    <3>1. AgainOn(t) = AgainOn(k) + AgainOn(q)
      BY <1>3, <2>1, AgainTogether
    <3> QED
      BY <1>1, <1>3, <1>4, <2>1, <3>1, ConcatProperties
  <2>2. CASE t = q \o k
    <3>1. AgainOn(t) = AgainOn(q) + AgainOn(k)
      BY <1>3, <2>2, AgainTogether
    <3>2. t \in Seq(Layers) /\ Len(t) = Len(q) + Len(k)
      BY <1>3, <2>2, ConcatProperties
    <3> QED
      BY <1>1, <1>3, <1>4, <3>1, <3>2
  <2> QED
    BY <2>1, <2>2
<1>6. ASSUME \A i \in 1 .. Len(q) : ~Announced(q[i]), NEW i \in 1 .. Len(t)
      PROVE  ~Announced(t[i])
  <2>1. (\E j \in 1 .. Len(k) : t[i] = k[j]) \/ \E j \in 1 .. Len(q) : t[i] = q[j]
    <3>1. CASE t = k \o q
      <4>1. t[i] = IF i <= Len(k) THEN k[i] ELSE q[i - Len(k)]
        BY <1>3, <1>5, <3>1, ConcatProperties
      <4>2. i <= Len(k) => i \in 1 .. Len(k)
        BY <1>1
      <4>3. ~(i <= Len(k)) => i - Len(k) \in 1 .. Len(q)
        BY <1>1, <1>5
      <4> QED
        BY <4>1, <4>2, <4>3
    <3>2. CASE t = q \o k
      <4>1. t[i] = IF i <= Len(q) THEN q[i] ELSE k[i - Len(q)]
        <5>1. Len(t) = Len(q) + Len(k)
          BY <1>1, <1>5
        <5> QED
          BY <1>3, <3>2, <5>1, ConcatProperties
      <4>2. i <= Len(q) => i \in 1 .. Len(q)
        BY <1>1
      <4>3. ~(i <= Len(q)) => i - Len(q) \in 1 .. Len(k)
        BY <1>1, <1>5
      <4> QED
        BY <4>1, <4>2, <4>3
    <3> QED
      BY <3>1, <3>2
  <2> QED
    BY <1>1, <1>2, <1>6, <2>1
<1>7. (q # <<>> => t # <<>>) /\ (k # <<>> => t # <<>>)
  <2>1. (q # <<>> => Len(q) # 0) /\ (k # <<>> => Len(k) # 0)
    BY EmptySeq
  <2>2. t = <<>> => Len(t) = 0
    OBVIOUS
  <2> QED
    BY <1>1, <1>5, <2>1, <2>2
<1> QED
  BY <1>5, <1>6, <1>7

(* Only the stack and the waiting layers differ. *)
Placed(s, t) ==
  /\ t \in States
  /\ t.phase = s.phase /\ t.active = s.active /\ t.priority = s.priority
  /\ t.decision = s.decision /\ t.resume = s.resume /\ t.passes = s.passes
  /\ t.link = s.link /\ t.open = s.open /\ t.queue = s.queue
  /\ t.ap = s.ap /\ t.owed = s.owed /\ t.fuel = s.fuel
  /\ AgainOn(t.stack) = AgainOn(s.stack)
  /\ Unannounced(s) => Unannounced(t)
  /\ s.stack # <<>> => t.stack # <<>>

LEMMA PlacedSound ==
  ASSUME NEW s, NEW t, Sound(s), Placed(s, t)
  PROVE  Sound(t) /\ (Resumable(s) => Resumable(t))
<1>1. t \in States /\ Unannounced(t)
  BY DEF Sound, Placed
<1>2. Combat(t)
  BY DEF Sound, Combat, Placed
<1>3. Owes(t)
  BY SameOwes DEF Sound, Placed
<1>4. Resumable(s) => Resumable(t)
  BY DEF Resumable, Placed
<1> QED
  BY <1>1, <1>2, <1>3, <1>4 DEF Sound

LEMMA PlaceFacts ==
  ASSUME NEW s \in States, NEW k \in Seq(Raised), NEW t,
         \/ t = [s EXCEPT !.stack = k \o @]
         \/ t = [s EXCEPT !.stack = @ \o k]
         \/ t = [s EXCEPT !.pending = Nothing, !.stack = k \o @]
         \/ t = [s EXCEPT !.pending = Nothing, !.stack = @ \o k]
  PROVE  Placed(s, t) /\ (k # <<>> => t.stack # <<>>)
<1>1. s.stack \in Seq(Layers) /\ Nothing \in [Seats -> Seq(Raised)] /\ s.pending \in [Seats -> Seq(Raised)]
  BY Parts, NothingFacts
<1>2. PICK q : /\ q = k \o s.stack \/ q = s.stack \o k
               /\ t = [s EXCEPT !.stack = q] \/ t = [s EXCEPT !.pending = Nothing, !.stack = q]
  <2>1. CASE t = [s EXCEPT !.stack = k \o @]
    BY <2>1
  <2>2. CASE t = [s EXCEPT !.stack = @ \o k]
    BY <2>2
  <2>3. CASE t = [s EXCEPT !.pending = Nothing, !.stack = k \o @]
    BY <2>3
  <2>4. CASE t = [s EXCEPT !.pending = Nothing, !.stack = @ \o k]
    BY <2>4
  <2> QED
    BY <2>1, <2>2, <2>3, <2>4
<1>3. /\ q \in Seq(Layers) /\ AgainOn(q) = AgainOn(s.stack)
      /\ (\A i \in 1 .. Len(s.stack) : ~Announced(s.stack[i]))
           => \A i \in 1 .. Len(q) : ~Announced(q[i])
      /\ s.stack # <<>> => q # <<>>
      /\ k # <<>> => q # <<>>
  BY <1>1, <1>2, Onto
<1>4. t \in States
  BY <1>1, <1>2, <1>3 DEF States
<1>5. /\ t.phase = s.phase /\ t.active = s.active /\ t.priority = s.priority
      /\ t.decision = s.decision /\ t.resume = s.resume /\ t.passes = s.passes
      /\ t.link = s.link /\ t.open = s.open /\ t.queue = s.queue
      /\ t.ap = s.ap /\ t.owed = s.owed /\ t.fuel = s.fuel /\ t.stack = q
  BY <1>2 DEF States
<1>6. Unannounced(s) => Unannounced(t)
  BY <1>3, <1>5 DEF Unannounced
<1> QED
  BY <1>3, <1>4, <1>5, <1>6 DEF Placed

LEMMA PlacementsFacts ==
  ASSUME NEW s \in States, NEW new \in Pendings, NEW t \in Placements(s, new)
  PROVE  Placed(s, t)
<1>1. s.pending \in Pendings
  BY Parts DEF Pendings
<1>2. <<>> \in Seq(Raised) /\ InTurnOrder(s, Together(s.pending, new)) \in Seq(Raised)
  BY <1>1, TogetherFacts, InOrder, EmptySeq
<1>3. PICK k \in Seq(Raised) : t = [s EXCEPT !.pending = Nothing, !.stack = k \o @]
  BY <1>2 DEF Placements
<1> QED
  BY <1>3, PlaceFacts

LEMMA QueueingsFacts ==
  ASSUME NEW s \in States, NEW new \in Pendings, NEW resume \in Resumes,
         NEW t \in Queueings(s, new, resume)
  PROVE  Placed([s EXCEPT !.resume = resume], t)
<1>1. PICK r : r = [s EXCEPT !.resume = resume]
  OBVIOUS
<1>2. r \in States
  BY <1>1 DEF States
<1>3. CASE s.pending = Nothing
  <2>1. <<>> \in Seq(Raised) /\ InTurnOrder(s, new) \in Seq(Raised)
    BY InOrder, EmptySeq
  <2>2. PICK k \in {<<>>, InTurnOrder(s, new)} : t = [r EXCEPT !.stack = @ \o k]
    BY <1>1, <1>3 DEF Queueings
  <2> QED
    BY <1>1, <1>2, <2>1, <2>2, PlaceFacts
<1>4. CASE s.pending # Nothing
  <2>1. t \in Placements(r, new)
    BY <1>1, <1>4 DEF Queueings
  <2> QED
    BY <1>1, <1>2, <2>1, PlacementsFacts
<1> QED
  BY <1>3, <1>4

(* Once layers are placed there is a window, or the engine goes on. *)
LEMMA OpenPlacedStep ==
  ASSUME NEW s, OpenPlaced(s), Sound(s), Resumable(s),
         Undecided(s) \/ (s.stack # <<>> /\ GivesPriority(s.phase))
  PROVE  IInv'
<1>1. s.active \in Seats
  BY Parts DEF Sound
<1>2. CASE s.stack # <<>> /\ GivesPriority(s.phase)
  <2>1. Done(OpenWindow(s, s.active, 0))
    BY <1>2 DEF OpenPlaced
  <2> QED
    BY <1>1, <1>2, <2>1, WindowDone
<1>3. CASE ~(s.stack # <<>> /\ GivesPriority(s.phase))
  <2>1. Go(s, "continue", NoSeat)
    BY <1>3 DEF OpenPlaced
  <2>2. Steady(s)
    BY <1>3 DEF Steady, GivesPriority
  <2>3. Free(s) /\ ~Asked(s)
    BY <1>3 DEF Undecided
  <2> QED
    BY <2>1, <2>2, <2>3, ToContinue
<1> QED
  BY <1>2, <1>3

LEMMA PlacedStep ==
  ASSUME NEW s, NEW t, Sound(s), Resumable(s), Undecided(s), Placed(s, t), OpenPlaced(t)
  PROVE  IInv'
<1>1. Sound(t) /\ Resumable(t)
  BY PlacedSound
<1>2. Undecided(t)
  BY DEF Undecided, Free, Asked, Placed
<1> QED
  BY <1>1, <1>2, OpenPlacedStep

LEMMA PlacePendingStep ==
  ASSUME NEW s, PlacePending(s), Sound(s), Resumable(s), Undecided(s)
  PROVE  IInv'
<1>1. PICK t \in Placements(s, Nothing) : OpenPlaced(t)
  BY DEF PlacePending
<1>2. Placed(s, t)
  BY <1>1, PlacementsFacts, OneTriggerFacts DEF Sound
<1> QED
  BY <1>1, <1>2, PlacedStep

LEMMA QueueTriggeredStep ==
  ASSUME NEW s \in States, NEW new \in Pendings, NEW resume \in Resumes,
         QueueTriggered(s, new, resume),
         NEW r, r = [s EXCEPT !.resume = resume], Sound(r), Resumable(r), Undecided(r)
  PROVE  IInv'
<1>1. PICK t \in Queueings(s, new, resume) : OpenPlaced(t)
  BY DEF QueueTriggered
<1>2. Placed(r, t)
  BY <1>1, QueueingsFacts
<1> QED
  BY <1>1, <1>2, PlacedStep
-----------------------------------------------------------------------------
(* What the procedures have in common                                        *)

LEMMA Now ==
  ASSUME IInv
  PROVE  /\ Sound(state) /\ Ready(state, call) /\ state \in States
         /\ Combat(state) /\ Unannounced(state) /\ Owes(state)
         /\ call.seat \in Seats \cup {NoSeat} /\ call.from \in Origins
         /\ state.active \in Seats /\ state.priority \in Seats
         /\ Opp(state.active) \in Seats /\ Opp(state.priority) \in Seats
<1>1. Sound(state) /\ Ready(state, call) /\ call \in Calls
  BY DEF IInv, Good
<1>2. state \in States /\ Combat(state) /\ Unannounced(state) /\ Owes(state)
  BY <1>1 DEF Sound
<1>3. call.seat \in Seats \cup {NoSeat} /\ call.from \in Origins
  BY <1>1 DEF Calls, Origins
<1> QED
  BY <1>1, <1>2, <1>3, Parts, Opened

LEMMA KeptTwice ==
  ASSUME NEW s \in States, NEW t, NEW u, Kept(s, t), Kept(t, u)
  PROVE  Kept(s, u)
<1>1. SameFlow(s, u)
  BY DEF Kept, SameFlow, SameLink
<1>2. t \in States /\ u \in States
  BY DEF Kept
<1>3. /\ s.fuel \in Nat /\ t.fuel \in Nat /\ u.fuel \in Nat
      /\ AgainOn(s.queue) \in Nat /\ AgainOn(t.queue) \in Nat /\ AgainOn(u.queue) \in Nat
  BY <1>2, Numbers
<1>4. /\ u.fuel <= t.fuel /\ t.fuel <= s.fuel
      /\ AgainOn(u.queue) <= AgainOn(t.queue) /\ AgainOn(t.queue) <= AgainOn(s.queue)
      /\ u.ap = s.ap /\ u.owed = s.owed
  BY DEF Kept
<1> QED
  BY <1>1, <1>2, <1>3, <1>4 DEF Kept

LEMMA SameResumable ==
  ASSUME NEW s, NEW t, SameFlow(s, t)
  PROVE  /\ Resumable(s) <=> Resumable(t)
         /\ s.link = None <=> t.link = None
         /\ s.link # None => /\ t.link.began = s.link.began /\ t.link.damaged = s.link.damaged
                             /\ t.link.again = s.link.again
                             /\ t.link.resolving = s.link.resolving
  BY DEF Resumable, SameFlow, SameLink

LEMMA SettledKept ==
  ASSUME NEW s, NEW t, SameFlow(s, t), t.decision = s.decision, s.decision \in Decisions, Settled(s)
  PROVE  Settled(t)
<1>1. (Steady(s) <=> Steady(t)) /\ (Bare(s) <=> Bare(t))
  BY SameFits
<1>2. /\ t.phase = s.phase /\ t.active = s.active /\ t.priority = s.priority
      /\ t.stack = s.stack /\ t.resume = s.resume /\ t.passes = s.passes
      /\ t.link = None <=> s.link = None
      /\ s.link # None => t.link.began = s.link.began /\ t.link.damaged = s.link.damaged
  BY DEF SameFlow, SameLink
<1>3. CASE s.decision.kind \in {"none", "window", "reaction"}
  BY <1>1, <1>2, <1>3 DEF Settled
<1>4. CASE s.decision.kind \in {"defend", "optional", "arsenal", "pitch"}
  BY <1>1, <1>2, <1>4 DEF Settled
<1>5. CASE s.decision.kind = "choice"
  <2>1. s.decision.then \in Thens
    BY DEF Decisions, Thens
  <2>2. Continues(t, s.decision.then)
    BY <1>5, <2>1, SameContinues DEF Settled
  <2> QED
    BY <1>5, <2>2 DEF Settled
<1> QED
  BY <1>3, <1>4, <1>5 DEF Decisions

(* The action point of the turn is no longer due, or never was. *)
LEMMA OwesOn ==
  ASSUME NEW s \in States, NEW t, Owes(s), t.ap = s.ap, t.owed = s.owed, t.fuel = s.fuel,
         AgainOn(t.stack) = AgainOn(s.stack), AgainOn(t.queue) = AgainOn(s.queue),
         Unpaid(t.link) = Unpaid(s.link), t.resume # "begin-action-phase"
  PROVE  Owes(t)
<1>1. /\ s.ap + AgainOn(s.stack) + AgainOn(s.queue) + Unpaid(s.link) + Due(s.resume) <= s.owed
      /\ s.owed + s.fuel <= Budget + 1
  BY DEF Owes
<1>2. Due(t.resume) = 0
  BY DEF Due
<1>3. PICK n \in Nat, d \in Nat : /\ d = Due(s.resume)
                                 /\ n = s.ap + AgainOn(s.stack) + AgainOn(s.queue) + Unpaid(s.link)
  <2>1. /\ s.ap \in Nat /\ AgainOn(s.stack) \in Nat /\ AgainOn(s.queue) \in Nat
        /\ Unpaid(s.link) \in Nat /\ Due(s.resume) \in Nat
    BY Numbers
  <2>2. s.ap + AgainOn(s.stack) + AgainOn(s.queue) + Unpaid(s.link) \in Nat
    BY <2>1
  <2> QED
    BY <2>1, <2>2
<1>4. s.owed \in Nat
  BY Numbers
<1>5. n + 0 <= s.owed
  BY <1>1, <1>3, <1>4
<1> QED
  BY <1>1, <1>2, <1>3, <1>5 DEF Owes

(* What is owed and what the cards may still do does not grow, nor what is paid
   beyond it. *)
LEMMA OwesLess ==
  ASSUME NEW s \in States, NEW t \in States, Owes(s), t.owed + t.fuel <= s.owed + s.fuel,
         t.ap + AgainOn(t.stack) + AgainOn(t.queue) + Unpaid(t.link) + Due(t.resume) + s.owed
           <= s.ap + AgainOn(s.stack) + AgainOn(s.queue) + Unpaid(s.link) + Due(s.resume) + t.owed
  PROVE  Owes(t)
<1> DEFINE x == s.ap + AgainOn(s.stack) + AgainOn(s.queue) + Unpaid(s.link) + Due(s.resume)
           y == t.ap + AgainOn(t.stack) + AgainOn(t.queue) + Unpaid(t.link) + Due(t.resume)
<1>1. x <= s.owed /\ s.owed + s.fuel <= Budget + 1
  BY DEF Owes
<1>2. /\ x \in Nat /\ y \in Nat /\ s.owed \in Nat /\ t.owed \in Nat
      /\ s.fuel \in Nat /\ t.fuel \in Nat /\ Budget \in Nat
  <2>1. /\ s.ap \in Nat /\ AgainOn(s.stack) \in Nat /\ AgainOn(s.queue) \in Nat
        /\ Unpaid(s.link) \in Nat /\ Due(s.resume) \in Nat
    BY Numbers
  <2>2. /\ t.ap \in Nat /\ AgainOn(t.stack) \in Nat /\ AgainOn(t.queue) \in Nat
        /\ Unpaid(t.link) \in Nat /\ Due(t.resume) \in Nat
    BY Numbers
  <2>3. x \in Nat
    BY <2>1
  <2>4. y \in Nat
    BY <2>2
  <2> QED
    BY <2>3, <2>4, Numbers
<1>3. y + s.owed <= x + t.owed
  OBVIOUS
<1> HIDE DEF x, y
<1>4. y <= t.owed /\ t.owed + t.fuel <= Budget + 1
  BY <1>1, <1>2, <1>3
<1> QED
  BY <1>4 DEF Owes, y

(* A choice left open, or the bare action phase. *)
LEMMA AfterRest ==
  ASSUME NEW s, NEW then \in Thens, NEW seat \in Seats \cup {NoSeat},
         NEW op \in {"idle", "settle"}, Go(After(s, then, seat), op, NoSeat),
         Sound(s), s.decision.kind = "choice",
         Continues(s, then), then = "reopen" => seat \in Seats
  PROVE  IInv'
<1>1. PICK t : t = After(s, then, seat)
  OBVIOUS
<1>2. /\ Kept(s, t) /\ t.decision.kind = "choice"
      /\ t.decision.then = then /\ t.decision.seat = seat
  BY <1>1, AfterFacts DEF Sound
<1>3. Sound(t) /\ Continues(t, then)
  BY <1>2, KeptSound, SameContinues DEF Kept
<1>4. Settled(t)
  BY <1>2, <1>3 DEF Settled
<1> QED
  BY <1>1, <1>3, <1>4, ToRest

LEMMA BareDone ==
  ASSUME NEW s, Done(s), Sound(s), Bare(s),
         s.decision.kind = "none" \/ (s.decision.kind = "choice" /\ s.decision.then = "none")
  PROVE  IInv'
<1>1. Settled(s)
  BY DEF Settled, Continues
<1> QED
  BY <1>1, ToDone

(* The stack is empty and its step is taken up. *)
LEMMA EmptiedFacts ==
  ASSUME Sound(state)
  PROVE  /\ Sound(Emptied) /\ Emptied \in States
         /\ Emptied.decision = Nobody /\ Emptied.resume = "none"
         /\ Emptied.phase = state.phase /\ Emptied.active = state.active
         /\ Emptied.priority = state.priority /\ Emptied.stack = state.stack
         /\ Emptied.link = state.link /\ Emptied.open = state.open
         /\ Emptied.queue = state.queue /\ Emptied.pending = state.pending
         /\ Emptied.ap = state.ap /\ Emptied.owed = state.owed /\ Emptied.fuel = state.fuel
<1>1. PICK t : t = Emptied
  OBVIOUS
<1>2. state \in States /\ Combat(state) /\ Unannounced(state) /\ Owes(state)
  BY DEF Sound
<1>3. /\ t \in States /\ t.decision = Nobody /\ t.resume = "none"
      /\ t.phase = state.phase /\ t.active = state.active /\ t.priority = state.priority
      /\ t.stack = state.stack /\ t.link = state.link /\ t.open = state.open
      /\ t.queue = state.queue /\ t.pending = state.pending
      /\ t.ap = state.ap /\ t.owed = state.owed /\ t.fuel = state.fuel
  <2>1. "none" \in Resumes
    BY DEF Resumes
  <2> QED
    BY <1>1, <1>2, <2>1, Opened DEF Emptied, States
<1>4. Combat(t)
  BY <1>2, <1>3 DEF Combat, CombatResumes
<1>5. Unannounced(t)
  BY <1>2, <1>3 DEF Unannounced
<1>6. Owes(t)
  <2>1. Due(t.resume) = 0 /\ Due(state.resume) \in Nat
    BY <1>3 DEF Due
  <2> QED
    BY <1>2, <1>3, <2>1, Numbers DEF Owes
<1> QED
  BY <1>1, <1>2, <1>3, <1>4, <1>5, <1>6 DEF Sound

(* The top layer leaves the stack. *)
LEMMA PoppedFacts ==
  ASSUME NEW s, NEW t, Sound(s), s.stack # <<>>, t = [s EXCEPT !.stack = Tail(@)]
  PROVE  /\ Sound(t) /\ (Steady(s) => Steady(t))
         /\ Head(s.stack) \in Layers /\ Head(s.stack).seat \in Seats
         /\ t.phase = s.phase /\ t.active = s.active /\ t.priority = s.priority
         /\ t.decision = s.decision /\ t.stack = Tail(s.stack) /\ t.resume = s.resume
         /\ t.passes = s.passes /\ t.link = s.link /\ t.open = s.open /\ t.queue = s.queue
         /\ t.pending = s.pending /\ t.ap = s.ap /\ t.owed = s.owed /\ t.fuel = s.fuel
         /\ AgainOn(s.stack) = Own(Head(s.stack)) + AgainOn(t.stack)
<1>1. s \in States /\ Combat(s) /\ Unannounced(s) /\ Owes(s) /\ s.stack \in Seq(Layers)
  BY Parts DEF Sound
<1>2. PICK q : q = Tail(s.stack)
  OBVIOUS
<1>3. /\ q \in Seq(Layers) /\ Head(s.stack) \in Layers
      /\ AgainOn(s.stack) = Own(Head(s.stack)) + AgainOn(q)
  BY <1>1, <1>2, HeadTailProperties, AgainFirst
<1>4. /\ t \in States
      /\ t.phase = s.phase /\ t.active = s.active /\ t.priority = s.priority
      /\ t.decision = s.decision /\ t.stack = q /\ t.resume = s.resume
      /\ t.passes = s.passes /\ t.link = s.link /\ t.open = s.open /\ t.queue = s.queue
      /\ t.pending = s.pending /\ t.ap = s.ap /\ t.owed = s.owed /\ t.fuel = s.fuel
  <2>1. t = [s EXCEPT !.stack = q]
    BY <1>2
  <2> QED
    BY <1>1, <1>3, <2>1 DEF States
<1>5. Combat(t)
  BY <1>1, <1>4 DEF Combat
<1>6. Unannounced(t)
  <2> SUFFICES ASSUME ~GivesPriority(s.phase), NEW i \in 1 .. Len(q)
               PROVE  ~Announced(q[i])
    BY <1>4 DEF Unannounced
  <2>1. /\ Len(q) = Len(s.stack) - 1 /\ q[i] = s.stack[i + 1] /\ Len(s.stack) \in Nat
    BY <1>1, <1>2, HeadTailProperties, LenProperties
  <2>2. i + 1 \in 1 .. Len(s.stack)
    BY <2>1
  <2> QED
    BY <1>1, <2>1, <2>2 DEF Unannounced
<1>7. Owes(t)
  <2>1. Own(Head(s.stack)) \in Nat
    BY DEF Own
  <2>2. AgainOn(q) \in Nat
    BY <1>3, AgainCounts
  <2>3. /\ s.ap + AgainOn(s.stack) + AgainOn(s.queue) + Unpaid(s.link) + Due(s.resume) <= s.owed
        /\ s.owed + s.fuel <= Budget + 1
    BY <1>1 DEF Owes
  <2>4. AgainOn(q) <= AgainOn(s.stack) /\ AgainOn(s.stack) \in Nat
    BY <1>1, <1>3, <2>1, <2>2, Numbers
  <2>5. s.ap + AgainOn(q) + AgainOn(s.queue) + Unpaid(s.link) + Due(s.resume) <= s.owed
    <3>1. /\ s.ap \in Nat /\ AgainOn(s.queue) \in Nat /\ Unpaid(s.link) \in Nat
          /\ Due(s.resume) \in Nat /\ s.owed \in Nat
      BY <1>1, Numbers
    <3>2. PICK x \in Nat, y \in Nat : x = AgainOn(q) /\ y = AgainOn(s.stack)
      BY <2>2, <2>4
    <3>3. x <= y
      BY <2>4, <3>2
    <3>4. s.ap + y + AgainOn(s.queue) + Unpaid(s.link) + Due(s.resume) <= s.owed
      BY <2>3, <3>2
    <3>5. s.ap + x + AgainOn(s.queue) + Unpaid(s.link) + Due(s.resume) <= s.owed
      <4>1. PICK m \in Nat, i \in Nat, j \in Nat, l \in Nat, o \in Nat :
              /\ m = s.ap /\ i = AgainOn(s.queue) /\ j = Unpaid(s.link)
              /\ l = Due(s.resume) /\ o = s.owed
        BY <3>1
      <4>2. m + y + i + j + l <= o
        BY <3>4, <4>1
      <4>3. m + x + i + j + l <= o
        BY <3>3, <4>2
      <4> QED
        BY <4>1, <4>3
    <3> QED
      BY <3>2, <3>5
  <2> QED
    BY <1>4, <2>3, <2>5 DEF Owes
<1>8. Steady(s) => Steady(t)
  BY <1>4 DEF Steady, Resumable
<1> QED
  BY <1>1, <1>2, <1>3, <1>4, <1>5, <1>6, <1>7, <1>8 DEF Sound, Layers

(* closeChain changes no more than a script may. *)
LEMMA ClosedChainFacts ==
  ASSUME NEW s \in States, NEW t \in ClosedChain(s)
  PROVE  /\ Kept(s, t)
         /\ t.decision = s.decision \/ (t.decision = Choice /\ ~Asked(s))
<1>0. SameFlow(s, s) /\ Kept(s, s)
  BY Numbers DEF SameFlow, SameLink, Kept
<1>1. CASE s.link # None \/ ~s.open
  BY <1>0, <1>1 DEF ClosedChain
<1>2. CASE ~(s.link # None \/ ~s.open)
  <2>1. PICK q : q = HeldBack(s.queue)
    OBVIOUS
  <2>2. PICK u : u = [s EXCEPT !.open = FALSE, !.queue = q]
    OBVIOUS
  <2>3. q \in Seq(Entries) /\ AgainOn(q) <= AgainOn(s.queue)
    BY <2>1, Parts, Numbers, HeldBackFacts
  <2>4. /\ u \in States
        /\ u.phase = s.phase /\ u.active = s.active /\ u.priority = s.priority
        /\ u.decision = s.decision /\ u.stack = s.stack /\ u.resume = s.resume
        /\ u.passes = s.passes /\ u.link = s.link /\ u.queue = q
        /\ u.ap = s.ap /\ u.owed = s.owed /\ u.fuel = s.fuel
    BY <2>2, <2>3 DEF States
  <2>5. Kept(s, u)
    <3>1. s.fuel <= s.fuel
      BY Numbers
    <3> QED
      BY <2>3, <2>4, <3>1 DEF Kept, SameFlow, SameLink
  <2>6. t \in Effects(u, {"ask", "raise"})
    BY <1>2, <2>1, <2>2 DEF ClosedChain
  <2>7. Kept(u, t) /\ (t.decision = u.decision \/ (t.decision = Choice /\ ~Asked(u)))
    BY <2>4, <2>6, EffectsKeep
  <2> QED
    BY <2>4, <2>5, <2>7, KeptTwice DEF Asked
<1> QED
  BY <1>1, <1>2

(* A chain whose attack is gone is closed. *)
LEMMA ClosedForGoneFacts ==
  ASSUME NEW s, NEW r \in ClosedForGone(s), Sound(s), ~Asked(s)
  PROVE  /\ Sound(r) /\ r.phase = "action" /\ r.priority = r.active /\ r.link = None
         /\ r.stack = s.stack
         /\ r.resume = IF s.resume \in CombatResumes THEN "begin-action" ELSE s.resume
         /\ r.decision = Nobody \/ r.decision = Choice
<1>1. s \in States /\ Owes(s)
  BY DEF Sound
<1>2. PICK u : u = [s EXCEPT !.link = None, !.open = TRUE]
  OBVIOUS
<1>3. /\ u \in States
      /\ u.phase = s.phase /\ u.active = s.active /\ u.priority = s.priority
      /\ u.decision = s.decision /\ u.stack = s.stack /\ u.resume = s.resume
      /\ u.link = None /\ u.queue = s.queue
      /\ u.ap = s.ap /\ u.owed = s.owed /\ u.fuel = s.fuel
  BY <1>1, <1>2 DEF States
<1>4. Owes(u)
  <2>1. Unpaid(u.link) = 0
    BY <1>3 DEF Unpaid
  <2> QED
    BY <1>1, <1>3, <2>1, Numbers DEF Owes
<1>5. PICK t \in ClosedChain(u) :
        r = [ToAction(t) EXCEPT !.resume = IF @ \in CombatResumes THEN "begin-action" ELSE @,
                                !.decision = IF Asked(t) THEN @ ELSE Nobody]
  BY <1>2 DEF ClosedForGone
<1>6. Kept(u, t) /\ (t.decision = u.decision \/ t.decision = Choice) /\ t \in States
  BY <1>3, ClosedChainFacts DEF Kept
<1>7. Owes(t) /\ t.link = None /\ t.stack = s.stack /\ t.resume = s.resume
  BY <1>3, <1>4, <1>6, KeptOwes DEF Kept, SameFlow, SameLink
<1>8. PICK a : a = ToAction(t)
  OBVIOUS
<1>9. /\ a \in States /\ a.phase = "action" /\ a.active = t.active /\ a.priority = t.active
      /\ a.decision = t.decision /\ a.stack = t.stack /\ a.resume = t.resume
      /\ a.link = t.link /\ a.queue = t.queue
      /\ a.ap = t.ap /\ a.owed = t.owed /\ a.fuel = t.fuel
  BY <1>6, <1>8, ToActionFacts
<1>10. PICK x, d : /\ x = IF s.resume \in CombatResumes THEN "begin-action" ELSE s.resume
                   /\ d = IF Asked(t) THEN t.decision ELSE Nobody
  OBVIOUS
<1>11. x \in Resumes /\ d \in Decisions /\ (d = Nobody \/ d = Choice)
  <2>1. x \in Resumes
    BY <1>1, <1>10, Parts DEF Resumes
  <2>2. Asked(t) => t.decision = Choice
    BY <1>3, <1>6 DEF Asked
  <2> QED
    BY <1>10, <2>1, <2>2, Opened
<1>12. /\ r \in States /\ r.phase = "action" /\ r.active = a.active /\ r.priority = a.priority
       /\ r.decision = d /\ r.stack = a.stack /\ r.resume = x /\ r.link = a.link
       /\ r.queue = a.queue /\ r.ap = a.ap /\ r.owed = a.owed /\ r.fuel = a.fuel
  <2>1. r = [a EXCEPT !.resume = x, !.decision = d]
    BY <1>5, <1>7, <1>8, <1>9, <1>10
  <2> QED
    BY <1>9, <1>11, <2>1 DEF States
<1>13. Combat(r)
  BY <1>7, <1>9, <1>10, <1>12 DEF Combat, CombatResumes
<1>14. Unannounced(r)
  BY <1>12 DEF Unannounced, GivesPriority
<1>15. Owes(r)
  <2>1. Due(x) <= Due(t.resume) /\ Due(x) \in Nat
    BY <1>7, <1>10 DEF Due
  <2>2. /\ t.ap + AgainOn(t.stack) + AgainOn(t.queue) + Unpaid(t.link) + Due(t.resume) <= t.owed
        /\ t.owed + t.fuel <= Budget + 1
    BY <1>7 DEF Owes
  <2>3. /\ r.ap = t.ap /\ r.stack = t.stack /\ r.queue = t.queue /\ r.link = t.link
        /\ r.owed = t.owed /\ r.fuel = t.fuel /\ r.resume = x
    BY <1>9, <1>12
  <2> QED
    BY <1>6, <2>1, <2>2, <2>3, Numbers DEF Owes
<1> QED
  BY <1>7, <1>9, <1>10, <1>11, <1>12, <1>13, <1>14, <1>15 DEF Sound
-----------------------------------------------------------------------------
(* continueStack and advanceStack                                            *)

LEMMA ContinueStopsStep ==
  ASSUME IInv, ContinueStops
  PROVE  IInv'
<1>1. Sound(state) /\ Ready(state, call) /\ call.op = "continue" /\ Asked(state) /\ Done(state)
  BY Now DEF ContinueStops, Runs
<1>2. /\ Steady(state) /\ Free(state)
      /\ \/ state.decision.then = "continue"
         \/ state.decision.then = "none" /\ Bare(state)
  BY <1>1 DEF Ready
<1>3. state.decision.kind = "choice"
  BY <1>1, <1>2, AskedIsChoice
<1>4. Continues(state, state.decision.then)
  BY <1>2 DEF Continues
<1> QED
  BY <1>1, <1>2, <1>3, <1>4, ChoiceDone

LEMMA CloseForGoneAttackStep ==
  ASSUME IInv, CloseForGoneAttack
  PROVE  IInv'
<1>1. Sound(state) /\ ~Asked(state) /\ call.seat \in Seats \cup {NoSeat}
  BY Now DEF CloseForGoneAttack, Continuing
<1>2. PICK s \in ClosedForGone(state) :
        IF Asked(s) THEN Done(After(s, "continue", call.seat))
                    ELSE Go(s, "continue", call.seat)
  BY DEF CloseForGoneAttack
<1>3. /\ Sound(s) /\ s.phase = "action" /\ s.link = None
      /\ s.decision = Nobody \/ s.decision = Choice
  BY <1>1, <1>2, ClosedForGoneFacts
<1>4. Steady(s)
  BY <1>3 DEF Steady, Resumable
<1>5. Free(s)
  BY <1>3, Opened DEF Free
<1>6. CASE Asked(s)
  <2>1. s.decision.kind = "choice" /\ Done(After(s, "continue", call.seat))
    BY <1>2, <1>5, <1>6, AskedIsChoice
  <2>2. Continues(s, "continue")
    BY <1>4 DEF Continues
  <2> QED
    BY <1>1, <1>3, <2>1, <2>2, AfterDone DEF Thens
<1>7. CASE ~Asked(s)
  BY <1>1, <1>2, <1>3, <1>4, <1>5, <1>7, ToContinue
<1> QED
  BY <1>6, <1>7

LEMMA PlaceBeforePriorityStep ==
  ASSUME IInv, PlaceBeforePriority
  PROVE  IInv'
<1>1. /\ Sound(state) /\ Ready(state, call) /\ call.op = "continue" /\ ~Asked(state)
      /\ PlacePending(state)
  BY Now DEF PlaceBeforePriority, Continuing, Runs
<1>2. Resumable(state) /\ Undecided(state)
  BY <1>1 DEF Ready, Steady, Undecided
<1> QED
  BY <1>1, <1>2, PlacePendingStep

LEMMA ReopenReactionWindowStep ==
  ASSUME IInv, ReopenReactionWindow
  PROVE  IInv'
<1>1. /\ Sound(state) /\ Ready(state, call) /\ call.op = "continue"
      /\ ReopensReactions /\ Done(OpenReactions(state, state.active)) /\ state.active \in Seats
      /\ Combat(state)
  BY Now DEF ReopenReactionWindow, Continuing, Runs
<1>2. Resumable(state)
  BY <1>1 DEF Ready, Steady
<1>3. state.link # None /\ state.resume = "none"
  BY <1>1 DEF ReopensReactions, Combat
<1>4. state.link.began /\ ~state.link.damaged
  BY <1>2, <1>3 DEF Resumable
<1> QED
  BY <1>1, <1>3, <1>4, ReactionsDone

LEMMA ContinueToPriorityStep ==
  ASSUME IInv, ContinueToPriority
  PROVE  IInv'
<1>1. /\ Sound(state) /\ Ready(state, call) /\ call.op = "continue" /\ ~Asked(state)
      /\ ~ReopensReactions /\ Combat(state) /\ state.active \in Seats
      /\ call.seat \in Seats \cup {NoSeat} /\ state \in States
  BY Now DEF ContinueToPriority, Continuing, Runs
<1>2. Steady(state) /\ Free(state) /\ Undecided(state)
  BY <1>1 DEF Ready, Undecided
<1>3. CASE state.stack = <<>> /\ state.link = None
  <2>1. PICK seat \in Seats \cup {NoSeat} : Call(state, "queue", seat, "continue")
    BY <1>1, <1>3 DEF ContinueToPriority
  <2> QED
    BY <1>1, <1>2, <1>3, <2>1, ToQueue
<1>4. CASE ~(state.stack = <<>> /\ state.link = None)
  <2>1. Go(state, "window", call.seat)
    BY <1>4 DEF ContinueToPriority
  <2>2. state.link # None =>
          state.phase # "reaction" /\ (state.stack = <<>> => state.resume \in CombatResumes)
    BY <1>1, <1>2 DEF ReopensReactions, Steady, Resumable, Combat, CombatResumes
  <2> QED
    BY <1>1, <1>2, <2>1, <2>2, ToWindow
<1> QED
  BY <1>3, <1>4

(* A link of which one flag changes that no contract reads. *)
LEMMA FlagKept ==
  ASSUME NEW s \in States, s.link # None, NEW l,
         l \in {[s.link EXCEPT !.windowed = TRUE], [s.link EXCEPT !.above = TRUE]}
  PROVE  /\ [s EXCEPT !.link = l] \in States /\ Kept(s, [s EXCEPT !.link = l])
         /\ [s EXCEPT !.link = l].decision = s.decision
         /\ [s EXCEPT !.link = l].pending = s.pending
<1>1. s.link \in Links
  BY Parts
<1>2. l \in Links /\ l # None
  <2>1. l \in Links
    BY <1>1 DEF Links
  <2> QED
    BY <2>1, NoneAssumption
<1>3. /\ l.again = s.link.again /\ l.began = s.link.began
      /\ l.damaged = s.link.damaged /\ l.resolving = s.link.resolving
  BY <1>1 DEF Links
<1>4. PICK t : t = [s EXCEPT !.link = l]
  OBVIOUS
<1>5. /\ t \in States
      /\ t.phase = s.phase /\ t.active = s.active /\ t.priority = s.priority
      /\ t.decision = s.decision /\ t.stack = s.stack /\ t.resume = s.resume
      /\ t.passes = s.passes /\ t.link = l /\ t.open = s.open /\ t.queue = s.queue
      /\ t.pending = s.pending /\ t.ap = s.ap /\ t.owed = s.owed /\ t.fuel = s.fuel
  BY <1>2, <1>4 DEF States
<1>6. s.fuel <= s.fuel /\ AgainOn(s.queue) <= AgainOn(s.queue)
  BY Numbers
<1>7. SameLink(s.link, t.link)
  BY <1>2, <1>3, <1>5 DEF SameLink
<1>8. Kept(s, t)
  BY <1>5, <1>6, <1>7 DEF Kept, SameFlow
<1> QED
  BY <1>4, <1>5, <1>8

LEMMA PriorityOrAdvanceStep ==
  ASSUME IInv, PriorityOrAdvance
  PROVE  IInv'
<1>1. /\ Sound(state) /\ Ready(state, call) /\ call.op = "window" /\ state.active \in Seats
      /\ call.seat \in Seats \cup {NoSeat} /\ state \in States /\ Unannounced(state)
  BY Now DEF PriorityOrAdvance, Runs
<1>2. /\ Steady(state) /\ Free(state)
      /\ Asked(state) => state.stack = <<>>
      /\ state.link # None =>
           state.phase # "reaction" /\ (state.stack = <<>> => state.resume \in CombatResumes)
  BY <1>1 DEF Ready
<1>3. PICK able \in BOOLEAN :
        IF NeedsWindow(able)
          THEN LET s == IF state.stack = <<>> /\ state.resume = "finish-link-resolution"
                            /\ state.link # None
                          THEN [state EXCEPT !.link.windowed = TRUE] ELSE state
               IN Done(OpenWindow(s, IF call.seat = NoSeat THEN s.active ELSE call.seat, 0))
          ELSE Go(state, "advance", NoSeat)
  BY DEF PriorityOrAdvance
<1>4. CASE NeedsWindow(able)
  <2>1. PICK s : /\ s = IF state.stack = <<>> /\ state.resume = "finish-link-resolution"
                            /\ state.link # None
                          THEN [state EXCEPT !.link.windowed = TRUE] ELSE state
                 /\ Done(OpenWindow(s, IF call.seat = NoSeat THEN s.active ELSE call.seat, 0))
    BY <1>3, <1>4
  <2>2. Kept(state, s)
    <3>1. CASE s = state
      BY <1>1, <3>1, Numbers DEF Kept, SameFlow, SameLink
    <3>2. CASE s = [state EXCEPT !.link.windowed = TRUE] /\ state.link # None
      <4>1. s = [state EXCEPT !.link = [state.link EXCEPT !.windowed = TRUE]]
        BY <3>2
      <4> QED
        BY <1>1, <3>2, <4>1, FlagKept
    <3> QED
      BY <2>1, <3>1, <3>2
  <2>3. /\ Sound(s) /\ s.stack = state.stack /\ s.resume = state.resume /\ s.active = state.active
        /\ Resumable(s)
    BY <1>1, <1>2, <2>2, KeptSound, SameResumable DEF Kept, SameFlow, Steady
  <2>4. s.stack # <<>> \/ s.resume \in WindowSteps
    BY <1>4, <2>3 DEF NeedsWindow, WindowSteps
  <2>5. PICK seat : seat = IF call.seat = NoSeat THEN s.active ELSE call.seat
    OBVIOUS
  <2>6. seat \in Seats
    BY <1>1, <2>3, <2>5
  <2> QED
    BY <2>1, <2>3, <2>4, <2>5, <2>6, WindowDone
<1>5. CASE ~NeedsWindow(able)
  <2>1. ~(state.stack # <<>> /\ Announced(Head(state.stack)))
    <3> SUFFICES ASSUME state.stack # <<>>, Announced(Head(state.stack)) PROVE FALSE
      OBVIOUS
    <3>1. ~GivesPriority(state.phase)
      BY <1>5 DEF NeedsWindow
    <3>2. state.stack \in Seq(Layers)
      BY <1>1, Parts
    <3>3. Head(state.stack) = state.stack[1] /\ 1 \in 1 .. Len(state.stack)
      <4>1. Len(state.stack) \in Nat /\ Len(state.stack) # 0
        BY <3>2, LenProperties, EmptySeq
      <4> QED
        BY <3>2, <4>1, HeadTailProperties
    <3> QED
      BY <1>1, <3>1, <3>3 DEF Unannounced
  <2>2. Go(state, "advance", NoSeat)
    BY <1>3, <1>5
  <2>3. Call(state, "advance", NoSeat, "engine")
    BY <2>2 DEF Go
  <2> QED
    BY <1>1, <1>2, <2>1, <2>3, ToAdvance
<1> QED
  BY <1>4, <1>5

LEMMA ResolveCardStep ==
  ASSUME IInv, ResolveCard
  PROVE  IInv'
<1>1. /\ Sound(state) /\ Ready(state, call) /\ call.op = "advance" /\ state \in States
      /\ state.stack # <<>>
  BY Now DEF ResolveCard, Resolving, Runs
<1>2. Steady(state) /\ Free(state) /\ ~Asked(state)
  BY <1>1 DEF Ready
<1>3. PICK seat : seat = Head(state.stack).seat
  OBVIOUS
<1>4. seat \in Seats
  BY <1>1, <1>3, PoppedFacts
<1>5. PICK s \in Effects(state, OfCard(state, seat)) :
        IF Asked(s) THEN Done(After(s, "card", seat)) ELSE Go(s, "finish-card", seat)
  BY <1>3 DEF ResolveCard
<1>6. Kept(state, s) /\ (s.decision = state.decision \/ s.decision = Choice)
  BY <1>1, <1>5, EffectsKeep
<1>7. Sound(s) /\ Steady(s) /\ s.stack # <<>> /\ Free(s)
  BY <1>1, <1>2, <1>6, KeptSound, SameFits, Opened DEF Kept, SameFlow, Free
<1>8. CASE Asked(s)
  <2>1. Continues(s, "card") /\ s.decision.kind = "choice" /\ Done(After(s, "card", seat))
    BY <1>5, <1>7, <1>8, AskedIsChoice DEF Continues
  <2> QED
    BY <1>4, <1>7, <2>1, AfterDone DEF Thens
<1>9. CASE ~Asked(s)
  <2>1. Go(s, "finish-card", seat)
    BY <1>5, <1>9
  <2> QED
    BY <1>4, <1>7, <2>1, ToFinishCard
<1> QED
  BY <1>8, <1>9

(* Go again that a resolved layer pays was still to be paid. *)
Wage(s) == IF Head(s.stack).again /\ Head(s.stack).seat = s.active THEN s.ap + 1 ELSE s.ap
Paid(s, f, k) == [s EXCEPT !.ap = Wage(s), !.fuel = f, !.stack = k \o Tail(@)]

LEMMA PaidFacts ==
  ASSUME NEW s, Sound(s), Steady(s), s.stack # <<>>, NEW k \in Seq(Raised),
         NEW f \in Fuels, f <= s.fuel
  PROVE  /\ Sound(Paid(s, f, k)) /\ Steady(Paid(s, f, k))
         /\ Paid(s, f, k).decision = s.decision
<1>0. PICK t, a : t = Paid(s, f, k) /\ a = Wage(s)
  OBVIOUS
<1>1. PICK u : u = [s EXCEPT !.stack = Tail(@)]
  OBVIOUS
<1>2. /\ Sound(u) /\ Steady(u) /\ AgainOn(s.stack) = Own(Head(s.stack)) + AgainOn(u.stack)
      /\ u.phase = s.phase /\ u.active = s.active /\ u.priority = s.priority
      /\ u.decision = s.decision /\ u.stack = Tail(s.stack) /\ u.resume = s.resume
      /\ u.passes = s.passes /\ u.link = s.link /\ u.open = s.open /\ u.queue = s.queue
      /\ u.pending = s.pending /\ u.ap = s.ap /\ u.owed = s.owed /\ u.fuel = s.fuel
  BY <1>1, PoppedFacts
<1>3. s \in States /\ Owes(s) /\ u \in States
  BY <1>2 DEF Sound
<1>4. PICK v : v = [u EXCEPT !.stack = k \o @]
  OBVIOUS
<1>5. Placed(u, v)
  BY <1>3, <1>4, PlaceFacts
<1>6. Sound(v) /\ Resumable(v)
  BY <1>2, <1>5, PlacedSound DEF Steady
<1>7. a \in Points /\ a <= s.ap + Own(Head(s.stack)) /\ a \in Nat
  <2>1. /\ s.ap + AgainOn(s.stack) + AgainOn(s.queue) + Unpaid(s.link) + Due(s.resume) <= s.owed
        /\ s.owed + s.fuel <= Budget + 1
    BY <1>3 DEF Owes
  <2>2. /\ s.ap \in Nat /\ AgainOn(s.queue) \in Nat /\ Unpaid(s.link) \in Nat /\ s.fuel \in Nat
        /\ Due(s.resume) \in Nat /\ s.owed \in Nat /\ AgainOn(u.stack) \in Nat /\ Budget \in Nat
    BY <1>3, Numbers
  <2>3. PICK h : h = Own(Head(s.stack))
    OBVIOUS
  <2>4. h \in {0, 1} /\ (Head(s.stack).again => h = 1)
    BY <2>3 DEF Own
  <2>5. a \in Nat /\ a <= s.ap + h
    BY <1>0, <2>2, <2>4 DEF Wage
  <2>6. s.ap + (h + AgainOn(u.stack)) <= s.owed
    <3>1. AgainOn(s.stack) = h + AgainOn(u.stack)
      BY <1>2, <2>3
    <3>2. h + AgainOn(u.stack) \in Nat
      BY <2>2, <2>4
    <3>3. PICK x \in Nat : x = h + AgainOn(u.stack)
      BY <3>2
    <3>4. s.ap + x + AgainOn(s.queue) + Unpaid(s.link) + Due(s.resume) <= s.owed
      BY <2>1, <3>1, <3>3
    <3>5. s.ap + x <= s.owed
      BY <2>2, <3>4
    <3> QED
      BY <3>3, <3>5
  <2>7. a <= Budget + 1
    <3>1. PICK x \in Nat : x = AgainOn(u.stack)
      BY <2>2
    <3>2. s.ap + (h + x) <= s.owed
      BY <2>6, <3>1
    <3>3. a <= s.owed
      BY <2>2, <2>4, <2>5, <3>2
    <3>4. s.owed <= Budget + 1
      BY <2>1, <2>2
    <3> QED
      BY <2>2, <2>5, <3>3, <3>4
  <2> QED
    BY <2>2, <2>3, <2>5, <2>7 DEF Points
<1>8. /\ t \in States
      /\ t.phase = v.phase /\ t.active = v.active /\ t.priority = v.priority
      /\ t.decision = v.decision /\ t.stack = v.stack /\ t.resume = v.resume
      /\ t.passes = v.passes /\ t.link = v.link /\ t.open = v.open /\ t.queue = v.queue
      /\ t.pending = v.pending /\ t.ap = a /\ t.owed = v.owed /\ t.fuel = f
  <2>1. v \in States
    BY <1>5 DEF Placed
  <2>2. v.stack = k \o Tail(s.stack) /\ v.pending = u.pending
    BY <1>2, <1>3, <1>4 DEF States
  <2>3. PICK q : q = v.stack
    OBVIOUS
  <2>4. t = [s EXCEPT !.ap = a, !.fuel = f, !.stack = q] /\ q \in Seq(Layers)
    BY <1>0, <2>1, <2>2, <2>3, Parts DEF Paid
  <2>5. t \in States
    BY <1>3, <1>7, <2>4 DEF States
  <2>6. /\ t.phase = s.phase /\ t.active = s.active /\ t.priority = s.priority
        /\ t.decision = s.decision /\ t.stack = q /\ t.resume = s.resume
        /\ t.passes = s.passes /\ t.link = s.link /\ t.open = s.open /\ t.queue = s.queue
        /\ t.pending = s.pending /\ t.ap = a /\ t.owed = s.owed /\ t.fuel = f
    BY <1>3, <2>4 DEF States
  <2> QED
    BY <1>2, <1>5, <2>2, <2>3, <2>5, <2>6 DEF Placed
<1>9. Combat(t)
  BY <1>6, <1>8 DEF Sound, Combat
<1>10. Unannounced(t)
  BY <1>6, <1>8 DEF Sound, Unannounced
<1>11. Owes(t)
  <2>1. /\ t.ap = a /\ AgainOn(t.stack) = AgainOn(u.stack) /\ t.queue = s.queue
        /\ t.link = s.link /\ t.resume = s.resume /\ t.owed = s.owed /\ t.fuel = f
    BY <1>2, <1>5, <1>8 DEF Placed
  <2>2. /\ s.ap \in Nat /\ AgainOn(s.queue) \in Nat /\ Unpaid(s.link) \in Nat /\ s.fuel \in Nat
        /\ Due(s.resume) \in Nat /\ s.owed \in Nat /\ AgainOn(u.stack) \in Nat
        /\ t.fuel \in Nat
    BY <1>3, <1>8, Numbers
  <2>3. PICK h \in Nat : h = Own(Head(s.stack))
    BY DEF Own
  <2>4. t.owed + t.fuel <= s.owed + s.fuel
    BY <2>1, <2>2
  <2>5. t.ap + AgainOn(t.stack) + AgainOn(t.queue) + Unpaid(t.link) + Due(t.resume) + s.owed
          <= s.ap + AgainOn(s.stack) + AgainOn(s.queue) + Unpaid(s.link) + Due(s.resume) + t.owed
    <3>1. AgainOn(s.stack) = h + AgainOn(u.stack) /\ a <= s.ap + h
      BY <1>2, <1>7, <2>3
    <3>2. /\ AgainOn(t.queue) = AgainOn(s.queue) /\ Unpaid(t.link) = Unpaid(s.link)
          /\ Due(t.resume) = Due(s.resume)
      BY <2>1
    <3>3. PICK n \in Nat, m \in Nat : n = AgainOn(u.stack) /\ m = s.ap
      BY <2>2
    <3>4. a + n <= m + (h + n) /\ a + n \in Nat /\ m + (h + n) \in Nat
      <4>1. a \in Nat
        BY <1>7
      <4>2. a <= m + h
        BY <3>1, <3>3
      <4> QED
        BY <4>1, <4>2
    <3>5. PICK x \in Nat, y \in Nat : x = a + n /\ y = m + (h + n)
      BY <3>4
    <3>6. x + AgainOn(s.queue) + Unpaid(s.link) + Due(s.resume) + s.owed
            <= y + AgainOn(s.queue) + Unpaid(s.link) + Due(s.resume) + s.owed
      <4>1. x <= y
        BY <3>4, <3>5
      <4>2. PICK i \in Nat, j \in Nat, l \in Nat, o \in Nat :
              /\ i = AgainOn(s.queue) /\ j = Unpaid(s.link)
              /\ l = Due(s.resume) /\ o = s.owed
        BY <2>2
      <4>3. x + i + j + l + o <= y + i + j + l + o
        BY <4>1
      <4> QED
        BY <4>2, <4>3
    <3> QED
      BY <2>1, <3>1, <3>2, <3>3, <3>5, <3>6
  <2> QED
    BY <1>3, <1>8, <2>4, <2>5, OwesLess
<1>12. Steady(t)
  <2>1. Resumable(t)
    BY <1>6, <1>8 DEF Resumable
  <2>2. ~(t.link = None /\ t.phase \in {"defend", "reaction"})
    BY <1>2, <1>5, <1>8 DEF Steady, Placed
  <2> QED
    BY <2>1, <2>2 DEF Steady
<1> QED
  BY <1>0, <1>2, <1>5, <1>8, <1>9, <1>10, <1>11, <1>12 DEF Sound, Placed

LEMMA FinishCardStep ==
  ASSUME IInv, FinishCard
  PROVE  IInv'
<1>1. /\ Sound(state) /\ Ready(state, call) /\ call.op = "finish-card" /\ state \in States
      /\ state.active \in Seats /\ call.seat \in Seats \cup {NoSeat}
  BY Now DEF FinishCard, Runs
<1>2. Steady(state) /\ Free(state) /\ state.stack # <<>>
  BY <1>1 DEF Ready
<1>3. PICK a : a = Wage(state)
  OBVIOUS
<1>4. PICK paid : paid = [state EXCEPT !.ap = a]
  OBVIOUS
<1>5. PICK s, t :
        /\ \/ s = [paid EXCEPT !.stack = Tail(@)]
           \/ /\ state.fuel # 0
              /\ \E e \in {Layer("trigger", Head(state.stack).seat, FALSE),
                           Layer("phantasm", state.active, FALSE)} :
                   s = [paid EXCEPT !.fuel = @ - 1, !.stack = <<e>> \o Tail(@)]
        /\ t \in Effects(s, OfCard(s, Head(state.stack).seat) \ {"gone"})
        /\ IF Asked(t) THEN Done(After(t, "continue", call.seat))
                       ELSE Go(t, "continue", t.active)
  BY <1>3, <1>4 DEF FinishCard, Wage
<1>6. Sound(s) /\ Steady(s) /\ s.decision = state.decision
  <2>0. /\ paid.stack = state.stack /\ paid.fuel = state.fuel
        /\ state.stack \in Seq(Layers) /\ Head(state.stack).seat \in Seats
        /\ state.fuel \in Fuels /\ state.fuel \in Nat /\ state.fuel <= Budget
        /\ state.fuel <= state.fuel /\ Budget \in Nat
    <3>1. Head(state.stack).seat \in Seats
      BY <1>1, <1>2, PoppedFacts
    <3>2. paid.stack = state.stack /\ paid.fuel = state.fuel
      BY <1>1, <1>4 DEF States
    <3> QED
      BY <1>1, <3>1, <3>2, Parts, Numbers
  <2>1. CASE s = [paid EXCEPT !.stack = Tail(@)]
    <3>1. PICK q : q = Tail(state.stack)
      OBVIOUS
    <3>2. q \in Seq(Layers) /\ <<>> \o q = q
      BY <1>2, <2>0, <3>1, HeadTailProperties, ConcatEmptySeq
    <3>3. s = [state EXCEPT !.ap = a, !.stack = q]
      BY <1>4, <2>0, <2>1, <3>1
    <3>4. s = [state EXCEPT !.ap = a, !.fuel = state.fuel, !.stack = q]
      BY <1>1, <3>3 DEF States
    <3>5. s = [state EXCEPT !.ap = a, !.fuel = state.fuel, !.stack = <<>> \o Tail(@)]
      BY <3>1, <3>2, <3>4
    <3>6. s = Paid(state, state.fuel, <<>>)
      BY <1>3, <3>5 DEF Paid
    <3> QED
      BY <1>1, <1>2, <2>0, <3>6, EmptySeq, PaidFacts
  <2>2. CASE /\ state.fuel # 0
             /\ \E e \in {Layer("trigger", Head(state.stack).seat, FALSE),
                          Layer("phantasm", state.active, FALSE)} :
                  s = [paid EXCEPT !.fuel = @ - 1, !.stack = <<e>> \o Tail(@)]
    <3>1. PICK e \in {Layer("trigger", Head(state.stack).seat, FALSE),
                      Layer("phantasm", state.active, FALSE)} :
            s = [paid EXCEPT !.fuel = @ - 1, !.stack = <<e>> \o Tail(@)]
      BY <2>2
    <3>2. e \in Raised
      <4>1. \A x \in Seats : Layer("trigger", x, FALSE) \in Raised /\ Layer("phantasm", x, FALSE) \in Raised
        BY DEF Layer, Raised
      <4> QED
        BY <1>1, <2>0, <4>1
    <3>3. <<e>> \in Seq(Raised)
      BY <3>2, AgainAlone
    <3>4. PICK f : f = state.fuel - 1
      OBVIOUS
    <3>5. f \in Fuels /\ f <= state.fuel
      BY <2>0, <2>2, <3>4 DEF Fuels
    <3>6. PICK q : q = <<e>> \o Tail(state.stack)
      OBVIOUS
    <3>7. s = [paid EXCEPT !.fuel = f, !.stack = q]
      BY <2>0, <3>1, <3>4, <3>6
    <3>8. s = [state EXCEPT !.ap = a, !.fuel = f, !.stack = q]
      BY <1>4, <3>7
    <3>9. s = [state EXCEPT !.ap = a, !.fuel = f, !.stack = <<e>> \o Tail(@)]
      BY <3>6, <3>8
    <3>10. s = Paid(state, f, <<e>>)
      BY <1>3, <3>9 DEF Paid
    <3> QED
      BY <1>1, <1>2, <3>3, <3>5, <3>10, PaidFacts
  <2> QED
    BY <1>5, <2>1, <2>2
<1>7. s \in States /\ Free(s)
  BY <1>2, <1>6 DEF Sound, Free
<1>8. Kept(s, t) /\ (t.decision = s.decision \/ t.decision = Choice)
  BY <1>5, <1>7, EffectsKeep
<1>9. Sound(t) /\ Steady(t) /\ Free(t) /\ t.active \in Seats
  BY <1>6, <1>7, <1>8, KeptSound, SameFits, Opened, Parts DEF Kept, Free
<1>10. CASE Asked(t)
  <2>1. Continues(t, "continue") /\ t.decision.kind = "choice"
        /\ Done(After(t, "continue", call.seat))
    BY <1>5, <1>9, <1>10, AskedIsChoice DEF Continues
  <2> QED
    BY <1>1, <1>9, <2>1, AfterDone DEF Thens
<1>11. CASE ~Asked(t)
  <2>1. Go(t, "continue", t.active)
    BY <1>5, <1>11
  <2> QED
    BY <1>9, <1>11, <2>1, ToContinue
<1> QED
  BY <1>10, <1>11

LEMMA ResolveAttackCardStep ==
  ASSUME IInv, ResolveAttackCard
  PROVE  IInv'
<1>1. /\ Sound(state) /\ Ready(state, call) /\ call.op = "advance" /\ state \in States
      /\ state.stack # <<>> /\ state.active \in Seats
  BY Now DEF ResolveAttackCard, Resolving, Runs
<1>2. Steady(state) /\ Free(state) /\ ~Asked(state)
  BY <1>1 DEF Ready
<1>3. PICK q, e : /\ q = Append(state.queue, e)
                  /\ e = Queued(TRUE, Head(state.stack).again)
  OBVIOUS
<1>4. PICK l : l = IF state.link # None /\ state.resume = "start-attack-step"
                     THEN [state.link EXCEPT !.above = TRUE] ELSE state.link
  OBVIOUS
<1>5. PICK s : s = [state EXCEPT !.stack = Tail(@), !.queue = q, !.link = l]
  OBVIOUS
<1>6. Go(s, "continue", state.active)
  BY <1>3, <1>4, <1>5 DEF ResolveAttackCard
<1>7. PICK u : u = [state EXCEPT !.stack = Tail(@)]
  OBVIOUS
<1>8. /\ Sound(u) /\ Steady(u) /\ AgainOn(state.stack) = Own(Head(state.stack)) + AgainOn(u.stack)
      /\ Head(state.stack) \in Layers /\ u \in States
      /\ u.active = state.active /\ u.decision = state.decision /\ u.link = state.link
      /\ u.resume = state.resume /\ u.queue = state.queue /\ u.ap = state.ap
      /\ u.owed = state.owed /\ u.fuel = state.fuel
  BY <1>1, <1>2, <1>7, PoppedFacts DEF Sound
<1>9. PICK v : v = [u EXCEPT !.link = l]
  OBVIOUS
<1>10. Kept(u, v) /\ v.decision = u.decision
  <2>1. CASE state.link # None /\ state.resume = "start-attack-step"
    BY <1>4, <1>8, <1>9, <2>1, FlagKept
  <2>2. CASE ~(state.link # None /\ state.resume = "start-attack-step")
    <3>1. v = u
      BY <1>4, <1>8, <1>9, <2>2 DEF States
    <3> QED
      BY <1>8, <3>1, Numbers DEF Kept, SameFlow, SameLink
  <2> QED
    BY <2>1, <2>2
<1>11. Sound(v) /\ Steady(v) /\ v \in States
  BY <1>8, <1>10, KeptSound, SameFits DEF Kept
<1>12. q \in Seq(Entries) /\ AgainOn(q) = AgainOn(state.queue) + Own(Head(state.stack))
  <2>1. e \in Entries /\ e.again = Head(state.stack).again
    BY <1>3, <1>8 DEF Queued, Entries, Layers
  <2>2. Own(e) = Own(Head(state.stack))
    BY <2>1 DEF Own
  <2>3. state.queue \in Seq(Entries)
    BY <1>1, Parts
  <2> QED
    <3>1. q \in Seq(Entries) /\ AgainOn(q) = AgainOn(state.queue) + Own(e)
      BY <1>3, <2>1, <2>3, AppendProperties, AgainMore
    <3> QED
      BY <2>2, <3>1
<1>13. /\ s \in States
       /\ s.phase = v.phase /\ s.active = v.active /\ s.priority = v.priority
       /\ s.decision = v.decision /\ s.stack = v.stack /\ s.resume = v.resume
       /\ s.passes = v.passes /\ s.link = v.link /\ s.queue = q
       /\ s.ap = v.ap /\ s.owed = v.owed /\ s.fuel = v.fuel
  <2>1. s = [v EXCEPT !.queue = q]
    <3>1. PICK x : x = Tail(state.stack)
      OBVIOUS
    <3>2. s = [state EXCEPT !.stack = x, !.queue = q, !.link = l] /\ u = [state EXCEPT !.stack = x]
      BY <1>5, <1>7, <3>1
    <3> QED
      BY <1>1, <1>9, <3>2 DEF States
  <2> QED
    BY <1>11, <1>12, <2>1 DEF States
<1>14. Combat(s) /\ Steady(s)
  BY <1>11, <1>13 DEF Sound, Combat, Steady, Resumable
<1>15. Unannounced(s)
  BY <1>11, <1>13 DEF Sound, Unannounced
<1>16. Owes(s)
  <2>1. /\ s.ap = state.ap /\ AgainOn(s.stack) = AgainOn(u.stack) /\ s.queue = q
        /\ Unpaid(s.link) = Unpaid(state.link) /\ s.resume = state.resume /\ s.owed = state.owed
        /\ s.fuel <= state.fuel
    BY <1>8, <1>10, <1>13, SameUnpaid DEF Kept, SameFlow
  <2>2. /\ state.ap \in Nat /\ AgainOn(state.queue) \in Nat /\ Unpaid(state.link) \in Nat
        /\ Due(state.resume) \in Nat /\ state.owed \in Nat /\ AgainOn(u.stack) \in Nat
        /\ s.fuel \in Nat /\ state.fuel \in Nat
    BY <1>1, <1>8, <1>13, Numbers
  <2>3. PICK h \in Nat : h = Own(Head(state.stack))
    BY DEF Own
  <2>4. s.owed + s.fuel <= state.owed + state.fuel
    BY <2>1, <2>2
  <2>5. s.ap + AgainOn(s.stack) + AgainOn(s.queue) + Unpaid(s.link) + Due(s.resume) + state.owed
          <= state.ap + AgainOn(state.stack) + AgainOn(state.queue) + Unpaid(state.link)
               + Due(state.resume) + s.owed
    <3>1. AgainOn(state.stack) = h + AgainOn(u.stack) /\ AgainOn(s.queue) = AgainOn(state.queue) + h
      BY <1>8, <1>12, <2>1, <2>3
    <3> QED
      BY <2>1, <2>2, <2>3, <3>1
  <2> QED
    BY <1>1, <1>13, <2>4, <2>5, OwesLess DEF Sound
<1>17. Free(s) /\ ~Asked(s)
  BY <1>2, <1>8, <1>10, <1>13 DEF Free, Asked
<1> QED
  BY <1>1, <1>6, <1>13, <1>14, <1>15, <1>16, <1>17, ToContinue DEF Sound

LEMMA TriggerResolvesStep ==
  ASSUME NEW s, TriggerResolves(s), Sound(s), Steady(s), s.stack # <<>>, Undecided(s)
  PROVE  IInv'
<1>1. s \in States /\ Free(s) /\ ~Asked(s)
  BY DEF Sound, Undecided
<1>2. PICK t, seat, u :
        /\ t \in Effects(s, Anything)
        /\ seat = Head(s.stack).seat /\ u = [t EXCEPT !.stack = Tail(@)]
        /\ IF Asked(u) THEN Done(After(u, "continue", seat)) ELSE Go(u, "continue", seat)
  BY DEF TriggerResolves
<1>3. Kept(s, t) /\ (t.decision = s.decision \/ t.decision = Choice)
  BY <1>1, <1>2, EffectsKeep
<1>4. Sound(t) /\ Steady(t) /\ t.stack = s.stack /\ Free(t)
  BY <1>1, <1>3, KeptSound, SameFits, Opened DEF Kept, SameFlow, Free
<1>5. Sound(u) /\ Steady(u) /\ u.decision = t.decision /\ seat \in Seats
  <2>1. u = [t EXCEPT !.stack = Tail(@)] /\ t.stack # <<>> /\ Sound(t) /\ Steady(t)
    BY <1>2, <1>4
  <2>2. Sound(u) /\ u.decision = t.decision
    BY <2>1, PoppedFacts
  <2>3. Head(t.stack).seat \in Seats
    BY <2>1, PoppedFacts
  <2>4. Steady(u)
    BY <2>1, PoppedFacts
  <2> QED
    BY <1>2, <1>4, <2>2, <2>3, <2>4
<1>6. Free(u)
  BY <1>4, <1>5 DEF Free
<1>7. CASE Asked(u)
  <2>1. Continues(u, "continue") /\ u.decision.kind = "choice"
        /\ Done(After(u, "continue", seat))
    BY <1>2, <1>5, <1>6, <1>7, AskedIsChoice DEF Continues
  <2> QED
    BY <1>5, <2>1, AfterDone DEF Thens
<1>8. CASE ~Asked(u)
  <2>1. Go(u, "continue", seat)
    BY <1>2, <1>8
  <2> QED
    BY <1>5, <1>6, <1>8, <2>1, ToContinue
<1> QED
  BY <1>7, <1>8

LEMMA ResolveTriggerStep ==
  ASSUME IInv, ResolveTrigger
  PROVE  IInv'
<1>1. /\ Sound(state) /\ Ready(state, call) /\ call.op = "advance"
      /\ state.stack # <<>> /\ TriggerResolves(state)
  BY Now DEF ResolveTrigger, Resolving, Runs
<1>2. Steady(state) /\ Undecided(state)
  BY <1>1 DEF Ready, Undecided
<1> QED
  BY <1>1, <1>2, TriggerResolvesStep

(* Only the decision differs. *)
LEMMA DecidedFacts ==
  ASSUME NEW s, Sound(s), NEW decision \in Decisions, NEW t, t = [s EXCEPT !.decision = decision]
  PROVE  /\ Sound(t) /\ Kept(s, t) /\ t.decision = decision
         /\ t.phase = s.phase /\ t.active = s.active /\ t.priority = s.priority
         /\ t.stack = s.stack /\ t.resume = s.resume /\ t.passes = s.passes
         /\ t.link = s.link /\ t.open = s.open /\ t.queue = s.queue
         /\ t.pending = s.pending /\ t.ap = s.ap /\ t.owed = s.owed /\ t.fuel = s.fuel
<1>1. s \in States
  BY DEF Sound
<1>2. /\ t \in States /\ t.decision = decision
      /\ t.phase = s.phase /\ t.active = s.active /\ t.priority = s.priority
      /\ t.stack = s.stack /\ t.resume = s.resume /\ t.passes = s.passes
      /\ t.link = s.link /\ t.open = s.open /\ t.queue = s.queue
      /\ t.pending = s.pending /\ t.ap = s.ap /\ t.owed = s.owed /\ t.fuel = s.fuel
  BY <1>1 DEF States
<1>3. s.fuel <= s.fuel /\ AgainOn(s.queue) <= AgainOn(s.queue)
  BY <1>1, Numbers
<1>4. Kept(s, t)
  BY <1>2, <1>3 DEF Kept, SameFlow, SameLink
<1> QED
  BY <1>2, <1>4, KeptSound

LEMMA AskOptionalTriggerStep ==
  ASSUME IInv, AskOptionalTrigger
  PROVE  IInv'
<1>1. /\ Sound(state) /\ Ready(state, call) /\ call.op = "advance"
      /\ state.stack # <<>>
      /\ Done([state EXCEPT !.decision = Prompt("optional", Head(state.stack).seat)])
  BY Now DEF AskOptionalTrigger, Resolving, Runs
<1>2. Steady(state)
  BY <1>1 DEF Ready
<1>3. PICK d, s : /\ d = Prompt("optional", Head(state.stack).seat)
                  /\ s = [state EXCEPT !.decision = d]
  OBVIOUS
<1>4. d \in Decisions /\ d.kind = "optional"
  <2>1. Head(state.stack).seat \in Seats
    BY <1>1, PoppedFacts
  <2> QED
    BY <1>3, <2>1, Opened
<1>5. Sound(s) /\ Kept(state, s) /\ s.decision = d /\ s.stack = state.stack
  BY <1>1, <1>3, <1>4, DecidedFacts
<1>6. Steady(s)
  BY <1>2, <1>5, SameFits DEF Kept
<1>7. Settled(s)
  BY <1>1, <1>4, <1>5, <1>6 DEF Settled
<1> QED
  BY <1>1, <1>3, <1>5, <1>7, ToDone

LEMMA ResolvePhantasmStep ==
  ASSUME IInv, ResolvePhantasm
  PROVE  IInv'
<1>1. /\ Sound(state) /\ Ready(state, call) /\ call.op = "advance" /\ state \in States
      /\ state.stack # <<>>
  BY Now DEF ResolvePhantasm, Resolving, Runs
<1>2. Steady(state) /\ Free(state) /\ ~Asked(state)
  BY <1>1 DEF Ready
<1>3. PICK rest, seat : /\ rest = [state EXCEPT !.stack = Tail(@)]
                        /\ seat = Head(state.stack).seat
  OBVIOUS
<1>4. /\ Sound(rest) /\ Steady(rest) /\ rest.decision = state.decision /\ seat \in Seats
      /\ rest.link = state.link
  BY <1>1, <1>2, <1>3, PoppedFacts
<1>5. CASE Go(rest, "continue", seat)
  BY <1>2, <1>4, <1>5, ToContinue DEF Free, Asked
<1>6. ASSUME NEW s \in ClosedChain([rest EXCEPT !.link = None, !.open = TRUE]),
             IF Asked(GivenUp(s))
               THEN Done(IF GivenUp(s).stack # <<>>
                           THEN After(GivenUp(s), "continue", seat) ELSE GivenUp(s))
               ELSE Go([GivenUp(s) EXCEPT !.decision = Nobody], "phantasm-gone", seat)
      PROVE  IInv'
  <2>1. PICK u : u = [rest EXCEPT !.link = None, !.open = TRUE]
    OBVIOUS
  <2>2. /\ u \in States /\ u.link = None
        /\ u.decision = rest.decision /\ u.ap = rest.ap /\ u.stack = rest.stack
        /\ u.queue = rest.queue /\ u.owed = rest.owed /\ u.fuel = rest.fuel
        /\ u.resume = rest.resume
    BY <1>4, <2>1 DEF Sound, States
  <2>3. Owes(u)
    <3>1. Unpaid(u.link) = 0 /\ rest \in States /\ Owes(rest)
      BY <1>4, <2>2 DEF Unpaid, Sound
    <3> QED
      BY <2>2, <3>1, Numbers DEF Owes
  <2>4. Kept(u, s) /\ (s.decision = u.decision \/ s.decision = Choice) /\ s \in States
    BY <1>6, <2>1, <2>2, ClosedChainFacts DEF Kept
  <2>5. Owes(s) /\ s.link = None
    BY <2>2, <2>3, <2>4, KeptOwes DEF Kept, SameFlow, SameLink
  <2>6. PICK a, t : a = ToAction(s) /\ t = [a EXCEPT !.resume = "none"]
    OBVIOUS
  <2>7. t = GivenUp(s)
    BY <2>6 DEF GivenUp
  <2>8. /\ t \in States /\ t.phase = "action" /\ t.active = s.active /\ t.priority = s.active
        /\ t.decision = s.decision /\ t.stack = s.stack /\ t.resume = "none"
        /\ t.link = s.link /\ t.queue = s.queue
        /\ t.ap = s.ap /\ t.owed = s.owed /\ t.fuel = s.fuel
    <3>1. /\ a \in States /\ a.phase = "action" /\ a.active = s.active /\ a.priority = s.active
          /\ a.decision = s.decision /\ a.stack = s.stack
          /\ a.link = s.link /\ a.queue = s.queue
          /\ a.ap = s.ap /\ a.owed = s.owed /\ a.fuel = s.fuel
      BY <2>4, <2>6, ToActionFacts
    <3>2. "none" \in Resumes
      BY DEF Resumes
    <3> QED
      BY <2>6, <3>1, <3>2 DEF States
  <2>9. Sound(t)
    <3>1. Combat(t) /\ Unannounced(t)
      BY <2>5, <2>8 DEF Combat, Unannounced, CombatResumes, GivesPriority
    <3>2. Owes(t)
      <4>1. Due(t.resume) = 0 /\ Due(s.resume) \in Nat
        BY <2>8 DEF Due
      <4> QED
        BY <2>4, <2>5, <2>8, <4>1, Numbers DEF Owes
    <3> QED
      BY <2>8, <3>1, <3>2 DEF Sound
  <2>10. Steady(t) /\ (t.stack = <<>> => Bare(t))
    BY <2>5, <2>8 DEF Steady, Resumable, Bare
  <2>11. CASE Asked(t)
    <3>1. t.decision = Choice /\ t.decision.kind = "choice" /\ t.decision.then = "none"
      BY <1>2, <1>4, <2>2, <2>4, <2>8, <2>11, Opened DEF Asked
    <3>2. CASE t.stack # <<>>
      <4>1. Done(After(t, "continue", seat)) /\ Continues(t, "continue")
        BY <1>6, <2>7, <2>10, <2>11, <3>2 DEF Continues
      <4> QED
        BY <1>4, <2>9, <3>1, <4>1, AfterDone DEF Thens
    <3>3. CASE t.stack = <<>>
      <4>1. Done(t) /\ Bare(t)
        BY <1>6, <2>7, <2>10, <2>11, <3>3
      <4> QED
        BY <2>9, <3>1, <4>1, BareDone
    <3> QED
      BY <3>2, <3>3
  <2>12. CASE ~Asked(t)
    <3>1. PICK v : v = [t EXCEPT !.decision = Nobody]
      OBVIOUS
    <3>2. /\ Sound(v) /\ v.decision = Nobody /\ v.link = None /\ v.resume = "none"
          /\ v.phase = "action" /\ v.priority = v.active
      BY <2>5, <2>8, <2>9, <3>1, Opened, DecidedFacts
    <3>3. Go(v, "phantasm-gone", seat)
      BY <1>6, <2>7, <2>12, <3>1
    <3> QED
      BY <1>4, <3>2, <3>3, ToPhantasmGone
  <2> QED
    BY <2>11, <2>12
<1> QED
  BY <1>3, <1>5, <1>6 DEF ResolvePhantasm

LEMMA AfterPhantasmStep ==
  ASSUME IInv, AfterPhantasm
  PROVE  IInv'
<1>1. /\ Sound(state) /\ Ready(state, call) /\ call.op = "phantasm-gone" /\ state \in States
      /\ call.seat \in Seats \cup {NoSeat}
  BY Now DEF AfterPhantasm, Runs
<1>2. /\ state.decision = Nobody /\ state.link = None /\ state.resume = "none"
      /\ state.phase = "action" /\ state.priority = state.active
  BY <1>1 DEF Ready
<1>3. PICK k, s : /\ k = InTurnOrder(state, state.pending)
                  /\ s = [state EXCEPT !.pending = Nothing, !.stack = k \o @]
  OBVIOUS
<1>4. IF s.stack # <<>> THEN Go(s, "continue", call.seat) ELSE Done(s)
  BY <1>3 DEF AfterPhantasm
<1>5. k \in Seq(Raised)
  <2>1. state.pending \in Pendings
    BY <1>1, Parts DEF Pendings
  <2> QED
    BY <1>1, <1>3, <2>1, InOrder
<1>6. Placed(state, s)
  BY <1>1, <1>3, <1>5, PlaceFacts
<1>7. Sound(s)
  BY <1>1, <1>6, PlacedSound
<1>8. /\ s.decision = Nobody /\ s.link = None /\ s.resume = "none"
      /\ s.phase = "action" /\ s.priority = s.active
  BY <1>2, <1>6 DEF Placed
<1>9. Steady(s) /\ Free(s) /\ ~Asked(s) /\ (s.stack = <<>> => Bare(s))
  BY <1>8, Opened DEF Steady, Resumable, Free, Asked, Bare
<1>10. CASE s.stack # <<>>
  BY <1>1, <1>4, <1>7, <1>9, <1>10, ToContinue
<1>11. CASE s.stack = <<>>
  BY <1>4, <1>7, <1>8, <1>9, <1>11, BareDone, Opened
<1> QED
  BY <1>10, <1>11

(* finishStack goes on with a step of no combat only when no link is open. *)
LEMMA FinishesStack ==
  ASSUME IInv, NEW resumes, Resuming(resumes)
  PROVE  /\ state.stack = <<>> /\ state.resume \in resumes
         /\ state.resume \in CombatResumes <=> state.link # None
<1>1. /\ Sound(state) /\ Ready(state, call) /\ call.op = "advance" /\ Combat(state)
      /\ state.stack = <<>> /\ state.resume \in resumes
  BY Now DEF Resuming, Runs
<1>2. state.link # None => state.resume \in CombatResumes
  BY <1>1 DEF Ready
<1>3. state.link = None => state.resume \notin CombatResumes
  BY <1>1 DEF Combat
<1> QED
  BY <1>1, <1>2, <1>3

LEMMA ReturnToActionStep ==
  ASSUME IInv, ReturnToAction
  PROVE  IInv'
<1>1. state.stack = <<>> /\ state.link = None
  BY FinishesStack DEF ReturnToAction, CombatResumes
<1>2. /\ Sound(Emptied) /\ Emptied.stack = <<>> /\ Emptied.link = None
      /\ Emptied.resume = "none" /\ Emptied.decision = Nobody
  BY <1>1, Now, EmptiedFacts
<1>3. Done(ToAction(Emptied))
  BY DEF ReturnToAction
<1> QED
  BY <1>2, <1>3, ActionDone

LEMMA StackSteps ==
  ASSUME IInv, StackStep
  PROVE  IInv'
  BY ContinueStopsStep, CloseForGoneAttackStep, PlaceBeforePriorityStep,
     ReopenReactionWindowStep, ContinueToPriorityStep, PriorityOrAdvanceStep, ResolveCardStep,
     FinishCardStep, ResolveAttackCardStep, ResolveTriggerStep, AskOptionalTriggerStep,
     ResolvePhantasmStep, AfterPhantasmStep, ReturnToActionStep DEF StackStep

-----------------------------------------------------------------------------
(* The combat chain                                                          *)

LEMMA NewLinkFacts ==
  ASSUME NEW again \in BOOLEAN
  PROVE  /\ NewLink(again) \in Links /\ NewLink(again) # None
         /\ ~NewLink(again).began /\ ~NewLink(again).damaged /\ ~NewLink(again).resolving
         /\ Unpaid(NewLink(again)) = IF again THEN 1 ELSE 0
<1>1. PICK l : l = NewLink(again)
  OBVIOUS
<1>2. l \in Links /\ ~l.began /\ ~l.damaged /\ ~l.resolving /\ l.again = again
  BY <1>1 DEF NewLink, Links
<1>3. l # None
  BY <1>2, NoneAssumption
<1> QED
  BY <1>1, <1>2, <1>3 DEF Unpaid

(* An attack is declared; a choice that is open goes on with it. *)
LEMMA DeclareAttackStep ==
  ASSUME NEW s \in States, DeclareAttack(s), Owes(s), Free(s), s.link # None,
         ~s.link.began, ~s.link.damaged, ~s.link.resolving,
         Asked(s) => s.decision.then = "none"
  PROVE  IInv'
<1>1. PICK t : t = [s EXCEPT !.phase = "layer", !.resume = "start-attack-step"]
  OBVIOUS
<1>2. /\ t \in States /\ t.phase = "layer" /\ t.resume = "start-attack-step"
      /\ t.active = s.active /\ t.decision = s.decision /\ t.stack = s.stack
      /\ t.link = s.link /\ t.queue = s.queue
      /\ t.ap = s.ap /\ t.owed = s.owed /\ t.fuel = s.fuel
  <2>1. "layer" \in Phases /\ "start-attack-step" \in Resumes
    BY DEF Phases, Resumes
  <2> QED
    BY <1>1, <2>1 DEF States
<1>3. Combat(t) /\ Unannounced(t) /\ Steady(t)
  BY <1>2 DEF Combat, CombatResumes, Unannounced, GivesPriority, Steady, Resumable
<1>4. Owes(t)
  <2>1. Due(t.resume) = 0 /\ Due(s.resume) \in Nat
    BY <1>2 DEF Due
  <2> QED
    BY <1>2, <2>1, Numbers DEF Owes
<1>5. Sound(t) /\ Free(t) /\ (Asked(t) => t.decision.then = "none") /\ t.active \in Seats
  BY <1>2, <1>3, <1>4, Parts DEF Sound, Free, Asked
<1>6. PICK v : v = IF Asked(t) /\ t.decision.then = "none"
                     THEN After(t, "continue", t.active) ELSE t
  OBVIOUS
<1>7. Go(v, "continue", t.active)
  BY <1>1, <1>2, <1>6 DEF DeclareAttack
<1>8. Kept(t, v) /\ v.decision.kind = t.decision.kind /\ (Asked(t) => v.decision.then = "continue")
  <2>1. CASE Asked(t)
    BY <1>2, <1>5, <1>6, <2>1, AfterFacts DEF Thens
  <2>2. CASE ~Asked(t)
    BY <1>2, <1>6, <2>2, Numbers DEF Kept, SameFlow, SameLink
  <2> QED
    BY <2>1, <2>2
<1>9. Sound(v) /\ Steady(v)
  BY <1>3, <1>5, <1>8, KeptSound, SameFits DEF Kept
<1>10. Free(v) /\ (Asked(v) => v.decision.then = "continue")
  BY <1>5, <1>8 DEF Free, Asked
<1> QED
  BY <1>5, <1>7, <1>9, <1>10, ToContinue

LEMMA StartQueuedStep ==
  ASSUME IInv, StartQueued
  PROVE  IInv'
<1>1. /\ Sound(state) /\ Ready(state, call) /\ call.op = "queue" /\ state \in States
      /\ Owes(state)
  BY Now DEF StartQueued, Runs
<1>2. /\ Steady(state) /\ Free(state) /\ ~Asked(state) /\ state.link = None
      /\ state.stack = <<>>
  BY <1>1 DEF Ready, Undecided
<1>3. PICK i \in 1 .. Len(state.queue) :
        LET q == state.queue[i]
            s == [state EXCEPT !.queue = SubSeq(@, i + 1, Len(@)),
                               !.link = NewLink(q.again)]
        IN IF q.ready
             THEN Go([s EXCEPT !.phase = "layer", !.resume = "none",
                               !.decision = IF Asked(s) THEN @ ELSE Nobody],
                     "attack-step", NoSeat)
             ELSE DeclareAttack(s)
  BY DEF StartQueued
<1>4. PICK e, l, r : /\ e = state.queue[i] /\ l = NewLink(e.again)
                     /\ r = SubSeq(state.queue, i + 1, Len(state.queue))
  OBVIOUS
<1>5. PICK s : s = [state EXCEPT !.queue = r, !.link = l]
  OBVIOUS
<1>6. IF e.ready
        THEN Go([s EXCEPT !.phase = "layer", !.resume = "none",
                          !.decision = IF Asked(s) THEN @ ELSE Nobody],
                "attack-step", NoSeat)
        ELSE DeclareAttack(s)
  BY <1>3, <1>4, <1>5
<1>7. /\ e \in Entries /\ e.again \in BOOLEAN /\ r \in Seq(Entries)
      /\ AgainOn(r) + Own(e) <= AgainOn(state.queue)
  <2>1. state.queue \in Seq(Entries)
    BY <1>1, Parts
  <2>2. e \in Entries
    BY <1>4, <2>1, ElementOfSeq
  <2>3. r \in Seq(Entries) /\ AgainOn(r) + Own(e) <= AgainOn(state.queue)
    BY <1>4, <2>1, AgainBehind
  <2> QED
    BY <2>2, <2>3 DEF Entries
<1>8. /\ l \in Links /\ l # None /\ ~l.began /\ ~l.damaged /\ ~l.resolving
      /\ Unpaid(l) = Own(e)
  BY <1>4, <1>7, NewLinkFacts DEF Own
<1>9. /\ s \in States
      /\ s.phase = state.phase /\ s.active = state.active /\ s.priority = state.priority
      /\ s.decision = state.decision /\ s.stack = state.stack /\ s.resume = state.resume
      /\ s.link = l /\ s.queue = r
      /\ s.ap = state.ap /\ s.owed = state.owed /\ s.fuel = state.fuel
  BY <1>1, <1>5, <1>7, <1>8 DEF States
<1>10. Owes(s)
  <2>1. /\ state.ap \in Nat /\ AgainOn(state.queue) \in Nat /\ AgainOn(state.stack) \in Nat
        /\ Due(state.resume) \in Nat /\ state.owed \in Nat /\ state.fuel \in Nat
    BY <1>1, Numbers
  <2>2. PICK h \in Nat : h = Own(e)
    BY DEF Own
  <2>3. AgainOn(r) \in Nat
    BY <1>7, AgainCounts
  <2>4. state.ap + AgainOn(state.stack) + AgainOn(state.queue) + 0 + Due(state.resume)
          <= state.owed
    <3>1. Unpaid(state.link) = 0
      BY <1>2 DEF Unpaid
    <3> QED
      BY <1>1, <3>1 DEF Owes
  <2>5. state.ap + AgainOn(state.stack) + AgainOn(r) + h + Due(state.resume) <= state.owed
    <3>1. PICK m \in Nat, k \in Nat, j \in Nat, n \in Nat, d \in Nat, o \in Nat :
            /\ m = state.ap /\ k = AgainOn(state.stack) /\ j = AgainOn(state.queue)
            /\ n = AgainOn(r) /\ d = Due(state.resume) /\ o = state.owed
      BY <2>1, <2>3
    <3>2. n + h <= j
      BY <1>7, <2>2, <3>1
    <3>3. m + k + j + 0 + d <= o
      BY <2>4, <3>1
    <3>4. m + k + n + h + d <= o
      BY <3>2, <3>3
    <3> QED
      BY <3>1, <3>4
  <2>6. state.owed + state.fuel <= Budget + 1
    BY <1>1 DEF Owes
  <2>7. /\ s.ap = state.ap /\ s.stack = state.stack /\ s.queue = r /\ Unpaid(s.link) = h
        /\ s.resume = state.resume /\ s.owed = state.owed /\ s.fuel = state.fuel
    BY <1>8, <1>9, <2>2
  <2>8. state.ap + AgainOn(state.stack) + AgainOn(r) + h + Due(state.resume) <= state.owed
    BY <2>5
  <2> QED
    BY <2>6, <2>7, <2>8 DEF Owes
<1>11. CASE ~e.ready
  <2>1. DeclareAttack(s)
    BY <1>6, <1>11
  <2>2. Free(s) /\ ~Asked(s)
    BY <1>2, <1>9 DEF Free, Asked
  <2> QED
    BY <1>8, <1>9, <1>10, <2>1, <2>2, DeclareAttackStep
<1>12. CASE e.ready
  <2>1. PICK t : t = [s EXCEPT !.phase = "layer", !.resume = "none", !.decision = Nobody]
    OBVIOUS
  <2>2. Go(t, "attack-step", NoSeat)
    <3>1. ~Asked(s)
      BY <1>2, <1>9 DEF Asked
    <3> QED
      BY <1>6, <1>12, <2>1, <3>1
  <2>3. /\ t \in States /\ t.phase = "layer" /\ t.resume = "none" /\ t.decision = Nobody
        /\ t.stack = s.stack /\ t.link = s.link /\ t.queue = s.queue
        /\ t.ap = s.ap /\ t.owed = s.owed /\ t.fuel = s.fuel
    <3>1. "layer" \in Phases /\ "none" \in Resumes
      BY DEF Phases, Resumes
    <3> QED
      BY <1>9, <2>1, <3>1, Opened DEF States
  <2>4. Combat(t) /\ Unannounced(t)
    BY <1>8, <1>9, <2>3 DEF Combat, CombatResumes, Unannounced, GivesPriority
  <2>5. Owes(t)
    BY <1>9, <1>10, <2>3, OwesOn
  <2>6. Sound(t)
    BY <2>3, <2>4, <2>5 DEF Sound
  <2> QED
    BY <1>2, <1>8, <1>9, <2>2, <2>3, <2>6, ToAttackStep
<1> QED
  BY <1>11, <1>12

LEMMA NoneQueuedStep ==
  ASSUME IInv, NoneQueued
  PROVE  IInv'
<1>1. /\ Sound(state) /\ Ready(state, call) /\ call.op = "queue" /\ state \in States
      /\ call.seat \in Seats \cup {NoSeat}
  BY Now DEF NoneQueued, Runs
<1>2. /\ Steady(state) /\ Free(state) /\ ~Asked(state) /\ state.link = None
      /\ state.stack = <<>>
      /\ call.from \in {"continue", "defer", "finish"}
      /\ call.from \in {"defer", "finish"} => state.decision = Nobody /\ state.resume = "none"
      /\ call.from = "finish" => Bare(state)
  BY <1>1 DEF Ready, Undecided
<1>3. PICK u, s :
        /\ u = [state EXCEPT !.queue = <<>>]
        /\ s \in ClosedChain(u) \/ s = state
        /\ CASE call.from = "continue" -> Go(s, "window", call.seat)
             [] call.from = "defer" -> Done([ToAction(s) EXCEPT !.resume = "none"])
             [] OTHER -> Done(s)
  <2>1. CASE call.seat = state.active /\ state.queue # <<>>
    BY <2>1 DEF NoneQueued
  <2>2. CASE ~(call.seat = state.active /\ state.queue # <<>>)
    BY <2>2 DEF NoneQueued
  <2> QED
    BY <2>1, <2>2
<1>4. Kept(state, s) /\ (s.decision = state.decision \/ s.decision = Choice)
  <2>1. Kept(state, state)
    BY <1>1, Numbers DEF Kept, SameFlow, SameLink
  <2>2. CASE s \in ClosedChain(u)
    <3>1. <<>> \in Seq(Entries) /\ AgainOn(<<>>) = 0 /\ AgainOn(state.queue) \in Nat
      BY <1>1, AgainNone, Numbers
    <3>2. /\ u \in States
          /\ u.phase = state.phase /\ u.active = state.active /\ u.priority = state.priority
          /\ u.decision = state.decision /\ u.stack = state.stack /\ u.resume = state.resume
          /\ u.passes = state.passes /\ u.link = state.link /\ u.queue = <<>>
          /\ u.ap = state.ap /\ u.owed = state.owed /\ u.fuel = state.fuel
      BY <1>1, <1>3, <3>1 DEF States
    <3>3. Kept(state, u)
      <4>1. u.fuel <= state.fuel
        BY <1>1, <3>2, Numbers
      <4> QED
        BY <3>1, <3>2, <4>1 DEF Kept, SameFlow, SameLink
    <3>4. Kept(u, s) /\ (s.decision = u.decision \/ s.decision = Choice)
      BY <2>2, <3>2, ClosedChainFacts
    <3> QED
      BY <1>1, <3>2, <3>3, <3>4, KeptTwice
  <2> QED
    BY <1>3, <2>1, <2>2
<1>5. /\ Sound(s) /\ Steady(s) /\ s.stack = <<>> /\ s.link = None /\ s \in States
      /\ s.resume = state.resume
  BY <1>1, <1>2, <1>4, KeptSound, SameFits DEF Kept, SameFlow, SameLink
<1>6. Free(s)
  BY <1>2, <1>4, Opened DEF Free
<1>7. CASE call.from = "continue"
  <2>1. Go(s, "window", call.seat)
    BY <1>3, <1>7
  <2> QED
    BY <1>1, <1>5, <1>6, <2>1, ToWindow
<1>8. CASE call.from = "defer"
  <2>1. PICK a : a = ToAction(s)
    OBVIOUS
  <2>2. a \in States /\ a.resume = "none"
    BY <1>2, <1>5, <1>8, <2>1, ToActionFacts
  <2>3. [a EXCEPT !.resume = "none"] = a
    BY <2>2 DEF States
  <2>4. Done(a)
    BY <1>3, <1>8, <2>1, <2>3
  <2> QED
    BY <1>2, <1>4, <1>5, <1>8, <2>1, <2>4, ActionDone
<1>9. CASE call.from = "finish"
  <2>1. Done(s)
    BY <1>3, <1>9
  <2>2. Bare(s)
    BY <1>2, <1>4, <1>9, SameFits DEF Kept
  <2>3. s.decision = Nobody \/ s.decision = Choice
    BY <1>2, <1>4, <1>9
  <2> QED
    BY <1>5, <2>1, <2>2, <2>3, BareDone, Opened
<1> QED
  BY <1>2, <1>7, <1>8, <1>9

LEMMA ResumeAttackLayerStep ==
  ASSUME IInv, ResumeAttackLayer
  PROVE  IInv'
<1>1. /\ state.stack = <<>> /\ state.link # None /\ state.resume = "start-attack-step"
      /\ Combat(state) /\ Sound(state)
  BY FinishesStack, Now DEF ResumeAttackLayer, CombatResumes
<1>2. ~state.link.began /\ state.phase = "layer"
  BY <1>1 DEF Combat
<1>3. /\ Sound(Emptied) /\ Emptied.decision = Nobody /\ Emptied.resume = "none"
      /\ Emptied.phase = "layer" /\ Emptied.stack = <<>> /\ Emptied.link = state.link
  BY <1>1, <1>2, EmptiedFacts
<1>4. Go(Emptied, "attack-step", NoSeat)
  BY DEF ResumeAttackLayer
<1> QED
  BY <1>1, <1>2, <1>3, <1>4, ToAttackStep

(* Only the link differs. *)
LEMMA LinkFacts ==
  ASSUME NEW s \in States, NEW l \in Links \cup {None}, NEW t, t = [s EXCEPT !.link = l]
  PROVE  /\ t \in States /\ t.link = l
         /\ t.phase = s.phase /\ t.active = s.active /\ t.priority = s.priority
         /\ t.decision = s.decision /\ t.stack = s.stack /\ t.resume = s.resume
         /\ t.passes = s.passes /\ t.open = s.open /\ t.queue = s.queue
         /\ t.pending = s.pending /\ t.ap = s.ap /\ t.owed = s.owed /\ t.fuel = s.fuel
  BY DEF States

LEMMA DeferBehindQueueStep ==
  ASSUME IInv, DeferBehindQueue
  PROVE  IInv'
<1>1. /\ Sound(state) /\ Ready(state, call) /\ call.op = "attack-step" /\ state \in States
      /\ Owes(state) /\ Combat(state) /\ state.active \in Seats
  BY Now DEF DeferBehindQueue, Runs
<1>2. /\ state.link # None /\ ~state.link.began /\ state.phase = "layer"
      /\ state.stack = <<>> /\ state.resume = "none" /\ state.decision = Nobody
  BY <1>1 DEF Ready
<1>3. state.link \in Links /\ state.queue \in Seq(Entries)
  BY <1>1, <1>2, Parts
<1>4. PICK e, q : e = Queued(TRUE, state.link.again) /\ q = Append(state.queue, e)
  OBVIOUS
<1>5. PICK s : s = [state EXCEPT !.link = None, !.queue = q]
  OBVIOUS
<1>6. Call(s, "queue", state.active, "defer")
  BY <1>4, <1>5 DEF DeferBehindQueue
<1>7. e \in Entries /\ e.again = state.link.again
  BY <1>3, <1>4 DEF Queued, Entries, Links
<1>8. Own(e) = Unpaid(state.link) /\ Own(e) \in Nat
  BY <1>1, <1>2, <1>7 DEF Own, Unpaid, Combat
<1>9. q \in Seq(Entries) /\ AgainOn(q) = AgainOn(state.queue) + Own(e)
  BY <1>3, <1>4, <1>7, AppendProperties, AgainMore
<1>10. /\ s \in States /\ s.phase = "layer" /\ s.active = state.active
       /\ s.decision = Nobody /\ s.stack = <<>> /\ s.resume = "none" /\ s.link = None
       /\ s.queue = q /\ s.ap = state.ap /\ s.owed = state.owed /\ s.fuel = state.fuel
  BY <1>1, <1>2, <1>5, <1>9 DEF States
<1>11. Combat(s) /\ Unannounced(s) /\ Steady(s)
  BY <1>10 DEF Combat, CombatResumes, Unannounced, GivesPriority, Steady, Resumable
<1>12. Owes(s)
  <2>1. /\ state.ap \in Nat /\ AgainOn(state.stack) \in Nat /\ AgainOn(state.queue) \in Nat
        /\ state.owed \in Nat /\ Due(state.resume) \in Nat
    BY <1>1, Numbers
  <2>2. PICK h \in Nat : h = Unpaid(state.link)
    BY <1>8
  <2>3. /\ state.ap + AgainOn(state.stack) + AgainOn(state.queue) + h + Due(state.resume)
             <= state.owed
        /\ state.owed + state.fuel <= Budget + 1
    BY <1>1, <2>2 DEF Owes
  <2>4. Unpaid(s.link) = 0 /\ AgainOn(s.queue) = AgainOn(state.queue) + h
    BY <1>8, <1>9, <1>10, <2>2 DEF Unpaid
  <2>5. state.ap + AgainOn(state.stack) + (AgainOn(state.queue) + h) + 0 + Due(state.resume)
          <= state.owed
    BY <2>1, <2>2, <2>3
  <2> QED
    BY <1>2, <1>10, <2>3, <2>4, <2>5 DEF Owes
<1>13. Undecided(s)
  BY <1>10, Opened DEF Undecided, Free, Asked
<1> QED
  BY <1>1, <1>6, <1>10, <1>11, <1>12, <1>13, ToQueue DEF Sound

LEMMA BeginAttackStepStep ==
  ASSUME IInv, BeginAttackStep
  PROVE  IInv'
<1>1. /\ Sound(state) /\ Ready(state, call) /\ call.op = "attack-step" /\ state \in States
      /\ Owes(state) /\ Combat(state)
  BY Now DEF BeginAttackStep, Runs
<1>2. /\ state.link # None /\ ~state.link.began /\ state.phase = "layer"
      /\ state.stack = <<>> /\ state.resume = "none" /\ state.decision = Nobody
  BY <1>1 DEF Ready
<1>3. state.link \in Links
  BY <1>1, <1>2, Parts
<1>4. PICK l, u : l = [state.link EXCEPT !.began = TRUE] /\ u = [state EXCEPT !.link = l]
  OBVIOUS
<1>5. /\ l \in Links /\ l.began /\ l.again = state.link.again
      /\ l.damaged = state.link.damaged /\ l.resolving = state.link.resolving
  BY <1>3, <1>4 DEF Links
<1>6. l # None /\ Unpaid(l) = Unpaid(state.link) /\ ~l.damaged
  BY <1>1, <1>2, <1>5, NoneAssumption DEF Unpaid, Combat
<1>7. /\ u \in States /\ u.link = l /\ u.phase = "layer" /\ u.stack = <<>>
      /\ u.resume = "none" /\ u.decision = Nobody /\ u.queue = state.queue
      /\ u.ap = state.ap /\ u.owed = state.owed /\ u.fuel = state.fuel
  <2>1. u = [state EXCEPT !.link = l] /\ l \in Links \cup {None}
    BY <1>4, <1>5
  <2> QED
    BY <1>1, <1>2, <2>1, LinkFacts
<1>8. Combat(u) /\ Unannounced(u) /\ Declared(u)
  BY <1>5, <1>6, <1>7 DEF Combat, CombatResumes, Unannounced, GivesPriority, Declared
<1>9. Owes(u)
  BY <1>1, <1>2, <1>6, <1>7, SameOwes
<1>10. Sound(u)
  BY <1>7, <1>8, <1>9 DEF Sound
<1>11. PICK s \in Effects(u, Anything) :
         IF Asked(s) THEN Done(After(s, "declare", NoSeat)) ELSE Go(s, "declared", NoSeat)
  BY <1>4 DEF BeginAttackStep
<1>12. Kept(u, s) /\ (s.decision = Nobody \/ s.decision = Choice)
  BY <1>7, <1>11, EffectsKeep
<1>13. Sound(s) /\ Declared(s) /\ Free(s)
  BY <1>8, <1>10, <1>12, KeptSound, SameFits, Opened DEF Kept, Free
<1>14. CASE Asked(s)
  <2>1. Continues(s, "declare") /\ s.decision.kind = "choice"
        /\ Done(After(s, "declare", NoSeat))
    BY <1>11, <1>13, <1>14, AskedIsChoice DEF Continues
  <2> QED
    BY <1>13, <2>1, AfterDone DEF Thens
<1>15. CASE ~Asked(s)
  <2>1. Go(s, "declared", NoSeat)
    BY <1>11, <1>15
  <2> QED
    BY <1>13, <1>15, <2>1, ToDeclared DEF Undecided
<1> QED
  BY <1>14, <1>15

(* Only the step the stack goes on with differs. *)
LEMMA ResumeFacts ==
  ASSUME NEW s \in States, NEW resume \in Resumes, NEW t, t = [s EXCEPT !.resume = resume]
  PROVE  /\ t \in States /\ t.resume = resume
         /\ t.phase = s.phase /\ t.active = s.active /\ t.priority = s.priority
         /\ t.decision = s.decision /\ t.stack = s.stack
         /\ t.passes = s.passes /\ t.link = s.link /\ t.open = s.open /\ t.queue = s.queue
         /\ t.pending = s.pending /\ t.ap = s.ap /\ t.owed = s.owed /\ t.fuel = s.fuel
  BY DEF States

LEMMA DeclareTailStep ==
  ASSUME IInv, DeclareTail
  PROVE  IInv'
<1>1. /\ Sound(state) /\ Ready(state, call) /\ call.op = "declared" /\ state \in States
      /\ Owes(state)
  BY Now DEF DeclareTail, Runs
<1>2. Declared(state) /\ Undecided(state)
  BY <1>1 DEF Ready
<1>3. PICK new \in OneTrigger : QueueTriggered(state, new, "continue-attack")
  BY DEF DeclareTail
<1>4. PICK r : r = [state EXCEPT !.resume = "continue-attack"]
  OBVIOUS
<1>5. "continue-attack" \in Resumes /\ new \in Pendings
  BY <1>3, OneTriggerFacts DEF Resumes
<1>6. /\ r \in States /\ r.resume = "continue-attack" /\ r.phase = state.phase
      /\ r.decision = state.decision /\ r.stack = state.stack
      /\ r.link = state.link /\ r.queue = state.queue
      /\ r.ap = state.ap /\ r.owed = state.owed /\ r.fuel = state.fuel
  BY <1>1, <1>4, <1>5, ResumeFacts
<1>7. Combat(r) /\ Unannounced(r) /\ Resumable(r)
  BY <1>2, <1>6 DEF Combat, CombatResumes, Unannounced, GivesPriority, Resumable, Declared
<1>8. Owes(r)
  BY <1>1, <1>6, OwesOn
<1>9. Sound(r) /\ Undecided(r)
  BY <1>2, <1>6, <1>7, <1>8 DEF Sound, Undecided, Free, Asked
<1> QED
  BY <1>1, <1>3, <1>4, <1>5, <1>7, <1>9, QueueTriggeredStep

(* The attack is past its first pause, and no step is taken up. *)
LEMMA ProceedWithAttackStep ==
  ASSUME IInv, ProceedWithAttack
  PROVE  IInv'
<1>1. /\ state.stack = <<>> /\ state.link # None /\ state.resume = "continue-attack"
      /\ Combat(state) /\ Sound(state) /\ state.active \in Seats
  BY FinishesStack, Now DEF ProceedWithAttack, CombatResumes
<1>2. state.link.began /\ ~state.link.damaged
  BY <1>1 DEF Combat, CombatResumes
<1>3. /\ Sound(Emptied) /\ Emptied \in States /\ Emptied.resume = "none"
      /\ Emptied.stack = <<>> /\ Emptied.link = state.link /\ Emptied.active = state.active
  BY <1>1, EmptiedFacts
<1>4. PICK s \in Effects(Emptied, {"raise", "gone"}) :
        \/ Done([s EXCEPT !.phase = "defend", !.priority = Opp(s.active),
                          !.decision = Prompt("defend", Opp(s.active))])
        \/ Done(OpenReactions(s, s.active))
  BY <1>1 DEF ProceedWithAttack
<1>5. Kept(Emptied, s)
  BY <1>3, <1>4, EffectsKeep
<1>6. /\ Sound(s) /\ s.link # None /\ s.link.began /\ ~s.link.damaged /\ s.resume = "none"
      /\ s.stack = <<>> /\ s.active = state.active /\ s \in States
  BY <1>1, <1>2, <1>3, <1>5, KeptSound, SameResumable DEF Kept, SameFlow
<1>7. CASE Done(OpenReactions(s, s.active))
  BY <1>1, <1>6, <1>7, ReactionsDone
<1>8. CASE Done([s EXCEPT !.phase = "defend", !.priority = Opp(s.active),
                          !.decision = Prompt("defend", Opp(s.active))])
  <2>1. PICK o, d, t : /\ o = Opp(s.active) /\ d = Prompt("defend", o)
                       /\ t = [s EXCEPT !.phase = "defend", !.priority = o, !.decision = d]
    OBVIOUS
  <2>2. o \in Seats /\ d \in Decisions /\ d.kind = "defend"
    BY <1>1, <1>6, <2>1, Opened
  <2>3. /\ t \in States /\ t.phase = "defend" /\ t.active = s.active /\ t.priority = o
        /\ t.decision = d /\ t.stack = s.stack /\ t.resume = s.resume
        /\ t.link = s.link /\ t.queue = s.queue
        /\ t.ap = s.ap /\ t.owed = s.owed /\ t.fuel = s.fuel
    <3>1. "defend" \in Phases
      BY DEF Phases
    <3> QED
      BY <1>6, <2>1, <2>2, <3>1 DEF States
  <2>4. Combat(t) /\ Unannounced(t)
    BY <1>6, <2>3 DEF Combat, CombatResumes, Unannounced, GivesPriority
  <2>5. Owes(t)
    BY <1>6, <2>3, SameOwes DEF Sound
  <2>6. Settled(t)
    BY <1>6, <2>1, <2>2, <2>3 DEF Settled
  <2> QED
    BY <1>8, <2>1, <2>3, <2>4, <2>5, <2>6, ToDone DEF Sound
<1> QED
  BY <1>4, <1>7, <1>8

LEMMA BeginReactionStepStep ==
  ASSUME IInv, BeginReactionStep
  PROVE  IInv'
<1>1. /\ state.stack = <<>> /\ state.link # None /\ state.resume = "start-reaction-step"
      /\ Combat(state) /\ Sound(state) /\ state.active \in Seats
  BY FinishesStack, Now DEF BeginReactionStep, CombatResumes
<1>2. state.link.began /\ ~state.link.damaged
  BY <1>1 DEF Combat, CombatResumes
<1>3. Sound(Emptied) /\ Emptied.resume = "none" /\ Emptied.link = state.link
  BY <1>1, EmptiedFacts
<1>4. Done(OpenReactions(Emptied, state.active))
  BY <1>1 DEF BeginReactionStep
<1> QED
  BY <1>1, <1>2, <1>3, <1>4, ReactionsDone

LEMMA ResumeLinkStep ==
  ASSUME IInv, ResumeLink
  PROVE  IInv'
<1>1. /\ state.stack = <<>> /\ state.link # None /\ state.resume = "finish-link-resolution"
      /\ Combat(state) /\ Sound(state)
  BY FinishesStack, Now DEF ResumeLink, CombatResumes
<1>2. state.link.began /\ state.phase = "layer"
  BY <1>1 DEF Combat, CombatResumes
<1>3. /\ Sound(Emptied) /\ Emptied.resume = "none" /\ Emptied.link = state.link
      /\ Emptied.stack = <<>> /\ Emptied.phase = state.phase /\ Emptied.decision = Nobody
  BY <1>1, EmptiedFacts
<1>4. Fighting(Emptied, {"reaction", "layer"}) /\ Free(Emptied)
  BY <1>1, <1>2, <1>3, Opened DEF Fighting, Free
<1>5. PICK op \in {"finish-damage", "finish-link"} : Go(Emptied, op, NoSeat)
  BY <1>1 DEF ResumeLink
<1> QED
  BY <1>3, <1>4, <1>5, ToFinish

LEMMA ResolveGoneLinkStep ==
  ASSUME IInv, ResolveGoneLink
  PROVE  IInv'
<1>1. Sound(state) /\ Ready(state, call) /\ call.op = "damage"
  BY Now DEF ResolveGoneLink, Runs
<1>2. state.stack = <<>> /\ state.resume = "none" /\ ~Asked(state)
  BY <1>1 DEF Ready, Fighting, Undecided
<1>3. PICK s \in ClosedForGone(state) : Done(s)
  BY DEF ResolveGoneLink
<1>4. /\ Sound(s) /\ s.phase = "action" /\ s.priority = s.active /\ s.link = None
      /\ s.stack = <<>> /\ s.resume = "none" /\ (s.decision = Nobody \/ s.decision = Choice)
  BY <1>1, <1>2, <1>3, ClosedForGoneFacts DEF CombatResumes
<1>5. Bare(s)
  BY <1>4 DEF Bare
<1> QED
  BY <1>3, <1>4, <1>5, BareDone, Opened

LEMMA ResolveSourcelessLinkStep ==
  ASSUME IInv, ResolveSourcelessLink
  PROVE  IInv'
<1>1. /\ Sound(state) /\ Ready(state, call) /\ call.op = "damage" /\ state \in States
      /\ Owes(state) /\ Combat(state) /\ Unannounced(state) /\ state.fuel > 0
  BY Now DEF ResolveSourcelessLink, Runs
<1>2. /\ state.link # None /\ state.link.began /\ state.phase = "reaction"
      /\ state.stack = <<>> /\ state.resume = "none" /\ Free(state)
  BY <1>1 DEF Ready, Fighting, Undecided
<1>3. state.link \in Links
  BY <1>1, <1>2, Parts
<1>4. PICK again \in {FALSE, state.link.again} :
        Go([state EXCEPT !.fuel = @ - 1, !.link.again = again], "finish-link", NoSeat)
  BY DEF ResolveSourcelessLink
<1>5. PICK l, f : l = [state.link EXCEPT !.again = again] /\ f = state.fuel - 1
  OBVIOUS
<1>6. PICK s : s = [state EXCEPT !.fuel = f, !.link = l]
  OBVIOUS
<1>7. Go(s, "finish-link", NoSeat)
  BY <1>4, <1>5, <1>6
<1>8. /\ l \in Links /\ l.began = state.link.began /\ l.damaged = state.link.damaged
      /\ l.resolving = state.link.resolving /\ (l.again => state.link.again)
  BY <1>3, <1>4, <1>5 DEF Links
<1>9. l # None /\ Unpaid(l) <= Unpaid(state.link) /\ Unpaid(l) \in Nat /\ Unpaid(state.link) \in Nat
  BY <1>2, <1>8, NoneAssumption DEF Unpaid
<1>10. f \in Fuels /\ f <= state.fuel /\ f \in Nat /\ state.fuel \in Nat
  <2>1. state.fuel \in Nat /\ state.fuel <= Budget /\ Budget \in Nat
    BY <1>1, Numbers
  <2> QED
    BY <1>1, <1>5, <2>1 DEF Fuels
<1>11. /\ s \in States /\ s.phase = state.phase /\ s.decision = state.decision
       /\ s.stack = state.stack /\ s.resume = state.resume /\ s.link = l
       /\ s.queue = state.queue /\ s.ap = state.ap /\ s.owed = state.owed /\ s.fuel = f
  BY <1>1, <1>6, <1>8, <1>10 DEF States
<1>12. Combat(s) /\ Unannounced(s)
  BY <1>1, <1>2, <1>8, <1>9, <1>11 DEF Combat, CombatResumes, Unannounced
<1>13. Owes(s)
  <2>1. /\ state.ap + AgainOn(state.stack) + AgainOn(state.queue) + Unpaid(state.link)
             + Due(state.resume) <= state.owed
        /\ state.owed + state.fuel <= Budget + 1
    BY <1>1 DEF Owes
  <2>2. PICK x \in Nat : x = state.ap + AgainOn(state.stack) + AgainOn(state.queue)
    <3>1. state.ap \in Nat /\ AgainOn(state.stack) \in Nat /\ AgainOn(state.queue) \in Nat
      BY <1>1, Numbers
    <3> QED
      BY <3>1
  <2>3. Due(state.resume) \in Nat /\ state.owed \in Nat /\ Budget \in Nat
    BY <1>1, Numbers
  <2>4. x + Unpaid(l) + Due(state.resume) <= state.owed /\ state.owed + f <= Budget + 1
    BY <1>9, <1>10, <2>1, <2>2, <2>3
  <2> QED
    BY <1>11, <2>2, <2>4 DEF Owes
<1>14. Fighting(s, {"reaction", "layer"}) /\ Free(s)
  BY <1>2, <1>8, <1>9, <1>11 DEF Fighting, Free
<1> QED
  BY <1>7, <1>11, <1>12, <1>13, <1>14, ToFinish DEF Sound

LEMMA CalculateDamageStep ==
  ASSUME IInv, CalculateDamage
  PROVE  IInv'
<1>1. /\ Sound(state) /\ Ready(state, call) /\ call.op = "damage" /\ state \in States
      /\ Owes(state) /\ Combat(state) /\ Unannounced(state)
  BY Now DEF CalculateDamage, Runs
<1>2. /\ state.link # None /\ state.link.began /\ state.phase = "reaction"
      /\ state.stack = <<>> /\ state.resume = "none" /\ Undecided(state)
  BY <1>1 DEF Ready, Fighting
<1>3. state.link \in Links
  BY <1>1, <1>2, Parts
<1>4. PICK l, u : l = [state.link EXCEPT !.damaged = TRUE] /\ u = [state EXCEPT !.link = l]
  OBVIOUS
<1>5. /\ l \in Links /\ l.damaged /\ l.began /\ l.again = state.link.again
      /\ l.resolving = state.link.resolving
  BY <1>2, <1>3, <1>4 DEF Links
<1>6. l # None /\ Unpaid(l) = Unpaid(state.link)
  BY <1>2, <1>5, NoneAssumption DEF Unpaid
<1>7. /\ u \in States /\ u.link = l /\ u.phase = "reaction" /\ u.stack = <<>>
      /\ u.resume = "none" /\ u.decision = state.decision /\ u.queue = state.queue
      /\ u.ap = state.ap /\ u.owed = state.owed /\ u.fuel = state.fuel
  <2>1. u = [state EXCEPT !.link = l] /\ l \in Links \cup {None}
    BY <1>4, <1>5
  <2> QED
    BY <1>1, <1>2, <2>1, LinkFacts
<1>8. Combat(u) /\ Unannounced(u) /\ Fighting(u, {"reaction"})
  BY <1>5, <1>6, <1>7 DEF Combat, CombatResumes, Unannounced, GivesPriority, Fighting
<1>9. Owes(u)
  BY <1>1, <1>2, <1>6, <1>7, SameOwes
<1>10. Sound(u)
  BY <1>7, <1>8, <1>9 DEF Sound
<1>11. PICK s \in Effects(u, {"ask"}) :
         IF Asked(s) THEN Done(After(s, "damage", NoSeat)) ELSE Go(s, "apply-damage", NoSeat)
  BY <1>4 DEF CalculateDamage
<1>12. Kept(u, s) /\ (s.decision = state.decision \/ s.decision = Choice)
  BY <1>7, <1>11, EffectsKeep
<1>13. /\ Sound(s) /\ Fighting(s, {"reaction"}) /\ Free(s) /\ s.link.damaged
  <2>1. Sound(s) /\ Fighting(s, {"reaction"})
    BY <1>8, <1>10, <1>12, KeptSound, SameFits DEF Kept
  <2>2. s.link.damaged
    BY <1>5, <1>6, <1>7, <1>12, SameResumable DEF Kept
  <2> QED
    BY <1>2, <1>12, <2>1, <2>2, Opened DEF Free, Undecided
<1>14. CASE Asked(s)
  <2>1. Continues(s, "damage") /\ s.decision.kind = "choice"
        /\ Done(After(s, "damage", NoSeat))
    BY <1>11, <1>13, <1>14, AskedIsChoice DEF Continues
  <2> QED
    BY <1>13, <2>1, AfterDone DEF Thens
<1>15. CASE ~Asked(s)
  <2>1. Go(s, "apply-damage", NoSeat)
    BY <1>11, <1>15
  <2> QED
    BY <1>13, <1>15, <2>1, ToApplyDamage DEF Undecided
<1> QED
  BY <1>14, <1>15

LEMMA MoreFighting ==
  ASSUME NEW s, Fighting(s, {"reaction"})
  PROVE  Fighting(s, {"reaction", "layer"})
  BY DEF Fighting

(* The Reaction Step is over. *)
LEMMA HeldFacts ==
  ASSUME NEW s, Sound(s), Fighting(s, {"reaction", "layer"})
  PROVE  /\ Sound(DamageHeld(s)) /\ Steady(DamageHeld(s)) /\ DamageHeld(s) \in States
         /\ DamageHeld(s).phase = "layer" /\ DamageHeld(s).resume = "finish-link-resolution"
         /\ DamageHeld(s).decision = s.decision /\ DamageHeld(s).link = s.link
<1>0. PICK t : t = DamageHeld(s)
  OBVIOUS
<1>1. s \in States /\ Owes(s)
  BY DEF Sound
<1>2. /\ t \in States /\ t.phase = "layer" /\ t.resume = "finish-link-resolution"
      /\ t.active = s.active /\ t.priority = s.priority /\ t.decision = s.decision
      /\ t.stack = s.stack /\ t.passes = s.passes /\ t.link = s.link /\ t.open = s.open
      /\ t.queue = s.queue /\ t.pending = s.pending
      /\ t.ap = s.ap /\ t.owed = s.owed /\ t.fuel = s.fuel
  <2>1. "layer" \in Phases /\ "finish-link-resolution" \in Resumes
    BY DEF Phases, Resumes
  <2> QED
    BY <1>0, <1>1, <2>1 DEF States, DamageHeld
<1>3. s.link # None /\ s.link.began
  BY DEF Fighting
<1>4. Combat(t) /\ Unannounced(t) /\ Steady(t)
  BY <1>2, <1>3 DEF Combat, CombatResumes, Unannounced, GivesPriority, Steady, Resumable
<1>5. Owes(t)
  BY <1>1, <1>2, OwesOn
<1> QED
  BY <1>0, <1>2, <1>4, <1>5 DEF Sound

LEMMA ApplyDamageStep ==
  ASSUME IInv, ApplyDamage
  PROVE  IInv'
<1>1. /\ Sound(state) /\ Ready(state, call) /\ call.op = "apply-damage" /\ state \in States
  BY Now DEF ApplyDamage, Runs
<1>2. Fighting(state, {"reaction"}) /\ state.link.damaged /\ Undecided(state)
  BY <1>1 DEF Ready
<1>3. PICK s \in Effects(state, Anything) :
        \/ Go(s, "finish-damage", NoSeat)
        \/ \E t \in Queueings([s EXCEPT !.phase = "layer"],
                              Raise(Nothing, "trigger", s.active),
                              "finish-link-resolution") :
             CASE ~Asked(s) -> OpenPlaced(t)
               [] Asked(s) /\ t.stack = <<>> -> Done(After(t, "continue", t.active))
               [] OTHER -> Done([OpenWindow(t, t.active, 0) EXCEPT
                                   !.decision = [s.decision EXCEPT !.then = "window"]])
  BY <1>2 DEF ApplyDamage, Fighting
<1>4. Kept(state, s) /\ (s.decision = state.decision \/ s.decision = Choice)
  BY <1>1, <1>3, EffectsKeep
<1>5. /\ Sound(s) /\ Fighting(s, {"reaction"}) /\ Free(s) /\ s \in States /\ s.active \in Seats
  BY <1>1, <1>2, <1>4, KeptSound, SameFits, Opened, Parts DEF Kept, Free, Undecided
<1>6. CASE Go(s, "finish-damage", NoSeat)
  BY <1>5, <1>6, ToFinish, MoreFighting
<1>7. ASSUME NEW t \in Queueings([s EXCEPT !.phase = "layer"],
                                 Raise(Nothing, "trigger", s.active), "finish-link-resolution"),
             CASE ~Asked(s) -> OpenPlaced(t)
               [] Asked(s) /\ t.stack = <<>> -> Done(After(t, "continue", t.active))
               [] OTHER -> Done([OpenWindow(t, t.active, 0) EXCEPT
                                   !.decision = [s.decision EXCEPT !.then = "window"]])
      PROVE  IInv'
  <2>1. PICK h : h = [s EXCEPT !.phase = "layer"]
    OBVIOUS
  <2>2. h \in States /\ "finish-link-resolution" \in Resumes
    <3>1. "layer" \in Phases
      BY DEF Phases
    <3> QED
      BY <1>5, <2>1, <3>1 DEF States, Resumes
  <2>3. PICK r : r = [h EXCEPT !.resume = "finish-link-resolution"]
    OBVIOUS
  <2>4. r = DamageHeld(s)
    BY <1>5, <2>1, <2>3 DEF States, DamageHeld
  <2>5. /\ Sound(r) /\ Steady(r) /\ r.phase = "layer" /\ r.resume = "finish-link-resolution"
        /\ r.decision = s.decision /\ r.link = s.link
    BY <1>5, <2>4, HeldFacts, MoreFighting
  <2>6. Raise(Nothing, "trigger", s.active) \in Pendings
    BY <1>5, OneTriggerFacts
  <2>7. Placed(r, t)
    BY <1>7, <2>1, <2>2, <2>3, <2>6, QueueingsFacts
  <2>8. /\ Sound(t) /\ Resumable(t) /\ t \in States /\ t.phase = "layer"
        /\ t.decision = s.decision /\ t.link # None /\ t.active \in Seats
    BY <1>5, <2>5, <2>7, PlacedSound, Parts DEF Placed, Steady, Fighting
  <2>9. Steady(t) /\ Free(t)
    BY <1>5, <2>8 DEF Steady, Free
  <2>10. CASE ~Asked(s)
    <3>1. OpenPlaced(t) /\ Undecided(t)
      BY <1>7, <2>8, <2>9, <2>10 DEF Undecided, Asked
    <3> QED
      BY <2>8, <3>1, OpenPlacedStep
  <2>11. CASE Asked(s) /\ t.stack = <<>>
    <3>1. Done(After(t, "continue", t.active))
      BY <1>7, <2>11
    <3>2. t.decision.kind = "choice" /\ Continues(t, "continue")
      BY <2>8, <2>9, <2>11, AskedIsChoice DEF Continues, Asked
    <3> QED
      BY <2>8, <3>1, <3>2, AfterDone DEF Thens
  <2>12. CASE Asked(s) /\ t.stack # <<>>
    <3>1. PICK d, w : d = [s.decision EXCEPT !.then = "window"] /\ w = OpenWindow(t, t.active, 0)
      OBVIOUS
    <3>2. PICK v : v = [w EXCEPT !.decision = d]
      OBVIOUS
    <3>3. Done(v)
      BY <1>7, <2>12, <3>1, <3>2
    <3>4. d \in Decisions /\ d.kind = "choice" /\ d.then = "window"
      <4>1. s.decision \in Decisions /\ s.decision.kind = "choice"
        BY <1>5, <2>12, AskedIsChoice, Parts
      <4> QED
        BY <3>1, <4>1 DEF Decisions
    <3>5. /\ w \in States /\ w.phase = "layer" /\ w.priority = t.active /\ w.passes = 0
          /\ w.stack = t.stack /\ w.resume = t.resume
          /\ w.link = t.link /\ w.queue = t.queue
          /\ w.ap = t.ap /\ w.owed = t.owed /\ w.fuel = t.fuel
      <4>1. "layer" \in Phases /\ 0 \in Passes /\ Prompt("window", t.active) \in Decisions
        BY <2>8, Opened DEF Phases, Passes
      <4>2. w = [t EXCEPT !.phase = "layer", !.passes = 0, !.priority = t.active,
                          !.decision = Prompt("window", t.active)]
        BY <3>1 DEF OpenWindow
      <4> QED
        BY <2>8, <4>1, <4>2 DEF States
    <3>6. /\ v \in States /\ v.phase = "layer" /\ v.priority = t.active /\ v.passes = 0
          /\ v.decision = d /\ v.stack = t.stack /\ v.resume = t.resume
          /\ v.link = t.link /\ v.queue = t.queue
          /\ v.ap = t.ap /\ v.owed = t.owed /\ v.fuel = t.fuel
      BY <3>2, <3>4, <3>5 DEF States
    <3>7. Combat(v) /\ Unannounced(v) /\ Steady(v)
      BY <2>8, <2>9, <3>6 DEF Sound, Combat, Unannounced, GivesPriority, Steady, Resumable
    <3>8. Owes(v)
      BY <2>8, <3>6, SameOwes DEF Sound
    <3>9. Continues(v, "window")
      BY <2>12, <3>6, <3>7 DEF Continues
    <3> QED
      BY <3>3, <3>4, <3>6, <3>7, <3>8, <3>9, ChoiceDone DEF Sound
  <2> QED
    BY <2>10, <2>11, <2>12
<1> QED
  BY <1>3, <1>6, <1>7

LEMMA FinishDamageStepStep ==
  ASSUME IInv, FinishDamageStep
  PROVE  IInv'
<1>1. /\ Sound(state) /\ Ready(state, call) /\ call.op = "finish-damage" /\ state \in States
      /\ state.active \in Seats
  BY Now DEF FinishDamageStep, Runs
<1>2. Fighting(state, {"reaction", "layer"}) /\ Free(state) /\ state.link # None
  BY <1>1 DEF Ready, Fighting
<1>3. PICK h : h = DamageHeld(state)
  OBVIOUS
<1>4. /\ Sound(h) /\ Steady(h) /\ h.resume = "finish-link-resolution" /\ h.link = state.link
      /\ h.decision = state.decision /\ h \in States
  BY <1>1, <1>2, <1>3, HeldFacts
<1>5. CASE ~Asked(state) /\ state.pending # Nothing
  <2>1. Go(h, "continue", NoSeat)
    BY <1>2, <1>3, <1>5 DEF FinishDamageStep
  <2> QED
    BY <1>2, <1>4, <1>5, <2>1, ToContinue DEF Free, Asked
<1>6. CASE ~Asked(state) /\ state.pending = Nothing /\ ~state.link.windowed
  <2>1. PICK l : l = [h.link EXCEPT !.windowed = TRUE]
    OBVIOUS
  <2>2. PICK t : t = [h EXCEPT !.link = l]
    OBVIOUS
  <2>3. Done(OpenWindow(t, state.active, 0))
    <3>1. Done(OpenWindow([h EXCEPT !.link.windowed = TRUE], state.active, 0))
      BY <1>2, <1>3, <1>6 DEF FinishDamageStep
    <3> QED
      BY <2>1, <2>2, <3>1
  <2>4. Kept(h, t)
    BY <1>2, <1>4, <2>1, <2>2, FlagKept
  <2>5. Sound(t) /\ Resumable(t) /\ t.resume = "finish-link-resolution"
    BY <1>4, <2>4, KeptSound, SameResumable DEF Kept, SameFlow, Steady
  <2> QED
    BY <1>1, <2>3, <2>5, WindowDone DEF WindowSteps
<1>7. CASE Asked(state) \/ (state.pending = Nothing /\ state.link.windowed)
  <2>1. Go(state, "finish-link", NoSeat)
    BY <1>2, <1>7 DEF FinishDamageStep
  <2> QED
    BY <1>1, <1>2, <2>1, ToFinish
<1> QED
  BY <1>5, <1>6, <1>7

(* Go again pays when the Resolution Step begins, and then is paid. *)
LEMMA ResolutionFacts ==
  ASSUME Sound(state), Fighting(state, {"reaction", "layer"})
  PROVE  /\ Sound(Resolution) /\ Fighting(Resolution, {"reaction", "layer"})
         /\ Resolution \in States /\ Resolution.link.resolving
         /\ Resolution.decision = state.decision /\ Resolution.active = state.active
         /\ Resolution.pending = state.pending /\ Resolution.fuel = state.fuel
<1>1. /\ state \in States /\ Owes(state) /\ Combat(state) /\ Unannounced(state)
      /\ state.link # None /\ state.link.began /\ state.phase \in {"reaction", "layer"}
      /\ state.stack = <<>> /\ state.resume = "none"
  BY DEF Sound, Fighting
<1>2. CASE state.link.resolving
  BY <1>1, <1>2 DEF Resolution
<1>3. CASE ~state.link.resolving
  <2>1. state.link \in Links
    BY <1>1, Parts
  <2>2. PICK l, a : l = [state.link EXCEPT !.resolving = TRUE]
                    /\ a = IF state.link.again THEN state.ap + 1 ELSE state.ap
    OBVIOUS
  <2>3. PICK t : t = [state EXCEPT !.link = l, !.ap = a]
    OBVIOUS
  <2>4. Resolution = t
    BY <1>3, <2>2, <2>3 DEF Resolution
  <2>5. l \in Links /\ l.began /\ l.resolving /\ l.damaged = state.link.damaged
    BY <1>1, <2>1, <2>2 DEF Links
  <2>6. l # None /\ Unpaid(l) = 0
    BY <2>5, NoneAssumption DEF Unpaid
  <2>7. PICK x \in Nat : x = AgainOn(state.stack) + AgainOn(state.queue)
    <3>1. AgainOn(state.stack) \in Nat /\ AgainOn(state.queue) \in Nat
      BY <1>1, Numbers
    <3> QED
      BY <3>1
  <2>8. /\ state.ap \in Nat /\ Unpaid(state.link) \in Nat /\ Due(state.resume) = 0
        /\ state.owed \in Nat /\ state.owed <= Budget + 1 /\ Budget \in Nat
    <3>1. state.ap \in Nat /\ Unpaid(state.link) \in Nat /\ state.owed \in Nat
          /\ state.owed <= Budget + 1 /\ Budget \in Nat
      BY <1>1, Numbers
    <3> QED
      BY <1>1, <3>1 DEF Due
  <2>9. a = state.ap + Unpaid(state.link)
    BY <1>1, <1>3, <2>1, <2>2, <2>8 DEF Unpaid, Links
  <2>10. state.ap + x + Unpaid(state.link) <= state.owed /\ state.owed + state.fuel <= Budget + 1
    <3>1. AgainOn(state.stack) \in Nat /\ AgainOn(state.queue) \in Nat
      BY <1>1, Numbers
    <3>2. /\ state.ap + AgainOn(state.stack) + AgainOn(state.queue) + Unpaid(state.link)
               + Due(state.resume) <= state.owed
          /\ state.owed + state.fuel <= Budget + 1
      BY <1>1 DEF Owes
    <3> QED
      BY <2>7, <2>8, <3>1, <3>2
  <2>11. a \in Points /\ a \in Nat /\ a + x <= state.owed
    BY <2>7, <2>8, <2>9, <2>10 DEF Points
  <2>12. /\ t \in States /\ t.phase = state.phase /\ t.active = state.active
         /\ t.priority = state.priority /\ t.decision = state.decision /\ t.stack = <<>>
         /\ t.resume = "none" /\ t.link = l /\ t.queue = state.queue
         /\ t.pending = state.pending
         /\ t.ap = a /\ t.owed = state.owed /\ t.fuel = state.fuel
    BY <1>1, <2>3, <2>5, <2>11 DEF States
  <2>13. Combat(t) /\ Unannounced(t) /\ Fighting(t, {"reaction", "layer"})
    BY <1>1, <2>5, <2>6, <2>12 DEF Combat, CombatResumes, Unannounced, GivesPriority, Fighting
  <2>14. Owes(t)
    <3>1. AgainOn(t.stack) = AgainOn(state.stack) /\ AgainOn(t.queue) = AgainOn(state.queue)
          /\ Unpaid(t.link) = 0 /\ Due(t.resume) = 0
      BY <1>1, <2>6, <2>8, <2>12
    <3>2. AgainOn(state.stack) \in Nat /\ AgainOn(state.queue) \in Nat
      BY <1>1, Numbers
    <3>3. a + AgainOn(state.stack) + AgainOn(state.queue) + 0 + 0 <= state.owed
      BY <2>7, <2>8, <2>11, <3>2
    <3> QED
      BY <2>10, <2>12, <3>1, <3>3 DEF Owes
  <2> QED
    BY <2>4, <2>5, <2>12, <2>13, <2>14 DEF Sound
<1> QED
  BY <1>2, <1>3

LEMMA QueueWagersStep ==
  ASSUME IInv, QueueWagers
  PROVE  IInv'
<1>1. /\ Sound(state) /\ Ready(state, call) /\ call.op = "finish-link" /\ state.fuel > 0
  BY Now DEF QueueWagers, Runs
<1>2. PICK r : r = Resolution
  OBVIOUS
<1>3. /\ Sound(r) /\ r \in States /\ r.link # None /\ r.link.began /\ r.stack = <<>>
      /\ r.resume = "none" /\ r.fuel > 0 /\ r.link \in Links
  BY <1>1, <1>2, ResolutionFacts, Parts DEF Ready, Fighting
<1>4. PICK l, f : l = [r.link EXCEPT !.wagered = TRUE] /\ f = r.fuel - 1
  OBVIOUS
<1>5. PICK s : s = [r EXCEPT !.fuel = f, !.link = l, !.phase = "layer",
                             !.resume = "finish-link-resolution"]
  OBVIOUS
<1>6. PICK wager : wager = Raise(Nothing, "trigger", s.active)
  OBVIOUS
<1>7. IF s.pending = Nothing THEN OpenPlaced([s EXCEPT !.stack = @ \o InTurnOrder(s, wager)])
      ELSE \E new \in {wager, Together(s.pending, wager)} :
             OpenPlaced([s EXCEPT !.pending = Nothing, !.stack = InTurnOrder(s, new) \o @])
  BY <1>2, <1>4, <1>5, <1>6 DEF QueueWagers
<1>8. /\ l \in Links /\ l.began = r.link.began /\ l.damaged = r.link.damaged
      /\ l.again = r.link.again /\ l.resolving = r.link.resolving
  BY <1>3, <1>4 DEF Links
<1>9. l # None /\ Unpaid(l) = Unpaid(r.link)
  BY <1>3, <1>8, NoneAssumption DEF Unpaid
<1>10. f \in Fuels /\ f \in Nat /\ f <= r.fuel /\ r.fuel \in Nat
  <2>1. r.fuel \in Nat /\ r.fuel <= Budget /\ Budget \in Nat
    BY <1>3, Numbers
  <2> QED
    BY <1>3, <1>4, <2>1 DEF Fuels
<1>11. /\ s \in States /\ s.phase = "layer" /\ s.active = r.active
       /\ s.decision = r.decision /\ s.stack = <<>> /\ s.resume = "finish-link-resolution"
       /\ s.link = l /\ s.queue = r.queue /\ s.pending = r.pending
       /\ s.ap = r.ap /\ s.owed = r.owed /\ s.fuel = f
  <2>1. "layer" \in Phases /\ "finish-link-resolution" \in Resumes
    BY DEF Phases, Resumes
  <2> QED
    BY <1>3, <1>5, <1>8, <1>10, <2>1 DEF States
<1>12. Combat(s) /\ Unannounced(s) /\ Resumable(s)
  BY <1>3, <1>8, <1>9, <1>11 DEF Combat, CombatResumes, Unannounced, GivesPriority, Resumable
<1>13. Owes(s)
  <2>1. /\ r.ap + AgainOn(r.stack) + AgainOn(r.queue) + Unpaid(r.link) + Due(r.resume) <= r.owed
        /\ r.owed + r.fuel <= Budget + 1
    BY <1>3 DEF Sound, Owes
  <2>2. Due(r.resume) = 0 /\ Due(s.resume) = 0
    BY <1>3, <1>11 DEF Due
  <2>3. r.owed \in Nat /\ Budget \in Nat
    BY <1>3, Numbers
  <2>4. r.owed + f <= Budget + 1
    BY <1>10, <2>1, <2>3
  <2> QED
    BY <1>3, <1>9, <1>11, <2>1, <2>2, <2>4 DEF Owes
<1>14. Sound(s)
  BY <1>11, <1>12, <1>13 DEF Sound
<1>15. s.active \in Seats /\ s.pending \in Pendings
  BY <1>11, Parts DEF Pendings
<1>16. wager \in Pendings /\ wager[s.active] # <<>>
  BY <1>6, <1>15, OneTriggerFacts
<1>17. ASSUME NEW new \in Pendings, new[s.active] # <<>>, NEW t, OpenPlaced(t),
              \/ t = [s EXCEPT !.stack = @ \o InTurnOrder(s, new)]
              \/ t = [s EXCEPT !.pending = Nothing, !.stack = InTurnOrder(s, new) \o @]
       PROVE  IInv'
  <2>1. PICK k : k = InTurnOrder(s, new)
    OBVIOUS
  <2>2. k \in Seq(Raised) /\ k # <<>>
    BY <1>11, <1>17, <2>1, InOrder
  <2>3. \/ t = [s EXCEPT !.stack = @ \o k]
        \/ t = [s EXCEPT !.pending = Nothing, !.stack = k \o @]
    BY <1>17, <2>1
  <2>4. Placed(s, t) /\ t.stack # <<>>
    BY <1>11, <2>2, <2>3, PlaceFacts
  <2>5. Sound(t) /\ Resumable(t) /\ t.phase = "layer"
    BY <1>11, <1>12, <1>14, <2>4, PlacedSound DEF Placed
  <2> QED
    BY <1>17, <2>4, <2>5, OpenPlacedStep DEF GivesPriority
<1>18. CASE s.pending = Nothing
  BY <1>7, <1>16, <1>17, <1>18
<1>19. CASE s.pending # Nothing
  <2>1. PICK new \in {wager, Together(s.pending, wager)} :
          OpenPlaced([s EXCEPT !.pending = Nothing, !.stack = InTurnOrder(s, new) \o @])
    BY <1>7, <1>19
  <2>2. Together(s.pending, wager) \in Pendings /\ Together(s.pending, wager)[s.active] # <<>>
    <3>1. s.pending[s.active] \in Seq(Raised) /\ wager[s.active] \in Seq(Raised)
      BY <1>15, <1>16 DEF Pendings
    <3>2. Together(s.pending, wager)[s.active] = s.pending[s.active] \o wager[s.active]
      BY <1>15 DEF Together
    <3>3. s.pending[s.active] \o wager[s.active] # <<>>
      BY <1>16, <3>1, ConcatProperties, LenProperties, EmptySeq
    <3> QED
      BY <1>15, <1>16, <3>2, <3>3, TogetherFacts
  <2>3. new \in Pendings /\ new[s.active] # <<>>
    BY <1>16, <2>1, <2>2
  <2> QED
    BY <1>17, <2>1, <2>3
<1> QED
  BY <1>18, <1>19

LEMMA FinishLinkResolutionStep ==
  ASSUME IInv, FinishLinkResolution
  PROVE  IInv'
<1>1. /\ Sound(state) /\ Ready(state, call) /\ call.op = "finish-link"
  BY Now DEF FinishLinkResolution, Runs
<1>2. PICK r : r = Resolution
  OBVIOUS
<1>3. /\ Sound(r) /\ Fighting(r, {"reaction", "layer"}) /\ r \in States
      /\ r.decision = state.decision /\ Free(state)
  BY <1>1, <1>2, ResolutionFacts DEF Ready
<1>4. PICK t \in Effects(r, {"ask", "raise"}) :
        LET s == [t EXCEPT !.link = None, !.open = TRUE] IN
        CASE Asked(s) ->
               Done(ToAction(After(s, IF PendingOrStacked(s) THEN "continue" ELSE "none", NoSeat)))
          [] ~Asked(s) /\ PendingOrStacked(s) ->
               Go([s EXCEPT !.decision = Nobody, !.resume = OrBeginAction(@)], "continue", NoSeat)
          [] OTHER -> Call(ToAction([s EXCEPT !.decision = Nobody]), "queue", s.active, "finish")
  BY <1>2 DEF FinishLinkResolution
<1>5. Kept(r, t) /\ (t.decision = r.decision \/ t.decision = Choice)
  BY <1>3, <1>4, EffectsKeep
<1>6. /\ Sound(t) /\ t \in States /\ Fighting(t, {"reaction", "layer"}) /\ Free(t)
  <2>1. Sound(t) /\ t \in States /\ Fighting(t, {"reaction", "layer"})
    BY <1>3, <1>5, KeptSound, SameFits DEF Kept
  <2> QED
    BY <1>3, <1>5, <2>1, Opened DEF Free
<1>7. PICK s : s = [t EXCEPT !.link = None, !.open = TRUE]
  OBVIOUS
<1>8. /\ s \in States /\ s.phase = t.phase /\ s.active = t.active /\ s.decision = t.decision
      /\ s.stack = <<>> /\ s.resume = "none" /\ s.link = None /\ s.queue = t.queue
      /\ s.pending = t.pending /\ s.ap = t.ap /\ s.owed = t.owed /\ s.fuel = t.fuel
      /\ s.active \in Seats
  BY <1>6, <1>7, Parts DEF States, Fighting
<1>9. Combat(s) /\ Unannounced(s)
  BY <1>8 DEF Combat, CombatResumes, Unannounced
<1>10. Owes(s)
  <2>1. Unpaid(s.link) = 0 /\ Unpaid(t.link) \in Nat /\ s.owed + s.fuel <= t.owed + t.fuel
    <3>1. t.owed \in Nat /\ t.fuel \in Nat /\ Unpaid(t.link) \in Nat
      BY <1>6, Numbers
    <3> QED
      BY <1>8, <3>1 DEF Unpaid
  <2>2. /\ t.ap \in Nat /\ AgainOn(t.stack) \in Nat /\ AgainOn(t.queue) \in Nat
        /\ Due(t.resume) \in Nat /\ t.owed \in Nat
    BY <1>6, Numbers
  <2>3. /\ AgainOn(s.stack) = AgainOn(t.stack) /\ AgainOn(s.queue) = AgainOn(t.queue)
        /\ Due(s.resume) = Due(t.resume)
    BY <1>6, <1>8 DEF Fighting
  <2>4. t.ap + AgainOn(t.stack) + AgainOn(t.queue) + 0 + Due(t.resume) + t.owed
          <= t.ap + AgainOn(t.stack) + AgainOn(t.queue) + Unpaid(t.link) + Due(t.resume) + t.owed
    <3>1. PICK x \in Nat : x = t.ap + AgainOn(t.stack) + AgainOn(t.queue)
      BY <2>2
    <3> QED
      BY <2>1, <2>2, <3>1
  <2>5. Owes(t)
    BY <1>6 DEF Sound
  <2>6. s.ap + AgainOn(s.stack) + AgainOn(s.queue) + Unpaid(s.link) + Due(s.resume) + t.owed
          <= t.ap + AgainOn(t.stack) + AgainOn(t.queue) + Unpaid(t.link) + Due(t.resume) + s.owed
    BY <1>8, <2>1, <2>3, <2>4
  <2> QED
    BY <1>6, <1>8, <2>1, <2>5, <2>6, OwesLess
<1>11. Sound(s) /\ Free(s)
  BY <1>6, <1>8, <1>9, <1>10 DEF Sound, Free
<1>12. CASE Asked(s)
  <2>1. PICK then : then = IF PendingOrStacked(s) THEN "continue" ELSE "none"
    OBVIOUS
  <2>2. PICK a : a = After(s, then, NoSeat)
    OBVIOUS
  <2>3. Done(ToAction(a))
    BY <1>4, <1>7, <1>12, <2>1, <2>2
  <2>4. /\ Kept(s, a) /\ a.decision.kind = s.decision.kind /\ a.decision.then = then
    BY <1>8, <2>1, <2>2, AfterFacts DEF Thens
  <2>5. Sound(a) /\ a \in States /\ a.link = None /\ a.stack = <<>> /\ a.resume = "none"
    BY <1>8, <1>11, <2>4, KeptSound DEF Kept, SameFlow, SameLink
  <2>6. PICK b : b = ToAction(a)
    OBVIOUS
  <2>7. Sound(b)
    BY <2>5, <2>6, ToActionSound
  <2>8. /\ b.phase = "action" /\ b.priority = b.active /\ b.link = None /\ b.stack = <<>>
        /\ b.resume = "none" /\ b.decision = a.decision
    BY <2>5, <2>6, ToActionFacts
  <2>9. Bare(b) /\ Steady(b)
    BY <2>8 DEF Bare, Steady, Resumable
  <2>10. b.decision.kind = "choice" /\ b.decision.then \in {"continue", "none"}
    BY <1>11, <1>12, <2>1, <2>4, <2>8, AskedIsChoice
  <2>11. Continues(b, b.decision.then)
    BY <2>9, <2>10 DEF Continues
  <2> QED
    BY <2>3, <2>6, <2>7, <2>10, <2>11, ChoiceDone
<1>13. CASE ~Asked(s) /\ PendingOrStacked(s)
  <2>1. PICK b : b = [s EXCEPT !.decision = Nobody, !.resume = "begin-action"]
    OBVIOUS
  <2>2. Go(b, "continue", NoSeat)
    <3>1. OrBeginAction(s.resume) = "begin-action"
      BY <1>8 DEF OrBeginAction
    <3>2. Go([s EXCEPT !.decision = Nobody, !.resume = OrBeginAction(@)], "continue", NoSeat)
      BY <1>4, <1>7, <1>13
    <3> QED
      BY <2>1, <3>1, <3>2
  <2>3. /\ b \in States /\ b.phase = s.phase /\ b.active = s.active /\ b.decision = Nobody
        /\ b.stack = <<>> /\ b.resume = "begin-action" /\ b.link = None /\ b.queue = s.queue
        /\ b.ap = s.ap /\ b.owed = s.owed /\ b.fuel = s.fuel
    <3>1. "begin-action" \in Resumes
      BY DEF Resumes
    <3> QED
      BY <1>8, <2>1, <3>1, Opened DEF States
  <2>4. Combat(b) /\ Unannounced(b) /\ Steady(b)
    BY <2>3 DEF Combat, CombatResumes, Unannounced, Steady, Resumable
  <2>5. Owes(b)
    BY <1>8, <1>10, <2>3, OwesOn
  <2> QED
    BY <2>2, <2>3, <2>4, <2>5, ToContinue, Opened DEF Sound, Free, Asked
<1>14. CASE ~Asked(s) /\ ~PendingOrStacked(s)
  <2>1. PICK u : u = [s EXCEPT !.decision = Nobody]
    OBVIOUS
  <2>2. PICK b : b = ToAction(u)
    OBVIOUS
  <2>3. Call(b, "queue", s.active, "finish")
    BY <1>4, <1>7, <1>14, <2>1, <2>2
  <2>4. /\ Sound(u) /\ u.decision = Nobody /\ u.link = None /\ u.stack = <<>>
        /\ u.resume = "none" /\ u \in States
    <3>1. Nobody \in Decisions
      BY Opened
    <3> QED
      BY <1>8, <1>11, <2>1, <3>1, DecidedFacts DEF Sound
  <2>5. Sound(b)
    BY <2>2, <2>4, ToActionSound
  <2>6. /\ b.phase = "action" /\ b.priority = b.active /\ b.link = None /\ b.stack = <<>>
        /\ b.resume = "none" /\ b.decision = Nobody
    BY <2>2, <2>4, ToActionFacts
  <2>7. Bare(b) /\ Steady(b) /\ Undecided(b)
    BY <2>6, Opened DEF Bare, Steady, Resumable, Undecided, Free, Asked
  <2> QED
    BY <1>8, <2>3, <2>5, <2>6, <2>7, ToQueue
<1> QED
  BY <1>12, <1>13, <1>14

(* The game is over. *)
LEMMA GameOverFacts == Sound(GameOver) /\ Settled(GameOver)
<1>1. GameOver \in States
  <2>1. <<>> \in Seq(Layers) /\ <<>> \in Seq(Entries)
    BY EmptySeq
  <2>2. 0 \in Points /\ 0 \in Fuels
    BY BudgetAssumption DEF Points, Fuels
  <2> QED
    BY <2>1, <2>2, Opened, NothingFacts
    DEF GameOver, States, Phases, Seats, Resumes, Passes
<1>2. /\ GameOver.phase = "game-over" /\ GameOver.stack = <<>> /\ GameOver.resume = "none"
      /\ GameOver.link = None /\ GameOver.queue = <<>> /\ GameOver.decision = Nobody
      /\ GameOver.ap = 0 /\ GameOver.owed = 0 /\ GameOver.fuel = 0
  BY DEF GameOver
<1>3. Combat(GameOver) /\ Unannounced(GameOver)
  BY <1>2 DEF Combat, CombatResumes, Unannounced
<1>4. Owes(GameOver)
  <2>1. AgainOn(GameOver.stack) = 0 /\ AgainOn(GameOver.queue) = 0
    BY <1>2, AgainNone
  <2>2. Unpaid(GameOver.link) = 0 /\ Due(GameOver.resume) = 0
    BY <1>2 DEF Unpaid, Due
  <2> QED
    BY <1>2, <2>1, <2>2, BudgetAssumption DEF Owes
<1> QED
  BY <1>1, <1>2, <1>3, <1>4, Opened DEF Sound, Settled

LEMMA Ends ==
  ASSUME Call(GameOver, "idle", NoSeat, "engine")
  PROVE  IInv'
  BY GameOverFacts, ToRest DEF Go

LEMMA CombatSteps ==
  ASSUME IInv, CombatStep
  PROVE  IInv'
<1>1. CASE SomebodyDies
  BY <1>1, Ends DEF SomebodyDies
<1> QED
  BY <1>1, StartQueuedStep, NoneQueuedStep, ResumeAttackLayerStep, DeferBehindQueueStep,
     BeginAttackStepStep, DeclareTailStep, ProceedWithAttackStep, BeginReactionStepStep,
     ResumeLinkStep, ResolveGoneLinkStep, ResolveSourcelessLinkStep, CalculateDamageStep,
     ApplyDamageStep, FinishDamageStepStep, QueueWagersStep, FinishLinkResolutionStep
  DEF CombatStep
-----------------------------------------------------------------------------
(* The turn                                                                 *)

LEMMA ResumeEndOfActionStep ==
  ASSUME IInv, ResumeEndOfAction
  PROVE  IInv'
<1>1. Sound(state) /\ state.stack = <<>> /\ state.link = None
  BY Now, FinishesStack DEF ResumeEndOfAction, CombatResumes
<1>2. PICK e : e = Emptied
  OBVIOUS
<1>3. /\ Sound(e) /\ e \in States /\ e.decision = Nobody /\ e.resume = "none"
      /\ e.stack = <<>> /\ e.link = None
  BY <1>1, <1>2, EmptiedFacts
<1>4. CASE ~state.open
  <2>1. Go(e, "end-turn", NoSeat)
    BY <1>1, <1>2, <1>4 DEF ResumeEndOfAction
  <2> QED
    BY <1>3, <2>1, ToTurn, Opened DEF Undecided, Free, Asked
<1>5. CASE state.open
  <2>1. PICK s \in ClosedChain(e) :
          LET again == [s EXCEPT !.resume = OrBeginAction(@)] IN
          CASE Asked(s) -> Done(After(again, "continue", NoSeat))
            [] ~Asked(s) /\ PendingOrStacked(s) -> Go(again, "continue", NoSeat)
            [] OTHER -> Done(ToAction(s))
    BY <1>2, <1>5 DEF ResumeEndOfAction
  <2>2. Kept(e, s) /\ (s.decision = Nobody \/ s.decision = Choice)
    BY <1>3, <2>1, ClosedChainFacts
  <2>3. Sound(s) /\ s \in States /\ s.stack = <<>> /\ s.link = None /\ s.resume = "none"
    BY <1>3, <2>2, KeptSound DEF Kept, SameFlow, SameLink
  <2>4. PICK a : a = [s EXCEPT !.resume = "begin-action"]
    OBVIOUS
  <2>5. [s EXCEPT !.resume = OrBeginAction(@)] = a
    BY <2>3, <2>4 DEF OrBeginAction
  <2>6. /\ a \in States /\ a.resume = "begin-action" /\ a.phase = s.phase
        /\ a.stack = <<>> /\ a.link = None /\ a.decision = s.decision
        /\ a.queue = s.queue /\ a.ap = s.ap /\ a.owed = s.owed /\ a.fuel = s.fuel
    <3>1. "begin-action" \in Resumes
      BY DEF Resumes
    <3> QED
      BY <2>3, <2>4, <3>1, ResumeFacts
  <2>7. Combat(a) /\ Unannounced(a) /\ Steady(a)
    BY <2>6 DEF Combat, CombatResumes, Unannounced, Steady, Resumable
  <2>8. Owes(a)
    BY <2>3, <2>6, OwesOn DEF Sound
  <2>9. CASE Asked(s)
    <3>1. Done(After(a, "continue", NoSeat))
      BY <2>1, <2>5, <2>9
    <3>2. a.decision.kind = "choice" /\ Continues(a, "continue")
      BY <2>2, <2>6, <2>7, <2>9, Opened DEF Continues, Asked
    <3> QED
      BY <2>6, <2>7, <2>8, <3>1, <3>2, AfterDone DEF Sound, Thens
  <2>10. CASE ~Asked(s) /\ PendingOrStacked(s)
    <3>1. Go(a, "continue", NoSeat)
      BY <2>1, <2>5, <2>10
    <3>2. Free(a) /\ ~Asked(a)
      BY <2>2, <2>6, <2>10, Opened DEF Free, Asked
    <3> QED
      BY <2>6, <2>7, <2>8, <3>1, <3>2, ToContinue DEF Sound
  <2>11. CASE ~Asked(s) /\ ~PendingOrStacked(s)
    <3>1. Done(ToAction(s))
      BY <2>1, <2>11
    <3> QED
      BY <2>2, <2>3, <3>1, ActionDone
  <2> QED
    BY <2>9, <2>10, <2>11
<1> QED
  BY <1>4, <1>5

LEMMA EndTurnStep ==
  ASSUME IInv, EndTurn
  PROVE  IInv'
<1>1. /\ Sound(state) /\ Ready(state, call) /\ call.op = "end-turn" /\ state \in States
      /\ Owes(state)
  BY Now DEF EndTurn, Runs
<1>2. state.stack = <<>> /\ state.link = None /\ state.resume = "none" /\ Undecided(state)
  BY <1>1 DEF Ready
<1>3. PICK s : s = [state EXCEPT !.phase = "end"]
  OBVIOUS
<1>4. PICK new \in OneTrigger : QueueTriggered(s, new, "end-phase")
  BY <1>3 DEF EndTurn
<1>5. /\ s \in States /\ s.phase = "end" /\ s.decision = state.decision /\ s.stack = <<>>
      /\ s.link = None /\ s.queue = state.queue
      /\ s.ap = state.ap /\ s.owed = state.owed /\ s.fuel = state.fuel
  BY <1>1, <1>2, <1>3 DEF States, Phases
<1>6. PICK r : r = [s EXCEPT !.resume = "end-phase"]
  OBVIOUS
<1>7. "end-phase" \in Resumes
  BY DEF Resumes
<1>8. /\ r \in States /\ r.resume = "end-phase" /\ r.phase = "end" /\ r.stack = <<>>
      /\ r.link = None /\ r.decision = state.decision /\ r.queue = state.queue
      /\ r.ap = state.ap /\ r.owed = state.owed /\ r.fuel = state.fuel
  BY <1>5, <1>6, <1>7, ResumeFacts
<1>9. Combat(r) /\ Unannounced(r) /\ Resumable(r) /\ Undecided(r)
  BY <1>2, <1>8 DEF Combat, CombatResumes, Unannounced, Resumable, Undecided, Free, Asked
<1>10. Owes(r)
  BY <1>1, <1>2, <1>8, OwesOn
<1>11. new \in Pendings
  BY <1>4, OneTriggerFacts
<1>12. Sound(r)
  BY <1>8, <1>9, <1>10 DEF Sound
<1> QED
  BY <1>4, <1>5, <1>6, <1>7, <1>9, <1>11, <1>12, QueueTriggeredStep

LEMMA ContinueEndPhaseStep ==
  ASSUME IInv, ContinueEndPhase
  PROVE  IInv'
<1>1. /\ Sound(state) /\ state.stack = <<>> /\ state.link = None /\ state.active \in Seats
  BY Now, FinishesStack DEF ContinueEndPhase, CombatResumes
<1>2. PICK e : e = Emptied
  OBVIOUS
<1>3. /\ Sound(e) /\ e \in States /\ e.decision = Nobody /\ e.resume = "none"
      /\ e.stack = <<>> /\ e.link = None
  BY <1>1, <1>2, EmptiedFacts
<1>4. CASE Go(e, "bottom", state.active)
  BY <1>1, <1>3, <1>4, ToTurn, Opened DEF Undecided, Free, Asked
<1>5. CASE Done([e EXCEPT !.decision = Prompt("arsenal", state.active)])
  <2>1. PICK d, t : d = Prompt("arsenal", state.active) /\ t = [e EXCEPT !.decision = d]
    OBVIOUS
  <2>2. d \in Decisions /\ d.kind = "arsenal"
    BY <1>1, <2>1, Opened
  <2>3. t = [e EXCEPT !.decision = d]
    BY <2>1
  <2>4. Sound(t) /\ t.decision = d /\ t.stack = <<>> /\ t.link = None
    BY <1>3, <2>2, <2>3, DecidedFacts
  <2>5. Settled(t)
    BY <2>2, <2>4 DEF Settled
  <2> QED
    BY <1>5, <2>1, <2>4, <2>5, ToDone
<1> QED
  BY <1>2, <1>4, <1>5 DEF ContinueEndPhase

LEMMA BottomPitchStep ==
  ASSUME IInv, BottomPitch
  PROVE  IInv'
<1>1. /\ Sound(state) /\ Ready(state, call) /\ call.op = "bottom" /\ state \in States
      /\ state.active \in Seats /\ Opp(state.active) \in Seats
      /\ call.seat \in Seats \cup {NoSeat}
  BY Now DEF BottomPitch, Runs
<1>2. state.stack = <<>> /\ state.link = None /\ Undecided(state)
  BY <1>1 DEF Ready
<1>3. CASE Done([state EXCEPT !.decision = Prompt("pitch", call.seat)])
  <2>1. PICK d, t : d = Prompt("pitch", call.seat) /\ t = [state EXCEPT !.decision = d]
    OBVIOUS
  <2>2. d \in Decisions /\ d.kind = "pitch"
    BY <1>1, <2>1, Opened
  <2>3. t = [state EXCEPT !.decision = d]
    BY <2>1
  <2>4. Sound(t) /\ t.decision = d /\ t.stack = state.stack /\ t.link = state.link
    BY <1>1, <2>2, <2>3, DecidedFacts
  <2>5. Settled(t)
    BY <1>2, <2>2, <2>4 DEF Settled
  <2> QED
    BY <1>3, <2>1, <2>4, <2>5, ToDone
<1>4. CASE Go(state, "bottom", Opp(state.active))
  BY <1>1, <1>2, <1>4, ToTurn
<1>5. CASE Go(state, "complete", NoSeat)
  BY <1>1, <1>2, <1>5, ToTurn
<1> QED
  BY <1>3, <1>4, <1>5 DEF BottomPitch

(* The turn's own action point is owed from its first moment. *)
LEMMA StartTurnStep ==
  ASSUME IInv, StartTurn
  PROVE  IInv'
<1>1. /\ Sound(state) /\ Ready(state, call) /\ call.op = "complete" /\ state \in States
  BY Now DEF StartTurn, Runs
<1>2. state.stack = <<>> /\ state.link = None
  BY <1>1 DEF Ready
<1>3. PICK next \in Seats, new \in OneTrigger :
        QueueTriggered([state EXCEPT !.phase = "start", !.active = next, !.priority = next,
                                     !.decision = Nobody, !.queue = <<>>, !.ap = 0,
                                     !.owed = 1, !.fuel = Budget],
                       new, "begin-action-phase")
  BY DEF StartTurn
<1>4. PICK s : s = [state EXCEPT !.phase = "start", !.active = next, !.priority = next,
                                 !.decision = Nobody, !.queue = <<>>, !.ap = 0,
                                 !.owed = 1, !.fuel = Budget]
  OBVIOUS
<1>5. /\ "start" \in Phases /\ <<>> \in Seq(Entries) /\ 0 \in Points /\ 1 \in Points
      /\ Budget \in Fuels /\ Nobody \in Decisions
  BY BudgetAssumption, EmptySeq, Opened DEF Phases, Points, Fuels
<1>6. /\ s \in States /\ s.phase = "start" /\ s.decision = Nobody /\ s.stack = <<>>
      /\ s.link = None /\ s.queue = <<>> /\ s.ap = 0 /\ s.owed = 1 /\ s.fuel = Budget
  BY <1>1, <1>2, <1>4, <1>5 DEF States
<1>7. PICK r : r = [s EXCEPT !.resume = "begin-action-phase"]
  OBVIOUS
<1>8. "begin-action-phase" \in Resumes
  BY DEF Resumes
<1>9. /\ r \in States /\ r.resume = "begin-action-phase" /\ r.phase = "start" /\ r.stack = <<>>
      /\ r.link = None /\ r.decision = Nobody /\ r.queue = <<>>
      /\ r.ap = 0 /\ r.owed = 1 /\ r.fuel = Budget
  BY <1>6, <1>7, <1>8, ResumeFacts
<1>10. Combat(r) /\ Unannounced(r) /\ Resumable(r)
  BY <1>9 DEF Combat, CombatResumes, Unannounced, Resumable
<1>11. Undecided(r)
  BY <1>9, Opened DEF Undecided, Free, Asked
<1>12. Owes(r)
  <2>1. AgainOn(r.stack) = 0 /\ AgainOn(r.queue) = 0
    BY <1>9, AgainNone
  <2>2. Unpaid(r.link) = 0 /\ Due(r.resume) = 1
    BY <1>9 DEF Unpaid, Due
  <2> QED
    BY <1>9, <2>1, <2>2, BudgetAssumption DEF Owes
<1>13. new \in Pendings /\ QueueTriggered(s, new, "begin-action-phase")
  BY <1>3, <1>4, OneTriggerFacts
<1>14. Sound(r)
  BY <1>9, <1>10, <1>12 DEF Sound
<1> QED
  BY <1>6, <1>7, <1>8, <1>10, <1>11, <1>13, <1>14, QueueTriggeredStep

LEMMA BeginActionPhaseStep ==
  ASSUME IInv, BeginActionPhase
  PROVE  IInv'
<1>1. /\ Sound(state) /\ state.stack = <<>> /\ state.link = None /\ state \in States
      /\ state.resume = "begin-action-phase" /\ Owes(state)
  BY Now, FinishesStack DEF BeginActionPhase, CombatResumes
<1>2. PICK e, a : e = Emptied /\ a = ToAction(e)
  OBVIOUS
<1>3. /\ Sound(e) /\ e \in States /\ e.decision = Nobody /\ e.resume = "none"
      /\ e.stack = <<>> /\ e.link = None /\ e.queue = state.queue
      /\ e.ap = state.ap /\ e.owed = state.owed /\ e.fuel = state.fuel
  BY <1>1, <1>2, EmptiedFacts
<1>4. /\ a \in States /\ a.phase = "action" /\ a.decision = Nobody
      /\ a.stack = <<>> /\ a.link = None /\ a.queue = state.queue
      /\ a.owed = state.owed /\ a.fuel = state.fuel
  BY <1>2, <1>3, ToActionFacts
<1>5. PICK s : s = [a EXCEPT !.ap = 1]
  OBVIOUS
<1>6. PICK new \in OneTrigger : QueueTriggered(s, new, "grant-turn-action")
  BY <1>2, <1>5 DEF BeginActionPhase
<1>7. /\ s \in States /\ s.phase = "action" /\ s.decision = Nobody
      /\ s.stack = <<>> /\ s.link = None /\ s.queue = state.queue
      /\ s.ap = 1 /\ s.owed = state.owed /\ s.fuel = state.fuel
  <2>1. 1 \in Points
    BY BudgetAssumption DEF Points
  <2> QED
    BY <1>4, <1>5, <2>1 DEF States
<1>8. PICK r : r = [s EXCEPT !.resume = "grant-turn-action"]
  OBVIOUS
<1>9. "grant-turn-action" \in Resumes
  BY DEF Resumes
<1>10. /\ r \in States /\ r.resume = "grant-turn-action" /\ r.phase = "action"
       /\ r.stack = <<>> /\ r.link = None /\ r.decision = Nobody /\ r.queue = state.queue
       /\ r.ap = 1 /\ r.owed = state.owed /\ r.fuel = state.fuel
  BY <1>7, <1>8, <1>9, ResumeFacts
<1>11. Combat(r) /\ Unannounced(r) /\ Resumable(r)
  BY <1>10 DEF Combat, CombatResumes, Unannounced, Resumable
<1>12. Undecided(r)
  BY <1>10, Opened DEF Undecided, Free, Asked
<1>13. Owes(r)
  <2>1. /\ state.ap + AgainOn(state.stack) + AgainOn(state.queue) + Unpaid(state.link)
             + Due(state.resume) <= state.owed
        /\ state.owed + state.fuel <= Budget + 1
    BY <1>1 DEF Owes
  <2>2. Due(state.resume) = 1 /\ Due(r.resume) = 0 /\ Unpaid(state.link) = Unpaid(r.link)
    BY <1>1, <1>10 DEF Due
  <2>3. /\ state.ap \in Nat /\ AgainOn(state.stack) \in Nat /\ AgainOn(state.queue) \in Nat
        /\ Unpaid(state.link) \in Nat /\ state.owed \in Nat
    BY <1>1, Numbers
  <2>4. 1 + AgainOn(state.stack) + AgainOn(state.queue) + Unpaid(state.link) + 0 <= state.owed
    BY <2>1, <2>2, <2>3
  <2> QED
    BY <1>1, <1>10, <2>1, <2>2, <2>4 DEF Owes
<1>14. new \in Pendings
  BY <1>6, OneTriggerFacts
<1>15. Sound(r)
  BY <1>10, <1>11, <1>13 DEF Sound
<1> QED
  BY <1>6, <1>7, <1>8, <1>9, <1>11, <1>12, <1>14, <1>15, QueueTriggeredStep

LEMMA TurnSteps ==
  ASSUME IInv, TurnStep
  PROVE  IInv'
  BY ResumeEndOfActionStep, EndTurnStep, ContinueEndPhaseStep, BottomPitchStep, StartTurnStep,
     BeginActionPhaseStep DEF TurnStep

LEMMA SettleStep ==
  ASSUME IInv, Settle
  PROVE  IInv'
<1>1. /\ Sound(state) /\ Ready(state, call) /\ call.op = "settle" /\ state \in States
      /\ state.priority \in Seats
  BY Now DEF Settle, Runs
<1>2. Settled(state)
  BY <1>1 DEF Ready
<1>3. CASE state.decision.kind # "window"
  <2>1. PICK does : does = {"raise"} \cup
                      (IF state.phase = "action" /\ state.decision = Nobody THEN {"ask"} ELSE {})
    OBVIOUS
  <2>2. PICK s \in Effects(state, does) : Go(s, "idle", NoSeat)
    BY <1>3, <2>1 DEF Settle, SettleElsewhere
  <2>3. /\ Kept(state, s)
        /\ s.decision = state.decision \/ (s.decision = Choice /\ "ask" \in does)
    BY <1>1, <2>2, EffectsKeep
  <2>4. Sound(s) /\ SameFlow(state, s)
    BY <1>1, <2>3, KeptSound DEF Kept
  <2>5. CASE s.decision = state.decision
    BY <1>1, <1>2, <2>2, <2>4, <2>5, Parts, SettledKept, ToRest
  <2>6. CASE s.decision = Choice /\ "ask" \in does
    <3>1. state.phase = "action" /\ state.decision = Nobody
      BY <2>1, <2>6
    <3>2. Bare(s)
      BY <1>2, <2>4, <3>1, SameFits, Opened DEF Settled
    <3>3. Settled(s)
      BY <2>6, <3>2, Opened DEF Settled, Continues
    <3> QED
      BY <2>2, <2>4, <3>3, ToRest
  <2> QED
    BY <2>3, <2>5, <2>6
<1>4. CASE state.decision.kind = "window"
  <2>1. PICK does : does = IF state.passes = 0 THEN {"ask", "raise"} ELSE {}
    OBVIOUS
  <2>2. PICK s \in Effects(state, does) :
          CASE Asked(s) -> Go(After(s, "continue", state.priority), "idle", NoSeat)
            [] ~Asked(s) /\ s.pending # Nothing -> PlacePending(s)
            [] OTHER -> Go(s, "idle", NoSeat)
    BY <1>4, <2>1 DEF Settle, SettleWindow
  <2>3. Kept(state, s) /\ (s.decision = state.decision \/ s.decision = Choice)
    BY <1>1, <2>2, EffectsKeep
  <2>4. Steady(state) /\ state.decision \in Decisions
    BY <1>1, <1>2, <1>4, Parts DEF Settled
  <2>5. Sound(s) /\ Steady(s) /\ SameFlow(state, s)
    BY <1>1, <2>3, <2>4, KeptSound, SameFits DEF Kept
  <2>6. CASE Asked(s)
    <3>1. Go(After(s, "continue", state.priority), "idle", NoSeat)
      BY <2>2, <2>6
    <3>2. s.decision.kind = "choice" /\ Continues(s, "continue")
      BY <1>4, <2>3, <2>5, <2>6, Opened DEF Asked, Continues
    <3> QED
      BY <1>1, <2>5, <3>1, <3>2, AfterRest DEF Thens
  <2>7. CASE ~Asked(s) /\ s.pending # Nothing
    <3>1. PlacePending(s)
      BY <2>2, <2>7
    <3>2. Undecided(s) /\ Resumable(s)
      BY <1>4, <2>3, <2>5, <2>7, Opened DEF Undecided, Free, Steady
    <3> QED
      BY <2>5, <3>1, <3>2, PlacePendingStep
  <2>8. CASE ~Asked(s) /\ s.pending = Nothing
    <3>1. Go(s, "idle", NoSeat) /\ s.decision = state.decision
      BY <2>2, <2>3, <2>8, Opened DEF Asked
    <3>2. Settled(s)
      BY <1>2, <2>4, <2>5, <3>1, SettledKept
    <3> QED
      BY <2>5, <3>1, <3>2, ToRest
  <2> QED
    BY <2>6, <2>7, <2>8
<1> QED
  BY <1>3, <1>4
-----------------------------------------------------------------------------
(* The players' answers                                                     *)

LEMMA AtRest ==
  ASSUME IInv, Runs("idle")
  PROVE  /\ Sound(state) /\ Settled(state) /\ state \in States
         /\ Combat(state) /\ Unannounced(state) /\ Owes(state)
         /\ state.active \in Seats /\ state.priority \in Seats
         /\ Opp(state.active) \in Seats /\ Opp(state.priority) \in Seats
         /\ state.decision \in Decisions /\ state.passes \in Passes
<1>1. Sound(state) /\ Ready(state, call) /\ call.op = "idle" /\ state \in States
  BY Now DEF Runs
<1>2. Settled(state)
  BY <1>1 DEF Ready
<1> QED
  BY <1>1, <1>2, Now, Parts

(* What a pass makes of the window. *)
Held(passes, priority, d) ==
  [state EXCEPT !.passes = passes, !.priority = priority, !.decision = d]

Passed(op, passes, priority) ==
  \/ Call(Held(passes, priority, state.decision), op, NoSeat, "passes")
  \/ /\ passes < 2
     /\ Done(Held(passes, priority, [state.decision EXCEPT !.player = priority]))

(* The second pass in a row goes on; the first hands the window over. *)
LEMMA PassFacts ==
  ASSUME Sound(state), state.passes < 2, state.priority \in Seats,
         Opp(state.priority) \in Seats, NEW op, Pass(op)
  PROVE  \E passes \in Passes, priority \in Seats : Passed(op, passes, priority)
<1>1. state \in States /\ state.passes \in Passes /\ state.passes \in {0, 1}
      /\ state.passes + 1 \in Passes
  <2>1. state \in States /\ state.passes \in Passes
    BY Parts DEF Sound
  <2> QED
    BY <2>1 DEF Passes
<1>2. PICK next : next = Opp(state.priority)
  OBVIOUS
<1>3. CASE state.passes + 1 >= 2
  <2>1. Call([state EXCEPT !.passes = @ + 1], op, NoSeat, "passes")
    BY <1>3 DEF Pass
  <2>2. PICK p : p = state.passes + 1
    OBVIOUS
  <2>3. PICK s : s = Held(p, state.priority, state.decision)
    OBVIOUS
  <2>4. s = [state EXCEPT !.passes = @ + 1]
    BY <1>1, <2>2, <2>3 DEF States, Held
  <2>5. Passed(op, p, state.priority)
    BY <2>1, <2>3, <2>4 DEF Passed
  <2> QED
    BY <1>1, <2>2, <2>5
<1>4. CASE ~(state.passes + 1 >= 2)
  <2>1. Done([state EXCEPT !.passes = @ + 1, !.priority = next, !.decision.player = next])
    BY <1>2, <1>4 DEF Pass
  <2>2. PICK p, d : p = state.passes + 1 /\ d = [state.decision EXCEPT !.player = next]
    OBVIOUS
  <2>3. PICK s : s = Held(p, next, d)
    OBVIOUS
  <2>4. Done(s)
    BY <2>1, <2>2, <2>3 DEF Held
  <2>5. p < 2 /\ p \in Passes
    BY <1>1, <1>4, <2>2
  <2>6. Passed(op, p, next)
    BY <2>2, <2>3, <2>4, <2>5 DEF Passed
  <2> QED
    BY <1>2, <2>5, <2>6
<1> QED
  BY <1>3, <1>4

LEMMA HeldOver ==
  ASSUME Sound(state), Steady(state),
         NEW passes \in Passes, NEW priority \in Seats, NEW d \in Decisions
  PROVE  /\ Sound(Held(passes, priority, d)) /\ Steady(Held(passes, priority, d))
         /\ Held(passes, priority, d).phase = state.phase
         /\ Held(passes, priority, d).priority = priority
         /\ Held(passes, priority, d).decision = d
         /\ Held(passes, priority, d).stack = state.stack
         /\ Held(passes, priority, d).resume = state.resume
         /\ Held(passes, priority, d).passes = passes
         /\ Held(passes, priority, d).link = state.link
<1>1. PICK t : t = Held(passes, priority, d)
  OBVIOUS
<1>2. state \in States /\ Combat(state) /\ Unannounced(state) /\ Owes(state)
  BY DEF Sound
<1>3. /\ t \in States /\ t.phase = state.phase /\ t.active = state.active
      /\ t.priority = priority
      /\ t.decision = d /\ t.stack = state.stack /\ t.resume = state.resume
      /\ t.passes = passes /\ t.link = state.link /\ t.queue = state.queue
      /\ t.ap = state.ap /\ t.owed = state.owed /\ t.fuel = state.fuel
  BY <1>1, <1>2 DEF States, Held
<1>4. Combat(t)
  BY <1>2, <1>3 DEF Combat
<1>5. Unannounced(t)
  BY <1>2, <1>3 DEF Unannounced
<1>6. Steady(t)
  BY <1>3 DEF Steady, Resumable
<1>7. Owes(t)
  BY <1>2, <1>3, SameOwes
<1>8. Sound(t)
  BY <1>3, <1>4, <1>5, <1>7 DEF Sound
<1> QED
  BY <1>1, <1>3, <1>6, <1>8

LEMMA PassWindowStep ==
  ASSUME IInv, PassWindow
  PROVE  IInv'
<1>1. /\ Sound(state) /\ Settled(state) /\ state \in States /\ Combat(state)
      /\ Unannounced(state) /\ Owes(state) /\ state.priority \in Seats
      /\ Opp(state.priority) \in Seats /\ state.decision \in Decisions
      /\ state.decision.kind = "window" /\ Pass("advance")
  BY AtRest DEF PassWindow, Holding, Deciding, Idle
<1>2. /\ Steady(state) /\ state.phase = "layer" /\ state.passes < 2
      /\ state.stack = <<>> => state.resume \in WindowSteps
  BY <1>1 DEF Settled
<1>3. PICK passes \in Passes, priority \in Seats : Passed("advance", passes, priority)
  BY <1>1, <1>2, PassFacts
<1>4. CASE Call(Held(passes, priority, state.decision), "advance", NoSeat, "passes")
  <2>1. PICK s : s = Held(passes, priority, state.decision)
    OBVIOUS
  <2>2. /\ Sound(s) /\ Steady(s) /\ s.decision = state.decision
        /\ s.stack = state.stack /\ s.resume = state.resume /\ s.link = state.link
    BY <1>1, <1>2, <2>1, HeldOver
  <2>3. s.link # None /\ s.stack = <<>> => s.resume \in CombatResumes
    BY <1>1, <1>2, <2>2 DEF Combat, WindowSteps, CombatResumes
  <2>4. Free(s) /\ ~Asked(s)
    BY <1>1, <2>2 DEF Free, Asked
  <2> QED
    BY <1>4, <2>1, <2>2, <2>3, <2>4, ToAdvance
<1>5. CASE /\ passes < 2
           /\ Done(Held(passes, priority, [state.decision EXCEPT !.player = priority]))
  <2>1. PICK d, s : d = [state.decision EXCEPT !.player = priority] /\ s = Held(passes, priority, d)
    OBVIOUS
  <2>2. d \in Decisions /\ d.kind = "window" /\ d.player = priority
    BY <1>1, <2>1 DEF Decisions
  <2>3. /\ Sound(s) /\ Steady(s) /\ s.phase = state.phase /\ s.priority = priority
        /\ s.decision = d /\ s.stack = state.stack /\ s.resume = state.resume
        /\ s.passes = passes
    BY <1>1, <1>2, <2>1, <2>2, HeldOver
  <2>4. Settled(s)
    BY <1>2, <1>5, <2>2, <2>3 DEF Settled
  <2> QED
    BY <1>5, <2>1, <2>3, <2>4, ToDone
<1> QED
  BY <1>3, <1>4, <1>5 DEF Passed

LEMMA PassReactionStep ==
  ASSUME IInv, PassReaction
  PROVE  IInv'
<1>1. /\ Sound(state) /\ Settled(state) /\ state \in States /\ Combat(state)
      /\ Unannounced(state) /\ Owes(state) /\ state.priority \in Seats
      /\ Opp(state.priority) \in Seats /\ state.decision \in Decisions
      /\ state.decision.kind = "reaction"
      /\ Pass(IF state.stack = <<>> THEN "damage" ELSE "advance")
  BY AtRest DEF PassReaction, Holding, Deciding, Idle
<1>2. Steady(state) /\ state.phase = "reaction" /\ state.link # None /\ state.passes < 2
  BY <1>1 DEF Settled
<1>3. state.resume = "none" /\ state.link.began /\ ~state.link.damaged
  BY <1>1, <1>2 DEF Combat, Steady, Resumable
<1>4. PICK op : op = IF state.stack = <<>> THEN "damage" ELSE "advance"
  OBVIOUS
<1>5. Pass(op)
  BY <1>1, <1>4
<1>6. PICK passes \in Passes, priority \in Seats : Passed(op, passes, priority)
  BY <1>1, <1>2, <1>5, PassFacts
<1>7. CASE Call(Held(passes, priority, state.decision), op, NoSeat, "passes")
  <2>1. PICK s : s = Held(passes, priority, state.decision)
    OBVIOUS
  <2>2. /\ Sound(s) /\ Steady(s) /\ s.phase = state.phase /\ s.decision = state.decision
        /\ s.stack = state.stack /\ s.resume = state.resume /\ s.link = state.link
    BY <1>1, <1>2, <2>1, HeldOver
  <2>3. Free(s) /\ ~Asked(s)
    BY <1>1, <2>2 DEF Free, Asked
  <2>4. CASE state.stack = <<>>
    <3>1. Call(s, "damage", NoSeat, "passes")
      BY <1>4, <1>7, <2>1, <2>4
    <3>2. Fighting(s, {"reaction"}) /\ ~s.link.damaged /\ Undecided(s)
      BY <1>2, <1>3, <2>2, <2>3, <2>4 DEF Fighting, Undecided
    <3> QED
      BY <2>2, <3>1, <3>2, ToDamage DEF Origins
  <2>5. CASE state.stack # <<>>
    <3>1. Call(s, "advance", NoSeat, "passes")
      BY <1>4, <1>7, <2>1, <2>5
    <3> QED
      BY <2>2, <2>3, <2>5, <3>1, ToAdvance
  <2> QED
    BY <2>4, <2>5
<1>8. CASE /\ passes < 2
           /\ Done(Held(passes, priority, [state.decision EXCEPT !.player = priority]))
  <2>1. PICK d, s : d = [state.decision EXCEPT !.player = priority] /\ s = Held(passes, priority, d)
    OBVIOUS
  <2>2. d \in Decisions /\ d.kind = "reaction" /\ d.player = priority
    BY <1>1, <2>1 DEF Decisions
  <2>3. /\ Sound(s) /\ Steady(s) /\ s.phase = state.phase /\ s.priority = priority
        /\ s.decision = d /\ s.link = state.link /\ s.passes = passes
    BY <1>1, <1>2, <2>1, <2>2, HeldOver
  <2>4. Settled(s)
    BY <1>2, <1>8, <2>2, <2>3 DEF Settled
  <2> QED
    BY <1>8, <2>1, <2>3, <2>4, ToDone
<1> QED
  BY <1>6, <1>7, <1>8 DEF Passed

LEMMA PassActionStep ==
  ASSUME IInv, PassAction
  PROVE  IInv'
<1>1. /\ Sound(state) /\ Settled(state) /\ state \in States /\ Owes(state)
      /\ Opp(state.priority) \in Seats
      /\ state.decision.kind = "none" /\ state.phase = "action"
      /\ Done(OpenWindow([state EXCEPT !.resume = "end-action-phase"], Opp(state.priority), 1))
  BY AtRest DEF PassAction, Acting, Holding, Deciding, Idle
<1>2. Bare(state)
  BY <1>1 DEF Settled
<1>3. PICK r : r = [state EXCEPT !.resume = "end-action-phase"]
  OBVIOUS
<1>4. "end-action-phase" \in Resumes
  BY DEF Resumes
<1>5. /\ r \in States /\ r.resume = "end-action-phase" /\ r.phase = "action"
      /\ r.stack = <<>> /\ r.link = None /\ r.queue = state.queue
      /\ r.ap = state.ap /\ r.owed = state.owed /\ r.fuel = state.fuel
  <2>1. /\ r \in States /\ r.resume = "end-action-phase" /\ r.phase = state.phase
        /\ r.stack = state.stack /\ r.link = state.link /\ r.queue = state.queue
        /\ r.ap = state.ap /\ r.owed = state.owed /\ r.fuel = state.fuel
    BY <1>1, <1>3, <1>4, ResumeFacts
  <2> QED
    BY <1>2, <2>1 DEF Bare
<1>6. Combat(r) /\ Unannounced(r) /\ Resumable(r)
  BY <1>5 DEF Combat, CombatResumes, Unannounced, Resumable
<1>7. Owes(r)
  BY <1>1, <1>2, <1>5, OwesOn DEF Bare
<1>8. Sound(r) /\ r.resume \in WindowSteps
  BY <1>5, <1>6, <1>7 DEF Sound, WindowSteps
<1> QED
  BY <1>1, <1>3, <1>6, <1>8, WindowDone

LEMMA DefendStep ==
  ASSUME IInv, Defend
  PROVE  IInv'
<1>1. /\ Settled(state) /\ state \in States /\ Combat(state)
      /\ Unannounced(state) /\ Owes(state) /\ state.active \in Seats
      /\ state.decision.kind = "defend"
  BY AtRest DEF Defend, Deciding, Idle
<1>2. /\ state.phase = "defend" /\ state.link # None /\ state.link.began
      /\ ~state.link.damaged /\ state.resume = "none"
  BY <1>1 DEF Settled
<1>3. PICK new \in OneTrigger \cup {Raise(Nothing, "phantasm", state.active)} :
        QueueTriggered(state, new, "start-reaction-step")
  BY DEF Defend
<1>4. PICK r : r = [state EXCEPT !.resume = "start-reaction-step"]
  OBVIOUS
<1>5. "start-reaction-step" \in Resumes
  BY DEF Resumes
<1>6. /\ r \in States /\ r.resume = "start-reaction-step" /\ r.phase = state.phase
      /\ r.stack = state.stack /\ r.link = state.link /\ r.queue = state.queue
      /\ r.decision = state.decision
      /\ r.ap = state.ap /\ r.owed = state.owed /\ r.fuel = state.fuel
  BY <1>1, <1>4, <1>5, ResumeFacts
<1>7. Combat(r) /\ Unannounced(r) /\ Resumable(r)
  BY <1>1, <1>2, <1>6 DEF Combat, CombatResumes, Unannounced, Resumable
<1>8. Owes(r)
  BY <1>1, <1>6, OwesOn
<1>9. Sound(r) /\ Undecided(r)
  BY <1>1, <1>6, <1>7, <1>8 DEF Sound, Undecided, Free, Asked
<1>10. new \in Pendings
  BY <1>1, <1>3, OneTriggerFacts
<1> QED
  BY <1>1, <1>3, <1>4, <1>5, <1>7, <1>9, <1>10, QueueTriggeredStep

LEMMA AnswerChoiceStep ==
  ASSUME IInv, AnswerChoice
  PROVE  IInv'
<1>1. /\ Sound(state) /\ Settled(state) /\ state \in States
      /\ state.decision \in Decisions /\ state.decision.kind = "choice"
  BY AtRest DEF AnswerChoice, Deciding, Idle
<1>2. PICK d, e : d = state.decision /\ e = [state EXCEPT !.decision = Nobody]
  OBVIOUS
<1>0. PICK does : does = IF d.then = "card" THEN OfCard(state, d.seat) ELSE Anything
  OBVIOUS
<1>3. PICK s \in Effects(e, does) :
        \/ ~Asked(s) /\ Resume(s, d)
        \/ Asked(s) /\ Done(After(s, d.then, d.seat))
        \/ Asked(s) /\ d.then = "card" /\ Go(s, "finish-card", d.seat)
  BY <1>0, <1>2 DEF AnswerChoice
<1>4. d.then \in Thens /\ d.seat \in Seats \cup {NoSeat}
  BY <1>1, <1>2 DEF Decisions, Thens
<1>5. Continues(state, d.then) /\ (d.then = "reopen" => d.seat \in Seats)
  BY <1>1, <1>2 DEF Settled
<1>6. Sound(e) /\ Kept(state, e) /\ e.decision = Nobody
  <2>1. e = [state EXCEPT !.decision = Nobody] /\ Nobody \in Decisions
    BY <1>2, Opened
  <2> QED
    BY <1>1, <2>1, DecidedFacts
<1>7. Kept(e, s) /\ (s.decision = Nobody \/ s.decision = Choice)
  <2>1. e \in States
    BY <1>6 DEF Kept
  <2> QED
    BY <1>3, <1>6, <2>1, EffectsKeep
<1>8. Sound(s) /\ SameFlow(state, s)
  <2>1. Kept(state, s)
    BY <1>1, <1>6, <1>7, KeptTwice
  <2> QED
    BY <1>6, <1>7, <2>1, KeptSound DEF Kept
<1>9. Continues(s, d.then)
  BY <1>4, <1>5, <1>8, SameContinues
<1>10. Free(s) /\ (Asked(s) => s.decision.kind = "choice") /\ (~Asked(s) => s.decision = Nobody)
  BY <1>7, Opened DEF Free, Asked
<1>11. CASE ~Asked(s) /\ Resume(s, d)
  <2>0. s.decision = Nobody /\ Undecided(s)
    BY <1>10, <1>11 DEF Undecided
  <2>1. CASE d.then = "continue"
    <3>1. Go(s, "continue", d.seat) /\ Steady(s)
      BY <1>9, <1>11, <2>1 DEF Resume, Continues
    <3> QED
      BY <1>4, <1>8, <1>10, <1>11, <3>1, ToContinue
  <2>2. CASE d.then = "declare"
    <3>1. Go(s, "declared", NoSeat) /\ Declared(s)
      BY <1>9, <1>11, <2>2 DEF Resume, Continues
    <3> QED
      BY <1>8, <2>0, <3>1, ToDeclared
  <2>3. CASE d.then = "card"
    <3>1. Go(s, "finish-card", d.seat) /\ Steady(s) /\ s.stack # <<>>
      BY <1>9, <1>11, <2>3 DEF Resume, Continues
    <3> QED
      BY <1>4, <1>8, <1>10, <3>1, ToFinishCard
  <2>4. CASE d.then = "damage"
    <3>1. Go(s, "apply-damage", NoSeat) /\ Fighting(s, {"reaction"}) /\ s.link.damaged
      BY <1>9, <1>11, <2>4 DEF Resume, Continues
    <3> QED
      BY <1>8, <2>0, <3>1, ToApplyDamage
  <2>5. CASE d.then = "reopen"
    <3>1. /\ Done(HoldWindow(s, "reaction", d.seat)) /\ d.seat \in Seats
          /\ Steady(s) /\ s.phase = "reaction" /\ s.link # None
      BY <1>5, <1>9, <1>11, <2>5 DEF Resume, Continues
    <3> QED
      BY <1>8, <3>1, HeldDone
  <2>6. CASE d.then = "window"
    <3>1. /\ Done([s EXCEPT !.decision = Prompt("window", s.priority)])
          /\ Steady(s) /\ s.phase = "layer" /\ s.passes < 2 /\ s.stack # <<>>
      BY <1>9, <1>11, <2>6 DEF Resume, Continues
    <3>2. PICK p : p = Prompt("window", s.priority)
      OBVIOUS
    <3>3. PICK t : t = [s EXCEPT !.decision = p]
      OBVIOUS
    <3>4. p \in Decisions /\ p.kind = "window" /\ p.player = s.priority
      BY <1>8, <3>2, Opened, Parts DEF Sound
    <3>5. /\ Sound(t) /\ Kept(s, t) /\ t.decision = p /\ t.phase = "layer"
          /\ t.priority = s.priority /\ t.passes < 2 /\ t.stack # <<>>
      <4>1. /\ Sound(t) /\ Kept(s, t) /\ t.decision = p /\ t.phase = s.phase
            /\ t.priority = s.priority /\ t.passes = s.passes /\ t.stack = s.stack
        BY <1>8, <3>3, <3>4, DecidedFacts
      <4> QED
        BY <3>1, <4>1
    <3>6. Steady(t)
      BY <3>1, <3>5, SameFits DEF Kept
    <3>7. Settled(t)
      BY <3>4, <3>5, <3>6 DEF Settled
    <3> QED
      BY <3>1, <3>2, <3>3, <3>5, <3>7, ToDone
  <2>7. CASE d.then = "none"
    <3>1. Done(s) /\ Bare(s)
      BY <1>9, <1>11, <2>7 DEF Resume, Continues
    <3> QED
      BY <1>8, <2>0, <3>1, BareDone, Opened
  <2> QED
    BY <1>4, <2>1, <2>2, <2>3, <2>4, <2>5, <2>6, <2>7 DEF Thens
<1>12. CASE Asked(s) /\ Done(After(s, d.then, d.seat))
  BY <1>4, <1>5, <1>8, <1>9, <1>10, <1>12, AfterDone
<1>13. CASE d.then = "card" /\ Go(s, "finish-card", d.seat)
  <2>1. Steady(s) /\ s.stack # <<>>
    BY <1>9, <1>13 DEF Continues
  <2> QED
    BY <1>4, <1>8, <1>10, <1>13, <2>1, ToFinishCard
<1> QED
  BY <1>3, <1>11, <1>12, <1>13

LEMMA AcceptTriggerStep ==
  ASSUME IInv, AcceptTrigger
  PROVE  IInv'
<1>1. /\ Sound(state) /\ Settled(state) /\ state.decision.kind = "optional"
      /\ TriggerResolves([state EXCEPT !.decision = Nobody])
  BY AtRest DEF AcceptTrigger, Deciding, Idle
<1>2. Steady(state) /\ state.stack # <<>>
  BY <1>1 DEF Settled
<1>3. PICK e : e = [state EXCEPT !.decision = Nobody]
  OBVIOUS
<1>4. Nobody \in Decisions
  BY Opened
<1>5. Sound(e) /\ Kept(state, e) /\ e.decision = Nobody /\ e.stack = state.stack
  BY <1>1, <1>3, <1>4, DecidedFacts
<1>6. Steady(e) /\ Undecided(e)
  BY <1>2, <1>5, SameFits, Opened DEF Kept, Undecided, Free, Asked
<1> QED
  BY <1>1, <1>2, <1>3, <1>5, <1>6, TriggerResolvesStep

LEMMA DeclineTriggerStep ==
  ASSUME IInv, DeclineTrigger
  PROVE  IInv'
<1>1. /\ Sound(state) /\ Settled(state) /\ state \in States
      /\ state.decision.kind = "optional"
  BY AtRest DEF DeclineTrigger, Deciding, Idle
<1>2. Steady(state) /\ state.stack # <<>>
  BY <1>1 DEF Settled
<1>3. PICK e : e = [state EXCEPT !.decision = Nobody]
  OBVIOUS
<1>4. Nobody \in Decisions
  BY Opened
<1>5. Sound(e) /\ Kept(state, e) /\ e.decision = Nobody /\ e.stack = state.stack
  BY <1>1, <1>3, <1>4, DecidedFacts
<1>6. PICK t : t = [e EXCEPT !.stack = Tail(@)]
  OBVIOUS
<1>7. Steady(e)
  BY <1>2, <1>5, SameFits DEF Kept
<1>8. Sound(t) /\ Steady(t) /\ t.decision = Nobody /\ Head(e.stack).seat \in Seats
  <2>1. e.stack # <<>>
    BY <1>2, <1>5
  <2>2. Sound(e)
    BY <1>5
  <2>3. t = [e EXCEPT !.stack = Tail(@)] /\ e.stack # <<>> /\ Sound(e) /\ Steady(e)
    BY <1>6, <1>7, <2>1, <2>2
  <2>4. Sound(t) /\ t.decision = e.decision
    BY <2>3, PoppedFacts
  <2>5. Head(e.stack).seat \in Seats
    BY <2>3, PoppedFacts
  <2>6. Steady(t)
    BY <2>3, PoppedFacts
  <2> QED
    BY <1>5, <2>4, <2>5, <2>6
<1>9. Go(t, "continue", Head(state.stack).seat)
  <2>1. Go([[state EXCEPT !.decision = Nobody] EXCEPT !.stack = Tail(@)], "continue",
           Head(state.stack).seat)
    BY DEF DeclineTrigger
  <2> QED
    BY <1>3, <1>6, <2>1
<1> QED
  BY <1>5, <1>8, <1>9, ToContinue, Opened DEF Free, Asked

LEMMA EndPhaseAnswers ==
  ASSUME IInv, AnswerArsenal \/ OrderPitch
  PROVE  IInv'
<1>1. /\ Sound(state) /\ Settled(state) /\ state.decision.kind \in {"arsenal", "pitch"}
      /\ state.active \in Seats /\ Opp(state.active) \in Seats
  BY AtRest DEF AnswerArsenal, OrderPitch, Deciding, Idle
<1>2. state.stack = <<>> /\ state.link = None
  BY <1>1 DEF Settled
<1>3. PICK e : e = [state EXCEPT !.decision = Nobody]
  OBVIOUS
<1>4. Nobody \in Decisions
  BY Opened
<1>5. Sound(e) /\ e.decision = Nobody /\ e.stack = state.stack /\ e.link = state.link
  BY <1>1, <1>3, <1>4, DecidedFacts
<1>6. Undecided(e)
  BY <1>5, Opened DEF Undecided, Free, Asked
<1>7. \/ Go(e, "bottom", state.active) \/ Go(e, "bottom", Opp(state.active))
      \/ Go(e, "complete", NoSeat)
  BY <1>3 DEF AnswerArsenal, OrderPitch
<1> QED
  BY <1>1, <1>2, <1>5, <1>6, <1>7, ToTurn

LEMMA RespondSteps ==
  ASSUME IInv, Respond
  PROVE  IInv'
  BY PassWindowStep, PassReactionStep, PassActionStep, DefendStep, AnswerChoiceStep,
     AcceptTriggerStep, DeclineTriggerStep, EndPhaseAnswers DEF Respond
-----------------------------------------------------------------------------
(* The players' plays                                                       *)

(* p is s with layers that were put on the stack. *)
Grown(s, p) ==
  /\ p.phase = s.phase /\ p.active = s.active /\ p.priority = s.priority
  /\ p.decision = s.decision /\ p.resume = s.resume /\ p.passes = s.passes
  /\ p.link = s.link /\ p.stack # <<>>

LEMMA GrownFacts ==
  ASSUME NEW s, NEW p, Sound(s), p \in States, Owes(p), GivesPriority(s.phase), Grown(s, p)
  PROVE  /\ Sound(p) /\ (Resumable(s) => Resumable(p))
         /\ Steady(s) /\ (s.phase \in {"action", "layer"} \/ s.link # None) => Steady(p)
<1>1. Combat(p)
  BY DEF Grown, Sound, Combat
<1>2. Unannounced(p)
  BY DEF Grown, Unannounced
<1>3. Resumable(s) => Resumable(p)
  BY DEF Grown, Resumable
<1> QED
  BY <1>1, <1>2, <1>3 DEF Sound, Steady, Grown

(* A layer on top of the stack, and what its go again makes of the fuel and  *)
(* of what is owed.                                                          *)
Push(s, layer, f, o) == [s EXCEPT !.fuel = f, !.owed = o, !.stack = <<layer>> \o @]

LEMMA Pushed ==
  ASSUME NEW s, s \in States, Owes(s), NEW layer \in Layers,
         NEW f \in Fuels, NEW o \in Points,
         o = s.owed + Own(layer), o + f <= s.owed + s.fuel
  PROVE  /\ Push(s, layer, f, o) \in States /\ Owes(Push(s, layer, f, o))
         /\ Grown(s, Push(s, layer, f, o))
         /\ Push(s, layer, f, o).fuel = f /\ Push(s, layer, f, o).owed = o
<1>0. PICK p : p = Push(s, layer, f, o)
  OBVIOUS
<1>1. s.stack \in Seq(Layers)
  BY Parts
<1>2. PICK q : q = <<layer>> \o s.stack
  OBVIOUS
<1>3. <<layer>> \in Seq(Layers) /\ Own(layer) \in Nat
  BY AgainAlone DEF Own
<1>4. q \in Seq(Layers) /\ q # <<>>
  <2>1. q \in Seq(Layers) /\ Len(q) = Len(<<layer>>) + Len(s.stack)
    BY <1>1, <1>2, <1>3, ConcatProperties
  <2>2. Len(<<layer>>) = 1 /\ Len(s.stack) \in Nat
    BY <1>1, LenProperties
  <2> QED
    BY <2>1, <2>2, EmptySeq
<1>5. AgainOn(q) = Own(layer) + AgainOn(s.stack)
  BY <1>1, <1>2, AgainMore
<1>6. p = [s EXCEPT !.fuel = f, !.owed = o, !.stack = q]
  BY <1>0, <1>2 DEF States, Push
<1>7. /\ p \in States /\ p.phase = s.phase /\ p.active = s.active /\ p.priority = s.priority
      /\ p.decision = s.decision /\ p.stack = q /\ p.resume = s.resume
      /\ p.passes = s.passes /\ p.link = s.link /\ p.queue = s.queue
      /\ p.ap = s.ap /\ p.owed = o /\ p.fuel = f
  BY <1>4, <1>6 DEF States
<1>8. Grown(s, p)
  BY <1>4, <1>7 DEF Grown
<1>9. Owes(p)
  <2>1. /\ AgainOn(p.stack) = Own(layer) + AgainOn(s.stack) /\ AgainOn(p.queue) = AgainOn(s.queue)
        /\ Unpaid(p.link) = Unpaid(s.link) /\ Due(p.resume) = Due(s.resume)
    BY <1>5, <1>7
  <2>2. /\ s.ap \in Nat /\ AgainOn(s.stack) \in Nat /\ AgainOn(s.queue) \in Nat
        /\ Unpaid(s.link) \in Nat /\ Due(s.resume) \in Nat /\ s.owed \in Nat
    BY Numbers
  <2>3. s.ap + (Own(layer) + AgainOn(s.stack)) + AgainOn(s.queue) + Unpaid(s.link)
          + Due(s.resume) + s.owed
        <= s.ap + AgainOn(s.stack) + AgainOn(s.queue) + Unpaid(s.link) + Due(s.resume)
             + (s.owed + Own(layer))
    BY <1>3, <2>2
  <2>4. p.ap + AgainOn(p.stack) + AgainOn(p.queue) + Unpaid(p.link) + Due(p.resume) + s.owed
        <= s.ap + AgainOn(s.stack) + AgainOn(s.queue) + Unpaid(s.link) + Due(s.resume) + p.owed
    BY <1>7, <2>1, <2>3
  <2>5. p.owed + p.fuel <= s.owed + s.fuel
    BY <1>7
  <2> QED
    BY <1>7, <2>4, <2>5, OwesLess
<1> QED
  BY <1>0, <1>7, <1>8, <1>9

LEMMA GrownTwice ==
  ASSUME NEW s, NEW p, NEW r, Grown(s, p), Grown(p, r)
  PROVE  Grown(s, r)
  BY DEF Grown

LEMMA AnnouncementsFacts ==
  ASSUME NEW s, Sound(s), GivesPriority(s.phase), NEW layer \in Layers,
         NEW p \in Announcements(s, layer)
  PROVE  Sound(p) /\ p \in States /\ Grown(s, p)
<1>1. s \in States /\ Owes(s) /\ layer.again \in BOOLEAN
  BY DEF Sound, Layers
<1>2. PICK cost : cost = IF layer.again THEN 1 ELSE 0
  OBVIOUS
<1>3. cost = Own(layer) /\ cost \in {0, 1}
  BY <1>2 DEF Own
<1>4. PICK plain : plain = [s EXCEPT !.fuel = @ - cost, !.owed = @ + cost,
                                     !.stack = <<layer>> \o @]
  OBVIOUS
<1>5. /\ ~(s.fuel < cost)
      /\ \/ p = plain
         \/ /\ s.fuel # cost
            /\ \E seat \in Seats :
                 p = [plain EXCEPT !.fuel = @ - 1,
                                   !.stack = <<Layer("trigger", seat, FALSE)>> \o @]
  <2>1. ~(s.fuel < cost)
    BY <1>2 DEF Announcements
  <2>2. CASE s.fuel = cost
    BY <1>2, <1>4, <2>1, <2>2 DEF Announcements
  <2>3. CASE s.fuel # cost
    BY <1>2, <1>4, <2>1, <2>3 DEF Announcements
  <2> QED
    BY <2>1, <2>2, <2>3
<1>6. /\ s.fuel \in Nat /\ s.owed \in Nat /\ s.fuel <= Budget /\ Budget \in Nat
      /\ s.owed + s.fuel <= Budget + 1
  BY <1>1, Numbers DEF Owes
<1>7. PICK f, o : f = s.fuel - cost /\ o = s.owed + cost
  OBVIOUS
<1>8. f \in Fuels /\ o \in Points /\ o + f <= s.owed + s.fuel /\ f \in Nat /\ o \in Nat
  <2>1. cost <= s.fuel /\ cost \in {0, 1}
    <3>1. ~(s.fuel < cost)
      BY <1>5
    <3> QED
      BY <1>3, <1>6, <3>1
  <2>2. f \in Nat /\ f <= Budget /\ o \in Nat /\ o + f = s.owed + s.fuel
    BY <1>6, <1>7, <2>1
  <2>3. o <= Budget + 1 /\ o + f <= s.owed + s.fuel
    BY <1>6, <2>2
  <2> QED
    BY <1>6, <2>2, <2>3 DEF Fuels, Points
<1>9. plain = Push(s, layer, f, o)
  BY <1>1, <1>4, <1>7 DEF States, Push
<1>10. /\ plain \in States /\ Owes(plain) /\ Grown(s, plain)
       /\ plain.fuel = f /\ plain.owed = o
  BY <1>1, <1>3, <1>7, <1>8, <1>9, Pushed
<1>11. CASE p = plain
  BY <1>10, <1>11, GrownFacts
<1>12. CASE s.fuel # cost /\ \E seat \in Seats :
                 p = [plain EXCEPT !.fuel = @ - 1,
                                   !.stack = <<Layer("trigger", seat, FALSE)>> \o @]
  <2>1. PICK seat \in Seats :
          p = [plain EXCEPT !.fuel = @ - 1, !.stack = <<Layer("trigger", seat, FALSE)>> \o @]
    BY <1>12
  <2>2. PICK g, above : g = f - 1 /\ above = Layer("trigger", seat, FALSE)
    OBVIOUS
  <2>3. above \in Layers /\ Own(above) = 0
    <3>1. above \in Layers /\ above.again = FALSE
      BY <2>2 DEF Layer, Layers, LayerKinds
    <3> QED
      BY <3>1, Zenon DEF Own
  <2>4. g \in Fuels /\ o + g <= o + f /\ o = o + 0
    <3>1. f # 0
      <4>1. s.fuel # cost
        BY <1>12
      <4> QED
        BY <1>3, <1>6, <1>7, <4>1
    <3>2. f \in Nat /\ f <= Budget
      BY <1>6, <1>8 DEF Fuels
    <3> QED
      BY <1>6, <1>8, <2>2, <3>1, <3>2 DEF Fuels
  <2>5. p = Push(plain, above, g, o)
    BY <1>10, <2>1, <2>2 DEF States, Push
  <2>6. o = plain.owed + Own(above) /\ o + g <= plain.owed + plain.fuel
    BY <1>10, <2>3, <2>4
  <2>7. p \in States /\ Owes(p) /\ Grown(plain, p)
    BY <1>8, <1>10, <2>3, <2>4, <2>5, <2>6, Pushed
  <2> QED
    BY <1>10, <2>7, GrownTwice, GrownFacts
<1> QED
  BY <1>5, <1>11, <1>12

(* One unit of fuel is spent. *)
LEMMA SpentFacts ==
  ASSUME NEW s, Sound(s), s.fuel # 0, NEW t, t = [s EXCEPT !.fuel = @ - 1]
  PROVE  /\ Sound(t) /\ Kept(s, t) /\ t.decision = s.decision
         /\ t.fuel \in Fuels /\ t.fuel = s.fuel - 1
<1>1. s \in States /\ s.fuel \in Nat /\ s.fuel <= Budget /\ Budget \in Nat
  BY Numbers DEF Sound
<1>2. s.fuel - 1 \in Fuels /\ s.fuel - 1 <= s.fuel
  BY <1>1 DEF Fuels
<1>3. t \in States
  BY <1>1, <1>2 DEF States
<1>4. /\ t.phase = s.phase /\ t.active = s.active /\ t.priority = s.priority
      /\ t.decision = s.decision /\ t.stack = s.stack /\ t.resume = s.resume
      /\ t.passes = s.passes /\ t.link = s.link /\ t.queue = s.queue
      /\ t.ap = s.ap /\ t.owed = s.owed /\ t.fuel = s.fuel - 1
  BY <1>1 DEF States
<1>5. AgainOn(s.queue) <= AgainOn(s.queue)
  BY <1>1, Numbers
<1>6. Kept(s, t)
  BY <1>2, <1>3, <1>4, <1>5 DEF Kept, SameFlow, SameLink
<1> QED
  BY <1>2, <1>4, <1>6, KeptSound

LEMMA InstantsFacts ==
  ASSUME NEW s, Sound(s), GivesPriority(s.phase), NEW p \in Instants(s)
  PROVE  Sound(p) /\ p \in States /\ Grown(s, p)
<1>1. s \in States /\ s.priority \in Seats
  BY Parts DEF Sound
<1>2. s.fuel # 0
  BY DEF Instants
<1>3. PICK t : t = [s EXCEPT !.fuel = @ - 1]
  OBVIOUS
<1>4. PICK kind \in {"card", "attack"}, again \in BOOLEAN :
        p \in Announcements(t, Layer(kind, s.priority, again))
  BY <1>2, <1>3 DEF Instants
<1>5. Layer(kind, s.priority, again) \in Layers
  BY <1>1 DEF Layer, Layers, LayerKinds
<1>6. Sound(t) /\ Kept(s, t) /\ t.decision = s.decision
  BY <1>2, <1>3, SpentFacts
<1>7. GivesPriority(t.phase)
  BY <1>6 DEF Kept, SameFlow, GivesPriority
<1>8. Sound(p) /\ p \in States /\ Grown(t, p)
  BY <1>4, <1>5, <1>6, <1>7, AnnouncementsFacts
<1>9. Grown(s, p)
  <2>1. /\ t.phase = s.phase /\ t.active = s.active /\ t.priority = s.priority
        /\ t.decision = s.decision /\ t.resume = s.resume /\ t.passes = s.passes
        /\ t.link = s.link
    BY <1>1, <1>3 DEF States
  <2> QED
    BY <1>8, <2>1 DEF Grown
<1> QED
  BY <1>8, <1>9

LEMMA ActivationsFacts ==
  ASSUME Sound(state), GivesPriority(state.phase), NEW p \in Activations
  PROVE  Sound(p) /\ p \in States /\ Grown(state, p)
<1>1. /\ state \in States /\ Owes(state) /\ state.priority \in Seats /\ state.owed \in Points
      /\ state.owed \in Nat /\ state.fuel \in Nat
  BY Parts, Numbers DEF Sound
<1>2. PICK t, layer : t = [state EXCEPT !.fuel = @ - 1]
                      /\ layer = Layer("card", state.priority, FALSE)
  OBVIOUS
<1>3. state.fuel # 0
  BY DEF Activations
<1>4. t.fuel \in Fuels /\ t.fuel = state.fuel - 1
  <2>1. t = [state EXCEPT !.fuel = @ - 1]
    BY <1>2
  <2> QED
    BY <1>3, <2>1, SpentFacts
<1>5. layer \in Layers /\ Own(layer) = 0
  <2>1. layer \in Layers /\ layer.again = FALSE
    BY <1>1, <1>2 DEF Layer, Layers, LayerKinds
  <2> QED
    BY <2>1, Zenon DEF Own
<1>6. p = Push(state, layer, t.fuel, state.owed)
  <2>1. p = [state EXCEPT !.fuel = @ - 1, !.stack = <<layer>> \o @]
    BY <1>2, <1>3 DEF Activations
  <2> QED
    BY <1>1, <1>4, <2>1 DEF States, Push
<1>7. /\ state.owed = state.owed + Own(layer)
      /\ state.owed + t.fuel <= state.owed + state.fuel
  BY <1>1, <1>4, <1>5
<1>8. p \in States /\ Owes(p) /\ Grown(state, p)
  BY <1>1, <1>4, <1>5, <1>6, <1>7, Pushed
<1> QED
  BY <1>8, GrownFacts

(* A play at instant speed calls the end-of-action pass off. *)
LEMMA CancelFacts ==
  ASSUME NEW s, Sound(s), Steady(s), s.phase \in {"action", "layer"}
  PROVE  /\ Sound(CancelEndActionPass(s)) /\ Steady(CancelEndActionPass(s))
         /\ CancelEndActionPass(s).phase = s.phase
         /\ CancelEndActionPass(s).priority = s.priority
         /\ CancelEndActionPass(s).decision = s.decision
         /\ CancelEndActionPass(s).stack = s.stack
<1>1. s \in States /\ Combat(s) /\ Unannounced(s) /\ Owes(s)
  BY DEF Sound
<1>2. PICK resume : resume = IF s.resume = "end-action-phase" THEN "begin-action" ELSE s.resume
  OBVIOUS
<1>3. resume \in Resumes
  BY <1>1, <1>2, Parts DEF Resumes
<1>4. PICK t : t = [s EXCEPT !.resume = resume]
  OBVIOUS
<1>5. CancelEndActionPass(s) = t
  BY <1>2, <1>4 DEF CancelEndActionPass
<1>6. /\ t \in States /\ t.resume = resume
      /\ t.phase = s.phase /\ t.active = s.active /\ t.priority = s.priority
      /\ t.decision = s.decision /\ t.stack = s.stack /\ t.link = s.link
      /\ t.queue = s.queue /\ t.ap = s.ap /\ t.owed = s.owed /\ t.fuel = s.fuel
  BY <1>1, <1>3, <1>4, ResumeFacts
<1>7. CASE s.resume = "end-action-phase"
  <2>1. resume = "begin-action" /\ s.link = None
    BY <1>1, <1>2, <1>7 DEF Combat, CombatResumes
  <2>2. Combat(t) /\ Unannounced(t) /\ Steady(t)
    BY <1>1, <1>6, <2>1 DEF Combat, CombatResumes, Unannounced, Steady, Resumable
  <2>3. Owes(t)
    BY <1>1, <1>6, <2>1, OwesOn
  <2> QED
    BY <1>5, <1>6, <2>2, <2>3 DEF Sound
<1>8. CASE s.resume # "end-action-phase"
  <2>1. t.resume = s.resume
    BY <1>2, <1>6, <1>8
  <2>2. Combat(t)
    BY <1>1, <1>6, <2>1 DEF Combat
  <2>3. Unannounced(t) /\ Steady(t)
    BY <1>1, <1>6, <2>1 DEF Unannounced, Steady, Resumable
  <2>4. Owes(t)
    BY <1>1, <1>6, <2>1, SameOwes
  <2> QED
    BY <1>5, <1>6, <2>2, <2>3, <2>4 DEF Sound
<1> QED
  BY <1>7, <1>8

(* What the effects of a play leave of the state it was made in. *)
LEMMA Played ==
  ASSUME NEW s, NEW p, NEW does, NEW t \in Effects(p, does),
         Sound(s), Sound(p), Grown(s, p), GivesPriority(s.phase)
  PROVE  /\ Sound(t) /\ t \in States /\ t.stack # <<>>
         /\ t.phase = s.phase /\ t.active = s.active /\ t.priority = s.priority
         /\ t.decision = s.decision \/ (t.decision = Choice /\ ~Asked(s) /\ "ask" \in does)
         /\ (t.link = None <=> s.link = None)
         /\ (Resumable(s) => Resumable(t))
         /\ Steady(s) /\ (s.phase \in {"action", "layer"} \/ s.link # None) => Steady(t)
<1>1. p \in States /\ Owes(p)
  BY DEF Sound
<1>2. Kept(p, t) /\ (t.decision = p.decision \/ (t.decision = Choice /\ ~Asked(p) /\ "ask" \in does))
  BY <1>1, EffectsKeep
<1>3. Sound(t) /\ SameFlow(p, t) /\ t \in States
  BY <1>2, KeptSound DEF Kept
<1>4. /\ (Resumable(s) => Resumable(p))
      /\ Steady(s) /\ (s.phase \in {"action", "layer"} \/ s.link # None) => Steady(p)
  BY <1>1, GrownFacts
<1>5. (Resumable(p) => Resumable(t)) /\ (Steady(p) => Steady(t))
  BY <1>3, SameResumable, SameFits
<1>6. /\ t.stack # <<>> /\ t.phase = s.phase /\ t.active = s.active /\ t.priority = s.priority
      /\ (t.link = None <=> s.link = None)
  BY <1>3 DEF SameFlow, SameLink, Grown
<1>7. t.decision = s.decision \/ (t.decision = Choice /\ ~Asked(s) /\ "ask" \in does)
  BY <1>2 DEF Grown, Asked
<1> QED
  BY <1>3, <1>4, <1>5, <1>6, <1>7

LEMMA PlayInWindowStep ==
  ASSUME IInv, PlayInWindow
  PROVE  IInv'
<1>1. /\ Sound(state) /\ Settled(state) /\ state.priority \in Seats
      /\ state.decision.kind = "window"
  BY AtRest DEF PlayInWindow, Holding, Deciding, Idle
<1>2. Steady(state) /\ state.phase = "layer"
  BY <1>1 DEF Settled
<1>3. PICK c : c = CancelEndActionPass(state)
  OBVIOUS
<1>4. /\ Sound(c) /\ Steady(c) /\ c.phase = "layer" /\ c.priority = state.priority
      /\ c.decision = state.decision
  BY <1>1, <1>2, <1>3, CancelFacts
<1>5. PICK p \in Instants(c) : \E s \in Effects(p, {"ask", "raise"}) :
        Done(IF Asked(s) THEN After(s, "continue", state.priority)
                         ELSE HoldWindow(s, "window", state.priority))
  BY <1>3 DEF PlayInWindow
<1>6. PICK s \in Effects(p, {"ask", "raise"}) :
        Done(IF Asked(s) THEN After(s, "continue", state.priority)
                         ELSE HoldWindow(s, "window", state.priority))
  BY <1>5
<1>7. GivesPriority(c.phase)
  BY <1>4 DEF GivesPriority
<1>8. Sound(p) /\ Grown(c, p)
  BY <1>4, <1>5, <1>7, InstantsFacts
<1>9. /\ Sound(s) /\ Steady(s) /\ s.stack # <<>> /\ s.phase = "layer"
      /\ s.decision = state.decision \/ s.decision = Choice
  BY <1>4, <1>6, <1>7, <1>8, Played
<1>10. CASE Asked(s)
  <2>1. Done(After(s, "continue", state.priority))
    BY <1>6, <1>10
  <2>2. s.decision.kind = "choice" /\ Continues(s, "continue")
    BY <1>1, <1>9, <1>10, Opened DEF Asked, Continues
  <2> QED
    BY <1>1, <1>9, <2>1, <2>2, AfterDone DEF Thens
<1>11. CASE ~Asked(s)
  <2>1. Done(HoldWindow(s, "window", state.priority))
    BY <1>6, <1>11
  <2> QED
    BY <1>1, <1>9, <2>1, HeldDone
<1> QED
  BY <1>10, <1>11

LEMMA PlayInReactionStep ==
  ASSUME IInv, PlayInReaction
  PROVE  IInv'
<1>1. /\ Sound(state) /\ Settled(state) /\ state.priority \in Seats
      /\ state.decision.kind = "reaction"
  BY AtRest DEF PlayInReaction, Holding, Deciding, Idle
<1>2. Steady(state) /\ state.phase = "reaction" /\ state.link # None
  BY <1>1 DEF Settled
<1>3. PICK p \in Instants(state) : \E s \in Effects(p, {"raise"}) :
        Done(HoldWindow(s, "reaction", state.priority))
  BY DEF PlayInReaction
<1>4. PICK s \in Effects(p, {"raise"}) : Done(HoldWindow(s, "reaction", state.priority))
  BY <1>3
<1>5. GivesPriority(state.phase)
  BY <1>2 DEF GivesPriority
<1>6. Sound(p) /\ Grown(state, p)
  BY <1>1, <1>3, <1>5, InstantsFacts
<1>7. Sound(s) /\ Steady(s) /\ s.phase = "reaction" /\ s.link # None
  BY <1>1, <1>2, <1>4, <1>5, <1>6, Played
<1> QED
  BY <1>1, <1>4, <1>7, HeldDone

LEMMA ActivateInWindowStep ==
  ASSUME IInv, ActivateInWindow
  PROVE  IInv'
<1>1. /\ Sound(state) /\ Settled(state) /\ state.priority \in Seats
      /\ state.decision.kind = "window"
  BY AtRest DEF ActivateInWindow, Holding, Deciding, Idle
<1>2. Steady(state) /\ state.phase = "layer"
  BY <1>1 DEF Settled
<1>3. PICK p \in Activations : \E s \in Effects(p, {"ask", "raise"}) :
        CASE Asked(s) -> Done(After(CancelEndActionPass(s), "continue", state.priority))
          [] ~Asked(s) /\ s.pending # Nothing -> PlacePending(s)
          [] OTHER -> Done(HoldWindow(CancelEndActionPass(s), "window", state.priority))
  BY DEF ActivateInWindow
<1>4. PICK s \in Effects(p, {"ask", "raise"}) :
        CASE Asked(s) -> Done(After(CancelEndActionPass(s), "continue", state.priority))
          [] ~Asked(s) /\ s.pending # Nothing -> PlacePending(s)
          [] OTHER -> Done(HoldWindow(CancelEndActionPass(s), "window", state.priority))
  BY <1>3
<1>5. GivesPriority(state.phase)
  BY <1>2 DEF GivesPriority
<1>6. Sound(p) /\ Grown(state, p)
  BY <1>1, <1>3, <1>5, ActivationsFacts
<1>7. /\ Sound(s) /\ Steady(s) /\ s.stack # <<>> /\ s.phase = "layer"
      /\ s.decision = state.decision \/ s.decision = Choice
  BY <1>1, <1>2, <1>4, <1>5, <1>6, Played
<1>8. PICK c : c = CancelEndActionPass(s)
  OBVIOUS
<1>9. /\ Sound(c) /\ Steady(c) /\ c.stack # <<>> /\ c.phase = "layer"
      /\ c.decision = s.decision
  BY <1>7, <1>8, CancelFacts
<1>10. CASE Asked(s)
  <2>1. Done(After(c, "continue", state.priority))
    BY <1>4, <1>8, <1>10
  <2>2. c.decision.kind = "choice" /\ Continues(c, "continue")
    BY <1>1, <1>7, <1>9, <1>10, Opened DEF Asked, Continues
  <2> QED
    BY <1>1, <1>9, <2>1, <2>2, AfterDone DEF Thens
<1>11. CASE ~Asked(s) /\ s.pending # Nothing
  <2>1. PlacePending(s)
    BY <1>4, <1>11
  <2>2. Undecided(s) /\ Resumable(s)
    BY <1>1, <1>7, <1>11, Opened DEF Undecided, Free, Steady
  <2> QED
    BY <1>7, <2>1, <2>2, PlacePendingStep
<1>12. CASE ~Asked(s) /\ s.pending = Nothing
  <2>1. Done(HoldWindow(c, "window", state.priority))
    BY <1>4, <1>8, <1>12
  <2> QED
    BY <1>1, <1>9, <2>1, HeldDone
<1> QED
  BY <1>10, <1>11, <1>12

LEMMA ActivateInReactionStep ==
  ASSUME IInv, ActivateInReaction
  PROVE  IInv'
<1>1. /\ Sound(state) /\ Settled(state) /\ state.priority \in Seats
      /\ state.decision.kind = "reaction"
  BY AtRest DEF ActivateInReaction, Holding, Deciding, Idle
<1>2. Steady(state) /\ state.phase = "reaction" /\ state.link # None
  BY <1>1 DEF Settled
<1>3. PICK p \in Activations : \E s \in Effects(p, {"ask", "raise"}) :
        CASE Asked(s) -> Done(After(s, "reopen", state.priority))
          [] ~Asked(s) /\ s.pending # Nothing -> PlacePending(s)
          [] OTHER -> Done(HoldWindow(s, "reaction", state.priority))
  BY DEF ActivateInReaction
<1>4. PICK s \in Effects(p, {"ask", "raise"}) :
        CASE Asked(s) -> Done(After(s, "reopen", state.priority))
          [] ~Asked(s) /\ s.pending # Nothing -> PlacePending(s)
          [] OTHER -> Done(HoldWindow(s, "reaction", state.priority))
  BY <1>3
<1>5. GivesPriority(state.phase)
  BY <1>2 DEF GivesPriority
<1>6. Sound(p) /\ Grown(state, p)
  BY <1>1, <1>3, <1>5, ActivationsFacts
<1>7. /\ Sound(s) /\ Steady(s) /\ s.phase = "reaction" /\ s.link # None
      /\ s.decision = state.decision \/ s.decision = Choice
  BY <1>1, <1>2, <1>4, <1>5, <1>6, Played
<1>8. CASE Asked(s)
  <2>1. Done(After(s, "reopen", state.priority))
    BY <1>4, <1>8
  <2>2. s.decision.kind = "choice" /\ Continues(s, "reopen")
    BY <1>1, <1>7, <1>8, Opened DEF Asked, Continues
  <2> QED
    BY <1>1, <1>7, <2>1, <2>2, AfterDone DEF Thens
<1>9. CASE ~Asked(s) /\ s.pending # Nothing
  <2>1. PlacePending(s)
    BY <1>4, <1>9
  <2>2. Undecided(s) /\ Resumable(s)
    BY <1>1, <1>7, <1>9, Opened DEF Undecided, Free, Steady
  <2> QED
    BY <1>7, <2>1, <2>2, PlacePendingStep
<1>10. CASE ~Asked(s) /\ s.pending = Nothing
  <2>1. Done(HoldWindow(s, "reaction", state.priority))
    BY <1>4, <1>10
  <2> QED
    BY <1>1, <1>7, <2>1, HeldDone
<1> QED
  BY <1>8, <1>9, <1>10

(* The first layer of the action phase opens the stack. *)
LEMMA OpenLayerStep ==
  ASSUME NEW s, OpenLayer(s), Sound(s), s.link = None, s.phase = "action", Free(s)
  PROVE  IInv'
<1>1. s \in States /\ Owes(s) /\ s.active \in Seats
  BY Parts DEF Sound
<1>2. PICK t : t = [s EXCEPT !.resume = "begin-action"]
  OBVIOUS
<1>3. "begin-action" \in Resumes
  BY DEF Resumes
<1>4. /\ t \in States /\ t.resume = "begin-action"
      /\ t.phase = s.phase /\ t.active = s.active
      /\ t.decision = s.decision /\ t.stack = s.stack /\ t.link = s.link
      /\ t.queue = s.queue /\ t.ap = s.ap /\ t.owed = s.owed /\ t.fuel = s.fuel
  BY <1>1, <1>2, <1>3, ResumeFacts
<1>5. Combat(t) /\ Unannounced(t) /\ Steady(t) /\ Free(t)
  BY <1>4 DEF Combat, CombatResumes, Unannounced, GivesPriority, Steady, Resumable, Free
<1>6. Owes(t)
  BY <1>1, <1>4, OwesOn
<1>7. Sound(t)
  BY <1>4, <1>5, <1>6 DEF Sound
<1>8. CASE Asked(t)
  <2>1. Done(After(t, "continue", t.active))
    BY <1>2, <1>8 DEF OpenLayer
  <2>2. t.decision.kind = "choice" /\ Continues(t, "continue")
    BY <1>5, <1>8, AskedIsChoice DEF Continues
  <2> QED
    BY <1>1, <1>4, <1>7, <2>1, <2>2, AfterDone DEF Thens
<1>9. CASE ~Asked(t)
  <2>1. Go(t, "continue", t.active)
    BY <1>2, <1>9 DEF OpenLayer
  <2> QED
    BY <1>1, <1>4, <1>5, <1>7, <1>9, <2>1, ToContinue
<1> QED
  BY <1>8, <1>9

(* In the bare action phase. *)
LEMMA ActingFacts ==
  ASSUME IInv, Acting
  PROVE  /\ Sound(state) /\ state \in States /\ Bare(state) /\ Owes(state)
         /\ state.decision.kind = "none" /\ state.phase = "action" /\ state.link = None
<1>1. /\ Sound(state) /\ Settled(state) /\ state \in States /\ Owes(state)
      /\ state.decision.kind = "none" /\ state.phase = "action"
  BY AtRest DEF Acting, Holding, Deciding, Idle
<1>2. Bare(state)
  BY <1>1 DEF Settled
<1> QED
  BY <1>1, <1>2 DEF Bare

LEMMA SpendFacts ==
  ASSUME Sound(state), Bare(state), state.ap > 0
  PROVE  /\ SpendActionPoint \in States /\ Sound(SpendActionPoint)
         /\ SpendActionPoint.phase = "action"
         /\ SpendActionPoint.link = None /\ SpendActionPoint.stack = <<>>
         /\ SpendActionPoint.resume = state.resume
         /\ SpendActionPoint.decision = state.decision
         /\ SpendActionPoint.queue = state.queue
         /\ SpendActionPoint.fuel = state.fuel
         /\ SpendActionPoint.ap = state.ap - 1
         /\ SpendActionPoint.owed = state.owed - 1 /\ state.owed > 0
<1>1. state \in States /\ Owes(state)
  BY DEF Sound
<1>2. PICK x \in Nat : x = AgainOn(state.stack) + AgainOn(state.queue)
  <2>1. AgainOn(state.stack) \in Nat /\ AgainOn(state.queue) \in Nat
    BY <1>1, Numbers
  <2> QED
    BY <2>1
<1>3. PICK y \in Nat : y = Unpaid(state.link) + Due(state.resume)
  <2>1. Unpaid(state.link) \in Nat /\ Due(state.resume) \in Nat
    BY <1>1, Numbers
  <2> QED
    BY <2>1
<1>4. /\ state.ap \in Nat /\ state.owed \in Nat /\ state.fuel \in Nat /\ Budget \in Nat
      /\ state.ap <= Budget + 1 /\ state.owed <= Budget + 1
      /\ AgainOn(state.stack) \in Nat /\ AgainOn(state.queue) \in Nat
      /\ Unpaid(state.link) \in Nat /\ Due(state.resume) \in Nat
  BY <1>1, Numbers
<1>5. /\ state.ap + AgainOn(state.stack) + AgainOn(state.queue) + Unpaid(state.link)
           + Due(state.resume) <= state.owed
      /\ state.owed + state.fuel <= Budget + 1
  BY <1>1 DEF Owes
<1>6. state.ap + x + y <= state.owed
  BY <1>2, <1>3, <1>4, <1>5
<1>7. PICK a, o : a = state.ap - 1 /\ o = state.owed - 1
  OBVIOUS
<1>8. /\ a \in Points /\ o \in Points /\ a \in Nat /\ o \in Nat /\ state.owed > 0
      /\ a + x + y <= o /\ o + state.fuel <= Budget + 1
  BY <1>4, <1>5, <1>6, <1>7 DEF Points
<1>9. PICK t : t = SpendActionPoint
  OBVIOUS
<1>10. t = [state EXCEPT !.ap = a, !.owed = o]
  BY <1>1, <1>7, <1>9 DEF SpendActionPoint, States
<1>11. /\ t \in States /\ t.phase = state.phase /\ t.active = state.active
       /\ t.decision = state.decision /\ t.stack = state.stack /\ t.resume = state.resume
       /\ t.link = state.link /\ t.queue = state.queue
       /\ t.ap = a /\ t.owed = o /\ t.fuel = state.fuel
  BY <1>1, <1>8, <1>10 DEF States
<1>12. Combat(t) /\ Unannounced(t)
  BY <1>11 DEF Sound, Combat, Unannounced
<1>13. Owes(t)
  <2>1. a + AgainOn(state.stack) + AgainOn(state.queue) + Unpaid(state.link)
          + Due(state.resume) <= o
    BY <1>2, <1>3, <1>4, <1>8
  <2> QED
    BY <1>8, <1>11, <2>1 DEF Owes
<1> QED
  BY <1>7, <1>8, <1>9, <1>11, <1>12, <1>13 DEF Sound, Bare

LEMMA PlayActionStep ==
  ASSUME IInv, PlayAction
  PROVE  IInv'
<1>1. /\ Sound(state) /\ Bare(state) /\ state.decision.kind = "none" /\ state.ap > 0
  BY ActingFacts DEF PlayAction
<1>2. PICK e : e = SpendActionPoint
  OBVIOUS
<1>3. /\ e \in States /\ Sound(e) /\ e.phase = "action" /\ e.link = None
      /\ e.decision = state.decision
  BY <1>1, <1>2, SpendFacts
<1>4. PICK c \in ClosedChain(e), again \in BOOLEAN :
        \E p \in Announcements(c, Layer("card", c.active, again)) :
          \E s \in Effects(p, {"ask", "raise"}) : OpenLayer(s)
  BY <1>2 DEF PlayAction
<1>5. PICK p \in Announcements(c, Layer("card", c.active, again)) :
        \E s \in Effects(p, {"ask", "raise"}) : OpenLayer(s)
  BY <1>4
<1>6. PICK s \in Effects(p, {"ask", "raise"}) : OpenLayer(s)
  BY <1>5
<1>7. Kept(e, c) /\ (c.decision = state.decision \/ c.decision = Choice)
  BY <1>3, <1>4, ClosedChainFacts
<1>8. /\ Sound(c) /\ c.phase = "action" /\ c.link = None /\ c.active \in Seats
  <2>1. Sound(c) /\ c.phase = "action" /\ c.link = None
    BY <1>3, <1>7, KeptSound DEF Kept, SameFlow, SameLink
  <2> QED
    BY <2>1, Parts DEF Sound
<1>9. Layer("card", c.active, again) \in Layers /\ GivesPriority(c.phase)
  BY <1>8 DEF Layer, Layers, LayerKinds, GivesPriority
<1>10. Sound(p) /\ Grown(c, p)
  BY <1>5, <1>8, <1>9, AnnouncementsFacts
<1>11. /\ Sound(s) /\ s.phase = "action" /\ s.link = None
       /\ s.decision = c.decision \/ s.decision = Choice
  BY <1>6, <1>8, <1>9, <1>10, Played
<1>12. Free(s)
  BY <1>1, <1>7, <1>11, Opened DEF Free
<1> QED
  BY <1>6, <1>11, <1>12, OpenLayerStep

LEMMA PlayInstantStep ==
  ASSUME IInv, PlayInstant
  PROVE  IInv'
<1>1. /\ Sound(state) /\ state.decision.kind = "none" /\ state.phase = "action"
      /\ state.link = None
  BY ActingFacts DEF PlayInstant
<1>2. PICK p \in Instants(state) : \E s \in Effects(p, {"ask", "raise"}) : OpenLayer(s)
  BY DEF PlayInstant
<1>3. PICK s \in Effects(p, {"ask", "raise"}) : OpenLayer(s)
  BY <1>2
<1>4. GivesPriority(state.phase)
  BY <1>1 DEF GivesPriority
<1>5. Sound(p) /\ Grown(state, p)
  BY <1>1, <1>2, <1>4, InstantsFacts
<1>6. /\ Sound(s) /\ s.phase = "action" /\ s.link = None
      /\ s.decision = state.decision \/ s.decision = Choice
  BY <1>1, <1>3, <1>4, <1>5, Played
<1>7. Free(s)
  BY <1>1, <1>6, Opened DEF Free
<1> QED
  BY <1>3, <1>6, <1>7, OpenLayerStep

LEMMA PlayAttackStep ==
  ASSUME IInv, PlayAttack
  PROVE  IInv'
<1>1. /\ Sound(state) /\ Bare(state) /\ state.decision.kind = "none" /\ state.ap > 0
      /\ state \in States
  BY ActingFacts DEF PlayAttack
<1>2. PICK again \in BOOLEAN :
        LET cost == IF again THEN 1 ELSE 0 IN
        /\ state.fuel >= cost
        /\ \E s \in Effects([SpendActionPoint EXCEPT !.fuel = @ - cost, !.owed = @ + cost,
                                                      !.link = NewLink(again)],
                            {"ask", "raise"}) :
             DeclareAttack(s)
  BY DEF PlayAttack
<1>3. PICK cost, e : cost = (IF again THEN 1 ELSE 0) /\ e = SpendActionPoint
  OBVIOUS
<1>4. PICK b : b = [e EXCEPT !.fuel = @ - cost, !.owed = @ + cost, !.link = NewLink(again)]
  OBVIOUS
<1>5. PICK s \in Effects(b, {"ask", "raise"}) : DeclareAttack(s)
  BY <1>2, <1>3, <1>4
<1>6. state.fuel >= cost /\ cost \in {0, 1}
  BY <1>2, <1>3
<1>7. /\ e \in States /\ Owes(e) /\ e.link = None /\ e.decision = state.decision
      /\ e.fuel = state.fuel /\ e.owed = state.owed - 1 /\ state.owed > 0
  BY <1>1, <1>3, SpendFacts DEF Sound
<1>8. /\ e.fuel \in Nat /\ e.owed \in Nat /\ e.fuel <= Budget /\ Budget \in Nat
      /\ e.owed + e.fuel <= Budget + 1
  BY <1>7, Numbers DEF Owes
<1>9. PICK f, o, l : f = e.fuel - cost /\ o = e.owed + cost /\ l = NewLink(again)
  OBVIOUS
<1>10. /\ f \in Nat /\ o \in Nat /\ f \in Fuels /\ o \in Points /\ o + f = e.owed + e.fuel
  <2>1. cost <= e.fuel
    BY <1>6, <1>7, <1>8
  <2>2. f \in Nat /\ f <= Budget /\ o \in Nat /\ o + f = e.owed + e.fuel
    BY <1>6, <1>8, <1>9, <2>1
  <2> QED
    BY <1>8, <2>2 DEF Fuels, Points
<1>11. /\ l \in Links /\ l # None /\ ~l.began /\ ~l.damaged /\ ~l.resolving
       /\ Unpaid(l) = cost
  BY <1>3, <1>9, NewLinkFacts
<1>12. b = [e EXCEPT !.fuel = f, !.owed = o, !.link = l]
  BY <1>4, <1>7, <1>9 DEF States
<1>13. /\ b \in States /\ b.link = l /\ b.decision = state.decision
       /\ b.stack = e.stack /\ b.queue = e.queue /\ b.resume = e.resume
       /\ b.ap = e.ap /\ b.owed = o /\ b.fuel = f
  BY <1>7, <1>10, <1>11, <1>12 DEF States
<1>14. Owes(b)
  <2>1. /\ AgainOn(b.stack) = AgainOn(e.stack) /\ AgainOn(b.queue) = AgainOn(e.queue)
        /\ Unpaid(b.link) = cost /\ Unpaid(e.link) = 0 /\ Due(b.resume) = Due(e.resume)
    BY <1>7, <1>11, <1>13 DEF Unpaid
  <2>2. PICK x \in Nat : x = e.ap + AgainOn(e.stack) + AgainOn(e.queue)
    <3>1. e.ap \in Nat /\ AgainOn(e.stack) \in Nat /\ AgainOn(e.queue) \in Nat
      BY <1>7, Numbers
    <3> QED
      BY <3>1
  <2>3. Due(e.resume) \in Nat
    BY <1>7, Numbers
  <2>4. x + cost + Due(e.resume) + e.owed <= x + 0 + Due(e.resume) + o
    BY <1>6, <1>8, <1>9, <2>2, <2>3
  <2>5. b.ap + AgainOn(b.stack) + AgainOn(b.queue) + Unpaid(b.link) + Due(b.resume) + e.owed
        <= e.ap + AgainOn(e.stack) + AgainOn(e.queue) + Unpaid(e.link) + Due(e.resume) + b.owed
    BY <1>13, <2>1, <2>2, <2>4
  <2>6. b.owed + b.fuel <= e.owed + e.fuel
    BY <1>8, <1>10, <1>13
  <2> QED
    BY <1>7, <1>13, <2>5, <2>6, OwesLess
<1>15. /\ Kept(b, s)
       /\ s.decision = state.decision \/ (s.decision = Choice /\ ~Asked(b))
  BY <1>5, <1>13, EffectsKeep
<1>16. s \in States /\ Owes(s) /\ s.link # None /\ ~s.link.began /\ ~s.link.damaged
       /\ ~s.link.resolving
  <2>1. s \in States /\ Owes(s)
    BY <1>13, <1>14, <1>15, KeptOwes DEF Kept
  <2>2. SameFlow(b, s)
    BY <1>15 DEF Kept
  <2>3. SameLink(l, s.link)
    BY <1>13, <2>2 DEF SameFlow
  <2> QED
    BY <1>11, <2>1, <2>3 DEF SameLink
<1>17. Free(s) /\ (Asked(s) => s.decision.then = "none")
  BY <1>1, <1>15, Opened DEF Free, Asked
<1> QED
  BY <1>5, <1>16, <1>17, DeclareAttackStep

LEMMA CloseChainIntentStep ==
  ASSUME IInv, CloseChainIntent
  PROVE  IInv'
<1>1. /\ Sound(state) /\ state \in States /\ Bare(state) /\ state.decision.kind = "none"
      /\ state.decision \in Decisions
  BY ActingFacts, Parts DEF CloseChainIntent
<1>2. PICK s \in ClosedChain(state) :
        IF s.pending # Nothing
          THEN Go([s EXCEPT !.resume = OrBeginAction(@)], "continue", NoSeat) ELSE Done(s)
  BY DEF CloseChainIntent
<1>3. Kept(state, s) /\ (s.decision = state.decision \/ s.decision = Choice)
  BY <1>1, <1>2, ClosedChainFacts
<1>4. Sound(s) /\ Bare(s) /\ s \in States
  BY <1>1, <1>3, KeptSound, SameFits DEF Kept
<1>5. s.decision.kind = "none" \/ (s.decision.kind = "choice" /\ s.decision.then = "none")
  BY <1>1, <1>3, Opened
<1>6. CASE s.pending = Nothing
  BY <1>2, <1>4, <1>5, <1>6, BareDone
<1>7. CASE s.pending # Nothing
  <2>1. PICK t : t = [s EXCEPT !.resume = "begin-action"]
    OBVIOUS
  <2>2. Go(t, "continue", NoSeat)
    <3>1. OrBeginAction(s.resume) = "begin-action"
      BY <1>4 DEF Bare, OrBeginAction
    <3>2. Go([s EXCEPT !.resume = OrBeginAction(@)], "continue", NoSeat)
      BY <1>2, <1>7
    <3> QED
      BY <2>1, <3>1, <3>2
  <2>3. "begin-action" \in Resumes
    BY DEF Resumes
  <2>4. /\ t \in States /\ t.resume = "begin-action"
        /\ t.phase = s.phase /\ t.active = s.active /\ t.priority = s.priority
        /\ t.decision = s.decision /\ t.stack = s.stack /\ t.link = s.link
        /\ t.queue = s.queue /\ t.ap = s.ap /\ t.owed = s.owed /\ t.fuel = s.fuel
    BY <1>4, <2>1, <2>3, ResumeFacts
  <2>5. Combat(t) /\ Unannounced(t) /\ Steady(t) /\ Bare(t)
    BY <1>4, <2>4
    DEF Combat, CombatResumes, Unannounced, GivesPriority, Steady, Resumable, Bare
  <2>6. Owes(t)
    BY <1>4, <2>4, OwesOn DEF Sound
  <2>7. Free(t) /\ (Asked(t) => t.decision.then = "none")
    BY <1>5, <2>4 DEF Free, Asked
  <2> QED
    BY <2>2, <2>4, <2>5, <2>6, <2>7, ToContinue DEF Sound
<1> QED
  BY <1>6, <1>7

LEMMA ActSteps ==
  ASSUME IInv, Act
  PROVE  IInv'
<1>1. CASE Concede
  BY <1>1, Ends DEF Concede
<1> QED
  BY <1>1, PlayInWindowStep, PlayInReactionStep, ActivateInWindowStep, ActivateInReactionStep,
     PlayActionStep, PlayInstantStep, PlayAttackStep, CloseChainIntentStep DEF Act
-----------------------------------------------------------------------------
(* The invariant                                                            *)

LEMMA InitInv ==
  ASSUME Init
  PROVE  IInv
<1>1. state = [GameOver EXCEPT !.phase = "start", !.fuel = Budget]
  BY DEF Init
<1>2. GameOver \in States
  BY GameOverFacts DEF Sound
<1>3. /\ GameOver.stack = <<>> /\ GameOver.resume = "none" /\ GameOver.link = None
      /\ GameOver.queue = <<>> /\ GameOver.decision = Nobody
      /\ GameOver.ap = 0 /\ GameOver.owed = 0
  BY DEF GameOver
<1>4. "start" \in Phases /\ Budget \in Fuels
  BY BudgetAssumption DEF Phases, Fuels
<1>5. /\ state \in States /\ state.phase = "start" /\ state.stack = <<>>
      /\ state.resume = "none" /\ state.link = None /\ state.queue = <<>>
      /\ state.decision = Nobody
      /\ state.ap = 0 /\ state.owed = 0 /\ state.fuel = Budget
  BY <1>1, <1>2, <1>3, <1>4 DEF States
<1>6. Combat(state) /\ Unannounced(state)
  BY <1>5 DEF Combat, CombatResumes, Unannounced
<1>7. Owes(state)
  <2>1. AgainOn(state.stack) = 0 /\ AgainOn(state.queue) = 0
    BY <1>5, AgainNone
  <2>2. Unpaid(state.link) = 0 /\ Due(state.resume) = 0
    BY <1>5 DEF Unpaid, Due
  <2> QED
    BY <1>5, <2>1, <2>2, BudgetAssumption DEF Owes
<1>8. Undecided(state)
  BY <1>5, Opened DEF Undecided, Free, Asked
<1>9. call \in Calls /\ call.op = "complete"
  BY DEF Init, Calls, Procedures
<1>10. Ready(state, call)
  BY <1>5, <1>8, <1>9 DEF Ready
<1> QED
  BY <1>5, <1>6, <1>7, <1>9, <1>10 DEF IInv, Good, Sound

LEMMA StepInv ==
  ASSUME IInv, [Next]_vars
  PROVE  IInv'
<1>1. CASE UNCHANGED vars
  BY <1>1 DEF vars, IInv
<1>2. CASE Engine
  BY <1>2, StackSteps, CombatSteps, TurnSteps, SettleStep DEF Engine
<1>3. CASE Respond
  BY <1>3, RespondSteps
<1>4. CASE Act
  BY <1>4, ActSteps
<1>5. CASE Over
  BY <1>1, <1>5 DEF Over
<1> QED
  BY <1>1, <1>2, <1>3, <1>4, <1>5 DEF Next

(* Every procedure is called in a state that keeps its contract, and every  *)
(* decision is left in one that its answer's procedure will find in order.  *)
THEOREM Invariance == Spec => []IInv
<1>1. Spec => Init /\ [][Next]_vars
  BY PTL DEF Spec
<1>2. Init => IInv
  BY InitInv
<1>3. IInv /\ [Next]_vars => IInv'
  BY StepInv
<1> QED
  BY <1>1, <1>2, <1>3, PTL

(* The state keeps its type; no counter passes the budget. *)
THEOREM TypeCorrect == Spec => []TypeOK
<1>1. IInv => TypeOK
  BY DEF IInv, Good, Sound, TypeOK
<1> QED
  BY <1>1, Invariance, PTL

(* applyIntent returns only where somebody can go on: each decision stands   *)
(* in its phase and with its player, or the turn player has a bare action    *)
(* phase (priority.ts, triggers.ts finishStack).                             *)
THEOREM WaitsForSomebody == Spec => []NeverStuck
<1>1. IInv => NeverStuck
  <2>1. SUFFICES ASSUME IInv, Idle PROVE NeverStuck
    BY DEF NeverStuck
  <2>2. Settled(state) /\ state.phase # "game-over"
    BY <2>1, AtRest DEF Idle
  <2>3. CASE state.decision.kind \in {"window", "reaction", "defend", "none", "optional"}
    BY <2>2, <2>3 DEF Settled, Bare, NeverStuck
  <2>4. CASE state.decision.kind \notin {"window", "reaction", "defend", "none", "optional"}
    BY <2>4 DEF NeverStuck
  <2> QED
    BY <2>3, <2>4
<1> QED
  BY <1>1, Invariance, PTL

(* The bare action phase returns only when the stack is empty and no step    *)
(* waits for it (triggers.ts finishStack and its resumes).                   *)
THEOREM CleanReturn == Spec => []NothingLeftBehind
<1>1. IInv => NothingLeftBehind
  <2>1. SUFFICES ASSUME IInv, Idle, state.phase = "action", state.decision.kind = "none"
                 PROVE  state.stack = <<>> /\ state.resume \in {"none", "begin-action"}
    BY DEF NothingLeftBehind
  <2>2. Settled(state)
    BY <2>1, AtRest DEF Idle
  <2> QED
    BY <2>1, <2>2 DEF Settled, Bare
<1> QED
  BY <1>1, Invariance, PTL

(* A played card or an activated ability on top of the stack resolves only   *)
(* after both players passed over it (triggers.ts advanceStack).             *)
THEOREM PassedOver == Spec => []AnnouncedWaits
<1>1. IInv => AnnouncedWaits
  <2>1. SUFFICES ASSUME IInv, Runs("advance"), state.stack # <<>>, Announced(Head(state.stack))
                 PROVE  call.from = "passes"
    BY DEF AnnouncedWaits
  <2> QED
    BY <2>1 DEF IInv, Good, Ready, Runs
<1> QED
  BY <1>1, Invariance, PTL

(* Go again pays at most once for every object that has it, whichever way an *)
(* attack or a card takes to its end (combatChain beginLinkResolutionStep,   *)
(* finishStackCardResolution).                                               *)
THEOREM PaysOnce == Spec => []GoAgainOnce
<1>1. IInv => GoAgainOnce
  <2>1. SUFFICES ASSUME IInv PROVE GoAgainOnce
    OBVIOUS
  <2>2. state \in States /\ Owes(state)
    BY <2>1 DEF IInv, Good, Sound
  <2>3. PICK x \in Nat : x = state.ap + AgainOn(state.stack) + AgainOn(state.queue)
    <3>1. state.ap \in Nat /\ AgainOn(state.stack) \in Nat /\ AgainOn(state.queue) \in Nat
      BY <2>2, Numbers
    <3> QED
      BY <3>1
  <2>4. Unpaid(state.link) \in Nat /\ Due(state.resume) \in Nat /\ state.owed \in Nat
    BY <2>2, Numbers
  <2>5. x + Unpaid(state.link) + Due(state.resume) <= state.owed
    BY <2>2, <2>3 DEF Owes
  <2>6. state.ap + AgainOn(state.stack) + AgainOn(state.queue) + Unpaid(state.link) <= state.owed
    BY <2>3, <2>4, <2>5
  <2> QED
    BY <2>6 DEF GoAgainOnce, Unpaid
<1> QED
  BY <1>1, Invariance, PTL

(* Combat damage of a link is calculated once, and nobody reacts to or       *)
(* defends against an attack that has dealt it (combatChain resolveLink).    *)
THEOREM StrikesOnce == Spec => []DamageOnce
<1>1. IInv => DamageOnce
  <2>1. SUFFICES ASSUME IInv, state.link # None, state.link.damaged
                 PROVE  /\ ~Runs("damage")
                        /\ Idle => state.decision.kind \notin {"reaction", "defend"}
    BY DEF DamageOnce
  <2>2. Sound(state) /\ Ready(state, call)
    BY <2>1 DEF IInv, Good
  <2>3. ~Runs("damage")
    BY <2>1, <2>2 DEF Ready, Runs
  <2>4. ASSUME Idle
        PROVE  state.decision.kind \notin {"reaction", "defend"}
    <3>1. Settled(state) /\ Combat(state)
      BY <2>1, <2>4, AtRest DEF Idle
    <3>2. state.decision.kind # "defend"
      BY <2>1, <3>1 DEF Settled
    <3>3. ASSUME state.decision.kind = "reaction"
          PROVE  FALSE
      <4>1. Steady(state) /\ state.phase = "reaction"
        BY <3>1, <3>3 DEF Settled
      <4>2. state.resume = "finish-link-resolution" /\ state.resume = "none"
        BY <2>1, <3>1, <4>1 DEF Steady, Resumable, Combat
      <4> QED
        BY <4>2
    <3> QED
      BY <3>2, <3>3
  <2> QED
    BY <2>3, <2>4
<1> QED
  BY <1>1, Invariance, PTL
=============================================================================
