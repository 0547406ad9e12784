------------------------------ MODULE GameFlow ------------------------------
(***************************************************************************)
(* The flow of one game in packages/engine: phases, priority windows, the  *)
(* stack, the combat chain and the decision the engine waits for.          *)
(*                                                                         *)
(* applyIntent is synchronous: it clones the state, runs one player's      *)
(* intent to the end through procedures that tail-call each other, and     *)
(* returns the state with at most one pending decision in it.  One         *)
(* procedure is one action here.  `call' names the procedure the engine    *)
(* runs next; the players act only when it is "idle".                      *)
(*                                                                         *)
(* What a card's script does is a choice from Effects.  `fuel' bounds, per *)
(* turn, the scripted effects, the plays that cost no action point and the *)
(* attacks and cards that have go again.                                   *)
(***************************************************************************)
EXTENDS Naturals, Sequences, FiniteSets

CONSTANTS
  Budget,      \* how much the cards may do in one turn
  None         \* no unresolved link on the combat chain

ASSUME BudgetAssumption == Budget \in Nat

VARIABLES
  state,       \* the GameStateInternal record applyIntent works on
  call         \* the procedure it runs next

vars == <<state, call>>

Seats == {0, 1}
NoSeat == 2
Opp(seat) == 1 - seat

-----------------------------------------------------------------------------
(* Objects *)

\* One layer of the stack.  A "card" is a played card or an activated ability,
\* an "attack" an attack card played at instant speed; both may have go again.
Layer(kind, seat, again) == [kind |-> kind, seat |-> seat, again |-> again]
LayerKinds == {"card", "attack", "trigger", "phantasm"}
Layers == [kind : LayerKinds, seat : Seats, again : BOOLEAN]
Announced(layer) == layer.kind \in {"card", "attack"}

\* Triggered layers that wait to be placed, by controller.
Nothing == [seat \in Seats |-> <<>>]
Raise(pending, kind, seat) ==
  [pending EXCEPT ![seat] = Append(@, Layer(kind, seat, FALSE))]
Together(pending, new) == [seat \in Seats |-> pending[seat] \o new[seat]]

\* The chain link that has not resolved yet.  Its attacker is the turn player.
NewLink(again) ==
  [again |-> again, began |-> FALSE, above |-> FALSE, gone |-> FALSE,
   damaged |-> FALSE, windowed |-> FALSE, resolving |-> FALSE, wagered |-> FALSE]
Links ==
  [again : BOOLEAN, began : BOOLEAN, above : BOOLEAN, gone : BOOLEAN,
   damaged : BOOLEAN, windowed : BOOLEAN, resolving : BOOLEAN, wagered : BOOLEAN]

ASSUME NoneAssumption == None \notin Links

\* An attack in the queue.  A card and a held-back attack-layer attack at once
\* when their turn comes; a permanent's attack opens its Layer Step first.
Queued(ready, again) == [ready |-> ready, again |-> again]

\* `then' and `seat' are the decision's resume: what runs once it is answered.
Prompt(kind, player) ==
  [kind |-> kind, player |-> player, then |-> "none", seat |-> NoSeat]
Nobody == Prompt("none", NoSeat)
Choice == Prompt("choice", NoSeat)
After(s, then, seat) == [s EXCEPT !.decision.then = then, !.decision.seat = seat]

Asked(s) == s.decision.kind \in {"choice", "optional", "pitch"}   \* chooseHook
Gone(s) == s.link # None /\ s.link.gone /\ ~s.link.damaged
GivesPriority(phase) == phase \notin {"start", "end", "game-over"}
PendingOrStacked(s) == s.pending # Nothing \/ s.stack # <<>>

Resumes == {"none", "begin-action", "grant-turn-action", "begin-action-phase",
            "start-attack-step", "continue-attack", "start-reaction-step",
            "finish-link-resolution", "end-phase", "end-action-phase"}
CombatResumes == {"start-attack-step", "continue-attack", "start-reaction-step",
                  "finish-link-resolution"}
OrBeginAction(resume) == IF resume = "none" THEN "begin-action" ELSE resume

ToAction(s) == [s EXCEPT !.phase = "action", !.priority = s.active]

\* The engine goes on with procedure `op'; `from' says where it was called.
Call(s, op, seat, from) ==
  state' = s /\ call' = [op |-> op, seat |-> seat, from |-> from]
Go(s, op, seat) == Call(s, op, seat, "engine")
Done(s) == Go(s, "settle", NoSeat)
Runs(op) == call.op = op

-----------------------------------------------------------------------------
(* What a script may do *)

\* The states one script hook of state s may leave: nothing, or one of the
\* named things.  A hook asks only where no choice is open.
Effects(s, does) ==
  LET paid == [s EXCEPT !.fuel = @ - 1] IN
  {s} \cup IF s.fuel = 0 THEN {} ELSE
    {[paid EXCEPT !.decision = Choice] : x \in {"ask"} \cap (IF Asked(s) THEN {} ELSE does)}
    \cup {[paid EXCEPT !.pending = Raise(@, "trigger", seat)] :
            seat \in (IF "raise" \in does THEN Seats ELSE {})}
    \cup {[paid EXCEPT !.link.gone = TRUE] :
            x \in {"gone"} \cap (IF s.link = None \/ Gone(s) THEN {} ELSE does)}
    \cup {[paid EXCEPT !.queue = Append(@, Queued(FALSE, FALSE))] :
            x \in {"attack"} \cap does}

\* "gone": the attack leaves the combat chain.  "attack": a permanent is told to
\* attack, which scripts do only while a card of the turn player resolves.
Anything == {"ask", "raise", "gone"}
OfCard(s, seat) == Anything \cup (IF seat = s.active THEN {"attack"} ELSE {})

-----------------------------------------------------------------------------
(* Windows and trigger placement *)

OpenWindow(s, seat, passes) ==
  [s EXCEPT !.phase = "layer", !.passes = passes, !.priority = seat,
            !.decision = Prompt("window", seat)]

OpenReactions(s, seat) ==
  [s EXCEPT !.phase = "reaction", !.passes = 0, !.priority = seat,
            !.decision = Prompt("reaction", seat)]

HoldWindow(s, kind, seat) ==
  [s EXCEPT !.passes = 0, !.priority = seat, !.decision = Prompt(kind, seat)]

CancelEndActionPass(s) ==
  [s EXCEPT !.resume = IF @ = "end-action-phase" THEN "begin-action" ELSE @]

InTurnOrder(s, pending) == pending[s.active] \o pending[Opp(s.active)]

\* openPlacedTriggers.
OpenPlaced(s) ==
  IF s.stack # <<>> /\ GivesPriority(s.phase)
    THEN Done(OpenWindow(s, s.active, 0))
    ELSE Go(s, "continue", NoSeat)

\* The pending layers, with `new' ones, above the stack.  A layer that finds
\* no legal target ceases to exist.
Placements(s, new) ==
  {[s EXCEPT !.pending = Nothing, !.stack = kept \o @] :
     kept \in {<<>>, InTurnOrder(s, Together(s.pending, new))}}

\* queueTriggeredLayers: with nothing pending, new layers join the bottom.
Queueings(s, new, resume) ==
  LET r == [s EXCEPT !.resume = resume] IN
  IF s.pending = Nothing
    THEN {[r EXCEPT !.stack = @ \o kept] : kept \in {<<>>, InTurnOrder(s, new)}}
    ELSE Placements(r, new)

QueueTriggered(s, new, resume) ==
  \E t \in Queueings(s, new, resume) : OpenPlaced(t)

PlacePending(s) == \E t \in Placements(s, Nothing) : OpenPlaced(t)

OneTrigger == {Nothing} \cup {Raise(Nothing, "trigger", seat) : seat \in Seats}

-----------------------------------------------------------------------------
(* The combat chain *)

\* The queue without its ready entries: permanents that have still to attack.
HeldBack(queue) ==
  [i \in 1 .. Cardinality({j \in DOMAIN queue : ~queue[j].ready}) |-> Queued(FALSE, FALSE)]

\* Mutant: the resolved links stay on the chain.
KeptChain(s) ==
  IF s.link # None \/ ~s.open THEN {s} ELSE
    Effects([s EXCEPT !.queue = HeldBack(@)], {"ask", "raise"})
\* closeChain: not while a link is unresolved.
ClosedChain(s) ==
  IF s.link # None \/ ~s.open THEN {s} ELSE
    Effects([s EXCEPT !.open = FALSE, !.queue = HeldBack(@)], {"ask", "raise"})

\* resolveLink for an attack that left the chain before its damage.
ClosedForGone(s) ==
  {[ToAction(t) EXCEPT
      !.resume = IF @ \in CombatResumes THEN "begin-action" ELSE @,
      !.decision = IF Asked(t) THEN @ ELSE Nobody] :
     t \in ClosedChain([s EXCEPT !.link = None, !.open = TRUE])}

\* Mutant: a choice the declaration opened is not told how to go on.
DeclareHeedless(s) ==
  Go([s EXCEPT !.phase = "layer", !.resume = "start-attack-step"], "continue", s.active)
\* declareAttack and enterAttackLayerWindow.
DeclareAttack(s) ==
  LET t == [s EXCEPT !.phase = "layer", !.resume = "start-attack-step"] IN
  Go(IF Asked(t) /\ t.decision.then = "none"
       THEN After(t, "continue", t.active) ELSE t,
     "continue", t.active)

\* startNextQueuedAttack of `call.seat': the first entry that is still legal.
StartQueued ==
  /\ Runs("queue")
  /\ call.seat = state.active
  /\ \E i \in 1..Len(state.queue) :
       LET q == state.queue[i]
           s == [state EXCEPT !.queue = SubSeq(@, i + 1, Len(@)),
                              !.link = NewLink(q.again)]
       IN IF q.ready
            THEN Go([s EXCEPT !.phase = "layer", !.resume = "none",
                              !.decision = IF Asked(s) THEN @ ELSE Nobody],
                    "attack-step", NoSeat)
            ELSE DeclareAttack(s)

\* None is left to start; clearing one closes the chain.
NoneQueued ==
  /\ Runs("queue")
  /\ LET own == call.seat = state.active
     IN \E s \in IF own /\ state.queue # <<>>
                   THEN ClosedChain([state EXCEPT !.queue = <<>>]) ELSE {state} :
          CASE call.from = "continue" -> Go(s, "window", call.seat)
            [] call.from = "defer" -> Done([ToAction(s) EXCEPT !.resume = "none"])
            [] OTHER -> Done(s)

-----------------------------------------------------------------------------
(* continueStack and advanceStack *)

Continuing == Runs("continue") /\ ~Asked(state)

ContinueStops == Runs("continue") /\ Asked(state) /\ Done(state)

CloseForGoneAttack ==
  /\ Continuing
  /\ Gone(state)
  /\ \E s \in ClosedForGone(state) :
       IF Asked(s) THEN Done(After(s, "continue", call.seat))
                   ELSE Go(s, "continue", call.seat)

PlaceBeforePriority ==
  /\ Continuing
  /\ ~Gone(state)
  /\ state.pending # Nothing
  /\ PlacePending(state)

ReopensReactions ==
  /\ state.link # None
  /\ \/ state.phase = "reaction"
     \/ state.phase = "layer" /\ state.stack = <<>> /\ state.resume = "none"

ReopenReactionWindow ==
  /\ Continuing
  /\ ~Gone(state)
  /\ state.pending = Nothing
  /\ ReopensReactions
  /\ Done(OpenReactions(state, state.active))

ContinueToPriority ==
  /\ Continuing
  /\ ~Gone(state)
  /\ state.pending = Nothing
  /\ ~ReopensReactions
  /\ IF state.stack = <<>> /\ state.link = None
       THEN Call(state, "queue",
                 IF call.seat = NoSeat THEN state.active ELSE call.seat, "continue")
       ELSE Go(state, "window", call.seat)

\* Mutant: only a layer somebody could respond to waits.
NeedsWindowShort(able) ==
  /\ GivesPriority(state.phase)
  /\ able
  /\ \/ state.stack # <<>>
     \/ state.resume \in {"start-attack-step", "continue-attack", "finish-link-resolution"}
\* Whether the next priority point is a window, for the seat that was named or
\* else the turn player.  `able': some player has an instant-speed action.
NeedsWindow(able) ==
  LET top == state.stack # <<>>
      afterDamage == state.resume = "finish-link-resolution"
  IN /\ GivesPriority(state.phase)
     /\ \/ able
        \/ top /\ (afterDamage \/ Announced(Head(state.stack)) \/ call.seat # NoSeat)
     /\ \/ top
        \/ state.resume \in {"start-attack-step", "continue-attack"}
        \/ afterDamage

PriorityOrAdvance ==
  /\ Runs("window")
  /\ \E able \in BOOLEAN :
       IF NeedsWindow(able)
         THEN LET s == IF state.stack = <<>> /\ state.resume = "finish-link-resolution"
                            /\ state.link # None
                         THEN [state EXCEPT !.link.windowed = TRUE] ELSE state
              IN Done(OpenWindow(s, IF call.seat = NoSeat THEN s.active ELSE call.seat, 0))
         ELSE Go(state, "advance", NoSeat)

Resolving(kind) ==
  Runs("advance") /\ state.stack # <<>> /\ Head(state.stack).kind = kind

\* resolveTopStackCard and resolveAbilityLayer: the layer stays until the
\* effect, and every choice it asks for, is done.
ResolveCard ==
  /\ Resolving("card")
  /\ LET seat == Head(state.stack).seat IN
     \E s \in Effects(state, OfCard(state, seat)) :
       IF Asked(s) THEN Done(After(s, "card", seat)) ELSE Go(s, "finish-card", seat)

\* finishStackCardResolution: go again pays its controller if he is the turn
\* player; a defense reaction may put its defend events on the stack.
FinishCard ==
  /\ Runs("finish-card")
  /\ LET layer == Head(state.stack)
         paid == [state EXCEPT
                    !.ap = IF layer.again /\ layer.seat = state.active THEN @ + 1 ELSE @]
         events == IF state.link = None \/ state.fuel = 0 THEN {}
                     ELSE {Layer("trigger", layer.seat, FALSE),
                           Layer("phantasm", state.active, FALSE)}
     IN \E s \in {[paid EXCEPT !.stack = Tail(@)]}
                   \cup {[paid EXCEPT !.fuel = @ - 1, !.stack = <<e>> \o Tail(@)] : e \in events} :
          \E t \in Effects(s, OfCard(s, layer.seat) \ {"gone"}) :
            IF Asked(t) THEN Done(After(t, "continue", call.seat))
                        ELSE Go(t, "continue", t.active)

\* CR 5.3.1a: an attack card joins the queue; if the link's own attack-layer is
\* still beneath it, that layer will have to wait for it.
ResolveAttackCard ==
  /\ Resolving("attack")
  /\ Go([state EXCEPT
           !.stack = Tail(@),
           !.queue = Append(@, Queued(TRUE, Head(state.stack).again)),
           !.link = IF @ # None /\ state.resume = "start-attack-step"
                      THEN [@ EXCEPT !.above = TRUE] ELSE @],
        "continue", state.active)

\* The effect of the top trigger runs, then the layer is removed.
TriggerResolves(s) ==
  \E t \in Effects(s, Anything) :
    LET seat == Head(s.stack).seat
        u == [t EXCEPT !.stack = Tail(@)]
    IN IF Asked(u) THEN Done(After(u, "continue", seat)) ELSE Go(u, "continue", seat)

ResolveTrigger == Resolving("trigger") /\ TriggerResolves(state)

AskOptionalTrigger ==
  /\ Resolving("trigger")
  /\ Done([state EXCEPT !.decision = Prompt("optional", Head(state.stack).seat)])

\* Mutant: the step the layer interrupted is not given up.
StillResuming(s) == ToAction(s)
\* The combat step the stack would have gone on with is gone with its attack.
GivenUp(s) == [ToAction(s) EXCEPT !.resume = "none"]

\* Phantasm: the attack may be destroyed, which closes the chain at once.
ResolvePhantasm ==
  /\ Resolving("phantasm")
  /\ LET seat == Head(state.stack).seat
         rest == [state EXCEPT !.stack = Tail(@)]
     IN \/ Go(rest, "continue", seat)
        \/ /\ state.link # None
           /\ \E s \in ClosedChain([rest EXCEPT !.link = None, !.open = TRUE]) :
                LET t == GivenUp(s) IN
                IF Asked(t)
                  THEN Done(IF t.stack # <<>> THEN After(t, "continue", seat) ELSE t)
                  ELSE Go([t EXCEPT !.decision = Nobody], "phantasm-gone", seat)

\* flushPendingTriggersAboveStack, and the stack goes on if any of it is left.
\* (That every flushed layer ceases to exist is left out.)
AfterPhantasm ==
  /\ Runs("phantasm-gone")
  /\ LET s == [state EXCEPT !.pending = Nothing,
                            !.stack = InTurnOrder(state, state.pending) \o @]
     IN IF s.stack # <<>> THEN Go(s, "continue", call.seat) ELSE Done(s)

-----------------------------------------------------------------------------
(* finishStack: the stack is empty, and the step it interrupted goes on *)

Emptied == [state EXCEPT !.resume = "none", !.decision = Nobody]
Resuming(resumes) ==
  Runs("advance") /\ state.stack = <<>> /\ state.resume \in resumes

ResumeAttackLayer ==
  Resuming({"start-attack-step"}) /\ Go(Emptied, "attack-step", NoSeat)

\* beginAttackStep: an attack-layer with attacks queued above it joins the
\* queue behind them; any other becomes attacking, and its hooks may pause it.
DeferBehindQueue ==
  /\ Runs("attack-step")
  /\ state.link # None /\ ~state.link.began /\ state.link.above
  /\ Call([state EXCEPT !.link = None,
                        !.queue = Append(@, Queued(TRUE, state.link.again))],
          "queue", state.active, "defer")

BeginAttackStep ==
  /\ Runs("attack-step")
  /\ state.link # None /\ ~state.link.began /\ ~state.link.above
  /\ \E s \in Effects([state EXCEPT !.link.began = TRUE], Anything) :
       IF Asked(s) THEN Done(After(s, "declare", NoSeat)) ELSE Go(s, "declared", NoSeat)

\* declareTail and enterAttackWindow.
DeclareTail ==
  /\ Runs("declared")
  /\ \E new \in OneTrigger : QueueTriggered(state, new, "continue-attack")

\* proceedWithAttack: the defender decides, unless the target is no hero.
ProceedWithAttack ==
  /\ Resuming({"continue-attack"})
  /\ IF state.link = None THEN Done(Emptied) ELSE
       \E s \in Effects(Emptied, {"raise", "gone"}) :
         \/ Done([s EXCEPT !.phase = "defend", !.priority = Opp(s.active),
                           !.decision = Prompt("defend", Opp(s.active))])
         \/ Done(OpenReactions(s, s.active))

BeginReactionStep ==
  /\ Resuming({"start-reaction-step"})
  /\ Done(IF state.link = None THEN Emptied ELSE OpenReactions(Emptied, state.active))

ResumeLink ==
  /\ Resuming({"finish-link-resolution"})
  /\ IF state.link = None THEN Done(Emptied)
     ELSE Go(Emptied, IF state.link.resolving THEN "finish-link" ELSE "finish-damage", NoSeat)

\* Both players passed in the action phase: an open chain closes and the turn
\* player goes on; without one the turn ends.
ResumeEndOfAction ==
  /\ Resuming({"end-action-phase"})
  /\ IF ~state.open /\ state.link = None THEN Go(Emptied, "end-turn", NoSeat) ELSE
       \E s \in ClosedChain(Emptied) :
         LET again == [s EXCEPT !.resume = OrBeginAction(@)] IN
         CASE Asked(s) -> Done(After(again, "continue", NoSeat))
           [] ~Asked(s) /\ PendingOrStacked(s) -> Go(again, "continue", NoSeat)
           [] OTHER -> Done(ToAction(s))

BeginActionPhase ==
  /\ Resuming({"begin-action-phase"})
  /\ \E new \in OneTrigger :
       QueueTriggered([ToAction(Emptied) EXCEPT !.ap = 1], new, "grant-turn-action")

ReturnToAction ==
  /\ Resuming({"none", "begin-action", "grant-turn-action"})
  /\ Done(ToAction(Emptied))

-----------------------------------------------------------------------------
(* The Damage Step and the Resolution Step *)

GameOver ==
  [phase |-> "game-over", active |-> 0, priority |-> 0, decision |-> Nobody,
   stack |-> <<>>, resume |-> "none", passes |-> 0, link |-> None, open |-> FALSE,
   queue |-> <<>>, pending |-> Nothing, ap |-> 0, owed |-> 0, fuel |-> 0]

\* resolveLink of an attack that left the chain, from the reaction window.
ResolveGoneLink ==
  /\ Runs("damage")
  /\ state.link # None /\ state.link.gone
  /\ \E s \in ClosedForGone(state) : Done(s)

\* The attacking permanent left the arena: no damage, and go again only by a
\* condition that still holds when the Resolution Step begins.
ResolveSourcelessLink ==
  /\ Runs("damage")
  /\ state.link # None /\ ~state.link.gone
  /\ state.fuel > 0
  /\ \E again \in {FALSE, state.link.again} :
       Go([state EXCEPT !.fuel = @ - 1, !.link.again = again], "finish-link", NoSeat)

\* Combat damage is calculated; a prevention effect may ask before it is dealt.
CalculateDamage ==
  /\ Runs("damage")
  /\ state.link # None /\ ~state.link.gone
  /\ \E s \in Effects([state EXCEPT !.link.damaged = TRUE], {"ask"}) :
       IF Asked(s) THEN Done(After(s, "damage", NoSeat)) ELSE Go(s, "apply-damage", NoSeat)

\* Damage is dealt: the game may end, a damage observer may ask, and a hit may
\* trigger.  A choice that is open stays in front of the window queueTriggered-
\* Layers opens for the hit layers.
ApplyDamage ==
  /\ Runs("apply-damage")
  /\ IF state.link = None THEN Done(state) ELSE
       \E s \in Effects(state, Anything) :
         \/ Go(s, "finish-damage", NoSeat)
         \/ \E t \in Queueings([s EXCEPT !.phase = "layer"],
                               Raise(Nothing, "trigger", s.active),
                               "finish-link-resolution") :
              CASE ~Asked(s) -> OpenPlaced(t)
                [] Asked(s) /\ t.stack = <<>> -> Done(After(t, "continue", t.active))
                [] OTHER -> Done([OpenWindow(t, t.active, 0) EXCEPT
                                    !.decision = [s.decision EXCEPT !.then = "window"]])

\* Mutant: the Reaction Step goes on.
StillReacting(s) == [s EXCEPT !.resume = "finish-link-resolution"]
\* The Reaction Step is over: the empty stack goes on with the Damage Step.
DamageHeld(s) == [s EXCEPT !.phase = "layer", !.resume = "finish-link-resolution"]

FinishDamageStep ==
  /\ Runs("finish-damage")
  /\ CASE state.link = None -> Done(state)
       [] state.link # None /\ ~Asked(state) /\ state.pending # Nothing ->
            Go(DamageHeld(state), "continue", NoSeat)
       [] state.link # None /\ ~Asked(state) /\ state.pending = Nothing /\ ~state.link.windowed ->
            Done(OpenWindow([DamageHeld(state) EXCEPT !.link.windowed = TRUE], state.active, 0))
       [] OTHER -> Go(state, "finish-link", NoSeat)

\* Mutant: every time the link is finished.
PaysAgain == [state EXCEPT !.link.resolving = TRUE, !.ap = IF state.link.again THEN @ + 1 ELSE @]
\* beginLinkResolutionStep: go again pays out once.
Resolution ==
  IF state.link.resolving THEN state
  ELSE [state EXCEPT !.link.resolving = TRUE,
                     !.ap = IF state.link.again THEN @ + 1 ELSE @]

QueueWagers ==
  /\ Runs("finish-link")
  /\ ~state.link.wagered
  /\ state.fuel > 0
  /\ LET s == [Resolution EXCEPT !.fuel = @ - 1, !.link.wagered = TRUE, !.phase = "layer",
                                 !.resume = "finish-link-resolution"]
         wager == Raise(Nothing, "trigger", s.active)
     IN IF s.pending = Nothing THEN OpenPlaced([s EXCEPT !.stack = @ \o InTurnOrder(s, wager)])
        ELSE \E new \in {wager, Together(s.pending, wager)} :
               OpenPlaced([s EXCEPT !.pending = Nothing, !.stack = InTurnOrder(s, new) \o @])

\* The link has resolved: a choice its hooks opened is kept, layers go on the
\* stack first, and otherwise the next queued attack starts.
FinishLinkResolution ==
  /\ Runs("finish-link")
  /\ \E t \in Effects(Resolution, {"ask", "raise"}) :
       LET s == [t EXCEPT !.link = None, !.open = TRUE] IN
       CASE Asked(s) ->
              Done(ToAction(After(s, IF PendingOrStacked(s) THEN "continue" ELSE "none", NoSeat)))
         [] ~Asked(s) /\ PendingOrStacked(s) ->
              Go([s EXCEPT !.decision = Nobody, !.resume = OrBeginAction(@)], "continue", NoSeat)
         [] OTHER -> Call(ToAction([s EXCEPT !.decision = Nobody]), "queue", s.active, "finish")

\* checkWin, once damage has been dealt.
SomebodyDies ==
  /\ Runs("finish-damage")
  /\ Call(GameOver, "idle", NoSeat, "engine")

-----------------------------------------------------------------------------
(* The turn *)

EndTurn ==
  /\ Runs("end-turn")
  /\ \E new \in OneTrigger :
       QueueTriggered([state EXCEPT !.phase = "end"], new, "end-phase")

ContinueEndPhase ==
  /\ Resuming({"end-phase"})
  /\ \/ Done([Emptied EXCEPT !.decision = Prompt("arsenal", state.active)])
     \/ Go(Emptied, "bottom", state.active)

\* continuePitchBottoming: a player with two cards or more orders them.
BottomPitch ==
  /\ Runs("bottom")
  /\ \/ Done([state EXCEPT !.decision = Prompt("pitch", call.seat)])
     \/ IF call.seat = state.active
          THEN Go(state, "bottom", Opp(state.active)) ELSE Go(state, "complete", NoSeat)

\* completeEndPhase and startTurn, which may be an extra turn's.
StartTurn ==
  /\ Runs("complete")
  /\ \E next \in Seats, new \in OneTrigger :
       QueueTriggered([state EXCEPT !.phase = "start", !.active = next, !.priority = next,
                                    !.decision = Nobody, !.queue = <<>>, !.ap = 0,
                                    !.owed = 1, !.fuel = Budget],
                      new, "begin-action-phase")

-----------------------------------------------------------------------------
(* The end of applyIntent *)

\* checkStateBased destroys permanents at the end of every intent.  In a
\* window that may open a choice in its place, or raise triggers that go on the
\* stack at once.
SettleWindow ==
  \E s \in Effects(state, IF state.passes = 0 THEN {"ask", "raise"} ELSE {}) :
    CASE Asked(s) -> Go(After(s, "continue", state.priority), "idle", NoSeat)
      [] ~Asked(s) /\ s.pending # Nothing -> PlacePending(s)
      [] OTHER -> Go(s, "idle", NoSeat)

\* Anywhere else the triggers stay pending and a choice has no continuation.
\* Over another decision there is only Unique's, which puts the decision back
\* and is left out; in the bare action phase it is the one decision.
SettleElsewhere ==
  \E s \in Effects(state, {"raise"} \cup
                     (IF state.phase = "action" /\ state.decision = Nobody THEN {"ask"} ELSE {})) :
    Go(s, "idle", NoSeat)

Settle ==
  /\ Runs("settle")
  /\ IF state.decision.kind = "window" THEN SettleWindow ELSE SettleElsewhere

-----------------------------------------------------------------------------
(* The players *)

Idle == Runs("idle") /\ state.phase # "game-over"
Deciding(kind) == Idle /\ state.decision.kind = kind
Holding(phase, kind) == Deciding(kind) /\ state.phase = phase
Acting == Holding("action", "none") /\ state.link = None

\* Mutant: a third pass is asked for.
PassThrice(op) ==
  LET next == Opp(state.priority) IN
  IF state.passes + 1 > 2
    THEN Call([state EXCEPT !.passes = @ + 1], op, NoSeat, "passes")
    ELSE Done([state EXCEPT !.passes = @ + 1, !.priority = next, !.decision.player = next])
\* passPriorityWindow: the second pass in a row goes on, the first hands over.
Pass(op) ==
  LET next == Opp(state.priority) IN
  IF state.passes + 1 >= 2
    THEN Call([state EXCEPT !.passes = @ + 1], op, NoSeat, "passes")
    ELSE Done([state EXCEPT !.passes = @ + 1, !.priority = next, !.decision.player = next])

PassWindow == Holding("layer", "window") /\ Pass("advance")

PassReaction ==
  /\ Holding("reaction", "reaction")
  /\ state.link # None
  /\ Pass(IF state.stack = <<>> THEN "damage" ELSE "advance")

\* offerEndActionPriority: the turn player's pass is the first of two.
PassAction ==
  /\ Acting
  /\ Done(OpenWindow([state EXCEPT !.resume = "end-action-phase"], Opp(state.priority), 1))

\* The states after `layer' joins the stack, with a trigger its play raised
\* directly above it or not.
Announcements(s, layer) ==
  LET cost == IF layer.again THEN 1 ELSE 0
      plain == [s EXCEPT !.fuel = @ - cost, !.owed = @ + cost, !.stack = <<layer>> \o @]
  IN IF s.fuel < cost THEN {} ELSE
       {plain} \cup (IF s.fuel = cost THEN {} ELSE
         {[plain EXCEPT !.fuel = @ - 1, !.stack = <<Layer("trigger", seat, FALSE)>> \o @] :
            seat \in Seats})

\* Playing at instant speed costs no action point; only the turn player plays
\* attacks then.
Instants(s) ==
  IF s.fuel = 0 THEN {} ELSE
    UNION {Announcements([s EXCEPT !.fuel = @ - 1], Layer(kind, s.priority, again)) :
             kind \in (IF s.priority = s.active THEN {"card", "attack"} ELSE {"card"}),
             again \in BOOLEAN}

PlayInWindow ==
  /\ Holding("layer", "window")
  /\ \E p \in Instants(CancelEndActionPass(state)) : \E s \in Effects(p, {"ask", "raise"}) :
       Done(IF Asked(s) THEN After(s, "continue", state.priority)
                        ELSE HoldWindow(s, "window", state.priority))

\* A choice an observer of the play opens is overwritten by the window here.
PlayInReaction ==
  /\ Holding("reaction", "reaction")
  /\ \E p \in Instants(state) : \E s \in Effects(p, {"raise"}) :
       Done(HoldWindow(s, "reaction", state.priority))

\* activateWindowAbility: the ability's cost may ask or trigger.  Triggers are
\* placed at once, and the end-of-action pass is then not cancelled.
Activations ==
  IF state.fuel = 0 THEN {} ELSE
    {[state EXCEPT !.fuel = @ - 1, !.stack = <<Layer("card", state.priority, FALSE)>> \o @]}

ActivateInWindow ==
  /\ Holding("layer", "window")
  /\ \E p \in Activations : \E s \in Effects(p, {"ask", "raise"}) :
       CASE Asked(s) -> Done(After(CancelEndActionPass(s), "continue", state.priority))
         [] ~Asked(s) /\ s.pending # Nothing -> PlacePending(s)
         [] OTHER -> Done(HoldWindow(CancelEndActionPass(s), "window", state.priority))

ActivateInReaction ==
  /\ Holding("reaction", "reaction")
  /\ \E p \in Activations : \E s \in Effects(p, {"ask", "raise"}) :
       CASE Asked(s) -> Done(After(s, "reopen", state.priority))
         [] ~Asked(s) /\ s.pending # Nothing -> PlacePending(s)
         [] OTHER -> Done(HoldWindow(s, "reaction", state.priority))

OpenLayer(s) ==
  LET t == [s EXCEPT !.resume = "begin-action"] IN
  IF Asked(t) THEN Done(After(t, "continue", t.active)) ELSE Go(t, "continue", t.active)

SpendActionPoint == [state EXCEPT !.ap = @ - 1, !.owed = @ - 1]

\* A non-attack action closes the chain before its layer is added.
PlayAction ==
  /\ Acting
  /\ state.ap > 0
  /\ \E c \in ClosedChain(SpendActionPoint), again \in BOOLEAN :
       \E p \in Announcements(c, Layer("card", c.active, again)) :
         \E s \in Effects(p, {"ask", "raise"}) : OpenLayer(s)

PlayInstant ==
  /\ Acting
  /\ \E p \in Instants(state) :
       /\ Head(p.stack).kind # "attack"
       /\ \E s \in Effects(p, {"ask", "raise"}) : OpenLayer(s)

PlayAttack ==
  /\ Acting
  /\ state.ap > 0
  /\ \E again \in BOOLEAN :
       LET cost == IF again THEN 1 ELSE 0 IN
       /\ state.fuel >= cost
       /\ \E s \in Effects([SpendActionPoint EXCEPT !.fuel = @ - cost, !.owed = @ + cost,
                                                     !.link = NewLink(again)],
                           {"ask", "raise"}) :
            DeclareAttack(s)

\* assignDefenders: defend events, Phantasm's among them, go on the stack.
Defend ==
  /\ Deciding("defend")
  /\ state.link # None
  /\ \E new \in OneTrigger \cup {Raise(Nothing, "phantasm", state.active)} :
       QueueTriggered(state, new, "start-reaction-step")

CloseChainIntent ==
  /\ Acting
  /\ state.open
  /\ \E s \in ClosedChain(state) :
       IF s.pending # Nothing
         THEN Go([s EXCEPT !.resume = OrBeginAction(@)], "continue", NoSeat) ELSE Done(s)

\* afterChoice and continueAfterScriptedChoice: the answer's own effects, then
\* the continuation that waited; a choice they open inherits it.
Resume(s, d) ==
  CASE d.then = "continue" -> Go(s, "continue", d.seat)
    [] d.then = "declare" -> Go(s, "declared", NoSeat)
    [] d.then = "card" -> Go(s, "finish-card", d.seat)
    [] d.then = "damage" -> Go(s, "apply-damage", NoSeat)
    [] d.then = "reopen" -> Done(HoldWindow(s, "reaction", d.seat))
    [] d.then = "window" -> Done([s EXCEPT !.decision = Prompt("window", s.priority)])
    [] OTHER -> Done(s)

AnswerChoice ==
  /\ Deciding("choice")
  /\ LET d == state.decision IN
     \E s \in Effects([state EXCEPT !.decision = Nobody],
                      IF d.then = "card" THEN OfCard(state, d.seat) ELSE Anything) :
       \/ ~Asked(s) /\ Resume(s, d)
       \/ Asked(s) /\ Done(After(s, d.then, d.seat))
       \/ Asked(s) /\ d.then = "card" /\ Go(s, "finish-card", d.seat)

AcceptTrigger ==
  Deciding("optional") /\ TriggerResolves([state EXCEPT !.decision = Nobody])

DeclineTrigger ==
  /\ Deciding("optional")
  /\ Go([state EXCEPT !.decision = Nobody, !.stack = Tail(@)],
        "continue", Head(state.stack).seat)

AnswerArsenal ==
  Deciding("arsenal") /\ Go([state EXCEPT !.decision = Nobody], "bottom", state.active)

OrderPitch ==
  /\ Deciding("pitch")
  /\ LET s == [state EXCEPT !.decision = Nobody] IN
     IF state.decision.player = state.active
       THEN Go(s, "bottom", Opp(state.active)) ELSE Go(s, "complete", NoSeat)

Concede == Idle /\ Call(GameOver, "idle", NoSeat, "engine")

-----------------------------------------------------------------------------
(* The specification *)

\* startTurn of the first turn, as continueGameSetup leaves it to be run.
Init ==
  /\ state = [GameOver EXCEPT !.phase = "start", !.fuel = Budget]
  /\ call = [op |-> "complete", seat |-> NoSeat, from |-> "engine"]

StackStep ==
  \/ ContinueStops \/ CloseForGoneAttack \/ PlaceBeforePriority \/ ReopenReactionWindow
  \/ ContinueToPriority \/ PriorityOrAdvance \/ ResolveCard \/ FinishCard
  \/ ResolveAttackCard \/ ResolveTrigger \/ AskOptionalTrigger \/ ResolvePhantasm
  \/ AfterPhantasm \/ ReturnToAction

CombatStep ==
  \/ StartQueued \/ NoneQueued \/ ResumeAttackLayer \/ DeferBehindQueue \/ BeginAttackStep
  \/ DeclareTail \/ ProceedWithAttack \/ BeginReactionStep \/ ResumeLink
  \/ ResolveGoneLink \/ ResolveSourcelessLink \/ CalculateDamage \/ ApplyDamage
  \/ FinishDamageStep \/ QueueWagers \/ FinishLinkResolution \/ SomebodyDies

TurnStep ==
  \/ ResumeEndOfAction \/ EndTurn \/ ContinueEndPhase \/ BottomPitch \/ StartTurn
  \/ BeginActionPhase

\* What the engine does by itself once an intent has begun.
Engine == StackStep \/ CombatStep \/ TurnStep \/ Settle

\* What a player who adds nothing does: pass, or answer what he is asked.
Respond ==
  \/ PassWindow \/ PassReaction \/ PassAction \/ Defend \/ AnswerChoice
  \/ AcceptTrigger \/ DeclineTrigger \/ AnswerArsenal \/ OrderPitch

Act ==
  \/ PlayInWindow \/ PlayInReaction \/ ActivateInWindow \/ ActivateInReaction
  \/ PlayAction \/ PlayInstant \/ PlayAttack \/ CloseChainIntent \/ Concede

Over == state.phase = "game-over" /\ Runs("idle") /\ UNCHANGED vars

Next == Engine \/ Respond \/ Act \/ Over

Spec == Init /\ [][Next]_vars /\ WF_vars(Engine \/ Respond)

-----------------------------------------------------------------------------
(* Properties *)

Decisions ==
  [kind : {"none", "window", "reaction", "defend", "arsenal", "pitch", "choice", "optional"},
   player : Seats \cup {NoSeat},
   then : {"none", "continue", "declare", "card", "damage", "reopen", "window"},
   seat : Seats \cup {NoSeat}]

Procedures ==
  {"idle", "settle", "continue", "window", "queue", "advance", "finish-card",
   "phantasm-gone", "attack-step", "declared", "damage", "apply-damage",
   "finish-damage", "finish-link", "end-turn", "bottom", "complete"}

Phases == {"start", "action", "layer", "defend", "reaction", "end", "game-over"}
Passes == 0 .. 2
Entries == [ready : BOOLEAN, again : BOOLEAN]
Raised == [kind : {"trigger", "phantasm"}, seat : Seats, again : {FALSE}]
Points == 0 .. (Budget + 1)
Fuels == 0 .. Budget

States ==
  [phase : Phases, active : Seats, priority : Seats, decision : Decisions, stack : Seq(Layers),
   resume : Resumes, passes : Passes, link : Links \cup {None}, open : BOOLEAN,
   queue : Seq(Entries), pending : [Seats -> Seq(Raised)],
   ap : Points, owed : Points, fuel : Fuels]

Calls == [op : Procedures, seat : Seats \cup {NoSeat},
          from : {"engine", "passes", "continue", "defer", "finish"}]

\* The shape of the state the flow procedures share.
TypeOK == state \in States /\ call \in Calls

\* Whenever applyIntent returns, the game waits for somebody: a window, a
\* reaction window or a defend decision stands in the phase whose intents
\* accept it and belongs to the player who has priority, or the turn player
\* has priority in a bare action phase.
NeverStuck ==
  Idle =>
    CASE state.decision.kind = "window" ->
           state.phase = "layer" /\ state.decision.player = state.priority /\ state.passes < 2
      [] state.decision.kind = "reaction" ->
           /\ state.phase = "reaction" /\ state.link # None
           /\ state.decision.player = state.priority /\ state.passes < 2
      [] state.decision.kind = "defend" ->
           state.phase = "defend" /\ state.link # None /\ state.priority = Opp(state.active)
      [] state.decision.kind = "none" ->
           state.phase = "action" /\ state.link = None /\ state.priority = state.active
      [] state.decision.kind = "optional" -> state.stack # <<>>
      [] OTHER -> TRUE

\* The turn player never gets his bare action phase back while a layer waits on
\* the stack or a suspended step waits for the stack to empty.
NothingLeftBehind ==
  Idle /\ state.phase = "action" /\ state.decision.kind = "none" =>
    state.stack = <<>> /\ state.resume \in {"none", "begin-action"}

\* A played card or an activated ability resolves only after both players have
\* passed over it in succession (triggers.ts:1812).
AnnouncedWaits ==
  Runs("advance") /\ state.stack # <<>> /\ Announced(Head(state.stack)) =>
    call.from = "passes"

AgainOn(objects) == Cardinality({i \in DOMAIN objects : objects[i].again})

\* Go again pays at most once for each object that has it, also when an attack
\* waits in the queue, is finished in several goes or leaves the chain: what the
\* turn player has and what is still to pay never exceeds what he is owed.
GoAgainOnce ==
  state.ap + AgainOn(state.stack) + AgainOn(state.queue)
    + (IF state.link = None THEN 0
       ELSE IF state.link.again /\ ~state.link.resolving THEN 1 ELSE 0)
  <= state.owed

\* Combat damage of one link is calculated once: no reaction window, defend
\* decision or second calculation follows it.
DamageOnce ==
  state.link # None /\ state.link.damaged =>
    ~Runs("damage") /\ (Idle => state.decision.kind \notin {"reaction", "defend"})

\* A turn ends if the players only pass and answer from some point on.
TurnsEnd == []<>(state.phase \in {"start", "game-over"})
=============================================================================
