---------------------------- MODULE Matchmaking ----------------------------
(***************************************************************************)
(* Finding an opponent (apps/server/src/store.ts, the handlers of          *)
(* index.ts), for one format.  A search is a row of matchmaking_entries; a *)
(* player without an opponent waits in a room of his own.  A pairing seats *)
(* both in one room and is an offer until both accept, one declines or     *)
(* leaves, or its deadline passes.  Then whoever is left searches on.      *)
(*                                                                         *)
(* Each action is one transaction: pairing holds the format's lock row, a  *)
(* change of seats its room's version.  Only an acceptance is ended by one *)
(* that holds neither: that one is taken apart into its statements.  What  *)
(* a handler or the sweep has still to do waits in work, where other       *)
(* players' commands, and this player's from another tab, get in between;  *)
(* it is lost when the gateway dies or a transaction fails.                *)
(***************************************************************************)
EXTENDS Naturals, SequencesExt

CONSTANTS Players, Rooms,
          MaxMoves,  \* bound: what players and clocks do
          MaxFails,  \* bound: handlers that do not get to their end
          Nil

\* A row of matchmaking_entries.
Entry == [retained : Rooms \cup {Nil}, offer : Rooms \cup {Nil}, avoid : SUBSET (Players \cup Rooms)]

ASSUME MatchmakingAssumption ==
  /\ IsFiniteSet(Players) /\ IsFiniteSet(Rooms) /\ Players \cap Rooms = {}
  /\ MaxMoves \in Nat /\ MaxFails \in Nat /\ Nil \notin Players \cup Rooms \cup Entry

VARIABLES
  room,    \* rooms and room_seats
  entry,   \* matchmaking_entries, per user
  offers,  \* matchmaking_offers, per room
  work,    \* transactions handlers have still to run
  seeking, \* ghost: players who asked for a match and did not call it off
  spurned, \* ghost: per player, whom he declined in this search
  torn,    \* ghost: a handler was overtaken, or an offer lost a search, or a
           \* player a search that the acceptance was not about
  moves, fails

db    == <<room, entry, offers>>
ghost == <<seeking, spurned, torn>>
vars  == <<db, work, ghost, moves, fails>>

\* stage "lobby": no game yet (status open or prep).
Room == [stage : {"unused", "lobby", "playing", "deleted"}, seats : SUBSET Players,
         queued   : SUBSET Players,  \* room_seats.from_queue
         accepted : SUBSET Players,
         clock    : {"off", "on", "up"}]  \* prep_deadline_at: none, ahead, past

Exists(r) == room[r].stage \in {"lobby", "playing"}

\* The tables keep their shape: two seats at most, and no search or offer
\* of a room that is gone (the foreign keys, which deletions must respect).
TypeOK ==
  /\ room \in [Rooms -> Room]
  /\ \A r \in Rooms : /\ Cardinality(room[r].seats) <= 2
                      /\ room[r].queued \subseteq room[r].seats
                      /\ room[r].accepted \subseteq room[r].seats
  /\ entry \in [Players -> Entry \cup {Nil}]
  /\ \A p \in Players : entry[p] # Nil =>
       \A r \in {entry[p].retained, entry[p].offer} \ {Nil} : Exists(r)
  /\ offers \in [Rooms -> (Players \X Players) \cup {<<>>}]
  /\ \A r \in Rooms : offers[r] # <<>> => Exists(r)
  /\ seeking \subseteq Players /\ torn \in BOOLEAN
  /\ spurned \in [Players -> SUBSET Players]
  /\ moves \in 0 .. MaxMoves /\ fails \in 0 .. MaxFails

NoRoom == [stage |-> "unused", seats |-> {}, queued |-> {}, accepted |-> {}, clock |-> "off"]

Symmetry == Permutations(Players) \cup Permutations(Rooms)

Init ==
  /\ room = [r \in Rooms |-> NoRoom] /\ entry = [p \in Players |-> Nil]
  /\ offers = [r \in Rooms |-> <<>>] /\ work = {}
  /\ seeking = {} /\ spurned = [p \in Players |-> {}] /\ torn = FALSE
  /\ moves = 0 /\ fails = 0

----------------------------------------------------------------------------
(* Rooms.                                                                  *)

\* Whom the row of an offer names.
Row(r) == {offers[r][i] : i \in DOMAIN offers[r]}

Full(r)  == room[r].stage = "lobby" /\ Cardinality(room[r].seats) = 2
Alone(r, p) == room[r].stage = "lobby" /\ room[r].seats = {p}

\* matchPrepPhase is not null; and it is "accept".
Matchmade(r) == Full(r) /\ room[r].clock # "off" /\ room[r].queued = room[r].seats
Accepting(r) == Matchmade(r) /\ room[r].accepted # room[r].seats

\* Players go, the preparation starts over.
Without(r, gone) ==
  [room[r] EXCEPT !.seats = @ \ gone, !.queued = @ \ gone, !.accepted = {}, !.clock = "off"]

\* Mutant: no ON DELETE CASCADE for retained_room_code.
EntriesUnguarded(es, gone) ==
  [p \in Players |-> IF es[p] # Nil /\ es[p].offer \in gone
                     THEN [es[p] EXCEPT !.offer = Nil] ELSE es[p]]

\* What the foreign keys do to the entries when rooms are deleted.
EntriesWithout(es, gone) ==
  [p \in Players |-> IF es[p] = Nil \/ es[p].retained \in gone THEN Nil
                     ELSE IF es[p].offer \in gone THEN [es[p] EXCEPT !.offer = Nil]
                     ELSE es[p]]

OffersWithout(os, gone) == [r \in Rooms |-> IF r \in gone THEN <<>> ELSE os[r]]
RoomsWithout(rs, gone) ==
  [r \in Rooms |-> IF r \in gone THEN [NoRoom EXCEPT !.stage = "deleted"] ELSE rs[r]]

\* The offer of a room ends: its row, and the mark in both entries.
EntriesOffOffer(es, r) ==
  [p \in Players |-> IF es[p] # Nil /\ es[p].offer = r THEN [es[p] EXCEPT !.offer = Nil]
                     ELSE es[p]]

----------------------------------------------------------------------------
(* queueForMatch.                                                          *)

\* Mutant: searches with an offer are candidates too.
AnySearch(p, keep, avoid) ==
  {o \in Players \ {p} :
     /\ entry[o] # Nil /\ entry[o].retained # Nil
     /\ o \in room[entry[o].retained].seats
     /\ avoid \cap {o, entry[o].retained} = {}
     /\ entry[o].avoid \cap {p, keep} = {}}

\* Whom p may meet: searches without an offer, seated where they wait.
Candidates(p, keep, avoid) ==
  {o \in Players \ {p} :
     /\ entry[o] # Nil /\ entry[o].retained # Nil /\ entry[o].offer = Nil
     /\ o \in room[entry[o].retained].seats
     /\ avoid \cap {o, entry[o].retained} = {}
     /\ entry[o].avoid \cap {p, keep} = {}}

\* He has a full matchmade room already.
Assigned(p) == \E r \in Rooms : Full(r) /\ p \in room[r].queued

\* His opener is still there.
Reopened(p, keep) ==
  keep = Nil /\ entry[p] # Nil /\ entry[p].retained # Nil /\ Alone(entry[p].retained, p)

\* Mutant: a requeue is a new search.
AvoidedForgotten(p, more) == more

\* What a search avoids goes over to the row that replaces it.
Avoided(p, more) == more \cup IF entry[p] = Nil THEN {} ELSE entry[p].avoid

\* Nobody is there, or nobody who is connected.
Wait(p, keep, avoid) ==
  /\ UNCHANGED offers
  /\ \/ /\ keep # Nil /\ UNCHANGED room
        /\ entry' = [entry EXCEPT ![p] = [retained |-> keep, offer |-> Nil, avoid |-> avoid]]
     \/ /\ keep = Nil
        /\ \E r \in Rooms :
             /\ room[r].stage = "unused"
             /\ room' = [room EXCEPT ![r] = [NoRoom EXCEPT !.stage = "lobby", !.seats = {p},
                                                           !.queued = {p}]]
             /\ entry' = [entry EXCEPT ![p] = [retained |-> r, offer |-> Nil, avoid |-> avoid]]

\* The searcher's room wins, else the opponent's, else there is a new one.
Venue(p, keep, o) ==
  LET usable == <<keep # Nil /\ Alone(keep, p), Alone(entry[o].retained, o)>>
  IN  IF usable[1] THEN {keep}
      ELSE IF usable[2] THEN {entry[o].retained}
      ELSE {r \in Rooms : room[r].stage = "unused"}

\* The same pair in the same order is unique over all offers: a row that was
\* left behind makes the transaction fail.
Clash(p, keep, o) ==
  \E r \in Venue(p, keep, o) : \E x \in Rooms \ {r} : offers[x] = <<o, p>> /\ offers[r] = <<>>

\* Mutant: the openers are deleted before the searches are moved.
EntriesCascaded(p, keep, avoid, o, r, gone) ==
  LET left == EntriesWithout([entry EXCEPT ![p] = [retained |-> keep, offer |-> Nil,
                                                   avoid |-> avoid]], gone)
  IN  [q \in Players |-> IF q \in {p, o} /\ left[q] # Nil
                         THEN [left[q] EXCEPT !.retained = r, !.offer = r] ELSE left[q]]

\* The searches of both move to the offer's room, then openers go.
EntriesPaired(p, keep, avoid, o, r, gone) ==
  EntriesWithout([entry EXCEPT ![p] = [retained |-> r, offer |-> r, avoid |-> avoid],
                               ![o] = [@ EXCEPT !.retained = r, !.offer = r]], gone)

\* Both are seated and asked; the openers nobody needs any more go.
Pair(p, keep, avoid, o) ==
  /\ ~Clash(p, keep, o)
  /\ \E r \in Venue(p, keep, o) :
       LET gone == {x \in Rooms \ {r} :
                      /\ room[x].stage = "lobby"
                      /\ \/ x = keep /\ room[x].seats \subseteq {p}
                         \/ x = entry[o].retained /\ room[x].seats \subseteq {o}}
           here == IF room[r].stage = "unused" THEN NoRoom ELSE room[r]
           came == {p, o} \ here.seats
           seated == [here EXCEPT !.stage = "lobby", !.seats = {p, o},
                                  !.queued = @ \cup came, !.accepted = {}, !.clock = "on"]
       IN  /\ room' = RoomsWithout([room EXCEPT ![r] = seated], gone)
           /\ entry' = EntriesPaired(p, keep, avoid, o, r, gone)
           /\ offers' = OffersWithout([offers EXCEPT ![r] = IF @ = <<>> THEN <<o, p>> ELSE @], gone)

\* A requeue for a room that is gone fails on the foreign key.
Queue(p, keep, more) ==
  IF Assigned(p) \/ Reopened(p, keep) THEN UNCHANGED db
  ELSE /\ keep # Nil => Exists(keep)
       /\ \/ Wait(p, keep, Avoided(p, more))
          \/ \E o \in Candidates(p, keep, Avoided(p, more)) : Pair(p, keep, Avoided(p, more), o)

QueueFails(p, keep, more) ==
  /\ ~Assigned(p) /\ ~Reopened(p, keep)
  /\ \/ keep # Nil /\ ~Exists(keep)
     \/ \E o \in Candidates(p, keep, Avoided(p, more)) : Clash(p, keep, o)
  /\ UNCHANGED db

----------------------------------------------------------------------------
(* What a player does, and the first transaction it takes.                 *)

Move == moves < MaxMoves /\ moves' = moves + 1 /\ UNCHANGED fails

\* A handler between two transactions: what is next, for which room, whose
\* seat was given up, whose was not, and who is to be queued again after it.
Task(do, r, who, rest, line) ==
  [do |-> do, room |-> r, who |-> who, rest |-> rest, line |-> line]

Again(p, keep, more) == [who |-> p, keep |-> keep, more |-> more]
Requeue(r, S, more) == IF S = {} THEN <<>> ELSE <<Again(CHOOSE p \in S : TRUE, r, more)>>

InLine(t) == {t.line[i].who : i \in DOMAIN t.line}

\* Somebody's search is acted on while a handler has transactions to run that
\* act on it too: the one may undo what the other does.
Overtaken(S, handlers) ==
  \E t \in handlers : S \cap (t.who \cup t.rest \cup InLine(t)) # {}

\* Not the acceptances, and not the sweep before it acts.
Handlers == {t \in work : t.do \notin {"commit", "load", "end", "evict"}}

\* A search ends while its offer, of another room than r, stands.
Bereaves(r) ==
  \E p \in Players : /\ entry[p] # Nil /\ entry'[p] = Nil
                     /\ entry[p].offer \notin {Nil, r} /\ Matchmade(entry[p].offer)

Seek(p) ==
  /\ seeking' = seeking \cup {p}
  /\ spurned' = IF p \in seeking THEN spurned ELSE [spurned EXCEPT ![p] = {}]

Stop(gone) ==
  seeking' = seeking \ gone /\ spurned' = [p \in Players |-> IF p \in gone THEN {} ELSE spurned[p]]

\* queue-join, in any tab that is in no room.
QueueJoin(p) ==
  /\ Move
  /\ \/ Queue(p, Nil, {}) /\ IF Assigned(p) THEN UNCHANGED <<seeking, spurned>> ELSE Seek(p)
     \/ QueueFails(p, Nil, {}) /\ UNCHANGED <<seeking, spurned>>
  /\ torn' = (torn \/ Overtaken({p}, Handlers))
  /\ UNCHANGED work

\* queue-leave, and the connection that closes: the search, not the seat.
QueueLeave(p) ==
  /\ Move /\ entry[p] # Nil /\ entry' = [entry EXCEPT ![p] = Nil]
  /\ Stop({p})
  /\ torn' = (torn \/ entry[p].offer # Nil \/ Overtaken({p}, Handlers))
  /\ UNCHANGED <<room, offers, work>>

\* accept-match; commitAcceptedOffer comes after it.
Accept(p, r) ==
  /\ Move /\ room[r].stage = "lobby" /\ p \in room[r].seats
  /\ \/ Accepting(r) /\ room[r].clock = "on"
     \/ ~Accepting(r) /\ p \in room[r].accepted
  /\ LET accepted == room[r].accepted \cup {p}
     IN  /\ room' = [room EXCEPT ![r].accepted = accepted]
         /\ IF Accepting(r) /\ accepted = room[r].seats
            THEN Stop(accepted) ELSE UNCHANGED <<seeking, spurned>>
  /\ work' = work \cup {Task("commit", r, room[r].seats, {}, <<>>)}
  /\ UNCHANGED <<entry, offers, torn>>

\* Mutant: the row of the offer stays.
OffersKept(r) == offers

\* declineMatch deletes the row of the offer.
OffersDeclined(r) == [offers EXCEPT ![r] = <<>>]

\* decline-match: both search on, in either order (who came first, goes
\* first).  Who waits keeps the room, who declined avoids it and him.
Decline(p, r) ==
  /\ Move /\ Accepting(r) /\ p \in room[r].seats
  /\ LET mine  == entry[p] # Nil /\ entry[p].offer = r
         other == room[r].seats \ {p}
         after == [entry EXCEPT ![p] =
                     IF mine THEN [retained |-> Nil, offer |-> Nil,
                                   avoid |-> entry[p].avoid \cup {r} \cup other]
                     ELSE @]
     IN  /\ room' = [room EXCEPT ![r] = Without(r, {p})]
         /\ entry' = [q \in Players |-> IF after[q] # Nil /\ after[q].offer = r
                                        THEN [after[q] EXCEPT !.offer = Nil, !.retained = r]
                                        ELSE after[q]]
         /\ offers' = OffersDeclined(r)
         /\ LET kept == {s \in other : entry'[s] # Nil /\ entry'[s].retained = r}
                on   == Requeue(r, kept, {})
                back == <<Again(p, Nil, {r})>>
            IN  \E line \in {on \o back, back \o on} :
                  work' = work \cup {Task("queue", r, {}, {}, line)}
         /\ seeking' = seeking \cup {p}
         /\ spurned' = [spurned EXCEPT ![p] = IF p \in seeking THEN @ \cup other ELSE {}]
  /\ torn' = (torn \/ Overtaken({p}, Handlers))

\* leave-room: the seat first, the search later.
LeaveRoom(p, r) ==
  /\ Move /\ room[r].stage = "lobby" /\ p \in room[r].seats
  /\ room' = [room EXCEPT ![r] = Without(r, {p})]
  /\ LET rest == room[r].queued \ {p}
     IN  /\ work' = work \cup
               {Task("left", r, {p}, room[r].seats \ {p}, Requeue(r, rest, {}))}
         /\ seeking' = (seeking \ {p}) \cup rest
         /\ torn' = (torn \/ Overtaken({p} \cup rest, Handlers))
  /\ spurned' = [spurned EXCEPT ![p] = {}]
  /\ UNCHANGED <<entry, offers>>

\* join-room by code: a seat somebody waits in is taken, and his search and
\* the joining player's end.
Join(p, r) ==
  /\ Move /\ room[r].stage = "lobby" /\ Cardinality(room[r].seats) = 1 /\ p \notin room[r].seats
  /\ room' = [room EXCEPT ![r].seats = @ \cup {p}, ![r].accepted = {}, ![r].clock = "off"]
  /\ LET ends == {q \in Players : q = p \/ (entry[q] # Nil /\ entry[q].retained = r)}
     IN  IF room[r].queued # {}
         THEN entry' = [q \in Players |-> IF q \in ends THEN Nil ELSE entry[q]] /\ Stop(ends)
         ELSE UNCHANGED <<entry, seeking, spurned>>
  /\ torn' = (torn \/ Overtaken({p}, Handlers) \/ Bereaves(r))
  /\ UNCHANGED <<offers, work>>

\* Choices made, decks presented: the game starts.
Start(r) ==
  /\ Move /\ Full(r)
  /\ room[r].queued = room[r].seats =>
       room[r].accepted = room[r].seats /\ room[r].clock = "on"
  /\ room' = [room EXCEPT ![r].stage = "playing", ![r].clock = "off"]
  /\ Stop(room[r].seats)
  /\ UNCHANGED <<entry, offers, work, torn>>

\* sweepRooms: nobody has been there for a while.
Delete(r) ==
  /\ Move /\ Exists(r)
  /\ room' = RoomsWithout(room, {r}) /\ entry' = EntriesWithout(entry, {r})
  /\ offers' = OffersWithout(offers, {r})
  /\ Stop(room[r].seats)
  /\ UNCHANGED <<work, torn>>

\* A deadline passes: half a minute at least after it was set, and not between
\* the sweep's reading the room and its next statement.
Deadline(r) ==
  /\ Move /\ Full(r) /\ room[r].clock = "on"
  /\ \A t \in work : t.do = "evict" => t.room # r
  /\ room' = [room EXCEPT ![r].clock = "up"]
  /\ UNCHANGED <<entry, offers, work, ghost>>

----------------------------------------------------------------------------
(* The transactions that follow.                                           *)

Then(t, do) ==
  work' = (work \ {t}) \cup IF t.line = <<>> THEN {} ELSE {[t EXCEPT !.do = do]}

\* commitAcceptedOffer is one transaction that holds neither the format's lock
\* nor the room's version: others commit between its statements.  First it
\* reads the offer's row.
Commit(t) ==
  /\ t.do = "commit"
  /\ work' = (work \ {t}) \cup IF offers[t.room] = <<>> THEN {}
                               ELSE {Task("load", t.room, Row(t.room), {}, <<>>)}
  /\ UNCHANGED <<db, ghost, moves, fails>>

\* Then the room.
CommitLoad(t) ==
  /\ t.do = "load"
  /\ work' = (work \ {t}) \cup IF /\ Cardinality(room[t.room].seats) = 2
                                  /\ room[t.room].accepted = room[t.room].seats
                               THEN {[t EXCEPT !.do = "end"]} ELSE {}
  /\ UNCHANGED <<db, ghost, moves, fails>>

\* Mutant: only the first player's search ends.
EntriesHalfCommitted(t) ==
  [p \in Players |-> IF p \in t.who /\ p = offers[t.room][1] THEN Nil ELSE entry[p]]

\* The searches of both end, whatever they are by now.
EntriesCommitted(t) == [p \in Players |-> IF p \in t.who THEN Nil ELSE entry[p]]

\* They are not those that were accepted: somebody searches again, or the
\* room has another offer.
Strikes(t) ==
  \/ \E p \in t.who : entry[p] # Nil /\ p \in seeking
  \/ offers[t.room] # <<>> /\ (Row(t.room) # t.who \/ Accepting(t.room))

CommitEnd(t) ==
  /\ t.do = "end"
  /\ entry' = EntriesCommitted(t) /\ offers' = [offers EXCEPT ![t.room] = <<>>]
  /\ work' = work \ {t}
  /\ torn' = (torn \/ Strikes(t) \/ Bereaves(t.room))
  /\ UNCHANGED <<room, seeking, spurned, moves, fails>>

\* resolveOfferedPlayerLeave looks for an offer.  Without one the search of
\* who left ends if it belongs to this connection.
Lookup(t) ==
  /\ t.do = "left"
  /\ IF t.who \cap Row(t.room) # {}
     THEN /\ LET other == Row(t.room) \ t.who
              IN  work' = (work \ {t}) \cup
                     {[t EXCEPT !.do = "resolve", !.rest = other,
                                !.line = IF t.rest = other THEN Requeue(t.room, other, {}) ELSE <<>>]}
          /\ UNCHANGED entry
     ELSE /\ Then(t, "queue")
          /\ \/ UNCHANGED entry
             \/ entry' = [p \in Players |-> IF p \in t.who THEN Nil ELSE entry[p]]
  /\ torn' = (torn \/ Bereaves(Nil))
  /\ UNCHANGED <<room, offers, seeking, spurned, moves, fails>>

\* The searches of who is out end; who is left waits in the room, and the
\* offer's row goes.
Released(es, t) ==
  [p \in Players |-> IF es[p] = Nil \/ p \in t.who THEN Nil
                     ELSE IF p \in t.rest
                     THEN [es[p] EXCEPT !.retained = t.room,
                                        !.offer = IF t.do = "resolve" THEN Nil ELSE @]
                     ELSE es[p]]

\* Nobody can be left waiting in a room that is gone.
ReleaseFails(t) == ~Exists(t.room) /\ \E p \in t.rest : entry[p] # Nil

\* resolveOfferedPlayerLeave, and what the sweep does after an eviction, which
\* ends the room's offer in every entry.
Release(t) ==
  /\ t.do \in {"resolve", "clean"} /\ ~ReleaseFails(t)
  /\ entry' = Released(IF t.do = "clean" THEN EntriesOffOffer(entry, t.room) ELSE entry, t)
  /\ offers' = [offers EXCEPT ![t.room] = <<>>]
  /\ Then(t, "queue")
  /\ torn' = (torn \/ Bereaves(t.room))
  /\ UNCHANGED <<room, seeking, spurned, moves, fails>>

\* sweepMatchmadePrep, which one gateway runs, reads the searches of an
\* expired room first.
Sweep(r) ==
  /\ Full(r) /\ room[r].clock = "up"
  /\ \A t \in work : t.do \in {"evict", "clean"} => t.room # r
  /\ LET known == {q \in Players : entry[q] # Nil /\ q \in Row(r)}
         again == {Again(q, r, entry[q].avoid \cap Rooms) : q \in known}
     IN  work' = work \cup {Task("evict", r, {}, {}, SetToSeq(again))}
  /\ UNCHANGED <<db, ghost, moves, fails>>

\* Who did not accept, or later was not ready, is out.  Nobody is in the
\* phase that chooses who begins: the clock goes on.
Evict(t, out) ==
  /\ t.do = "evict" /\ Matchmade(t.room) /\ room[t.room].clock = "up"
  /\ out \subseteq room[t.room].seats
  /\ Accepting(t.room) => out = room[t.room].seats \ room[t.room].accepted
  /\ room' = IF out = {} THEN [room EXCEPT ![t.room].clock = "on"]
             ELSE [room EXCEPT ![t.room] = Without(t.room, out)]
  /\ LET rest == IF Cardinality(out) = 1 THEN room[t.room].seats \ out ELSE {}
         kept == SetToSeq({a \in Range(t.line) : a.who \in rest})
         next == IF t.line = <<>> THEN Task("queue", t.room, {}, {}, Requeue(t.room, rest, {}))
                 ELSE Task("clean", t.room, out, rest, kept)
         back == IF t.line = <<>> THEN rest ELSE rest \cap InLine(t)
     IN  /\ work' = (work \ {t}) \cup
              IF out = {} \/ (next.do = "queue" /\ next.line = <<>>) THEN {} ELSE {next}
         /\ seeking' = (seeking \ out) \cup back
         /\ spurned' = [q \in Players |-> IF q \in out THEN {} ELSE spurned[q]]
         /\ torn' = (torn \/ (out # {} /\ Overtaken(room[t.room].seats, Handlers)))
  /\ UNCHANGED <<entry, offers, moves, fails>>

\* The room is not what it was: if there is still a deadline, it goes.
Spare(t) ==
  /\ t.do = "evict" /\ ~(Matchmade(t.room) /\ room[t.room].clock = "up")
  /\ room' = [room EXCEPT ![t.room].clock = IF @ = "up" THEN "off" ELSE @]
  /\ work' = work \ {t}
  /\ UNCHANGED <<entry, offers, ghost, moves, fails>>

\* queueForMatch for the next in line.
QueueAgain(t) ==
  /\ t.do = "queue" /\ t.line # <<>>
  /\ LET next == Head(t.line) IN Queue(next.who, next.keep, next.more)
  /\ work' = (work \ {t}) \cup
       IF Len(t.line) = 1 THEN {} ELSE {[t EXCEPT !.line = Tail(@)]}
  /\ UNCHANGED <<ghost, moves, fails>>

\* A failed transaction ends the handler.
Break(t) ==
  /\ \/ t.do \in {"resolve", "clean"} /\ ReleaseFails(t)
     \/ /\ t.do = "queue" /\ t.line # <<>>
        /\ LET next == Head(t.line) IN QueueFails(next.who, next.keep, next.more)
  /\ work' = work \ {t} /\ torn' = TRUE
  /\ UNCHANGED <<db, seeking, spurned, moves, fails>>

\* The gateway dies, or a room changed under a requeue (VERSION_CONFLICT).
Lose(t) ==
  /\ fails < MaxFails /\ fails' = fails + 1 /\ work' = work \ {t}
  /\ UNCHANGED <<db, ghost, moves>>

----------------------------------------------------------------------------

Next ==
  \/ \E p \in Players : QueueJoin(p) \/ QueueLeave(p)
  \/ \E p \in Players, r \in Rooms : Accept(p, r) \/ Decline(p, r) \/ LeaveRoom(p, r) \/ Join(p, r)
  \/ \E r \in Rooms : Start(r) \/ Delete(r) \/ Deadline(r) \/ Sweep(r)
  \/ \E t \in work : \/ Commit(t) \/ CommitLoad(t) \/ CommitEnd(t)
                      \/ Lookup(t) \/ Release(t) \/ QueueAgain(t) \/ Break(t) \/ Lose(t)
                      \/ Spare(t) \/ \E out \in SUBSET Players : Evict(t, out)

Spec == Init /\ [][Next]_vars

----------------------------------------------------------------------------
(* Properties.                                                             *)

\* No handler was lost or overtaken, nobody's search ended under an offer, and
\* no late end of an acceptance struck another search or offer.  The remarks in
\* the README say what happens otherwise.
Orderly == ~torn /\ fails = 0

\* A player has one match at a time: never two full matchmade rooms, which
\* would both wait for him.
NoDoubleBooking ==
  Orderly => \A r, q \in Rooms :
               Matchmade(r) /\ Matchmade(q) /\ room[r].seats \cap room[q].seats # {} => r = q

\* Whoever is declined is not offered to the decliner again in that search,
\* though rooms, seats and the search's row change under it.
NeverAgain ==
  Orderly => \A r \in Rooms : Accepting(r) =>
               \A p \in room[r].seats : spurned[p] \cap room[r].seats = {}

Placed(p) ==
  \/ Assigned(p)
  \/ /\ entry[p] # Nil /\ entry[p].offer = Nil /\ entry[p].retained # Nil
     /\ Alone(entry[p].retained, p)

\* When the handlers are through, whoever wants a match and did not call it
\* off sits in a full room or can be found: his search is free and he waits
\* alone in the room it names.
NoneStranded == Orderly /\ work = {} => \A p \in seeking : Placed(p)

\* An offer's row names the two who are asked: commitAcceptedOffer and
\* resolveOfferedPlayerLeave go by it, not by the seats.
OfferAgrees ==
  Orderly => \A r \in Rooms : Accepting(r) => Row(r) = room[r].seats

\* An accepted match ends both searches: they meet nobody else.
SearchEnds ==
  Orderly /\ work = {} =>
    \A r \in Rooms : /\ Full(r) /\ room[r].queued = room[r].seats
                     /\ room[r].accepted = room[r].seats
                     => \A p \in room[r].seats : entry[p] = Nil
============================================================================
