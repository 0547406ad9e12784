------------------------- MODULE MatchmakingProofs -------------------------
(***************************************************************************)
(* For any number of players and rooms, moves and lost handlers: the       *)
(* tables keep their shape, and no search and no offer names a room that   *)
(* is gone.  While no handler is lost or overtaken, moreover: a player has *)
(* one match, an offer's row is of the two who are asked, and an accepted  *)
(* match ends both searches; nobody is asked for whom he declined, and     *)
(* whoever wants a match has one or can be found when handlers are through.*)
(***************************************************************************)
EXTENDS Matchmaking, FiniteSetTheorems, SequenceTheorems, TLAPS

(* What handlers have yet to run.                                           *)
Agains == [who : Players, keep : Rooms \cup {Nil}, more : SUBSET (Players \cup Rooms)]

Tasks == [do : {"commit", "load", "end", "left", "resolve", "clean", "evict", "queue"}, room : Rooms,
          who : SUBSET Players, rest : SUBSET Players, line : Seq(Agains)]

(* The inductive invariant: a handler that comes back after other players'  *)
(* transactions still writes what the tables can take.                      *)
IInv == TypeOK /\ work \subseteq Tasks

-----------------------------------------------------------------------------
(* The tables, one by one                                                    *)

(* The rooms that are there. *)
In(rm) == {r \in Rooms : rm[r].stage \in {"lobby", "playing"}}

Tidy(x) ==
  /\ x \in Room /\ Cardinality(x.seats) <= 2
  /\ x.queued \subseteq x.seats /\ x.accepted \subseteq x.seats

RoomsOK(rm) == rm \in [Rooms -> Room] /\ \A r \in Rooms : Tidy(rm[r])

Search(e, E) == e \in Entry /\ e.retained \in E \cup {Nil} /\ e.offer \in E \cup {Nil}

EntriesOK(en, E) ==
  /\ en \in [Players -> Entry \cup {Nil}]
  /\ \A p \in Players : en[p] # Nil => Search(en[p], E)

OffersOK(of, E) ==
  /\ of \in [Rooms -> (Players \X Players) \cup {<<>>}]
  /\ \A r \in Rooms : of[r] # <<>> => r \in E

TablesOK(rm, en, of) == RoomsOK(rm) /\ EntriesOK(en, In(rm)) /\ OffersOK(of, In(rm))

GhostsOK ==
  /\ seeking \subseteq Players /\ torn \in BOOLEAN
  /\ spurned \in [Players -> SUBSET Players]
  /\ moves \in 0 .. MaxMoves /\ fails \in 0 .. MaxFails

LEMMA TypeParts == TypeOK <=> TablesOK(room, entry, offers) /\ GhostsOK
<1>1. RoomsOK(room) <=>
        /\ room \in [Rooms -> Room]
        /\ \A r \in Rooms : /\ Cardinality(room[r].seats) <= 2
                            /\ room[r].queued \subseteq room[r].seats
                            /\ room[r].accepted \subseteq room[r].seats
  BY DEF RoomsOK, Tidy
<1>2. EntriesOK(entry, In(room)) <=>
        /\ entry \in [Players -> Entry \cup {Nil}]
        /\ \A p \in Players : entry[p] # Nil =>
             \A r \in {entry[p].retained, entry[p].offer} \ {Nil} : Exists(r)
  <2>1. ASSUME NEW p \in Players, entry[p] \in Entry
        PROVE  Search(entry[p], In(room)) <=>
                 \A r \in {entry[p].retained, entry[p].offer} \ {Nil} : Exists(r)
    BY <2>1, MatchmakingAssumption DEF Search, Exists, In, Entry
  <2> QED
    BY <2>1 DEF EntriesOK, Search
<1>3. OffersOK(offers, In(room)) <=>
        /\ offers \in [Rooms -> (Players \X Players) \cup {<<>>}]
        /\ \A r \in Rooms : offers[r] # <<>> => Exists(r)
  BY DEF OffersOK, In, Exists
<1> QED
  BY <1>1, <1>2, <1>3 DEF TypeOK, TablesOK, GhostsOK

LEMMA TypePartsNext == TablesOK(room', entry', offers') /\ GhostsOK' => TypeOK'
<1>1. RoomsOK(room') =>
        /\ room' \in [Rooms -> Room]
        /\ \A r \in Rooms : /\ Cardinality(room'[r].seats) <= 2
                            /\ room'[r].queued \subseteq room'[r].seats
                            /\ room'[r].accepted \subseteq room'[r].seats
  BY DEF RoomsOK, Tidy
<1>2. EntriesOK(entry', In(room')) =>
        /\ entry' \in [Players -> Entry \cup {Nil}]
        /\ \A p \in Players : entry'[p] # Nil =>
             \A r \in {entry'[p].retained, entry'[p].offer} \ {Nil} : Exists(r)'
  BY DEF EntriesOK, Search, Exists, In
<1>3. OffersOK(offers', In(room')) =>
        /\ offers' \in [Rooms -> (Players \X Players) \cup {<<>>}]
        /\ \A r \in Rooms : offers'[r] # <<>> => Exists(r)'
  BY DEF OffersOK, In, Exists
<1> QED
  BY <1>1, <1>2, <1>3 DEF TypeOK, TablesOK, GhostsOK

-----------------------------------------------------------------------------
(* Changes of one table                                                      *)

(* A search or an offer of a room is one still when there are more rooms. *)
LEMMA MoreRooms ==
  ASSUME NEW E, NEW F, E \subseteq F
  PROVE  /\ \A en : EntriesOK(en, E) => EntriesOK(en, F)
         /\ \A of : OffersOK(of, E) => OffersOK(of, F)
  BY DEF EntriesOK, OffersOK, Search

(* One room changes, and is there if it was. *)
LEMMA OneRoom ==
  ASSUME NEW rm, RoomsOK(rm), NEW r \in Rooms, NEW x, Tidy(x), r \in In(rm) => x.stage \in {"lobby", "playing"}
  PROVE  /\ RoomsOK([rm EXCEPT ![r] = x]) /\ In(rm) \subseteq In([rm EXCEPT ![r] = x])
         /\ x.stage \in {"lobby", "playing"} => r \in In([rm EXCEPT ![r] = x])
<1> DEFINE new == [rm EXCEPT ![r] = x]
<1>1. /\ rm \in [Rooms -> Room] /\ new \in [Rooms -> Room] /\ new[r] = x
      /\ \A s \in Rooms \ {r} : new[s] = rm[s]
  BY DEF RoomsOK, Tidy
<1> HIDE DEF new
<1>2. RoomsOK(new)
  BY <1>1 DEF RoomsOK
<1>3. In(rm) \subseteq In(new)
  BY <1>1 DEF In
<1>4. x.stage \in {"lobby", "playing"} => r \in In(new)
  BY <1>1 DEF In
<1> QED
  BY <1>2, <1>3, <1>4 DEF new

(* Players leave a room. *)
LEMMA WithoutTidy ==
  ASSUME RoomsOK(room), NEW r \in Rooms, NEW gone
  PROVE  Tidy(Without(r, gone)) /\ Without(r, gone).stage = room[r].stage
<1>1. room[r] \in Room /\ Tidy(room[r])
  BY DEF RoomsOK
<1>2. IsFiniteSet(room[r].seats)
  BY <1>1, MatchmakingAssumption, FS_Subset DEF Room
<1>3. Cardinality(room[r].seats \ gone) <= 2
  <2>1. /\ Cardinality(room[r].seats \ gone) <= Cardinality(room[r].seats)
        /\ Cardinality(room[r].seats \ gone) \in Nat /\ Cardinality(room[r].seats) \in Nat
    BY <1>2, FS_Subset, FS_CardinalityType
  <2> QED
    BY <1>1, <2>1 DEF Tidy
<1>4. Without(r, gone) \in Room /\ Without(r, gone).stage = room[r].stage
      /\ Without(r, gone).seats = room[r].seats \ gone
      /\ Without(r, gone).queued = room[r].queued \ gone
      /\ Without(r, gone).accepted = {}
  BY <1>1 DEF Without, Room
<1> QED
  BY <1>1, <1>3, <1>4 DEF Tidy

LEMMA LeavesRoom ==
  ASSUME RoomsOK(room), NEW r \in Rooms, NEW gone, room' = [room EXCEPT ![r] = Without(r, gone)]
  PROVE  RoomsOK(room') /\ In(room) \subseteq In(room')
<1>1. PICK x : x = Without(r, gone)
  OBVIOUS
<1>2. Tidy(x) /\ (r \in In(room) => x.stage \in {"lobby", "playing"})
  BY <1>1, WithoutTidy DEF In
<1>3. room' = [room EXCEPT ![r] = x]
  BY <1>1
<1>4. RoomsOK([room EXCEPT ![r] = x]) /\ In(room) \subseteq In([room EXCEPT ![r] = x])
  BY <1>2, OneRoom
<1> QED
  BY <1>3, <1>4

(* Rooms are deleted, with the searches and offers that name them. *)
LEMMA DeletedTidy ==
  ASSUME NEW rm, RoomsOK(rm), NEW gone
  PROVE  RoomsOK(RoomsWithout(rm, gone)) /\ In(RoomsWithout(rm, gone)) = In(rm) \ gone
<1> DEFINE new == RoomsWithout(rm, gone)
           no == [NoRoom EXCEPT !.stage = "deleted"]
<1>1. Tidy(no) /\ no.stage = "deleted"
  <2>1. Cardinality({}) = 0
    BY FS_EmptySet
  <2> QED
    BY <2>1 DEF Tidy, NoRoom, Room
<1>2. rm \in [Rooms -> Room] /\ \A r \in Rooms : Tidy(rm[r])
  BY DEF RoomsOK
<1>3. new = [r \in Rooms |-> IF r \in gone THEN no ELSE rm[r]]
  BY DEF RoomsWithout
<1> HIDE DEF new, no
<1>4. /\ new \in [Rooms -> Room] /\ \A r \in Rooms : Tidy(new[r])
      /\ \A r \in Rooms : new[r] = IF r \in gone THEN no ELSE rm[r]
  BY <1>1, <1>2, <1>3 DEF Tidy
<1>5. In(new) = In(rm) \ gone
  BY <1>1, <1>4 DEF In
<1> QED
  BY <1>4, <1>5 DEF RoomsOK, new

LEMMA EntriesCascade ==
  ASSUME NEW es, NEW E, EntriesOK(es, E), NEW gone, Nil \notin gone
  PROVE  EntriesOK(EntriesWithout(es, gone), E \ gone)
<1> DEFINE new == EntriesWithout(es, gone)
<1>1. ASSUME NEW p \in Players PROVE new[p] \in Entry \cup {Nil} /\ (new[p] # Nil => Search(new[p], E \ gone))
  <2>1. new[p] = IF es[p] = Nil \/ es[p].retained \in gone THEN Nil
                 ELSE IF es[p].offer \in gone THEN [es[p] EXCEPT !.offer = Nil]
                 ELSE es[p]
    BY DEF EntriesWithout
  <2> HIDE DEF new
  <2>2. CASE es[p] = Nil \/ es[p].retained \in gone
    BY <2>1, <2>2
  <2>3. CASE ~(es[p] = Nil \/ es[p].retained \in gone) /\ es[p].offer \in gone
    <3>1. Search(es[p], E)
      BY <2>3 DEF EntriesOK
    <3>2. PICK e : e = es[p]
      OBVIOUS
    <3>3. [e EXCEPT !.offer = Nil] \in Entry
          /\ [e EXCEPT !.offer = Nil].retained = e.retained /\ [e EXCEPT !.offer = Nil].offer = Nil
      BY <3>1, <3>2 DEF Search, Entry
    <3> QED
      BY <2>1, <2>3, <3>1, <3>2, <3>3 DEF Search
  <2>4. CASE ~(es[p] = Nil \/ es[p].retained \in gone) /\ ~(es[p].offer \in gone)
    <3>1. Search(es[p], E)
      BY <2>4 DEF EntriesOK
    <3> QED
      BY <2>1, <2>4, <3>1 DEF Search
  <2> QED
    BY <2>2, <2>3, <2>4
<1>2. new = [p \in Players |-> new[p]]
  BY DEF EntriesWithout
<1> HIDE DEF new
<1>3. EntriesOK(new, E \ gone)
  BY <1>1, <1>2 DEF EntriesOK
<1> QED
  BY <1>3 DEF new

LEMMA OffersCascade ==
  ASSUME NEW os, NEW E, OffersOK(os, E), NEW gone
  PROVE  OffersOK(OffersWithout(os, gone), E \ gone)
  BY DEF OffersOK, OffersWithout

(* The offer of a room is over in every search. *)
LEMMA OfferOver ==
  ASSUME NEW es, NEW E, EntriesOK(es, E), NEW r
  PROVE  /\ EntriesOK(EntriesOffOffer(es, r), E)
         /\ \A p \in Players : EntriesOffOffer(es, r)[p] = Nil => es[p] = Nil \/ es[p].offer = r
<1> DEFINE new == EntriesOffOffer(es, r)
<1>1. ASSUME NEW p \in Players
      PROVE  /\ new[p] \in Entry \cup {Nil} /\ (new[p] # Nil => Search(new[p], E))
             /\ new[p] = Nil => es[p] = Nil \/ es[p].offer = r
  <2>1. new[p] = IF es[p] # Nil /\ es[p].offer = r THEN [es[p] EXCEPT !.offer = Nil] ELSE es[p]
    BY DEF EntriesOffOffer
  <2> HIDE DEF new
  <2>2. CASE es[p] # Nil /\ es[p].offer = r
    <3>1. PICK e : e = es[p]
      OBVIOUS
    <3>2. Search(e, E)
      BY <2>2, <3>1 DEF EntriesOK
    <3>3. [e EXCEPT !.offer = Nil] \in Entry
          /\ [e EXCEPT !.offer = Nil].retained = e.retained /\ [e EXCEPT !.offer = Nil].offer = Nil
      BY <3>2 DEF Search, Entry
    <3> QED
      BY <2>1, <2>2, <3>1, <3>2, <3>3 DEF Search
  <2>3. CASE ~(es[p] # Nil /\ es[p].offer = r)
    BY <2>1, <2>3 DEF EntriesOK
  <2> QED
    BY <2>2, <2>3
<1>2. new = [p \in Players |-> new[p]]
  BY DEF EntriesOffOffer
<1> HIDE DEF new
<1>3. EntriesOK(new, E) /\ \A p \in Players : new[p] = Nil => es[p] = Nil \/ es[p].offer = r
  BY <1>1, <1>2 DEF EntriesOK
<1> QED
  BY <1>3 DEF new

(* One search changes. *)
LEMMA OneSearch ==
  ASSUME NEW en, NEW E, EntriesOK(en, E), NEW p \in Players, NEW e, e = Nil \/ Search(e, E)
  PROVE  EntriesOK([en EXCEPT ![p] = e], E)
  BY DEF EntriesOK, Search

(* Searches end. *)
LEMMA SearchesEnd ==
  ASSUME NEW en, NEW E, EntriesOK(en, E), NEW S
  PROVE  EntriesOK([p \in Players |-> IF p \in S THEN Nil ELSE en[p]], E)
  BY DEF EntriesOK

LEMMA NewSearch ==
  ASSUME NEW E, E \subseteq Rooms, NEW r \in E \cup {Nil}, NEW o \in E \cup {Nil},
         NEW avoid \in SUBSET (Players \cup Rooms)
  PROVE  Search([retained |-> r, offer |-> o, avoid |-> avoid], E)
  BY DEF Search, Entry

(* The searches of a pair name their room. *)
LEMMA MovedSearch ==
  ASSUME NEW E, E \subseteq Rooms, NEW r \in E \cup {Nil}, NEW o \in E \cup {Nil}, NEW e \in Entry
  PROVE  Search([e EXCEPT !.retained = r, !.offer = o], E)
<1>1. /\ [e EXCEPT !.retained = r, !.offer = o] \in Entry
      /\ [e EXCEPT !.retained = r, !.offer = o].retained = r
      /\ [e EXCEPT !.retained = r, !.offer = o].offer = o
  BY DEF Entry
<1> QED
  BY <1>1 DEF Search

(* Two seats. *)
LEMMA FewSeats ==
  /\ Cardinality({}) <= 2
  /\ \A p : Cardinality({p}) <= 2
  /\ \A p, o : Cardinality({p, o}) <= 2
<1>1. Cardinality({}) = 0
  BY FS_EmptySet
<1>2. ASSUME NEW p PROVE Cardinality({p}) = 1
  BY FS_Singleton
<1>3. ASSUME NEW p, NEW o PROVE Cardinality({p, o}) <= 2
  <2>1. IsFiniteSet({p}) /\ Cardinality({p}) = 1
    BY FS_Singleton
  <2>2. Cardinality({p} \cup {o}) = IF o \in {p} THEN Cardinality({p}) ELSE Cardinality({p}) + 1
    BY <2>1, FS_AddElement
  <2>3. {p} \cup {o} = {p, o}
    OBVIOUS
  <2> QED
    BY <2>1, <2>2, <2>3
<1>4. Cardinality({}) <= 2 /\ \A p : Cardinality({p}) <= 2
  BY <1>1, <1>2
<1> QED
  BY <1>3, <1>4

-----------------------------------------------------------------------------
(* queueForMatch                                                             *)

LEMMA InRooms == \A rm : In(rm) \subseteq Rooms
  BY DEF In

LEMMA AvoidedTyped ==
  ASSUME TablesOK(room, entry, offers), NEW p \in Players, NEW more \in SUBSET (Players \cup Rooms)
  PROVE  Avoided(p, more) \in SUBSET (Players \cup Rooms)
  BY DEF TablesOK, EntriesOK, Search, Entry, Avoided

(* A search that waits names a room that is there. *)
LEMMA WaitOK ==
  ASSUME TablesOK(room, entry, offers), NEW p \in Players, NEW keep \in Rooms \cup {Nil},
         NEW avoid \in SUBSET (Players \cup Rooms), keep # Nil => Exists(keep),
         Wait(p, keep, avoid)
  PROVE  TablesOK(room', entry', offers')
<1>0. RoomsOK(room) /\ EntriesOK(entry, In(room)) /\ OffersOK(offers, In(room)) /\ offers' = offers
      /\ Nil \in In(room) \cup {Nil}
  BY DEF TablesOK, Wait
<1>1. CASE /\ keep # Nil /\ room' = room
           /\ entry' = [entry EXCEPT ![p] = [retained |-> keep, offer |-> Nil, avoid |-> avoid]]
  <2>1. keep \in In(room)
    BY <1>1 DEF In, Exists
  <2>2. Search([retained |-> keep, offer |-> Nil, avoid |-> avoid], In(room))
    BY <2>1, InRooms, NewSearch
  <2>3. EntriesOK(entry', In(room))
    BY <1>0, <1>1, <2>2, OneSearch
  <2> QED
    BY <1>0, <1>1, <2>3 DEF TablesOK
<1>2. ASSUME NEW r \in Rooms, room[r].stage = "unused",
             room' = [room EXCEPT ![r] = [NoRoom EXCEPT !.stage = "lobby", !.seats = {p}, !.queued = {p}]],
             entry' = [entry EXCEPT ![p] = [retained |-> r, offer |-> Nil, avoid |-> avoid]]
      PROVE  TablesOK(room', entry', offers')
  <2>1. PICK x : x = [NoRoom EXCEPT !.stage = "lobby", !.seats = {p}, !.queued = {p}]
    OBVIOUS
  <2>2. /\ x \in Room /\ x.stage = "lobby" /\ x.seats = {p} /\ x.queued = {p} /\ x.accepted = {}
    BY <2>1 DEF NoRoom, Room
  <2>3. Tidy(x)
    BY <2>2, FewSeats DEF Tidy
  <2>4. RoomsOK(room') /\ In(room) \subseteq In(room') /\ r \in In(room')
    BY <1>0, <1>2, <2>1, <2>2, <2>3, OneRoom
  <2>5. EntriesOK(entry, In(room')) /\ OffersOK(offers, In(room'))
    BY <1>0, <2>4, MoreRooms
  <2>6. Search([retained |-> r, offer |-> Nil, avoid |-> avoid], In(room'))
    BY <2>4, InRooms, NewSearch
  <2>7. EntriesOK(entry', In(room'))
    BY <1>2, <2>5, <2>6, OneSearch
  <2> QED
    BY <1>0, <2>4, <2>5, <2>7 DEF TablesOK
<1> QED
  BY <1>1, <1>2 DEF Wait

(* A pair's room is there, and what named an opener that goes has moved.     *)
LEMMA PairOK ==
  ASSUME TablesOK(room, entry, offers), NEW p \in Players, NEW keep \in Rooms \cup {Nil},
         NEW avoid \in SUBSET (Players \cup Rooms),
         NEW o \in Candidates(p, keep, avoid), Pair(p, keep, avoid, o)
  PROVE  TablesOK(room', entry', offers')
<1>0. RoomsOK(room) /\ EntriesOK(entry, In(room)) /\ OffersOK(offers, In(room))
  BY DEF TablesOK
<1>1. o \in Players /\ o # p /\ entry[o] # Nil /\ entry[o].retained # Nil
  BY DEF Candidates
<1>2. Search(entry[o], In(room)) /\ entry[o] \in Entry
  BY <1>0, <1>1 DEF EntriesOK, Search
<1>3. PICK r \in Venue(p, keep, o) :
       LET gone == {x \in Rooms \ {r} :
                      /\ room[x].stage = "lobby"
                      /\ \/ x = keep /\ room[x].seats \subseteq {p}
                         \/ x = entry[o].retained /\ room[x].seats \subseteq {o}}
           here == IF room[r].stage = "unused" THEN NoRoom ELSE room[r]
           came == {p, o} \ here.seats
           seated == [here EXCEPT !.stage = "lobby", !.seats = {p, o},
                                  !.queued = @ \cup came, !.accepted = {}, !.clock = "on"]
       IN  /\ room' = RoomsWithout([room EXCEPT ![r] = seated], gone)
           /\ entry' = EntriesPaired(p, keep, avoid, o, r, gone)
           /\ offers' = OffersWithout([offers EXCEPT ![r] = IF @ = <<>> THEN <<o, p>> ELSE @], gone)
  BY DEF Pair
<1>4. PICK gone :
        gone = {x \in Rooms \ {r} :
                      /\ room[x].stage = "lobby"
                      /\ \/ x = keep /\ room[x].seats \subseteq {p}
                         \/ x = entry[o].retained /\ room[x].seats \subseteq {o}}
  OBVIOUS
<1>5. PICK here : here = IF room[r].stage = "unused" THEN NoRoom ELSE room[r]
  OBVIOUS
<1>6. PICK seated : seated = [here EXCEPT !.stage = "lobby", !.seats = {p, o},
                                !.queued = @ \cup ({p, o} \ here.seats), !.accepted = {}, !.clock = "on"]
  OBVIOUS
<1>7. /\ room' = RoomsWithout([room EXCEPT ![r] = seated], gone)
      /\ entry' = EntriesPaired(p, keep, avoid, o, r, gone)
      /\ offers' = OffersWithout([offers EXCEPT ![r] = IF @ = <<>> THEN <<o, p>> ELSE @], gone)
  BY <1>3, <1>4, <1>5, <1>6
<1>8. /\ r \in Rooms /\ r \notin gone /\ Nil \notin gone
      /\ room[r].stage = "unused" \/ room[r].seats = {p} \/ room[r].seats = {o}
  BY <1>1, <1>2, <1>4, MatchmakingAssumption DEF Venue, Alone, Search, In
<1>9. Tidy(here) /\ here.seats \subseteq {p, o}
  <2>1. Tidy(NoRoom) /\ NoRoom.seats = {}
    BY FewSeats DEF Tidy, NoRoom, Room
  <2>2. Tidy(room[r])
    BY <1>0, <1>8 DEF RoomsOK
  <2> QED
    BY <1>5, <1>8, <2>1, <2>2 DEF NoRoom
<1>10. Tidy(seated) /\ seated.stage = "lobby"
  <2>1. here \in Room /\ here.queued \subseteq {p, o} /\ here.queued \subseteq Players
    BY <1>9 DEF Tidy, Room
  <2>2. PICK q : q = here.queued \cup ({p, o} \ here.seats)
    OBVIOUS
  <2>3. q \subseteq {p, o} /\ q \in SUBSET Players
    BY <1>1, <2>1, <2>2
  <2>4. seated = [here EXCEPT !.stage = "lobby", !.seats = {p, o}, !.queued = q,
                              !.accepted = {}, !.clock = "on"]
    BY <1>6, <2>2
  <2>5. /\ seated \in Room /\ seated.stage = "lobby" /\ seated.seats = {p, o}
        /\ seated.queued = q /\ seated.accepted = {}
    BY <1>1, <2>1, <2>3, <2>4 DEF Room
  <2> QED
    BY <2>3, <2>5, FewSeats DEF Tidy
<1>11. PICK rm : rm = [room EXCEPT ![r] = seated]
  OBVIOUS
<1>12. RoomsOK(rm) /\ In(room) \subseteq In(rm) /\ r \in In(rm)
  BY <1>0, <1>8, <1>10, <1>11, OneRoom
<1>13. RoomsOK(room') /\ In(room') = In(rm) \ gone
  BY <1>7, <1>11, <1>12, DeletedTidy
<1>14. EntriesOK(entry', In(room'))
  <2>1. EntriesOK(entry, In(rm))
    BY <1>0, <1>12, MoreRooms
  <2>2. PICK e : e = [retained |-> r, offer |-> r, avoid |-> avoid]
    OBVIOUS
  <2>3. Search(e, In(rm))
    BY <1>12, <2>2, InRooms, NewSearch
  <2>4. PICK f : f = [entry[o] EXCEPT !.retained = r, !.offer = r]
    OBVIOUS
  <2>5. Search(f, In(rm))
    BY <1>2, <1>12, <2>4, InRooms, MovedSearch
  <2>6. PICK en : en = [entry EXCEPT ![p] = e]
    OBVIOUS
  <2>7. EntriesOK(en, In(rm)) /\ en[o] = entry[o]
    BY <1>1, <2>1, <2>3, <2>6, OneSearch DEF EntriesOK
  <2>8. EntriesOK([en EXCEPT ![o] = f], In(rm))
    BY <1>1, <2>5, <2>7, OneSearch
  <2>9. entry' = EntriesWithout([en EXCEPT ![o] = f], gone)
    BY <1>7, <2>2, <2>4, <2>6, <2>7 DEF EntriesPaired
  <2> QED
    BY <1>8, <1>13, <2>8, <2>9, EntriesCascade
<1>15. OffersOK(offers', In(room'))
  <2>1. OffersOK(offers, In(rm))
    BY <1>0, <1>12, MoreRooms
  <2>2. PICK of : of = [offers EXCEPT ![r] = IF @ = <<>> THEN <<o, p>> ELSE @]
    OBVIOUS
  <2>3. OffersOK(of, In(rm))
    <3>1. PICK pair : pair = IF offers[r] = <<>> THEN <<o, p>> ELSE offers[r]
      OBVIOUS
    <3>2. pair \in (Players \X Players) \cup {<<>>}
      BY <1>1, <1>8, <2>1, <3>1 DEF OffersOK
    <3>3. of = [offers EXCEPT ![r] = pair]
      BY <2>2, <3>1
    <3> QED
      BY <1>8, <1>12, <2>1, <3>2, <3>3 DEF OffersOK
  <2>4. offers' = OffersWithout(of, gone)
    BY <1>7, <2>2
  <2> QED
    BY <1>13, <2>3, <2>4, OffersCascade
<1> QED
  BY <1>13, <1>14, <1>15 DEF TablesOK

LEMMA QueueOK ==
  ASSUME TablesOK(room, entry, offers), NEW p \in Players, NEW keep \in Rooms \cup {Nil},
         NEW more \in SUBSET (Players \cup Rooms), Queue(p, keep, more)
  PROVE  TablesOK(room', entry', offers')
<1>1. CASE UNCHANGED db
  BY <1>1 DEF db
<1>2. CASE /\ keep # Nil => Exists(keep)
           /\ \/ Wait(p, keep, Avoided(p, more))
              \/ \E o \in Candidates(p, keep, Avoided(p, more)) : Pair(p, keep, Avoided(p, more), o)
  BY <1>2, AvoidedTyped, WaitOK, PairOK
<1> QED
  BY <1>1, <1>2 DEF Queue

-----------------------------------------------------------------------------
(* What handlers have yet to run                                             *)

(* SetToSeq of a finite set is a sequence over it. *)
LEMMA ListTyped ==
  ASSUME NEW T, NEW S, S \subseteq T, IsFiniteSet(S)
  PROVE  SetToSeq(S) \in Seq(T)
<1> DEFINE n == Cardinality(S)
<1>1. n \in Nat
  BY FS_CardinalityType
<1>2. PICK f : f \in Bijection(1 .. n, S)
  BY FS_CountingElements, <1>1, FS_NatBijection DEF ExistsBijection
<1>3. f \in [1 .. n -> S] /\ \A a, b \in 1 .. n : f[a] = f[b] => a = b
  BY <1>2 DEF Bijection, Injection, IsInjective
<1>4. f \in [1 .. n -> S] /\ IsInjective(f)
  BY <1>3 DEF IsInjective
<1>5. SetToSeq(S) \in [1 .. n -> S]
  BY <1>4 DEF SetToSeq
<1> QED
  BY <1>1, <1>5

(* A finite function has finitely many values. *)
LEMMA FewValues ==
  ASSUME NEW f, IsFiniteSet(DOMAIN f)
  PROVE  IsFiniteSet({f[x] : x \in DOMAIN f})
<1> DEFINE T == {f[x] : x \in DOMAIN f}
           g == [x \in DOMAIN f |-> f[x]]
<1>1. g \in Surjection(DOMAIN f, T)
  <2>1. g \in [DOMAIN f -> T] /\ \A x \in DOMAIN f : g[x] = f[x]
    OBVIOUS
  <2> QED
    BY <2>1 DEF Surjection
<1> HIDE DEF T, g
<1>2. IsFiniteSet(T)
  BY <1>1, FS_Surjection
<1> QED
  BY <1>2 DEF T

LEMMA TaskTyped ==
  ASSUME NEW do \in {"commit", "load", "end", "left", "resolve", "clean", "evict", "queue"}, NEW r \in Rooms,
         NEW who \in SUBSET Players, NEW rest \in SUBSET Players, NEW line \in Seq(Agains)
  PROVE  Task(do, r, who, rest, line) \in Tasks
  BY DEF Task, Tasks

LEMMA AgainTyped ==
  ASSUME NEW p \in Players, NEW keep \in Rooms \cup {Nil}, NEW more \in SUBSET (Players \cup Rooms)
  PROVE  Again(p, keep, more) \in Agains /\ <<Again(p, keep, more)>> \in Seq(Agains)
  BY DEF Again, Agains

LEMMA RequeueTyped ==
  ASSUME NEW keep \in Rooms, NEW S \in SUBSET Players
  PROVE  Requeue(keep, S, {}) \in Seq(Agains)
<1>1. CASE S = {}
  BY <1>1 DEF Requeue
<1>2. CASE S # {}
  <2>1. PICK p : p = CHOOSE q \in S : TRUE
    OBVIOUS
  <2>2. p \in Players
    BY <1>2, <2>1
  <2> QED
    BY <1>2, <2>1, <2>2, AgainTyped DEF Requeue
<1> QED
  BY <1>1, <1>2

LEMMA ThenTyped ==
  ASSUME work \subseteq Tasks, NEW t \in Tasks, Then(t, "queue")
  PROVE  work' \subseteq Tasks
<1>1. [t EXCEPT !.do = "queue"] \in Tasks
  BY DEF Tasks
<1> QED
  BY <1>1 DEF Then

-----------------------------------------------------------------------------
(* What players and clocks do                                                *)

OK == TablesOK(room, entry, offers) /\ GhostsOK /\ work \subseteq Tasks
Kept == TablesOK(room', entry', offers') /\ GhostsOK' /\ work' \subseteq Tasks

LEMMA Counted ==
  ASSUME GhostsOK, Move
  PROVE  moves' \in 0 .. MaxMoves /\ fails' \in 0 .. MaxFails
  BY MatchmakingAssumption DEF GhostsOK, Move

LEMMA Stopped ==
  ASSUME GhostsOK, NEW gone, Stop(gone)
  PROVE  seeking' \subseteq Players /\ spurned' \in [Players -> SUBSET Players]
  BY DEF GhostsOK, Stop

LEMMA QueueJoinOK ==
  ASSUME OK, NEW p \in Players, QueueJoin(p)
  PROVE  Kept
<1>1. TablesOK(room', entry', offers')
  <2>1. CASE Queue(p, Nil, {})
    BY <2>1, QueueOK DEF OK
  <2>2. CASE QueueFails(p, Nil, {})
    BY <2>2 DEF QueueFails, db, OK
  <2> QED
    BY <2>1, <2>2 DEF QueueJoin
<1>2. GhostsOK'
  BY Counted DEF QueueJoin, Seek, OK, GhostsOK
<1> QED
  BY <1>1, <1>2 DEF Kept, QueueJoin, OK

LEMMA QueueLeaveOK ==
  ASSUME OK, NEW p \in Players, QueueLeave(p)
  PROVE  Kept
<1>1. EntriesOK(entry', In(room))
  BY OneSearch DEF QueueLeave, OK, TablesOK
<1>2. GhostsOK'
  BY Counted, Stopped DEF QueueLeave, OK, GhostsOK
<1> QED
  BY <1>1, <1>2 DEF Kept, QueueLeave, OK, TablesOK

LEMMA AcceptOK ==
  ASSUME OK, NEW p \in Players, NEW r \in Rooms, Accept(p, r)
  PROVE  Kept
<1>0. RoomsOK(room) /\ Tidy(room[r]) /\ GhostsOK
  BY DEF OK, TablesOK, RoomsOK
<1>1. PICK x : x = [room[r] EXCEPT !.accepted = room[r].accepted \cup {p}]
  OBVIOUS
<1>2. Tidy(x) /\ x.stage = room[r].stage
  BY <1>0, <1>1 DEF Tidy, Room, Accept
<1>3. room' = [room EXCEPT ![r] = x]
  <2>1. room' = [room EXCEPT ![r].accepted = room[r].accepted \cup {p}]
    BY DEF Accept
  <2> QED
    BY <1>1, <2>1
<1>4. RoomsOK(room') /\ In(room) \subseteq In(room')
  BY <1>0, <1>2, <1>3, OneRoom DEF In
<1>5. EntriesOK(entry', In(room')) /\ OffersOK(offers', In(room'))
  BY <1>4, MoreRooms DEF OK, TablesOK, Accept
<1>6. GhostsOK'
  <2>1. seeking' \subseteq Players /\ spurned' \in [Players -> SUBSET Players]
    BY <1>0, Stopped DEF Accept, GhostsOK
  <2> QED
    BY <1>0, <2>1, Counted DEF Accept, GhostsOK
<1>7. work' \subseteq Tasks
  <2>1. room[r].seats \in SUBSET Players /\ {} \in SUBSET Players /\ <<>> \in Seq(Agains)
    BY <1>0 DEF Tidy, Room
  <2>2. Task("commit", r, room[r].seats, {}, <<>>) \in Tasks
    BY <2>1, TaskTyped
  <2> QED
    BY <2>2 DEF Accept, OK
<1> QED
  BY <1>4, <1>5, <1>6, <1>7 DEF Kept, TablesOK

LEMMA DeclineOK ==
  ASSUME OK, NEW p \in Players, NEW r \in Rooms, Decline(p, r)
  PROVE  Kept
<1>0. /\ RoomsOK(room) /\ Tidy(room[r]) /\ GhostsOK /\ work \subseteq Tasks
      /\ EntriesOK(entry, In(room)) /\ OffersOK(offers, In(room))
  BY DEF OK, TablesOK, RoomsOK
<1>1. r \in In(room)
  BY DEF Decline, Accepting, Matchmade, Full, In
<1>2. PICK other : other = room[r].seats \ {p}
  OBVIOUS
<1>3. other \in SUBSET Players
  BY <1>0, <1>2 DEF Tidy, Room
<1>4. PICK e : e = IF entry[p] # Nil /\ entry[p].offer = r
                   THEN [retained |-> Nil, offer |-> Nil, avoid |-> entry[p].avoid \cup {r} \cup other]
                   ELSE entry[p]
  OBVIOUS
<1> DEFINE after == [entry EXCEPT ![p] =
                       IF entry[p] # Nil /\ entry[p].offer = r
                       THEN [retained |-> Nil, offer |-> Nil,
                             avoid |-> entry[p].avoid \cup {r} \cup (room[r].seats \ {p})]
                       ELSE @]
<1>5. after = [entry EXCEPT ![p] = e]
  BY <1>2, <1>4
<1>6. /\ room' = [room EXCEPT ![r] = Without(r, {p})]
      /\ entry' = [q \in Players |-> IF after[q] # Nil /\ after[q].offer = r
                                     THEN [after[q] EXCEPT !.offer = Nil, !.retained = r]
                                     ELSE after[q]]
      /\ offers' = [offers EXCEPT ![r] = <<>>]
  BY DEF Decline, OffersDeclined
<1> HIDE DEF after
<1>7. RoomsOK(room') /\ In(room) \subseteq In(room')
  BY <1>0, <1>6, LeavesRoom
<1>8. EntriesOK(after, In(room))
  <2>1. CASE entry[p] # Nil /\ entry[p].offer = r
    <3>1. entry[p] \in Entry
      BY <1>0, <2>1 DEF EntriesOK, Search
    <3>2. entry[p].avoid \cup {r} \cup other \in SUBSET (Players \cup Rooms)
      BY <1>3, <3>1 DEF Entry
    <3>3. Search(e, In(room))
      BY <1>4, <2>1, <3>2, InRooms, NewSearch
    <3> QED
      BY <1>0, <1>5, <3>3, OneSearch
  <2>2. CASE ~(entry[p] # Nil /\ entry[p].offer = r)
    <3>1. e = Nil \/ Search(e, In(room))
      BY <1>0, <1>4, <2>2 DEF EntriesOK
    <3> QED
      BY <1>0, <1>5, <3>1, OneSearch
  <2> QED
    BY <2>1, <2>2
<1>9. EntriesOK(entry', In(room))
  <2>1. ASSUME NEW q \in Players
        PROVE  entry'[q] = Nil \/ Search(entry'[q], In(room))
    <3>1. CASE after[q] # Nil /\ after[q].offer = r
      <4>1. PICK f : f = after[q]
        OBVIOUS
      <4>2. f \in Entry
        BY <1>8, <3>1, <4>1 DEF EntriesOK, Search
      <4>3. /\ [f EXCEPT !.offer = Nil, !.retained = r] \in Entry
            /\ [f EXCEPT !.offer = Nil, !.retained = r].retained = r
            /\ [f EXCEPT !.offer = Nil, !.retained = r].offer = Nil
        BY <4>2 DEF Entry
      <4> QED
        BY <1>1, <1>6, <3>1, <4>1, <4>3 DEF Search
    <3>2. CASE ~(after[q] # Nil /\ after[q].offer = r)
      BY <1>6, <1>8, <3>2 DEF EntriesOK
    <3> QED
      BY <3>1, <3>2
  <2>2. entry' = [q \in Players |-> entry'[q]]
    BY <1>6
  <2> QED
    BY <2>1, <2>2 DEF EntriesOK, Search
<1>10. OffersOK(offers', In(room))
  BY <1>0, <1>6 DEF OffersOK
<1>11. GhostsOK'
  <2>1. seeking' \subseteq Players
    BY <1>0 DEF Decline, GhostsOK
  <2>2. spurned' \in [Players -> SUBSET Players]
    <3>1. PICK s : s = IF p \in seeking THEN spurned[p] \cup other ELSE {}
      OBVIOUS
    <3>2. spurned' = [spurned EXCEPT ![p] = s]
      BY <1>2, <3>1 DEF Decline
    <3>3. s \in SUBSET Players
      BY <1>0, <1>3, <3>1 DEF GhostsOK
    <3> QED
      BY <1>0, <3>2, <3>3 DEF GhostsOK
  <2>3. torn' \in BOOLEAN
    BY <1>0 DEF Decline, GhostsOK
  <2> QED
    BY <1>0, <2>1, <2>2, <2>3, Counted DEF Decline, GhostsOK
<1>12. work' \subseteq Tasks
  <2>1. PICK kept : kept = {s \in other : entry'[s] # Nil /\ entry'[s].retained = r}
    OBVIOUS
  <2>2. PICK on : on = Requeue(r, kept, {})
    OBVIOUS
  <2>3. PICK back : back = <<Again(p, Nil, {r})>>
    OBVIOUS
  <2>4. PICK line \in {on \o back, back \o on} :
          work' = work \cup {Task("queue", r, {}, {}, line)}
    BY <1>2, <2>1, <2>2, <2>3 DEF Decline
  <2>5. on \in Seq(Agains)
    BY <1>3, <2>1, <2>2, RequeueTyped
  <2>6. back \in Seq(Agains)
    BY <2>3, AgainTyped
  <2>7. line \in Seq(Agains)
    BY <2>4, <2>5, <2>6, ConcatProperties
  <2>8. {} \in SUBSET Players
    OBVIOUS
  <2>9. Task("queue", r, {}, {}, line) \in Tasks
    BY <2>7, <2>8, TaskTyped
  <2> QED
    BY <1>0, <2>4, <2>9
<1> QED
  BY <1>7, <1>9, <1>10, <1>11, <1>12, MoreRooms DEF Kept, TablesOK

LEMMA LeaveRoomOK ==
  ASSUME OK, NEW p \in Players, NEW r \in Rooms, LeaveRoom(p, r)
  PROVE  Kept
<1>0. /\ RoomsOK(room) /\ Tidy(room[r]) /\ GhostsOK /\ work \subseteq Tasks
      /\ EntriesOK(entry, In(room)) /\ OffersOK(offers, In(room))
  BY DEF OK, TablesOK, RoomsOK
<1>1. RoomsOK(room') /\ In(room) \subseteq In(room')
  BY <1>0, LeavesRoom DEF LeaveRoom
<1>2. EntriesOK(entry', In(room')) /\ OffersOK(offers', In(room'))
  BY <1>0, <1>1, MoreRooms DEF LeaveRoom
<1>3. PICK rest : rest = room[r].queued \ {p}
  OBVIOUS
<1>4. rest \in SUBSET Players /\ room[r].seats \ {p} \in SUBSET Players /\ {p} \in SUBSET Players
  BY <1>0, <1>3 DEF Tidy, Room
<1>5. work' \subseteq Tasks
  <2>1. Requeue(r, rest, {}) \in Seq(Agains)
    BY <1>4, RequeueTyped
  <2>2. Task("left", r, {p}, room[r].seats \ {p}, Requeue(r, rest, {})) \in Tasks
    BY <1>4, <2>1, TaskTyped
  <2> QED
    BY <1>0, <1>3, <2>2 DEF LeaveRoom
<1>6. GhostsOK'
  <2>1. seeking' \subseteq Players /\ torn' \in BOOLEAN
    BY <1>0, <1>3, <1>4 DEF LeaveRoom, GhostsOK
  <2>2. spurned' \in [Players -> SUBSET Players]
    BY <1>0 DEF LeaveRoom, GhostsOK
  <2> QED
    BY <1>0, <2>1, <2>2, Counted DEF LeaveRoom, GhostsOK
<1> QED
  BY <1>1, <1>2, <1>5, <1>6 DEF Kept, TablesOK

(* The second seat is taken. *)
LEMMA JoinOK ==
  ASSUME OK, NEW p \in Players, NEW r \in Rooms, Join(p, r)
  PROVE  Kept
<1>0. /\ RoomsOK(room) /\ Tidy(room[r]) /\ room[r] \in Room /\ GhostsOK /\ work \subseteq Tasks
      /\ EntriesOK(entry, In(room)) /\ OffersOK(offers, In(room))
  BY DEF OK, TablesOK, RoomsOK, Tidy
<1>1. PICK s : s = room[r].seats \cup {p}
  OBVIOUS
<1>2. s \in SUBSET Players /\ Cardinality(s) <= 2
  <2>1. IsFiniteSet(room[r].seats) /\ Cardinality(room[r].seats) = 1 /\ p \notin room[r].seats
    BY <1>0, MatchmakingAssumption, FS_Subset DEF Join, Room
  <2>2. Cardinality(s) = 1 + 1
    BY <1>1, <2>1, FS_AddElement
  <2>3. s \in SUBSET Players
    BY <1>0, <1>1 DEF Room
  <2> QED
    BY <2>2, <2>3
<1>3. PICK x : x = [room[r] EXCEPT !.seats = s, !.accepted = {}, !.clock = "off"]
  OBVIOUS
<1>4. Tidy(x) /\ x.stage = room[r].stage
  BY <1>0, <1>1, <1>2, <1>3 DEF Tidy, Room
<1>5. room' = [room EXCEPT ![r] = x]
  <2>1. room \in [Rooms -> Room]
    BY <1>0 DEF RoomsOK
  <2>2. room' = [room EXCEPT ![r].seats = @ \cup {p}, ![r].accepted = {}, ![r].clock = "off"]
    BY DEF Join
  <2> QED
    BY <1>1, <1>3, <2>1, <2>2
<1>6. RoomsOK(room') /\ In(room) \subseteq In(room')
  BY <1>0, <1>4, <1>5, OneRoom DEF In
<1>7. PICK ends : ends = {q \in Players : q = p \/ (entry[q] # Nil /\ entry[q].retained = r)}
  OBVIOUS
<1>8. \/ /\ entry' = [q \in Players |-> IF q \in ends THEN Nil ELSE entry[q]]
         /\ Stop(ends)
      \/ UNCHANGED <<entry, seeking, spurned>>
  BY <1>7 DEF Join
<1>9. EntriesOK(entry', In(room))
  BY <1>0, <1>8, SearchesEnd
<1>10. GhostsOK'
  <2>1. seeking' \subseteq Players /\ spurned' \in [Players -> SUBSET Players]
    BY <1>0, <1>8, Stopped DEF GhostsOK
  <2> QED
    BY <1>0, <2>1, Counted DEF Join, GhostsOK
<1> QED
  BY <1>0, <1>6, <1>9, <1>10, MoreRooms DEF Kept, TablesOK, Join

LEMMA StartOK ==
  ASSUME OK, NEW r \in Rooms, Start(r)
  PROVE  Kept
<1>0. /\ RoomsOK(room) /\ Tidy(room[r]) /\ room[r] \in Room /\ GhostsOK /\ room \in [Rooms -> Room]
      /\ EntriesOK(entry, In(room)) /\ OffersOK(offers, In(room))
  BY DEF OK, TablesOK, RoomsOK, Tidy
<1>1. PICK x : x = [room[r] EXCEPT !.stage = "playing", !.clock = "off"]
  OBVIOUS
<1>2. Tidy(x) /\ x.stage = "playing"
  BY <1>0, <1>1 DEF Tidy, Room
<1>3. room' = [room EXCEPT ![r] = x]
  BY <1>0, <1>1 DEF Start
<1>4. RoomsOK(room') /\ In(room) \subseteq In(room')
  BY <1>0, <1>2, <1>3, OneRoom
<1>5. GhostsOK'
  BY <1>0, Stopped, Counted DEF Start, GhostsOK
<1> QED
  BY <1>0, <1>4, <1>5, MoreRooms DEF Kept, OK, TablesOK, Start

(* A room goes, with what names it. *)
LEMMA DeleteOK ==
  ASSUME OK, NEW r \in Rooms, Delete(r)
  PROVE  Kept
<1>0. /\ RoomsOK(room) /\ GhostsOK /\ Nil \notin {r}
      /\ EntriesOK(entry, In(room)) /\ OffersOK(offers, In(room))
  BY MatchmakingAssumption DEF OK, TablesOK
<1>1. TablesOK(room', entry', offers')
  BY <1>0, DeletedTidy, EntriesCascade, OffersCascade DEF Delete, TablesOK
<1>2. GhostsOK'
  BY <1>0, Stopped, Counted DEF Delete, GhostsOK
<1> QED
  BY <1>1, <1>2 DEF Kept, OK, Delete

LEMMA DeadlineOK ==
  ASSUME OK, NEW r \in Rooms, Deadline(r)
  PROVE  Kept
<1>0. /\ RoomsOK(room) /\ Tidy(room[r]) /\ room[r] \in Room /\ GhostsOK /\ room \in [Rooms -> Room]
      /\ EntriesOK(entry, In(room)) /\ OffersOK(offers, In(room))
  BY DEF OK, TablesOK, RoomsOK, Tidy
<1>1. PICK x : x = [room[r] EXCEPT !.clock = "up"]
  OBVIOUS
<1>2. Tidy(x) /\ x.stage = room[r].stage
  BY <1>0, <1>1 DEF Tidy, Room
<1>3. room' = [room EXCEPT ![r] = x]
  BY <1>0, <1>1 DEF Deadline
<1>4. RoomsOK(room') /\ In(room) \subseteq In(room')
  BY <1>0, <1>2, <1>3, OneRoom DEF In
<1>5. GhostsOK'
  BY <1>0, Counted DEF Deadline, GhostsOK, ghost
<1> QED
  BY <1>0, <1>4, <1>5, MoreRooms DEF Kept, OK, TablesOK, Deadline

-----------------------------------------------------------------------------
(* The transactions that follow                                              *)

LEMMA QuietGhosts ==
  ASSUME GhostsOK, UNCHANGED <<ghost, moves, fails>>
  PROVE  GhostsOK'
  BY DEF GhostsOK, ghost

LEMMA TornGhosts ==
  ASSUME GhostsOK, UNCHANGED <<seeking, spurned, moves, fails>>, NEW r,
         torn' = (torn \/ Bereaves(r))
  PROVE  GhostsOK'
<1>1. torn' \in BOOLEAN
  BY DEF GhostsOK, Bereaves
<1> QED
  BY <1>1 DEF GhostsOK

LEMMA CommitOK ==
  ASSUME OK, NEW t \in Tasks, Commit(t)
  PROVE  Kept
<1>0. work \subseteq Tasks /\ t.room \in Rooms /\ OffersOK(offers, In(room))
  BY DEF OK, TablesOK, Tasks
<1>1. PICK who : who = Row(t.room)
  OBVIOUS
<1>2. offers[t.room] # <<>> => who \in SUBSET Players
  <2>1. PICK o : o = offers[t.room]
    OBVIOUS
  <2>2. ASSUME o \in Players \X Players PROVE \A i \in DOMAIN o : o[i] \in Players
    BY <2>2
  <2> QED
    BY <1>0, <1>1, <2>1, <2>2 DEF OffersOK, Row
<1>3. offers[t.room] # <<>> => Task("load", t.room, who, {}, <<>>) \in Tasks
  <2>1. {} \in SUBSET Players /\ <<>> \in Seq(Agains)
    OBVIOUS
  <2> QED
    BY <1>0, <1>2, <2>1, TaskTyped
<1>4. work' \subseteq Tasks
  BY <1>0, <1>1, <1>3 DEF Commit
<1> QED
  BY <1>4, QuietGhosts DEF Kept, OK, Commit, db

LEMMA CommitLoadOK ==
  ASSUME OK, NEW t \in Tasks, CommitLoad(t)
  PROVE  Kept
<1>1. [t EXCEPT !.do = "end"] \in Tasks
  BY DEF Tasks
<1>2. work' \subseteq Tasks
  BY <1>1 DEF CommitLoad, OK
<1> QED
  BY <1>2, QuietGhosts DEF Kept, OK, CommitLoad, db

LEMMA CommitEndOK ==
  ASSUME OK, NEW t \in Tasks, CommitEnd(t)
  PROVE  Kept
<1>0. /\ RoomsOK(room) /\ GhostsOK /\ work \subseteq Tasks /\ t.room \in Rooms
      /\ EntriesOK(entry, In(room)) /\ OffersOK(offers, In(room))
  BY DEF OK, TablesOK, Tasks
<1>1. room' = room /\ work' \subseteq Tasks
  BY <1>0 DEF CommitEnd
<1>2. EntriesOK(entry', In(room))
  BY <1>0, SearchesEnd DEF CommitEnd, EntriesCommitted
<1>3. OffersOK(offers', In(room))
  BY <1>0 DEF CommitEnd, OffersOK
<1>4. GhostsOK'
  <2>1. torn' \in BOOLEAN
    BY <1>0 DEF CommitEnd, GhostsOK, Bereaves, Strikes
  <2> QED
    BY <1>0, <2>1 DEF CommitEnd, GhostsOK
<1> QED
  BY <1>0, <1>1, <1>2, <1>3, <1>4 DEF Kept, TablesOK

LEMMA LookupOK ==
  ASSUME OK, NEW t \in Tasks, Lookup(t)
  PROVE  Kept
<1>0. /\ RoomsOK(room) /\ GhostsOK /\ work \subseteq Tasks /\ t.room \in Rooms
      /\ EntriesOK(entry, In(room)) /\ OffersOK(offers, In(room))
  BY DEF OK, TablesOK, Tasks
<1>1. room' = room /\ offers' = offers /\ GhostsOK'
  BY <1>0, TornGhosts DEF Lookup
<1>2. CASE t.who \cap Row(t.room) # {}
  <2>1. PICK other : other = Row(t.room) \ t.who
    OBVIOUS
  <2>2. other \in SUBSET Players
    <3>1. offers[t.room] # <<>>
      BY <1>2 DEF Row
    <3>2. PICK o : o = offers[t.room]
      OBVIOUS
    <3>3. o \in Players \X Players
      BY <1>0, <3>1, <3>2 DEF OffersOK
    <3>4. \A i \in DOMAIN o : o[i] \in Players
      BY <3>3
    <3> QED
      BY <2>1, <3>2, <3>4 DEF Row
  <2>3. PICK line : line = IF t.rest = other THEN Requeue(t.room, other, {}) ELSE <<>>
    OBVIOUS
  <2>4. line \in Seq(Agains)
    BY <1>0, <2>2, <2>3, RequeueTyped
  <2>5. [t EXCEPT !.do = "resolve", !.rest = other, !.line = line] \in Tasks
    BY <2>2, <2>4 DEF Tasks
  <2>6. /\ work' = (work \ {t}) \cup {[t EXCEPT !.do = "resolve", !.rest = other, !.line = line]}
        /\ entry' = entry
    BY <1>2, <2>1, <2>3 DEF Lookup
  <2> QED
    BY <1>0, <1>1, <2>5, <2>6 DEF Kept, TablesOK
<1>3. CASE ~(t.who \cap Row(t.room) # {})
  <2>1. work' \subseteq Tasks
    BY <1>0, <1>3, ThenTyped DEF Lookup
  <2>2. EntriesOK(entry', In(room))
    BY <1>0, <1>3, SearchesEnd DEF Lookup
  <2> QED
    BY <1>0, <1>1, <2>1, <2>2 DEF Kept, TablesOK
<1> QED
  BY <1>2, <1>3

(* Who is left waits in a room that is there. *)
LEMMA ReleaseOK ==
  ASSUME OK, NEW t \in Tasks, Release(t)
  PROVE  Kept
<1>0. /\ RoomsOK(room) /\ GhostsOK /\ work \subseteq Tasks /\ t.room \in Rooms
      /\ EntriesOK(entry, In(room)) /\ OffersOK(offers, In(room))
  BY DEF OK, TablesOK, Tasks
<1>1. room' = room /\ work' \subseteq Tasks /\ GhostsOK'
  BY <1>0, TornGhosts, ThenTyped DEF Release
<1>2. OffersOK(offers', In(room))
  BY <1>0 DEF Release, OffersOK
<1>3. PICK es : es = IF t.do = "clean" THEN EntriesOffOffer(entry, t.room) ELSE entry
  OBVIOUS
<1>4. EntriesOK(es, In(room)) /\ entry' = Released(es, t)
  BY <1>0, <1>3, OfferOver DEF Release
<1>5. ASSUME NEW p \in Players, p \in t.rest, es[p] # Nil
      PROVE  t.room \in In(room)
  <2>1. entry[p] # Nil
    BY <1>3, <1>5 DEF EntriesOffOffer
  <2> QED
    BY <1>0, <1>5, <2>1 DEF Release, ReleaseFails, Exists, In
<1>6. ASSUME NEW p \in Players
      PROVE  entry'[p] = Nil \/ Search(entry'[p], In(room))
  <2>1. PICK off : off = IF t.do = "resolve" THEN Nil ELSE es[p].offer
    OBVIOUS
  <2>2. entry'[p] = IF es[p] = Nil \/ p \in t.who THEN Nil
                    ELSE IF p \in t.rest THEN [es[p] EXCEPT !.retained = t.room, !.offer = off]
                    ELSE es[p]
    BY <1>4, <2>1 DEF Released
  <2>3. CASE es[p] # Nil /\ p \in t.rest
    <3>1. Search(es[p], In(room)) /\ es[p] \in Entry
      BY <1>4, <2>3 DEF EntriesOK, Search
    <3>2. off \in In(room) \cup {Nil}
      BY <2>1, <3>1 DEF Search
    <3>3. Search([es[p] EXCEPT !.retained = t.room, !.offer = off], In(room))
      BY <1>5, <2>3, <3>1, <3>2, InRooms, MovedSearch
    <3>4. PICK f : f = [es[p] EXCEPT !.retained = t.room, !.offer = off]
      OBVIOUS
    <3>5. entry'[p] = Nil \/ entry'[p] = f
      BY <2>2, <2>3, <3>4
    <3> QED
      BY <3>3, <3>4, <3>5
  <2>4. CASE ~(es[p] # Nil /\ p \in t.rest)
    BY <1>4, <2>2, <2>4 DEF EntriesOK
  <2> QED
    BY <2>3, <2>4
<1>7. EntriesOK(entry', In(room))
  <2>1. entry' = [p \in Players |-> entry'[p]]
    BY <1>4 DEF Released
  <2> QED
    BY <1>6, <2>1 DEF EntriesOK, Search
<1> QED
  BY <1>0, <1>1, <1>2, <1>7 DEF Kept, TablesOK

LEMMA SweepOK ==
  ASSUME OK, NEW r \in Rooms, Sweep(r)
  PROVE  Kept
<1>1. PICK known : known = {q \in Players : entry[q] # Nil /\ q \in Row(r)}
  OBVIOUS
<1>2. PICK again : again = {Again(q, r, entry[q].avoid \cap Rooms) : q \in known}
  OBVIOUS
<1>3. again \subseteq Agains
  <2>1. ASSUME NEW q \in known PROVE Again(q, r, entry[q].avoid \cap Rooms) \in Agains
    <3>1. q \in Players /\ entry[q].avoid \cap Rooms \in SUBSET (Players \cup Rooms)
      BY <1>1
    <3> QED
      BY <3>1, AgainTyped
  <2> QED
    BY <1>2, <2>1
<1>4. IsFiniteSet(again)
  <2>1. IsFiniteSet(known)
    BY <1>1, MatchmakingAssumption, FS_Subset
  <2>2. PICK f : f = [q \in known |-> Again(q, r, entry[q].avoid \cap Rooms)]
    OBVIOUS
  <2>3. again = {f[q] : q \in known} /\ DOMAIN f = known
    BY <1>2, <2>2
  <2> QED
    BY <2>1, <2>3, FewValues
<1>5. Task("evict", r, {}, {}, SetToSeq(again)) \in Tasks
  <2>1. SetToSeq(again) \in Seq(Agains) /\ {} \in SUBSET Players
    BY <1>3, <1>4, ListTyped
  <2> QED
    BY <2>1, TaskTyped
<1>6. work' = work \cup {Task("evict", r, {}, {}, SetToSeq(again))}
  BY <1>1, <1>2 DEF Sweep
<1> QED
  BY <1>5, <1>6, QuietGhosts DEF Kept, OK, Sweep, db

LEMMA SpareOK ==
  ASSUME OK, NEW t \in Tasks, Spare(t)
  PROVE  Kept
<1>0. /\ RoomsOK(room) /\ GhostsOK /\ work \subseteq Tasks /\ t.room \in Rooms
      /\ EntriesOK(entry, In(room)) /\ OffersOK(offers, In(room))
  BY DEF OK, TablesOK, Tasks
<1>1. Tidy(room[t.room]) /\ room[t.room] \in Room
  BY <1>0 DEF RoomsOK, Tidy
<1>2. PICK c : c = IF room[t.room].clock = "up" THEN "off" ELSE room[t.room].clock
  OBVIOUS
<1>3. PICK x : x = [room[t.room] EXCEPT !.clock = c]
  OBVIOUS
<1>4. Tidy(x) /\ x.stage = room[t.room].stage
  BY <1>1, <1>2, <1>3 DEF Tidy, Room
<1>5. room' = [room EXCEPT ![t.room] = x]
  BY <1>2, <1>3 DEF Spare
<1>6. RoomsOK(room') /\ In(room) \subseteq In(room')
  BY <1>0, <1>4, <1>5, OneRoom DEF In
<1> QED
  BY <1>0, <1>6, MoreRooms, QuietGhosts DEF Kept, TablesOK, Spare

LEMMA QueueAgainOK ==
  ASSUME OK, NEW t \in Tasks, QueueAgain(t)
  PROVE  Kept
<1>1. t.line \in Seq(Agains) /\ t.line # <<>> /\ work \subseteq Tasks /\ GhostsOK
  BY DEF OK, QueueAgain, Tasks
<1>2. Head(t.line) \in Agains /\ Tail(t.line) \in Seq(Agains)
  BY <1>1, HeadTailProperties
<1>3. TablesOK(room', entry', offers')
  <2>1. PICK a \in Agains : a = Head(t.line)
    BY <1>2
  <2>2. Queue(a.who, a.keep, a.more)
    BY <2>1 DEF QueueAgain
  <2>3. a.who \in Players /\ a.keep \in Rooms \cup {Nil} /\ a.more \in SUBSET (Players \cup Rooms)
    BY DEF Agains
  <2> QED
    BY <2>2, <2>3, QueueOK DEF OK
<1>4. [t EXCEPT !.line = Tail(@)] \in Tasks
  BY <1>2 DEF Tasks
<1>5. work' \subseteq Tasks
  BY <1>1, <1>4 DEF QueueAgain
<1>6. GhostsOK'
  BY <1>1, QuietGhosts DEF QueueAgain
<1> QED
  BY <1>3, <1>5, <1>6 DEF Kept

LEMMA EndedOK ==
  ASSUME OK, NEW t \in Tasks, Break(t) \/ Lose(t)
  PROVE  Kept
<1>1. room' = room /\ entry' = entry /\ offers' = offers /\ work' \subseteq Tasks
  BY DEF Break, Lose, db, OK
<1>2. GhostsOK'
  <2>1. CASE Break(t)
    BY <2>1 DEF Break, OK, GhostsOK
  <2>2. CASE Lose(t)
    <3>1. fails' \in 0 .. MaxFails
      BY <2>2, MatchmakingAssumption DEF Lose, OK, GhostsOK
    <3> QED
      BY <2>2, <3>1 DEF Lose, ghost, OK, GhostsOK
  <2> QED
    BY <2>1, <2>2
<1> QED
  BY <1>1, <1>2 DEF Kept, OK

LEMMA EvictOK ==
  ASSUME OK, NEW t \in Tasks, NEW out \in SUBSET Players, Evict(t, out)
  PROVE  Kept
<1>0. /\ RoomsOK(room) /\ GhostsOK /\ work \subseteq Tasks /\ t.room \in Rooms
      /\ EntriesOK(entry, In(room)) /\ OffersOK(offers, In(room)) /\ t.line \in Seq(Agains)
  BY DEF OK, TablesOK, Tasks
<1>1. Tidy(room[t.room]) /\ room[t.room] \in Room
  BY <1>0 DEF RoomsOK, Tidy
<1>2. RoomsOK(room') /\ In(room) \subseteq In(room')
  <2>1. CASE room' = [room EXCEPT ![t.room] = Without(t.room, out)]
    BY <1>0, <2>1, LeavesRoom
  <2>2. CASE room' = [room EXCEPT ![t.room].clock = "on"]
    <3>1. PICK x : x = [room[t.room] EXCEPT !.clock = "on"]
      OBVIOUS
    <3>2. Tidy(x) /\ x.stage = room[t.room].stage
      BY <1>1, <3>1 DEF Tidy, Room
    <3>3. room' = [room EXCEPT ![t.room] = x]
      BY <2>2, <3>1
    <3> QED
      BY <1>0, <3>2, <3>3, OneRoom DEF In
  <2> QED
    BY <2>1, <2>2 DEF Evict
<1>3. PICK rest : rest = IF Cardinality(out) = 1 THEN room[t.room].seats \ out ELSE {}
  OBVIOUS
<1>4. rest \in SUBSET Players
  BY <1>1, <1>3 DEF Room
<1>5. PICK kept : kept = SetToSeq({a \in Range(t.line) : a.who \in rest})
  OBVIOUS
<1>6. kept \in Seq(Agains)
  <2>1. PICK S : S = {a \in Range(t.line) : a.who \in rest}
    OBVIOUS
  <2>2. S \subseteq Agains
    <3>1. \A i \in DOMAIN t.line : t.line[i] \in Agains
      BY <1>0
    <3> QED
      BY <2>1, <3>1 DEF Range
  <2>3. IsFiniteSet(S)
    <3>1. DOMAIN t.line = 1 .. Len(t.line) /\ Len(t.line) \in Nat
      BY <1>0, LenProperties
    <3>2. IsFiniteSet(DOMAIN t.line)
      BY <3>1, FS_Interval
    <3>3. IsFiniteSet({t.line[i] : i \in DOMAIN t.line})
      BY <3>2, FewValues
    <3>4. S \subseteq {t.line[i] : i \in DOMAIN t.line}
      BY <2>1 DEF Range
    <3> QED
      BY <3>3, <3>4, FS_Subset
  <2> QED
    BY <1>5, <2>1, <2>2, <2>3, ListTyped
<1>7. PICK next : next = IF t.line = <<>> THEN Task("queue", t.room, {}, {}, Requeue(t.room, rest, {}))
                         ELSE Task("clean", t.room, out, rest, kept)
  OBVIOUS
<1>8. next \in Tasks
  <2>1. Requeue(t.room, rest, {}) \in Seq(Agains) /\ {} \in SUBSET Players
    BY <1>0, <1>4, RequeueTyped
  <2>2. Task("queue", t.room, {}, {}, Requeue(t.room, rest, {})) \in Tasks
    BY <1>0, <2>1, TaskTyped
  <2>3. Task("clean", t.room, out, rest, kept) \in Tasks
    BY <1>0, <1>4, <1>6, TaskTyped
  <2> QED
    BY <1>7, <2>2, <2>3
<1>9. work' \subseteq Tasks
  <2>1. work' = (work \ {t}) \cup
              IF out = {} \/ (next.do = "queue" /\ next.line = <<>>) THEN {} ELSE {next}
    BY <1>3, <1>5, <1>7 DEF Evict
  <2> QED
    BY <1>0, <1>8, <2>1
<1>10. GhostsOK'
  <2>1. seeking' \subseteq Players
    <3>1. seeking' \subseteq (seeking \ out) \cup rest
      BY <1>3 DEF Evict
    <3> QED
      BY <1>0, <1>4, <3>1 DEF GhostsOK
  <2>2. spurned' \in [Players -> SUBSET Players] /\ torn' \in BOOLEAN
    BY <1>0 DEF Evict, GhostsOK
  <2> QED
    BY <1>0, <2>1, <2>2 DEF Evict, GhostsOK
<1> QED
  BY <1>0, <1>2, <1>9, <1>10, MoreRooms DEF Kept, TablesOK, Evict

-----------------------------------------------------------------------------
(* One match at a time                                                       *)
(*                                                                           *)
(* What holds while no handler is lost or overtaken.  Three tables say who   *)
(* is matched, and handlers that are under way what will be done about it:   *)
(* the parts below say how far the four agree.                               *)

Lobby(r) == room[r].stage = "lobby"
Paired(r) == Cardinality(room[r].seats) = 2 /\ room[r].queued = room[r].seats

(* Handlers that may still end the searches of who accepted. *)
Closing == {t \in work : t.do \in {"commit", "load", "end"}}

(* Handlers that still have to end the search of who left. *)
Leaving == {t \in work : t.do \in {"left", "resolve", "clean"}}

(* A match marks the searches of its players, an offer has both searches,    *)
(* and a marked search waits in that room and is in the offer's row.         *)
MarksAgree(r) ==
  /\ Matchmade(r) => \A p \in room[r].seats : entry[p] # Nil => entry[p].offer = r
  /\ Matchmade(r) /\ offers[r] # <<>> => \A p \in room[r].seats : entry[p] # Nil
  /\ \A p \in Players : entry[p] # Nil /\ entry[p].offer = r =>
       p \in Row(r) /\ entry[p].retained = r

(* An offer's row is of the two who sit there, unless one just left.         *)
RowAgrees(r) ==
  /\ Lobby(r) /\ offers[r] # <<>> =>
       \/ Paired(r) /\ Row(r) = room[r].seats
       \/ \E t \in Leaving : t.room = r
  /\ Accepting(r) => offers[r] # <<>>

(* Who waits in a room came there by the queue, and is alone or matched; who *)
(* does not sit where he waits just left.                                    *)
SeatsAgree(r) ==
  Lobby(r) =>
    /\ \A p \in room[r].seats : entry[p] # Nil /\ entry[p].retained = r =>
         p \in room[r].queued /\ (Full(r) => Matchmade(r))
    /\ \A p \in Players \ room[r].seats : entry[p] # Nil /\ entry[p].retained = r =>
         \/ room[r].seats = {}
         \/ \E t \in Leaving : t.room = r /\ p \in t.who /\ p \in Row(r)

(* A deadline is of a match, and so is an acceptance; when both accepted, a  *)
(* handler is about to end the offer.                                        *)
ClockAgrees(r) ==
  /\ room[r].clock # "off" <=> Lobby(r) /\ Paired(r)
  /\ Exists(r) /\ room[r].accepted # {} => Paired(r)
  /\ Lobby(r) /\ Paired(r) /\ room[r].accepted = room[r].seats /\ offers[r] # <<>> =>
       \E t \in Closing : t.room = r

RoomWell(r) == MarksAgree(r) /\ RowAgrees(r) /\ SeatsAgree(r) /\ ClockAgrees(r)

(* Nobody is matched twice. *)
OneMatch ==
  \A r, q \in Rooms : Matchmade(r) /\ Matchmade(q) /\ room[r].seats \cap room[q].seats # {} => r = q

(* Rooms a handler names have been there. *)
RoomsUsed(t) ==
  /\ room[t.room].stage # "unused"
  /\ \A i \in DOMAIN t.line : t.line[i].keep # Nil => room[t.line[i].keep].stage # "unused"

(* Who is to be queued again for a room sits there and came by the queue.    *)
LineWell(t) ==
  \A i \in DOMAIN t.line :
    t.line[i].keep # Nil /\ Lobby(t.line[i].keep) => t.line[i].who \in room[t.line[i].keep].queued

(* Handlers that will change the searches of who is left: those of an offer. *)
Marked(t) == t.do # "left" \/ offers[t.room] # <<>>

(* A seat was given up: the room has no match, and whoever of the offer is   *)
(* left is the handler's.                                                    *)
LeftWell(t) ==
  /\ room[t.room].queued \subseteq t.rest
  /\ ~Paired(t.room)
  /\ Marked(t) => /\ t.rest \subseteq room[t.room].queued
                  /\ \A p \in t.rest : entry[p] # Nil => entry[p].offer = t.room
  /\ offers[t.room] # <<>> =>
       /\ Row(t.room) \cap t.who # {} /\ Row(t.room) \subseteq t.who \cup t.rest
       /\ t.rest \subseteq Row(t.room) /\ t.rest \cap t.who = {}
       /\ t.rest = {} => room[t.room].seats = {}
  /\ \A p \in room[t.room].queued :
       entry[p] # Nil /\ entry[p].retained = t.room => entry[p].offer = t.room

(* Whoever is left is no other handler's. *)
Apart(t, u) ==
  /\ \A i \in DOMAIN u.line : u.line[i].who \in room[t.room].queued => u.line[i].keep # t.room
  /\ Marked(t) => t.rest \cap InLine(u) = {}
  /\ Marked(t) /\ u \in Leaving /\ Marked(u) /\ Exists(u.room) => t.rest \cap u.rest = {}
  /\ u \in Leaving /\ u.room = t.room => room[t.room].queued = {}

(* The sweep queues again only for its room, and knows when it had an offer. *)
SweepWell(t) ==
  /\ \A i \in DOMAIN t.line : t.line[i].keep = t.room
  /\ t.line = <<>> /\ room[t.room].clock = "up" => offers[t.room] = <<>>

HandlersWell ==
  /\ \A t \in work : RoomsUsed(t) /\ (t.do = "evict" => SweepWell(t))
  /\ \A t \in Handlers : LineWell(t)
  /\ \A t \in Leaving : Exists(t.room) => LeftWell(t) /\ \A u \in Handlers \ {t} : Apart(t, u)

Steady == (\A r \in Rooms : RoomWell(r)) /\ OneMatch /\ HandlersWell

-----------------------------------------------------------------------------
(* Facts about the parts                                                     *)

LEMMA RowOf ==
  ASSUME IInv, NEW r \in Rooms
  PROVE  /\ offers[r] = <<>> => Row(r) = {}
         /\ offers[r] # <<>> => /\ Row(r) = {offers[r][1], offers[r][2]}
                                /\ offers[r][1] \in Players /\ offers[r][2] \in Players
                                /\ Row(r) = {offers[r][i] : i \in 1 .. 2} /\ Exists(r)
<1>1. offers[r] \in (Players \X Players) \cup {<<>>} /\ (offers[r] # <<>> => Exists(r))
  BY DEF IInv, TypeOK
<1>2. CASE offers[r] = <<>>
  BY <1>2 DEF Row
<1>3. ASSUME NEW pair \in Players \X Players, offers[r] = pair
      PROVE  /\ Row(r) = {offers[r][1], offers[r][2]}
             /\ offers[r][1] \in Players /\ offers[r][2] \in Players
             /\ Row(r) = {offers[r][i] : i \in 1 .. 2}
  <2>1. DOMAIN pair = 1 .. 2
    OBVIOUS
  <2> QED
    BY <1>3, <2>1 DEF Row
<1> QED
  BY <1>1, <1>2, <1>3

(* The shape of a room and of what names it. *)
LEMMA Shape ==
  ASSUME IInv, NEW r \in Rooms
  PROVE  /\ room[r].seats \subseteq Players /\ room[r].queued \subseteq room[r].seats
         /\ room[r].accepted \subseteq room[r].seats
         /\ IsFiniteSet(room[r].seats) /\ Cardinality(room[r].seats) \in 0 .. 2
         /\ offers[r] # <<>> => Exists(r)
         /\ \A p \in Players : entry[p] # Nil /\ (entry[p].retained = r \/ entry[p].offer = r) => Exists(r)
<1>1. /\ room[r] \in Room /\ Cardinality(room[r].seats) <= 2
      /\ room[r].queued \subseteq room[r].seats /\ room[r].accepted \subseteq room[r].seats
      /\ offers[r] # <<>> => Exists(r)
  BY DEF IInv, TypeOK
<1>2. IsFiniteSet(room[r].seats) /\ room[r].seats \subseteq Players
  BY <1>1, MatchmakingAssumption, FS_Subset DEF Room
<1>3. Cardinality(room[r].seats) \in 0 .. 2
  BY <1>1, <1>2, FS_CardinalityType
<1>4. ASSUME NEW p \in Players, entry[p] # Nil, entry[p].retained = r \/ entry[p].offer = r
      PROVE  Exists(r)
  BY <1>4, MatchmakingAssumption DEF IInv, TypeOK
<1> QED
  BY <1>1, <1>2, <1>3, <1>4

(* Of two seats one is given up. *)
LEMMA OneLess ==
  ASSUME NEW S, IsFiniteSet(S), Cardinality(S) \in 0 .. 2, NEW T, T \subseteq S
  PROVE  /\ T # S => Cardinality(T) # 2
         /\ Cardinality(S) = 2 => S # {}
         /\ Cardinality(S) = 2 /\ T # {} /\ T # S => Cardinality(T) = 1
         /\ T # {} /\ Cardinality(S) = 1 => T = S
         /\ \A p \in S : Cardinality(S) = 2 => S \ {p} # {}
<1>1. /\ IsFiniteSet(T) /\ Cardinality(T) <= Cardinality(S) /\ (Cardinality(S) = Cardinality(T) => S = T)
      /\ Cardinality(T) \in Nat /\ Cardinality(S) \in Nat
  BY FS_Subset, FS_CardinalityType
<1>2. /\ Cardinality(S) = 0 <=> S = {}
      /\ Cardinality(T) = 0 <=> T = {}
  BY <1>1, FS_EmptySet
<1>3. ASSUME NEW p \in S, Cardinality(S) = 2 PROVE S \ {p} # {}
  <2>1. Cardinality(S \ {p}) = 1 /\ IsFiniteSet(S \ {p})
    BY <1>3, FS_RemoveElement
  <2> QED
    BY <2>1, FS_EmptySet
<1> QED
  BY <1>1, <1>2, <1>3

LEMMA Two == ASSUME NEW p, NEW o, p # o PROVE Cardinality({p, o}) = 2 /\ IsFiniteSet({p, o})
<1>1. IsFiniteSet({p}) /\ Cardinality({p}) = 1
  BY FS_Singleton
<1>2. Cardinality({p} \cup {o}) = 1 + 1 /\ IsFiniteSet({p} \cup {o})
  BY <1>1, FS_AddElement
<1>3. {p} \cup {o} = {p, o}
  OBVIOUS
<1> QED
  BY <1>2, <1>3

-----------------------------------------------------------------------------
(* What a step leaves alone                                                  *)

(* For room q a step ends searches, or moves them where they are not q's:    *)
(* and none that q's offer has.                                              *)
SearchesKeep(q) ==
  /\ \A p \in Players : entry'[p] # Nil =>
       \/ entry'[p] = entry[p]
       \/ /\ entry'[p].retained # q /\ entry'[p].offer # q
          /\ Matchmade(q) => p \notin room[q].seats
  /\ Matchmade(q) /\ offers[q] # <<>> =>
       \A p \in room[q].seats : entry[p] # Nil => entry'[p] # Nil

LEMMA RoomFrame ==
  ASSUME IInv, NEW q \in Rooms, RoomWell(q), room'[q] = room[q], offers'[q] = offers[q], SearchesKeep(q),
         \A t \in Leaving : t.room = q => \E u \in Leaving' : u.room = q /\ u.who = t.who,
         \A t \in Closing : t.room = q => t \in Closing'
  PROVE  RoomWell(q)'
<1>0. /\ Matchmade(q)' <=> Matchmade(q)
      /\ Accepting(q)' <=> Accepting(q)
      /\ Full(q)' <=> Full(q)
      /\ Lobby(q)' <=> Lobby(q)
      /\ Paired(q)' <=> Paired(q)
      /\ Exists(q)' <=> Exists(q)
      /\ Row(q)' = Row(q)
  BY DEF Matchmade, Accepting, Full, Lobby, Paired, Exists, Row
<1>s. room[q].seats \subseteq Players
  BY Shape
<1>1. MarksAgree(q)'
  BY <1>0, <1>s DEF RoomWell, MarksAgree, SearchesKeep
<1>2. RowAgrees(q)'
  BY <1>0 DEF RoomWell, RowAgrees
<1>3. SeatsAgree(q)'
  <2> SUFFICES ASSUME Lobby(q) PROVE
    /\ \A p \in room[q].seats : entry'[p] # Nil /\ entry'[p].retained = q =>
         p \in room[q].queued /\ (Full(q) => Matchmade(q))
    /\ \A p \in Players \ room[q].seats : entry'[p] # Nil /\ entry'[p].retained = q =>
         \/ room[q].seats = {}
         \/ \E t \in Leaving' : t.room = q /\ p \in t.who /\ p \in Row(q)
    BY <1>0 DEF SeatsAgree
  <2>1. \A p \in Players : entry'[p] # Nil /\ entry'[p].retained = q => entry'[p] = entry[p]
    BY DEF SearchesKeep
  <2>2. ASSUME NEW p \in room[q].seats, entry'[p] # Nil, entry'[p].retained = q
        PROVE  p \in room[q].queued /\ (Full(q) => Matchmade(q))
    BY <1>s, <2>1, <2>2 DEF RoomWell, SeatsAgree
  <2>3. ASSUME NEW p \in Players \ room[q].seats, entry'[p] # Nil, entry'[p].retained = q, room[q].seats # {}
        PROVE  \E t \in Leaving' : t.room = q /\ p \in t.who /\ p \in Row(q)
    <3>1. PICK t \in Leaving : t.room = q /\ p \in t.who /\ p \in Row(q)
      BY <2>1, <2>3 DEF RoomWell, SeatsAgree
    <3> QED
      BY <3>1
  <2> QED
    BY <2>2, <2>3
<1>4. ClockAgrees(q)'
  BY <1>0 DEF RoomWell, ClockAgrees
<1> QED
  BY <1>1, <1>2, <1>3, <1>4 DEF RoomWell

(* A room without a game to come has nothing to agree with. *)
LEMMA GoneFrame ==
  ASSUME NEW q \in Rooms, room'[q].stage \notin {"lobby", "playing"}, room'[q].clock = "off",
         \A p \in Players : entry'[p] # Nil => entry'[p].offer # q
  PROVE  RoomWell(q)'
<1>1. ~Lobby(q)' /\ ~Exists(q)' /\ ~Matchmade(q)' /\ ~Accepting(q)'
  BY DEF Lobby, Exists, Matchmade, Accepting, Full
<1>2. MarksAgree(q)' /\ RowAgrees(q)' /\ SeatsAgree(q)'
  BY <1>1 DEF MarksAgree, RowAgrees, SeatsAgree
<1>3. ClockAgrees(q)'
  BY <1>1 DEF ClockAgrees
<1> QED
  BY <1>2, <1>3 DEF RoomWell

LEMMA LeftFrame ==
  ASSUME NEW t, LeftWell(t), room'[t.room] = room[t.room], offers'[t.room] = offers[t.room],
         IInv, t.room \in Rooms, t.rest \subseteq Players,
         \A p \in Players : entry'[p] # Nil =>
           \/ entry'[p] = entry[p]
           \/ /\ p \in room[t.room].queued => entry'[p].retained # t.room
              /\ Marked(t) => p \notin t.rest
  PROVE  LeftWell(t)'
<1>0. Marked(t)' <=> Marked(t)
  BY DEF Marked
<1>1. Paired(t.room)' <=> Paired(t.room)
  BY DEF Paired
<1>2. Row(t.room)' = Row(t.room)
  BY DEF Row
<1>3. room[t.room].queued \subseteq Players
  BY Shape
<1> QED
  BY <1>0, <1>1, <1>2, <1>3 DEF LeftWell

LEMMA TaskTypes ==
  ASSUME NEW t \in Tasks
  PROVE  /\ t.room \in Rooms /\ t.who \subseteq Players /\ t.rest \subseteq Players
         /\ t.line \in Seq(Agains)
         /\ \A i \in DOMAIN t.line : t.line[i].keep \in Rooms \cup {Nil} /\ t.line[i].who \in Players
<1>1. /\ t.room \in Rooms /\ t.who \subseteq Players /\ t.rest \subseteq Players
      /\ t.line \in Seq(Agains)
  BY DEF Tasks
<1>2. \A i \in DOMAIN t.line : t.line[i] \in Agains
  BY <1>1
<1> QED
  BY <1>1, <1>2 DEF Agains

LEMMA LineFrame ==
  ASSUME NEW t \in Tasks, RoomsUsed(t), LineWell(t),
         \A q \in Rooms : Lobby(q)' =>
           \/ room[q].stage = "unused"
           \/ Lobby(q) /\ \A p \in InLine(t) : p \in room[q].queued => p \in room'[q].queued
  PROVE  LineWell(t)'
<1> SUFFICES ASSUME NEW i \in DOMAIN t.line, t.line[i].keep # Nil, Lobby(t.line[i].keep)'
             PROVE  t.line[i].who \in room'[t.line[i].keep].queued
  BY DEF LineWell
<1>1. t.line[i].keep \in Rooms /\ t.line[i].who \in InLine(t)
  BY TaskTypes DEF InLine
<1>2. room[t.line[i].keep].stage # "unused"
  BY DEF RoomsUsed
<1>3. Lobby(t.line[i].keep) =>  t.line[i].who \in room[t.line[i].keep].queued
  BY DEF LineWell
<1> QED
  BY <1>1, <1>2, <1>3

(* A handler that waits is as well off as before. *)
TaskKeeps(t) ==
  /\ t.do = "evict" => SweepWell(t)'
  /\ t \in Handlers => LineWell(t)'
  /\ t \in Leaving /\ Exists(t.room)' =>
       /\ Exists(t.room) /\ LeftWell(t)' /\ (Marked(t)' => Marked(t))
       /\ room'[t.room].queued \subseteq room[t.room].queued

(* One handler is new. *)
LEMMA HandlersStep ==
  ASSUME IInv, IInv', HandlersWell, NEW n, work' \subseteq work \cup {n},
         \A q \in Rooms : room'[q].stage = "unused" => room[q].stage = "unused",
         \A t \in work : t \in work' => TaskKeeps(t),
         n \in work' \ work =>
           /\ RoomsUsed(n)' /\ (n.do = "evict" => SweepWell(n)')
           /\ n \in Handlers' => LineWell(n)'
           /\ n \in Leaving' /\ Exists(n.room)' =>
                LeftWell(n)' /\ \A u \in Handlers : u \in Handlers' => Apart(n, u)'
           /\ n \in Handlers' => \A t \in Leaving : t \in Leaving' /\ Exists(t.room)' => Apart(t, n)'
  PROVE  HandlersWell'
<1>1. ASSUME NEW t \in work' PROVE RoomsUsed(t)' /\ (t.do = "evict" => SweepWell(t)')
  <2>1. CASE t \in work
    <3>1. t \in Tasks /\ RoomsUsed(t)
      BY <2>1 DEF IInv, HandlersWell
    <3>2. RoomsUsed(t)'
      BY <3>1, TaskTypes DEF RoomsUsed
    <3> QED
      BY <2>1, <3>2 DEF TaskKeeps
  <2>2. CASE t \notin work
    BY <2>2
  <2> QED
    BY <2>1, <2>2
<1>2. ASSUME NEW t \in Handlers' PROVE LineWell(t)'
  <2>1. CASE t \in work
    BY <1>2, <2>1 DEF TaskKeeps, Handlers
  <2>2. CASE t \notin work
    BY <1>2, <2>2 DEF Handlers
  <2> QED
    BY <2>1, <2>2
<1>3. ASSUME NEW t \in Leaving', Exists(t.room)'
      PROVE  LeftWell(t)'
  <2>1. CASE t \in work
    BY <1>3, <2>1 DEF TaskKeeps, Leaving
  <2>2. CASE t \notin work
    BY <1>3, <2>2 DEF Leaving
  <2> QED
    BY <2>1, <2>2
<1>4. ASSUME NEW t \in Leaving', Exists(t.room)', NEW u \in Handlers' \ {t}
      PROVE  Apart(t, u)'
  <2>0. t \in work' /\ u \in work'
    BY <1>4 DEF Leaving, Handlers
  <2>1. CASE t \in work /\ u \in work
    <3>1. t \in Leaving /\ u \in Handlers \ {t} /\ t.room \in Rooms /\ u.room \in Rooms
      BY <1>4, <2>1, TaskTypes DEF Leaving, Handlers, IInv
    <3>2. /\ Exists(t.room) /\ (Marked(t)' => Marked(t))
          /\ room'[t.room].queued \subseteq room[t.room].queued
      BY <1>4, <2>0, <2>1, <3>1 DEF TaskKeeps
    <3>3. Apart(t, u)
      BY <3>1, <3>2 DEF HandlersWell
    <3>4. u \in Leaving /\ Exists(u.room)' => Exists(u.room) /\ (Marked(u)' => Marked(u))
      BY <2>0, <2>1 DEF TaskKeeps
    <3>5. u \in Leaving' => u \in Leaving
      BY <2>1 DEF Leaving
    <3> QED
      BY <3>2, <3>3, <3>4, <3>5 DEF Apart, InLine
  <2>2. CASE t \notin work
    <3>1. t = n /\ u \in work /\ u \in Handlers
      BY <1>4, <2>0, <2>2 DEF Handlers
    <3> QED
      BY <1>4, <2>0, <2>2, <3>1
  <2>3. CASE t \in work /\ u \notin work
    <3>1. u = n /\ t \in Leaving
      BY <1>4, <2>0, <2>3 DEF Leaving
    <3> QED
      BY <1>4, <2>0, <2>3, <3>1
  <2> QED
    BY <2>1, <2>2, <2>3
<1> QED
  BY <1>1, <1>2, <1>3, <1>4 DEF HandlersWell

(* Rooms keep their seats, or go; offers and searches end, but not of who is *)
(* left where somebody left.                                                 *)
LEMMA TaskFrame ==
  ASSUME IInv, HandlersWell, NEW t \in work,
         \A q \in Rooms : Lobby(q)' =>
           \/ room[q].stage = "unused"
           \/ Lobby(q) /\ \A p \in InLine(t) : p \in room[q].queued => p \in room'[q].queued,
         t.do = "evict" =>
           /\ t.line = <<>> /\ room'[t.room].clock = "up" => room[t.room].clock = "up"
           /\ offers[t.room] = <<>> => offers'[t.room] = <<>>,
         t \in Leaving /\ Exists(t.room)' =>
           /\ room'[t.room].seats = room[t.room].seats
           /\ room'[t.room].queued = room[t.room].queued
           /\ Exists(t.room) /\ offers'[t.room] = offers[t.room],
         t \in Leaving /\ Exists(t.room)' =>
           \A p \in Players : entry'[p] # Nil =>
             \/ entry'[p] = entry[p]
             \/ /\ p \in room[t.room].queued => entry'[p].retained # t.room
                /\ Marked(t) => p \notin t.rest
  PROVE  TaskKeeps(t)
<1>0. t \in Tasks /\ RoomsUsed(t) /\ t.room \in Rooms
  BY TaskTypes DEF IInv, HandlersWell
<1>1. t.do = "evict" => SweepWell(t)'
  BY <1>0 DEF HandlersWell, SweepWell
<1>2. t \in Handlers => LineWell(t)'
  BY <1>0, LineFrame DEF HandlersWell
<1>3. ASSUME t \in Leaving, Exists(t.room)'
      PROVE  LeftWell(t)' /\ (Marked(t)' => Marked(t))
  <2>1. LeftWell(t)
    BY <1>3 DEF HandlersWell
  <2>2. Marked(t)' <=> Marked(t)
    BY <1>3 DEF Marked
  <2>3. Paired(t.room)' <=> Paired(t.room)
    BY <1>3 DEF Paired
  <2>4. Row(t.room)' = Row(t.room)
    BY <1>3 DEF Row
  <2>5. room[t.room].queued \subseteq Players /\ t.rest \subseteq Players
    BY <1>0, Shape, TaskTypes
  <2> QED
    BY <1>3, <2>1, <2>2, <2>3, <2>4, <2>5 DEF LeftWell
<1> QED
  BY <1>1, <1>2, <1>3 DEF TaskKeeps

LEMMA MatchFrame ==
  ASSUME OneMatch, \A q \in Rooms : Matchmade(q)' => Matchmade(q) /\ room'[q].seats = room[q].seats
  PROVE  OneMatch'
  BY DEF OneMatch

LEMMA RoomParts ==
  ASSUME Steady, NEW r \in Rooms
  PROVE  MarksAgree(r) /\ RowAgrees(r) /\ SeatsAgree(r) /\ ClockAgrees(r)
  BY DEF Steady, RoomWell

(* In a match the offer's row is of its players, and nobody is leaving. *)
LEMMA MatchedRow ==
  ASSUME IInv, Steady, NEW r \in Rooms, Matchmade(r)
  PROVE  /\ \A t \in Leaving : t.room # r
         /\ offers[r] # <<>> => Row(r) = room[r].seats
         /\ Paired(r) /\ Lobby(r) /\ Exists(r)
<1>1. Paired(r) /\ Lobby(r) /\ Exists(r)
  BY DEF Matchmade, Full, Paired, Lobby, Exists
<1>2. \A t \in Leaving : t.room # r
  BY <1>1 DEF Steady, HandlersWell, LeftWell
<1> QED
  BY <1>1, <1>2, RoomParts DEF RowAgrees

(* Searches end. *)
LEMMA SearchesEnded ==
  ASSUME NEW q \in Rooms,
         \A p \in Players : entry'[p] # Nil => entry'[p] = entry[p],
         Matchmade(q) /\ offers[q] # <<>> => \A p \in room[q].seats : entry[p] # Nil => entry'[p] # Nil
  PROVE  SearchesKeep(q)
  BY DEF SearchesKeep

LEMMA QueueLeaveSteady ==
  ASSUME IInv, IInv', Steady, NEW p \in Players, QueueLeave(p), Orderly'
  PROVE  Steady'
<1>1. entry[p].offer = Nil
  BY DEF QueueLeave, Orderly
<1>2. room' = room /\ offers' = offers /\ work' = work /\ entry' = [entry EXCEPT ![p] = Nil] /\ entry[p] # Nil
  BY DEF QueueLeave
<1>3. /\ \A x \in Players : entry'[x] # Nil => entry'[x] = entry[x]
      /\ \A x \in Players \ {p} : entry'[x] = entry[x]
  BY <1>2 DEF IInv, TypeOK
<1>4. ASSUME NEW q \in Rooms PROVE RoomWell(q)'
  <2>1. SearchesKeep(q)
    <3>1. Matchmade(q) => \A x \in room[q].seats : x # p
      BY <1>1, <1>2, RoomParts, MatchmakingAssumption DEF MarksAgree
    <3>2. room[q].seats \subseteq Players
      BY Shape
    <3> QED
      BY <1>3, <3>1, <3>2, SearchesEnded
  <2> QED
    BY <1>2, <2>1, RoomFrame DEF Steady, Leaving, Closing
<1>5. OneMatch'
  BY <1>2, MatchFrame DEF Steady, Matchmade, Full
<1>6. HandlersWell'
  <2>1. ASSUME NEW t \in work PROVE TaskKeeps(t)
    BY <1>2, <1>3, TaskFrame DEF Steady, Lobby, Exists
  <2> QED
    BY <1>2, <2>1, HandlersStep DEF Steady
<1> QED
  BY <1>4, <1>5, <1>6 DEF Steady

LEMMA AcceptSteady ==
  ASSUME IInv, IInv', Steady, NEW p \in Players, NEW r \in Rooms, Accept(p, r), Orderly'
  PROVE  Steady'
<1>0. room \in [Rooms -> Room] /\ room[r] \in Room
  BY DEF IInv, TypeOK
<1>1. PICK x : x = [room[r] EXCEPT !.accepted = room[r].accepted \cup {p}]
  OBVIOUS
<1>2. PICK n : n = Task("commit", r, room[r].seats, {}, <<>>)
  OBVIOUS
<1>3. /\ room' = [room EXCEPT ![r] = x] /\ work' = work \cup {n}
      /\ entry' = entry /\ offers' = offers
  <2>1. room' = [room EXCEPT ![r].accepted = room[r].accepted \cup {p}]
    BY DEF Accept
  <2>2. room' = [room EXCEPT ![r] = x]
    BY <1>1, <2>1
  <2> QED
    BY <1>2, <2>2 DEF Accept
<1>4. /\ room'[r].stage = room[r].stage /\ room'[r].seats = room[r].seats
      /\ room'[r].queued = room[r].queued /\ room'[r].clock = room[r].clock
      /\ room'[r].accepted = room[r].accepted \cup {p}
      /\ \A q \in Rooms \ {r} : room'[q] = room[q]
  BY <1>0, <1>1, <1>3 DEF Room
<1>5. Lobby(r) /\ p \in room[r].seats /\ Paired(r)
  <2>1. Lobby(r) /\ p \in room[r].seats /\ (Accepting(r) \/ p \in room[r].accepted)
    BY DEF Accept, Lobby
  <2>2. Accepting(r) => Paired(r)
    BY DEF Accepting, Matchmade, Full, Paired
  <2>3. p \in room[r].accepted => Paired(r)
    BY <2>1, RoomParts DEF ClockAgrees, Exists, Lobby
  <2> QED
    BY <2>1, <2>2, <2>3
<1>6. n.do = "commit" /\ n.room = r /\ n.line = <<>>
  BY <1>2 DEF Task
<1>7. Leaving' = Leaving /\ Handlers' = Handlers /\ Closing' = Closing \cup {n}
  BY <1>3, <1>6 DEF Leaving, Handlers, Closing
<1>8. /\ \A q \in Rooms : (Matchmade(q)' <=> Matchmade(q)) /\ (Full(q)' <=> Full(q))
                          /\ (Lobby(q)' <=> Lobby(q)) /\ (Paired(q)' <=> Paired(q)) /\ (Exists(q)' <=> Exists(q))
                          /\ Row(q)' = Row(q) /\ room'[q].seats = room[q].seats
                          /\ room'[q].queued = room[q].queued /\ room'[q].clock = room[q].clock
                          /\ room'[q].stage = room[q].stage
  BY <1>3, <1>4 DEF Matchmade, Full, Lobby, Paired, Exists, Row
<1>9. RoomWell(r)'
  <2>1. MarksAgree(r)'
    BY <1>3, <1>8, RoomParts DEF MarksAgree
  <2>2. RowAgrees(r)'
    <3>1. Accepting(r)' => Accepting(r)
      BY <1>4, <1>5, <1>8 DEF Accepting
    <3> QED
      BY <1>3, <1>7, <1>8, <3>1, RoomParts DEF RowAgrees
  <2>3. SeatsAgree(r)'
    BY <1>3, <1>7, <1>8, RoomParts DEF SeatsAgree
  <2>4. ClockAgrees(r)'
    <3>1. \E u \in Closing' : u.room = r
      BY <1>6, <1>7
    <3> QED
      BY <1>3, <1>5, <1>8, <3>1, RoomParts DEF ClockAgrees
  <2> QED
    BY <2>1, <2>2, <2>3, <2>4 DEF RoomWell
<1>10. ASSUME NEW q \in Rooms \ {r} PROVE RoomWell(q)'
  BY <1>3, <1>4, <1>7, RoomFrame DEF Steady, SearchesKeep, Closing
<1>11. OneMatch'
  BY <1>8, MatchFrame DEF Steady
<1>12. HandlersWell'
  <2>1. ASSUME NEW t \in work PROVE TaskKeeps(t)
    <3>1. t.room \in Rooms
      BY TaskTypes DEF IInv
    <3> QED
      BY <1>3, <1>8, <3>1, TaskFrame DEF Steady
  <2>2. RoomsUsed(n)' /\ n \notin Handlers' /\ n \notin Leaving'
    BY <1>4, <1>5, <1>6 DEF RoomsUsed, Handlers, Leaving, Lobby
  <2> QED
    BY <1>3, <1>6, <1>8, <2>1, <2>2, HandlersStep DEF Steady
<1> QED
  BY <1>9, <1>10, <1>11, <1>12 DEF Steady

LEMMA StartSteady ==
  ASSUME IInv, IInv', Steady, NEW r \in Rooms, Start(r), Orderly'
  PROVE  Steady'
<1>0. room \in [Rooms -> Room] /\ room[r] \in Room
  BY DEF IInv, TypeOK
<1>1. PICK x : x = [room[r] EXCEPT !.stage = "playing", !.clock = "off"]
  OBVIOUS
<1>2. room' = [room EXCEPT ![r] = x] /\ work' = work /\ entry' = entry /\ offers' = offers /\ Lobby(r)
  BY <1>0, <1>1 DEF Start, Full, Lobby
<1>3. /\ room'[r].stage = "playing" /\ room'[r].seats = room[r].seats
      /\ room'[r].queued = room[r].queued /\ room'[r].clock = "off"
      /\ room'[r].accepted = room[r].accepted
      /\ \A q \in Rooms \ {r} : room'[q] = room[q]
  BY <1>0, <1>1, <1>2 DEF Room
<1>4. ~Lobby(r)' /\ ~Matchmade(r)' /\ ~Accepting(r)' /\ (Paired(r)' <=> Paired(r)) /\ Row(r)' = Row(r)
  BY <1>2, <1>3 DEF Lobby, Matchmade, Accepting, Full, Paired, Row
<1>5. RoomWell(r)'
  <2>1. MarksAgree(r)' /\ RowAgrees(r)' /\ SeatsAgree(r)'
    BY <1>2, <1>4, RoomParts DEF MarksAgree, RowAgrees, SeatsAgree
  <2>2. ClockAgrees(r)'
    BY <1>2, <1>3, <1>4, RoomParts DEF ClockAgrees, Exists, Lobby
  <2> QED
    BY <2>1, <2>2 DEF RoomWell
<1>6. ASSUME NEW q \in Rooms \ {r} PROVE RoomWell(q)'
  BY <1>2, <1>3, RoomFrame DEF Steady, SearchesKeep, Leaving, Closing
<1>7. OneMatch'
  <2>1. \A q \in Rooms \ {r} : Matchmade(q)' => Matchmade(q)
    BY <1>3 DEF Matchmade, Full
  <2> QED
    BY <1>3, <1>4, <2>1, MatchFrame DEF Steady
<1>8. HandlersWell'
  <2>1. \A q \in Rooms : /\ Lobby(q)' => Lobby(q)
                         /\ Exists(q)' => Exists(q)
                         /\ room'[q].seats = room[q].seats /\ room'[q].queued = room[q].queued
                         /\ room'[q].clock = "up" => room[q].clock = "up"
                         /\ room'[q].stage = "unused" => room[q].stage = "unused"
    BY <1>2, <1>3 DEF Lobby, Exists
  <2>2. ASSUME NEW t \in work PROVE TaskKeeps(t)
    <3>1. t.room \in Rooms
      BY TaskTypes DEF IInv
    <3> QED
      BY <1>2, <2>1, <3>1, TaskFrame DEF Steady
  <2> QED
    BY <1>2, <2>1, <2>2, HandlersStep DEF Steady
<1> QED
  BY <1>5, <1>6, <1>7, <1>8 DEF Steady

LEMMA DeadlineSteady ==
  ASSUME IInv, IInv', Steady, NEW r \in Rooms, Deadline(r), Orderly'
  PROVE  Steady'
<1>0. room \in [Rooms -> Room] /\ room[r] \in Room
  BY DEF IInv, TypeOK
<1>1. PICK x : x = [room[r] EXCEPT !.clock = "up"]
  OBVIOUS
<1>2. /\ room' = [room EXCEPT ![r] = x] /\ work' = work /\ entry' = entry /\ offers' = offers
      /\ room[r].clock = "on" /\ \A t \in work : t.do = "evict" => t.room # r
  BY <1>0, <1>1 DEF Deadline
<1>3. /\ room'[r].stage = room[r].stage /\ room'[r].seats = room[r].seats
      /\ room'[r].queued = room[r].queued /\ room'[r].clock = "up"
      /\ room'[r].accepted = room[r].accepted
      /\ \A q \in Rooms \ {r} : room'[q] = room[q]
  BY <1>0, <1>1, <1>2 DEF Room
<1>4. /\ \A q \in Rooms : (Matchmade(q)' <=> Matchmade(q)) /\ (Full(q)' <=> Full(q))
                          /\ (Lobby(q)' <=> Lobby(q)) /\ (Paired(q)' <=> Paired(q)) /\ (Exists(q)' <=> Exists(q))
                          /\ (Accepting(q)' <=> Accepting(q))
                          /\ Row(q)' = Row(q) /\ room'[q].seats = room[q].seats
                          /\ room'[q].queued = room[q].queued /\ room'[q].stage = room[q].stage
  BY <1>2, <1>3 DEF Matchmade, Accepting, Full, Lobby, Paired, Exists, Row
<1>5. RoomWell(r)'
  <2>1. MarksAgree(r)' /\ RowAgrees(r)' /\ SeatsAgree(r)'
    BY <1>2, <1>4, RoomParts DEF MarksAgree, RowAgrees, SeatsAgree, Leaving
  <2>2. ClockAgrees(r)'
    BY <1>2, <1>3, <1>4, RoomParts DEF ClockAgrees, Closing
  <2> QED
    BY <2>1, <2>2 DEF RoomWell
<1>6. ASSUME NEW q \in Rooms \ {r} PROVE RoomWell(q)'
  BY <1>2, <1>3, RoomFrame DEF Steady, SearchesKeep, Leaving, Closing
<1>7. OneMatch'
  BY <1>4, MatchFrame DEF Steady
<1>8. HandlersWell'
  <2>1. ASSUME NEW t \in work PROVE TaskKeeps(t)
    <3>1. t.room \in Rooms
      BY TaskTypes DEF IInv
    <3> QED
      BY <1>2, <1>3, <1>4, <3>1, TaskFrame DEF Steady
  <2> QED
    BY <1>2, <1>4, <2>1, HandlersStep DEF Steady
<1> QED
  BY <1>5, <1>6, <1>7, <1>8 DEF Steady

(* A list has a member for every one that is listed. *)
LEMMA ListEmpty ==
  ASSUME NEW S, IsFiniteSet(S), SetToSeq(S) = <<>>
  PROVE  S = {}
<1> DEFINE n == Cardinality(S)
<1>1. n \in Nat
  BY FS_CardinalityType
<1>2. PICK f : f \in Bijection(1 .. n, S)
  BY FS_CountingElements, <1>1, FS_NatBijection DEF ExistsBijection
<1>3. f \in [1 .. n -> S] /\ \A a, b \in 1 .. n : f[a] = f[b] => a = b
  BY <1>2 DEF Bijection, Injection, IsInjective
<1>4. f \in [1 .. n -> S] /\ IsInjective(f)
  BY <1>3 DEF IsInjective
<1>5. SetToSeq(S) \in [1 .. n -> S]
  BY <1>4 DEF SetToSeq
<1>6. DOMAIN SetToSeq(S) = 1 .. n /\ DOMAIN <<>> = {}
  BY <1>5
<1>7. n = 0
  BY <1>1, <1>6
<1> QED
  BY <1>7, FS_EmptySet

(* A search that a deletion touches waits in the room, and goes. *)
LEMMA Cascade ==
  ASSUME IInv, Steady, NEW gone \in SUBSET Rooms, NEW p \in Players
  PROVE  EntriesWithout(entry, gone)[p] =
           IF entry[p] = Nil \/ entry[p].retained \in gone THEN Nil ELSE entry[p]
<1>1. entry[p] # Nil /\ entry[p].offer \in gone => entry[p].retained = entry[p].offer
  BY RoomParts DEF MarksAgree
<1> QED
  BY <1>1 DEF EntriesWithout

LEMMA DeleteSteady ==
  ASSUME IInv, IInv', Steady, NEW r \in Rooms, Delete(r), Orderly'
  PROVE  Steady'
<1>1. work' = work /\ room' = RoomsWithout(room, {r})
      /\ entry' = EntriesWithout(entry, {r}) /\ offers' = OffersWithout(offers, {r}) /\ Exists(r)
  BY DEF Delete
<1>2. /\ room'[r].stage = "deleted" /\ room'[r].clock = "off"
      /\ \A q \in Rooms \ {r} : room'[q] = room[q] /\ offers'[q] = offers[q]
      /\ offers'[r] = <<>>
  BY <1>1 DEF RoomsWithout, OffersWithout, NoRoom
<1>3. \A p \in Players : entry'[p] = IF entry[p] = Nil \/ entry[p].retained = r THEN Nil ELSE entry[p]
  BY <1>1, Cascade
<1>4. RoomWell(r)'
  <2>1. ASSUME NEW p \in Players, entry'[p] # Nil PROVE entry'[p].offer # r
    BY <1>3, <2>1, RoomParts DEF MarksAgree
  <2> QED
    BY <1>2, <2>1, GoneFrame
<1>5. ASSUME NEW q \in Rooms \ {r} PROVE RoomWell(q)'
  <2>1. SearchesKeep(q)
    <3>1. Matchmade(q) => \A p \in room[q].seats : p \in Players /\ (entry[p] # Nil => entry[p].retained = q)
      BY RoomParts, Shape DEF MarksAgree
    <3>2. \A p \in Players : entry'[p] # Nil => entry'[p] = entry[p]
      BY <1>3
    <3> QED
      BY <1>3, <3>1, <3>2, SearchesEnded
  <2> QED
    BY <1>1, <1>2, <2>1, RoomFrame DEF Steady, Leaving, Closing
<1>6. OneMatch'
  <2>1. ~Matchmade(r)' /\ \A q \in Rooms \ {r} : Matchmade(q)' => Matchmade(q)
    BY <1>2 DEF Matchmade, Full
  <2> QED
    BY <1>2, <2>1, MatchFrame DEF Steady
<1>7. HandlersWell'
  <2>1. /\ ~Lobby(r)' /\ ~Exists(r)' /\ room'[r].clock # "up" /\ room'[r].stage # "unused"
        /\ \A q \in Rooms \ {r} : (Lobby(q)' <=> Lobby(q)) /\ (Exists(q)' <=> Exists(q))
    BY <1>2 DEF Lobby, Exists
  <2>2. ASSUME NEW t \in work PROVE TaskKeeps(t)
    <3>1. t.room \in Rooms
      BY TaskTypes DEF IInv
    <3> QED
      BY <1>2, <1>3, <2>1, <3>1, TaskFrame DEF Steady
  <2> QED
    BY <1>1, <1>2, <2>1, <2>2, HandlersStep DEF Steady
<1> QED
  BY <1>4, <1>5, <1>6, <1>7 DEF Steady

LEMMA SweepSteady ==
  ASSUME IInv, IInv', Steady, NEW r \in Rooms, Sweep(r), Orderly'
  PROVE  Steady'
<1>1. PICK known : known = {q \in Players : entry[q] # Nil /\ q \in Row(r)}
  OBVIOUS
<1>2. PICK again : again = {Again(q, r, entry[q].avoid \cap Rooms) : q \in known}
  OBVIOUS
<1>3. PICK n : n = Task("evict", r, {}, {}, SetToSeq(again))
  OBVIOUS
<1>4. /\ work' = work \cup {n} /\ room' = room /\ entry' = entry /\ offers' = offers
      /\ Full(r) /\ room[r].clock = "up"
  BY <1>1, <1>2, <1>3 DEF Sweep, db
<1>5. n.do = "evict" /\ n.room = r /\ n.line = SetToSeq(again)
  BY <1>3 DEF Task
<1>6. Leaving' = Leaving /\ Handlers' = Handlers
  BY <1>4, <1>5 DEF Leaving, Handlers
<1>7. IsFiniteSet(again)
  <2>1. IsFiniteSet(known)
    BY <1>1, MatchmakingAssumption, FS_Subset
  <2>2. PICK f : f = [q \in known |-> Again(q, r, entry[q].avoid \cap Rooms)]
    OBVIOUS
  <2>3. again = {f[q] : q \in known} /\ DOMAIN f = known
    BY <1>2, <2>2
  <2> QED
    BY <2>1, <2>3, FewValues
<1>8. \A i \in DOMAIN n.line : n.line[i].keep = r
  <2>1. n.line \in Seq(again)
    BY <1>5, <1>7, ListTyped
  <2>2. \A i \in DOMAIN n.line : n.line[i] \in again
    BY <2>1
  <2> QED
    BY <1>2, <2>2 DEF Again
<1>9. SweepWell(n)'
  <2> SUFFICES ASSUME n.line = <<>>, offers[r] # <<>> PROVE FALSE
    BY <1>4, <1>5, <1>8 DEF SweepWell
  <2>1. again = {}
    BY <1>5, <1>7, ListEmpty
  <2>2. known = {}
    BY <1>2, <2>1
  <2>3. Matchmade(r)
    BY <1>4, RoomParts DEF ClockAgrees, Matchmade, Paired, Full
  <2>4. \A p \in room[r].seats : entry[p] # Nil
    BY <2>3, RoomParts DEF MarksAgree
  <2>5. Row(r) = room[r].seats /\ room[r].seats # {}
    BY <2>3, MatchedRow, Shape, OneLess DEF Matchmade, Full
  <2>6. PICK p \in room[r].seats : p \in Row(r) /\ entry[p] # Nil
    BY <2>4, <2>5
  <2>7. p \in Players
    BY Shape
  <2> QED
    BY <1>1, <2>2, <2>6, <2>7 DEF Row
<1>10. ASSUME NEW q \in Rooms PROVE RoomWell(q)'
  BY <1>4, <1>6, RoomFrame DEF Steady, SearchesKeep, Closing
<1>11. OneMatch'
  BY <1>4, MatchFrame DEF Steady, Matchmade, Full
<1>12. HandlersWell'
  <2>1. ASSUME NEW t \in work PROVE TaskKeeps(t)
    BY <1>4, TaskFrame DEF Steady, Lobby, Exists
  <2>2. RoomsUsed(n)' /\ n \notin Handlers' /\ n \notin Leaving'
    BY <1>4, <1>5, <1>8 DEF RoomsUsed, Handlers, Leaving, Full
  <2> QED
    BY <1>4, <1>9, <2>1, <2>2, HandlersStep DEF Steady
<1> QED
  BY <1>10, <1>11, <1>12 DEF Steady

LEMMA SpareSteady ==
  ASSUME IInv, IInv', Steady, NEW t \in work, Spare(t), Orderly'
  PROVE  Steady'
<1>0. t \in Tasks /\ t.room \in Rooms /\ room \in [Rooms -> Room] /\ room[t.room] \in Room
  BY TaskTypes DEF IInv, TypeOK
<1>1. room[t.room].clock # "up"
  <2>1. room[t.room].clock = "up" => Matchmade(t.room)
    BY <1>0, RoomParts DEF ClockAgrees, Matchmade, Full, Lobby, Paired
  <2> QED
    BY <2>1 DEF Spare
<1>2. room' = room
  <2>1. room' = [room EXCEPT ![t.room].clock = room[t.room].clock]
    BY <1>1 DEF Spare
  <2> QED
    BY <1>0, <2>1 DEF Room
<1>3. entry' = entry /\ offers' = offers /\ work' = work \ {t} /\ t.do = "evict"
  BY DEF Spare
<1>4. Leaving' = Leaving
  BY <1>3 DEF Leaving
<1>5. ASSUME NEW q \in Rooms PROVE RoomWell(q)'
  BY <1>2, <1>3, <1>4, RoomFrame DEF Steady, SearchesKeep, Closing
<1>6. OneMatch'
  BY <1>2, MatchFrame DEF Steady, Matchmade, Full
<1>7. HandlersWell'
  <2>1. ASSUME NEW u \in work PROVE TaskKeeps(u)
    BY <1>2, <1>3, TaskFrame DEF Steady, Lobby, Exists
  <2> QED
    BY <1>2, <1>3, <2>1, HandlersStep DEF Steady
<1> QED
  BY <1>5, <1>6, <1>7 DEF Steady

(* A search that was of an offer of another room than r is still there.     *)
LEMMA NotBereaved ==
  ASSUME IInv, Steady, NEW r, ~Bereaves(r), NEW q \in Rooms, q # r, Matchmade(q)
  PROVE  \A p \in room[q].seats : entry[p] # Nil => entry'[p] # Nil
<1>1. \A p \in room[q].seats : p \in Players /\ (entry[p] # Nil => entry[p].offer = q)
  BY RoomParts, Shape DEF MarksAgree
<1> QED
  BY <1>1, MatchmakingAssumption DEF Bereaves

(* A room whose tables are as before, and whose acceptance is still ended.   *)
LEMMA QuietRoom ==
  ASSUME IInv, Steady, NEW q \in Rooms, UNCHANGED db, Leaving' = Leaving,
         Lobby(q) /\ Paired(q) /\ room[q].accepted = room[q].seats /\ offers[q] # <<>> =>
           \E u \in Closing' : u.room = q
  PROVE  RoomWell(q)'
<1>1. room' = room /\ entry' = entry /\ offers' = offers
  BY DEF db
<1>2. /\ Matchmade(q)' <=> Matchmade(q)
      /\ Accepting(q)' <=> Accepting(q)
      /\ Full(q)' <=> Full(q)
      /\ Lobby(q)' <=> Lobby(q)
      /\ Paired(q)' <=> Paired(q)
      /\ Exists(q)' <=> Exists(q)
      /\ Row(q)' = Row(q)
  BY <1>1 DEF Matchmade, Accepting, Full, Lobby, Paired, Exists, Row
<1>3. MarksAgree(q)' /\ RowAgrees(q)' /\ SeatsAgree(q)'
  BY <1>1, <1>2, RoomParts DEF MarksAgree, RowAgrees, SeatsAgree
<1>4. ClockAgrees(q)'
  BY <1>1, <1>2, RoomParts DEF ClockAgrees
<1> QED
  BY <1>3, <1>4 DEF RoomWell

(* An acceptance moves on, or turns out to be none.                          *)
LEMMA ClosingSteady ==
  ASSUME IInv, IInv', Steady, NEW t \in work, t.do \in {"commit", "load"}, UNCHANGED db,
         NEW n, n.do \in {"load", "end"}, n.room = t.room, n.line \in {<<>>, t.line},
         \/ work' = (work \ {t}) \cup {n}
         \/ /\ work' = work \ {t}
            /\ \/ offers[t.room] = <<>>
               \/ Cardinality(room[t.room].seats) # 2 \/ room[t.room].accepted # room[t.room].seats
  PROVE  Steady'
<1>1. room' = room /\ entry' = entry /\ offers' = offers
  BY DEF db
<1>2. Leaving' = Leaving /\ n \notin Leaving' /\ n \notin Handlers'
  BY DEF Leaving, Handlers
<1>3. ASSUME NEW q \in Rooms PROVE RoomWell(q)'
  <2>1. ASSUME Lobby(q), Paired(q), room[q].accepted = room[q].seats, offers[q] # <<>>
        PROVE  \E u \in Closing' : u.room = q
    <3>1. PICK u \in Closing : u.room = q
      BY <2>1, RoomParts DEF ClockAgrees
    <3>2. CASE u # t
      BY <3>1, <3>2 DEF Closing
    <3>3. CASE u = t
      BY <2>1, <3>1, <3>3 DEF Closing, Paired
    <3> QED
      BY <3>2, <3>3
  <2> QED
    BY <1>2, <2>1, QuietRoom
<1>4. OneMatch'
  BY <1>1, MatchFrame DEF Steady, Matchmade, Full
<1>5. HandlersWell'
  <2>1. ASSUME NEW u \in work PROVE TaskKeeps(u)
    BY <1>1, TaskFrame DEF Steady, Lobby, Exists
  <2>2. RoomsUsed(n)'
    BY <1>1 DEF Steady, HandlersWell, RoomsUsed
  <2> QED
    BY <1>1, <1>2, <2>1, <2>2, HandlersStep DEF Steady
<1> QED
  BY <1>3, <1>4, <1>5 DEF Steady

LEMMA CommitSteady ==
  ASSUME IInv, IInv', Steady, NEW t \in work, Commit(t), Orderly'
  PROVE  Steady'
<1>1. PICK n : n = Task("load", t.room, Row(t.room), {}, <<>>)
  OBVIOUS
<1>2. n.do = "load" /\ n.room = t.room /\ n.line = <<>>
  BY <1>1 DEF Task
<1>3. \/ work' = (work \ {t}) \cup {n}
      \/ work' = work \ {t} /\ offers[t.room] = <<>>
  BY <1>1 DEF Commit
<1> QED
  BY <1>2, <1>3, ClosingSteady DEF Commit

LEMMA CommitLoadSteady ==
  ASSUME IInv, IInv', Steady, NEW t \in work, CommitLoad(t), Orderly'
  PROVE  Steady'
<1>1. PICK n : n = [t EXCEPT !.do = "end"]
  OBVIOUS
<1>2. t \in Tasks /\ n.do = "end" /\ n.room = t.room /\ n.line = t.line
  BY <1>1 DEF IInv, Tasks
<1>3. \/ work' = (work \ {t}) \cup {n}
      \/ /\ work' = work \ {t}
         /\ Cardinality(room[t.room].seats) # 2 \/ room[t.room].accepted # room[t.room].seats
  BY <1>1 DEF CommitLoad
<1> QED
  BY <1>2, <1>3, ClosingSteady DEF CommitLoad

(* However late an acceptance ends: if it strikes no other search and no     *)
(* other offer, it ends what both accepted, or what is over already.         *)
LEMMA CommitEndSteady ==
  ASSUME IInv, IInv', Steady, NEW t \in work, CommitEnd(t), Orderly'
  PROVE  Steady'
<1>0. t \in Tasks /\ t.room \in Rooms
  BY TaskTypes DEF IInv
<1>1. PICK r \in Rooms : r = t.room
  BY <1>0
<1>2. /\ room' = room /\ work' = work \ {t} /\ t.do = "end" /\ ~Bereaves(r) /\ ~Strikes(t)
      /\ entry' = EntriesCommitted(t) /\ offers' = [offers EXCEPT ![r] = <<>>]
  BY <1>1 DEF CommitEnd, Orderly
<1>3. Leaving' = Leaving /\ Handlers' = Handlers
  BY <1>2 DEF Leaving, Handlers
<1>4. /\ offers'[r] = <<>> /\ \A q \in Rooms \ {r} : offers'[q] = offers[q]
      /\ \A p \in Players : entry'[p] = IF p \in t.who THEN Nil ELSE entry[p]
  BY <1>2 DEF EntriesCommitted, IInv, TypeOK
<1>5. offers[r] # <<>> => Row(r) = t.who /\ ~Accepting(r)
  BY <1>1, <1>2 DEF Strikes
<1>6. ASSUME NEW q \in Rooms \ {r} PROVE RoomWell(q)'
  <2>1. SearchesKeep(q)
    <3>1. Matchmade(q) => \A p \in room[q].seats : entry[p] # Nil => entry'[p] # Nil
      BY <1>2, NotBereaved
    <3> QED
      BY <1>4, <3>1, SearchesEnded
  <2>2. \A u \in Closing : u.room = q => u \in Closing'
    BY <1>1, <1>2 DEF Closing
  <2> QED
    BY <1>2, <1>3, <1>4, <2>1, <2>2, RoomFrame DEF Steady
<1>7. RoomWell(r)'
  <2>0. /\ \A p \in room[r].seats : p \in Players
        /\ (Matchmade(r)' <=> Matchmade(r)) /\ (Full(r)' <=> Full(r)) /\ (Lobby(r)' <=> Lobby(r))
        /\ (Accepting(r)' <=> Accepting(r)) /\ (Paired(r)' <=> Paired(r)) /\ (Exists(r)' <=> Exists(r))
    BY <1>2, Shape DEF Matchmade, Full, Lobby, Accepting, Paired, Exists
  <2>1. ASSUME NEW p \in Players, entry'[p] # Nil PROVE entry'[p] = entry[p] /\ p \notin Row(r)
    BY <1>4, <1>5, <2>1, RowOf
  <2>2. MarksAgree(r)'
    BY <1>2, <1>4, <2>0, <2>1, RoomParts DEF MarksAgree
  <2>3. RowAgrees(r)'
    BY <1>4, <1>5, <2>0, RoomParts DEF RowAgrees
  <2>4. SeatsAgree(r)'
    <3>1. ASSUME NEW p \in Players, entry'[p] # Nil, entry'[p].retained = r, Lobby(r)
          PROVE  /\ p \in room[r].seats => p \in room[r].queued /\ (Full(r) => Matchmade(r))
                 /\ p \notin room[r].seats => room[r].seats = {}
      BY <2>1, <3>1, RoomParts DEF SeatsAgree
    <3> QED
      BY <1>2, <2>0, <3>1 DEF SeatsAgree
  <2>5. ClockAgrees(r)'
    BY <1>2, <1>4, <2>0, RoomParts DEF ClockAgrees
  <2> QED
    BY <2>2, <2>3, <2>4, <2>5 DEF RoomWell
<1>8. OneMatch'
  BY <1>2, MatchFrame DEF Steady, Matchmade, Full
<1>9. HandlersWell'
  <2>1. ASSUME NEW u \in work PROVE TaskKeeps(u)
    <3>0. u \in Tasks /\ u.room \in Rooms /\ u.rest \subseteq Players
      BY TaskTypes DEF IInv
    <3>1. \A q \in Rooms : (Lobby(q)' <=> Lobby(q)) /\ (Exists(q)' <=> Exists(q))
      BY <1>2 DEF Lobby, Exists
    <3>2. offers[u.room] = <<>> => offers'[u.room] = <<>>
      BY <1>4, <3>0
    <3>3. CASE u.room # r
      BY <1>2, <1>4, <3>0, <3>1, <3>2, <3>3, TaskFrame DEF Steady
    <3>4. CASE u.room = r
      <4>1. u.do = "evict" => SweepWell(u)'
        BY <1>2, <3>2 DEF Steady, HandlersWell, SweepWell
      <4>2. u \in Handlers => LineWell(u)'
        BY <1>2, <3>0, <3>1, LineFrame DEF Steady, HandlersWell
      <4>3. ASSUME u \in Leaving, Exists(r)
            PROVE  LeftWell(u)' /\ (Marked(u)' => Marked(u))
        <5>1. LeftWell(u)
          BY <3>4, <4>3 DEF Steady, HandlersWell
        <5>2. Marked(u)' => Marked(u)
          BY <1>4, <3>4 DEF Marked
        <5>3. Paired(r)' <=> Paired(r)
          BY <1>2 DEF Paired
        <5>4. \A p \in Players : entry'[p] # Nil => entry'[p] = entry[p]
          BY <1>4
        <5>5. room[r].queued \subseteq Players
          BY Shape
        <5> QED
          BY <1>2, <1>4, <3>0, <3>4, <5>1, <5>2, <5>3, <5>4, <5>5 DEF LeftWell
      <4> QED
        BY <1>2, <3>1, <3>4, <4>1, <4>2, <4>3 DEF TaskKeeps
    <3> QED
      BY <3>3, <3>4
  <2> QED
    BY <1>2, <2>1, HandlersStep DEF Steady
<1> QED
  BY <1>6, <1>7, <1>8, <1>9 DEF Steady

(* Who a handler queues again. *)
LEMMA RequeueLine ==
  ASSUME NEW r, NEW S, NEW i \in DOMAIN Requeue(r, S, {})
  PROVE  Requeue(r, S, {})[i].keep = r /\ Requeue(r, S, {})[i].who \in S
<1>1. S # {}
  BY DEF Requeue
<1>2. PICK a : a = Again(CHOOSE p \in S : TRUE, r, {})
  OBVIOUS
<1>3. a.keep = r /\ a.who \in S
  BY <1>1, <1>2 DEF Again
<1>4. Requeue(r, S, {}) = <<a>>
  BY <1>1, <1>2 DEF Requeue
<1> QED
  BY <1>3, <1>4

LEMMA LookupSteady ==
  ASSUME IInv, IInv', Steady, NEW t \in work, Lookup(t), Orderly'
  PROVE  Steady'
<1>0. t \in Tasks /\ t.room \in Rooms /\ t.line \in Seq(Agains)
  BY TaskTypes DEF IInv
<1>1. PICK r \in Rooms : r = t.room
  BY <1>0
<1>2. room' = room /\ offers' = offers /\ t.do = "left" /\ ~Bereaves(Nil)
  BY DEF Lookup, Orderly
<1>3. t \in Leaving /\ t \in Handlers
  BY <1>2 DEF Leaving, Handlers
<1>4. PICK other : other = Row(r) \ t.who
  OBVIOUS
<1>l. PICK line : line = IF t.rest = other THEN Requeue(r, other, {}) ELSE <<>>
  OBVIOUS
<1>5. PICK n : n = IF t.who \cap Row(r) # {} THEN [t EXCEPT !.do = "resolve", !.rest = other, !.line = line]
                   ELSE [t EXCEPT !.do = "queue"]
  OBVIOUS
<1>6. \/ /\ t.who \cap Row(r) # {} /\ work' = (work \ {t}) \cup {n} /\ entry' = entry
      \/ /\ t.who \cap Row(r) = {} /\ (work' = (work \ {t}) \cup {n} \/ work' = work \ {t})
         /\ entry' = entry \/ entry' = [p \in Players |-> IF p \in t.who THEN Nil ELSE entry[p]]
  <2>1. t.who \cap Row(r) # {} <=> t.who \cap Row(t.room) # {}
    BY <1>1 DEF Row
  <2>2. CASE t.who \cap Row(t.room) # {}
    <3>1. LET o == Row(t.room) \ t.who
          IN  /\ work' = (work \ {t}) \cup
                    {[t EXCEPT !.do = "resolve", !.rest = o,
                               !.line = IF t.rest = o THEN Requeue(t.room, o, {}) ELSE <<>>]}
              /\ UNCHANGED entry
      BY <2>2 DEF Lookup
    <3>2. other = Row(t.room) \ t.who /\ line = IF t.rest = other THEN Requeue(t.room, other, {}) ELSE <<>>
      BY <1>1, <1>4, <1>l
    <3>3. work' = (work \ {t}) \cup {[t EXCEPT !.do = "resolve", !.rest = other, !.line = line]}
          /\ entry' = entry
      BY <3>1, <3>2
    <3> QED
      BY <1>5, <2>1, <2>2, <3>3
  <2>3. CASE ~(t.who \cap Row(t.room) # {})
    <3>1. /\ work' = (work \ {t}) \cup IF t.line = <<>> THEN {} ELSE {[t EXCEPT !.do = "queue"]}
          /\ entry' = entry \/ entry' = [p \in Players |-> IF p \in t.who THEN Nil ELSE entry[p]]
      BY <2>3 DEF Lookup, Then
    <3> QED
      BY <1>5, <2>1, <2>3, <3>1
  <2> QED
    BY <2>2, <2>3
<1>7. /\ \A p \in Players : entry'[p] = entry[p] \/ entry'[p] = Nil
      /\ \A q \in Rooms : /\ (Lobby(q)' <=> Lobby(q)) /\ (Exists(q)' <=> Exists(q))
  BY <1>2, <1>6 DEF Lobby, Exists
<1>8. ASSUME t.who \cap Row(r) # {}
      PROVE  /\ Exists(r) /\ offers[r] # <<>> /\ LeftWell(t) /\ Marked(t) /\ other = t.rest
             /\ n.do = "resolve" /\ n.room = r /\ n.who = t.who /\ n.rest = t.rest
             /\ n.line = Requeue(r, t.rest, {})
  <2>1. offers[r] # <<>> /\ Exists(r)
    BY <1>8, RowOf
  <2>2. LeftWell(t) /\ Marked(t)
    BY <1>1, <1>3, <2>1 DEF Steady, HandlersWell, Marked
  <2>3. Row(r) = {offers[r][i] : i \in 1 .. 2}
    BY <2>1, RowOf
  <2>4. other = t.rest
    BY <1>1, <1>4, <2>1, <2>2, <2>3 DEF LeftWell
  <2> QED
    BY <1>0, <1>1, <1>l, <1>5, <1>8, <2>1, <2>2, <2>4 DEF Tasks
<1>9. t.who \cap Row(r) = {} => n.do = "queue" /\ n.room = r /\ n.line = t.line
  BY <1>0, <1>1, <1>5 DEF Tasks
<1>10. ASSUME NEW q \in Rooms PROVE RoomWell(q)'
  <2>1. SearchesKeep(q)
    <3>1. Matchmade(q) => \A x \in room[q].seats : entry[x] # Nil => entry'[x] # Nil
      BY <1>2, NotBereaved, MatchmakingAssumption
    <3> QED
      BY <1>7, <3>1, SearchesEnded
  <2>2. Closing \subseteq Closing'
    BY <1>2, <1>6 DEF Closing
  <2>3. CASE t.who \cap Row(r) # {} \/ q # r
    <3>1. ASSUME NEW u \in Leaving, u.room = q
          PROVE  \E v \in Leaving' : v.room = q /\ v.who = u.who
      <4>1. CASE u = t
        BY <1>1, <1>6, <1>8, <2>3, <3>1, <4>1 DEF Leaving
      <4>2. CASE u # t
        BY <1>6, <3>1, <4>2 DEF Leaving
      <4> QED
        BY <4>1, <4>2
    <3> QED
      BY <1>2, <2>1, <2>2, <3>1, RoomFrame DEF Steady
  <2>4. CASE t.who \cap Row(r) = {} /\ q = r
    <3>0. Row(r)' = Row(r) /\ (Lobby(r)' <=> Lobby(r)) /\ (Matchmade(r)' <=> Matchmade(r))
          /\ (Full(r)' <=> Full(r)) /\ (Accepting(r)' <=> Accepting(r)) /\ (Paired(r)' <=> Paired(r))
          /\ (Exists(r)' <=> Exists(r))
      BY <1>2 DEF Row, Lobby, Matchmade, Full, Accepting, Paired, Exists
    <3>1. offers[r] = <<>> /\ Row(r) = {}
      <4>1. Exists(r) => LeftWell(t)
        BY <1>1, <1>3 DEF Steady, HandlersWell
      <4>2. offers[r] # <<>> => Exists(r)
        BY RowOf
      <4> QED
        BY <1>1, <2>4, <4>1, <4>2, RowOf DEF LeftWell
    <3>2. \A x \in room[r].seats : x \in Players
      BY Shape
    <3>3. MarksAgree(r)'
      BY <1>2, <1>7, <3>0, <3>1, <3>2, RoomParts DEF MarksAgree
    <3>4. RowAgrees(r)'
      BY <1>2, <3>0, <3>1, RoomParts DEF RowAgrees
    <3>5. SeatsAgree(r)'
      BY <1>2, <1>7, <3>0, <3>1, <3>2, RoomParts DEF SeatsAgree
    <3>6. ClockAgrees(r)'
      BY <1>2, <2>2, <3>0, RoomParts DEF ClockAgrees
    <3> QED
      BY <2>4, <3>3, <3>4, <3>5, <3>6 DEF RoomWell
  <2> QED
    BY <2>3, <2>4
<1>11. OneMatch'
  BY <1>2, MatchFrame DEF Steady, Matchmade, Full
<1>12. HandlersWell'
  <2>1. ASSUME NEW u \in work PROVE TaskKeeps(u)
    BY <1>2, <1>7, TaskFrame DEF Steady, Lobby, Exists
  <2>2. CASE t.who \cap Row(r) # {}
    <3>1. /\ n.do = "resolve" /\ n.room = r /\ n.who = t.who /\ n.rest = t.rest
          /\ n.line = Requeue(r, t.rest, {}) /\ entry' = entry
          /\ Exists(r) /\ offers[r] # <<>> /\ LeftWell(t) /\ Marked(t)
      BY <1>6, <1>8, <2>2
    <3>2. \A i \in DOMAIN n.line : n.line[i].keep = r /\ n.line[i].who \in t.rest
      BY <3>1, RequeueLine
    <3>3. Marked(n)' /\ LeftWell(n)'
      BY <1>1, <1>2, <3>1 DEF LeftWell, Marked, Paired, Row
    <3>4. RoomsUsed(n)'
      BY <1>2, <3>1, <3>2 DEF RoomsUsed, Exists
    <3>5. LineWell(n)'
      BY <1>1, <1>2, <3>1, <3>2 DEF LineWell, LeftWell
    <3>6. ASSUME NEW u \in Handlers, u \in Handlers', n \notin work PROVE Apart(n, u)'
      <4>1. Apart(t, u) /\ u # t
        <5>1. u # t
          BY <1>6, <2>2, <3>1, <3>6, <1>2 DEF Handlers
        <5> QED
          BY <1>1, <1>3, <3>1, <5>1 DEF Steady, HandlersWell
      <4>2. /\ u \in Leaving' => u \in Leaving
            /\ Marked(u)' <=> Marked(u)
            /\ Exists(u.room)' <=> Exists(u.room)
        BY <1>2, <3>6 DEF Leaving, Handlers, Marked, Exists
      <4> QED
        BY <1>1, <1>2, <3>1, <4>1, <4>2 DEF Apart
    <3>7. ASSUME NEW u \in Leaving, u \in Leaving', Exists(u.room)', n \notin work PROVE Apart(u, n)'
      <4>1. u # t
        BY <1>2, <1>6, <2>2, <3>1, <3>7 DEF Leaving
      <4>2. Apart(u, t) /\ Apart(t, u) /\ (Marked(u)' <=> Marked(u)) /\ Exists(u.room)
        <5>1. Exists(u.room) /\ u \in Handlers
          BY <1>2, <3>7 DEF Exists, Leaving, Handlers
        <5> QED
          BY <1>1, <1>2, <1>3, <3>1, <4>1, <5>1 DEF Steady, HandlersWell, Marked
      <4>3. InLine(n) \subseteq t.rest
        BY <3>2 DEF InLine
      <4>4. Marked(u) => u.rest \cap t.rest = {}
        BY <1>1, <1>3, <3>1, <4>2 DEF Apart
      <4>5. u.room = r => room[r].queued = {}
        BY <1>1, <1>3, <3>7, <4>2 DEF Apart
      <4> QED
        BY <1>1, <1>2, <3>1, <3>2, <4>2, <4>3, <4>4, <4>5 DEF Apart
    <3>8. work' \subseteq work \cup {n}
      BY <1>6, <2>2
    <3> QED
      BY <1>2, <2>1, <3>1, <3>3, <3>4, <3>5, <3>6, <3>7, <3>8, HandlersStep DEF Steady
  <2>3. CASE t.who \cap Row(r) = {}
    <3>1. n.do = "queue" /\ n.room = r /\ n.line = t.line
      BY <1>9, <2>3
    <3>2. n \notin Leaving' /\ RoomsUsed(n)' /\ LineWell(n)'
      BY <1>1, <1>2, <1>3, <3>1 DEF Leaving, RoomsUsed, LineWell, Steady, HandlersWell, Lobby
    <3>3. ASSUME NEW u \in Leaving, u \in Leaving', Exists(u.room)', n \notin work PROVE Apart(u, n)'
      <4>1. u # t
        BY <1>2, <1>6, <2>3, <3>1, <3>3 DEF Leaving
      <4>2. Apart(u, t) /\ (Marked(u)' <=> Marked(u))
        BY <1>2, <1>3, <3>3, <4>1 DEF Steady, HandlersWell, Marked, Exists
      <4> QED
        BY <1>2, <3>1, <3>2, <4>2 DEF Apart, InLine
    <3>4. work' \subseteq work \cup {n}
      BY <1>6, <2>3
    <3> QED
      BY <1>2, <2>1, <3>1, <3>2, <3>3, <3>4, HandlersStep DEF Steady
  <2> QED
    BY <2>2, <2>3
<1> QED
  BY <1>10, <1>11, <1>12 DEF Steady

(* A search that a release does not end keeps its room, and loses an offer   *)
(* of the room somebody left, but no other.                                  *)
LEMMA ReleasedOf ==
  ASSUME IInv, Steady, NEW t \in work, Release(t), NEW p \in Players, entry'[p] # Nil
  PROVE  /\ entry[p] # Nil /\ p \notin t.who /\ entry'[p].retained = entry[p].retained
         /\ \/ entry'[p] = entry[p] /\ entry[p].offer # t.room
            \/ entry[p].offer = t.room /\ entry'[p].offer = Nil
<1>0. t \in Tasks /\ t.room \in Rooms /\ t \in Leaving /\ Marked(t) /\ t.do \in {"resolve", "clean"}
  BY TaskTypes DEF IInv, Release, Leaving, Marked
<1>1. PICK es : es = IF t.do = "clean" THEN EntriesOffOffer(entry, t.room) ELSE entry
  OBVIOUS
<1>2. entry' = Released(es, t)
  BY <1>1 DEF Release
<1>3. /\ es[p] # Nil /\ p \notin t.who
      /\ entry'[p] = IF p \in t.rest
                     THEN [es[p] EXCEPT !.retained = t.room, !.offer = IF t.do = "resolve" THEN Nil ELSE @]
                     ELSE es[p]
  BY <1>2 DEF Released
<1>4. entry[p] # Nil /\ entry[p] \in Entry
  BY <1>1, <1>3 DEF EntriesOffOffer, IInv, TypeOK
<1>5. es[p] = IF t.do = "clean" /\ entry[p].offer = t.room THEN [entry[p] EXCEPT !.offer = Nil] ELSE entry[p]
  BY <1>1, <1>4 DEF EntriesOffOffer
<1>6. CASE p \in t.rest
  <2>1. Exists(t.room)
    BY <1>0, <1>4, <1>6 DEF Release, ReleaseFails
  <2>2. entry[p].offer = t.room
    BY <1>0, <1>4, <1>6, <2>1 DEF Steady, HandlersWell, LeftWell
  <2>3. entry[p].retained = t.room
    BY <1>0, <1>4, <2>2, RoomParts DEF MarksAgree
  <2>4. PICK e \in Entry : e = entry[p]
    BY <1>4
  <2>5. CASE t.do = "clean"
    <3>1. entry'[p] = [[e EXCEPT !.offer = Nil] EXCEPT !.retained = t.room,
                         !.offer = [e EXCEPT !.offer = Nil].offer]
      BY <1>3, <1>5, <1>6, <2>2, <2>4, <2>5
    <3> QED
      BY <1>3, <1>4, <2>2, <2>3, <2>4, <3>1 DEF Entry
  <2>6. CASE t.do = "resolve"
    <3>1. entry'[p] = [e EXCEPT !.retained = t.room, !.offer = Nil]
      BY <1>3, <1>5, <1>6, <2>4, <2>6
    <3> QED
      BY <1>3, <1>4, <2>2, <2>3, <2>4, <3>1 DEF Entry
  <2> QED
    BY <1>0, <2>5, <2>6
<1>7. CASE p \notin t.rest
  <2>1. entry[p].offer # t.room
    <3> SUFFICES ASSUME entry[p].offer = t.room PROVE FALSE
      OBVIOUS
    <3>1. Exists(t.room) /\ p \in Row(t.room)
      BY <1>0, <1>4, Shape, RoomParts DEF MarksAgree
    <3>2. offers[t.room] # <<>>
      BY <1>0, <3>1, RowOf
    <3>3. Row(t.room) \subseteq t.who \cup t.rest
      BY <1>0, <3>1, <3>2 DEF Steady, HandlersWell, LeftWell
    <3> QED
      BY <1>3, <1>7, <3>1, <3>3
  <2> QED
    BY <1>3, <1>4, <1>5, <1>7, <2>1
<1> QED
  BY <1>6, <1>7

LEMMA ReleaseSteady ==
  ASSUME IInv, IInv', Steady, NEW t \in work, Release(t), Orderly'
  PROVE  Steady'
<1>0. t \in Tasks /\ t.room \in Rooms /\ t.line \in Seq(Agains) /\ t.do \in {"resolve", "clean"}
  BY TaskTypes DEF IInv, Release
<1>1. PICK r \in Rooms : r = t.room
  BY <1>0
<1>2. room' = room /\ offers' = [offers EXCEPT ![r] = <<>>] /\ ~Bereaves(r)
  BY <1>1 DEF Release, Orderly
<1>3. t \in Leaving /\ t \in Handlers /\ Marked(t)
  BY <1>0 DEF Leaving, Handlers, Marked
<1>4. PICK n : n = [t EXCEPT !.do = "queue"]
  OBVIOUS
<1>5. n.do = "queue" /\ n.room = r /\ n.line = t.line
  BY <1>0, <1>1, <1>4 DEF Tasks
<1>6. work' = (work \ {t}) \cup {n} \/ work' = work \ {t}
  BY <1>4 DEF Release, Then
<1>7. \A p \in Players : entry'[p] # Nil =>
        /\ entry[p] # Nil /\ p \notin t.who /\ entry'[p].retained = entry[p].retained
        /\ \/ entry'[p] = entry[p] /\ entry[p].offer # r
           \/ entry[p].offer = r /\ entry'[p].offer = Nil
  BY <1>1, ReleasedOf
<1>8. /\ offers'[r] = <<>> /\ \A q \in Rooms \ {r} : offers'[q] = offers[q]
      /\ Nil \notin Rooms
  BY <1>2, MatchmakingAssumption DEF IInv, TypeOK
<1>9. \A q \in Rooms : /\ (Lobby(q)' <=> Lobby(q)) /\ (Exists(q)' <=> Exists(q))
                       /\ (Matchmade(q)' <=> Matchmade(q)) /\ (Full(q)' <=> Full(q))
                       /\ (Paired(q)' <=> Paired(q)) /\ (Accepting(q)' <=> Accepting(q))
  BY <1>2 DEF Lobby, Exists, Matchmade, Full, Paired, Accepting
<1>10. Exists(r) => LeftWell(t) /\ ~Paired(r) /\ ~Matchmade(r)
  BY <1>1, <1>3 DEF Steady, HandlersWell, LeftWell, Matchmade, Paired, Full
<1>11. Closing \subseteq Closing'
  BY <1>0, <1>6 DEF Closing
<1>12. ASSUME NEW q \in Rooms \ {r} PROVE RoomWell(q)'
  <2>1. SearchesKeep(q)
    <3>1. Matchmade(q) => \A x \in room[q].seats : entry[x] # Nil => entry'[x] # Nil
      BY <1>2, NotBereaved
    <3>2. ASSUME NEW p \in Players, entry'[p] # Nil, entry'[p] # entry[p]
          PROVE  /\ entry'[p].retained # q /\ entry'[p].offer # q
                 /\ Matchmade(q) => p \notin room[q].seats
      <4>1. entry[p] # Nil /\ entry[p].offer = r /\ entry'[p].offer = Nil /\ entry'[p].retained = entry[p].retained
        BY <1>7, <3>2
      <4>2. entry[p].retained = r
        BY <4>1, RoomParts DEF MarksAgree
      <4>3. Matchmade(q) => p \notin room[q].seats
        BY <4>1, RoomParts DEF MarksAgree
      <4> QED
        BY <1>8, <4>1, <4>2, <4>3
    <3> QED
      BY <3>1, <3>2 DEF SearchesKeep
  <2>2. ASSUME NEW u \in Leaving, u.room = q PROVE u \in Leaving'
    BY <1>1, <1>6, <2>2 DEF Leaving
  <2> QED
    BY <1>2, <1>8, <1>11, <2>1, <2>2, RoomFrame DEF Steady
<1>13. RoomWell(r)'
  <2>0. \A x \in room[r].seats : x \in Players
    BY Shape
  <2>1. ~Matchmade(r) /\ ~Accepting(r)
    BY <1>10, MatchedRow DEF Accepting
  <2>2. MarksAgree(r)'
    BY <1>7, <1>8, <1>9, <2>1, MatchmakingAssumption DEF MarksAgree
  <2>3. RowAgrees(r)'
    BY <1>8, <1>9, <2>1 DEF RowAgrees
  <2>4. SeatsAgree(r)'
    <3> SUFFICES ASSUME Lobby(r) PROVE
          /\ \A p \in room[r].seats : entry'[p] # Nil /\ entry'[p].retained = r =>
               p \in room[r].queued /\ (Full(r) => Matchmade(r))
          /\ \A p \in Players \ room[r].seats : entry'[p] # Nil /\ entry'[p].retained = r => room[r].seats = {}
      BY <1>2, <1>9 DEF SeatsAgree
    <3>1. \A p \in room[r].seats : entry'[p] # Nil /\ entry'[p].retained = r =>
               p \in room[r].queued /\ (Full(r) => Matchmade(r))
      BY <1>7, <2>0, RoomParts DEF SeatsAgree
    <3>2. ASSUME NEW p \in Players \ room[r].seats, entry'[p] # Nil, entry'[p].retained = r, room[r].seats # {}
          PROVE  FALSE
      <4>1. entry[p] # Nil /\ entry[p].retained = r /\ p \notin t.who
        BY <1>7, <3>2
      <4>2. PICK u \in Leaving : u.room = r /\ p \in u.who /\ p \in Row(r)
        BY <3>2, <4>1, RoomParts DEF SeatsAgree
      <4>3. u # t /\ offers[r] # <<>> /\ Exists(r)
        BY <4>1, <4>2, RowOf
      <4>4. room[r].queued = {}
        <5>1. Apart(t, u)
          BY <1>1, <4>2, <4>3, <1>3 DEF Steady, HandlersWell, Leaving, Handlers
        <5> QED
          BY <1>1, <4>2, <5>1 DEF Apart
      <4>5. LeftWell(u) /\ Marked(u)
        BY <4>2, <4>3 DEF Steady, HandlersWell, Marked
      <4> QED
        BY <3>2, <4>2, <4>3, <4>4, <4>5 DEF LeftWell
    <3> QED
      BY <3>1, <3>2
  <2>5. ClockAgrees(r)'
    BY <1>2, <1>8, <1>9, RoomParts DEF ClockAgrees
  <2> QED
    BY <2>2, <2>3, <2>4, <2>5 DEF RoomWell
<1>14. OneMatch'
  BY <1>2, <1>9, MatchFrame DEF Steady
<1>15. HandlersWell'
  <2>1. ASSUME NEW u \in work, u \in work' PROVE TaskKeeps(u)
    <3>0. u.room \in Rooms /\ u \in Tasks
      BY TaskTypes DEF IInv
    <3>1. offers[u.room] = <<>> => offers'[u.room] = <<>>
      BY <1>8, <3>0
    <3>2. CASE u \in Leaving /\ Exists(u.room) /\ u.room = r
      <4>1. u # t
        BY <1>0, <1>5, <1>6, <2>1, <3>2 DEF Leaving
      <4>2. room[r].queued = {}
        <5>1. Apart(t, u)
          BY <1>1, <1>3, <3>2, <4>1 DEF Steady, HandlersWell, Leaving, Handlers
        <5> QED
          BY <1>1, <3>2, <5>1 DEF Apart
      <4>3. LeftWell(u) /\ LineWell(u) /\ u \in Handlers
        BY <3>2 DEF Steady, HandlersWell, Leaving, Handlers
      <4>4. LeftWell(u)'
        <5>1. room'[u.room].queued = {} /\ offers'[u.room] = <<>> /\ ~Paired(u.room)'
          BY <1>2, <1>8, <1>9, <3>2, <4>2, <4>3 DEF LeftWell
        <5>2. Marked(u)' => u.rest = {}
          BY <3>2, <4>2, <4>3, <5>1 DEF LeftWell, Marked
        <5> QED
          BY <5>1, <5>2 DEF LeftWell
      <4>5. LineWell(u)'
        BY <1>2, <4>3 DEF LineWell, Lobby
      <4> QED
        BY <1>2, <1>9, <3>0, <3>1, <3>2, <4>3, <4>4, <4>5 DEF TaskKeeps, Marked, Leaving
    <3>3. CASE ~(u \in Leaving /\ Exists(u.room) /\ u.room = r)
      <4>1. ASSUME u \in Leaving, Exists(u.room), NEW p \in Players, entry'[p] # Nil, entry'[p] # entry[p]
            PROVE  entry'[p].retained # u.room /\ (Marked(u) => p \notin u.rest)
        <5>1. entry[p] # Nil /\ entry[p].offer = r /\ entry'[p].retained = entry[p].retained
          BY <1>7, <4>1
        <5>2. entry[p].retained = r /\ u.room # r
          BY <3>3, <4>1, <5>1, RoomParts DEF MarksAgree
        <5> QED
          BY <4>1, <5>1, <5>2 DEF Steady, HandlersWell, LeftWell
      <4>2. u \in Leaving /\ Exists(u.room) => offers'[u.room] = offers[u.room]
        BY <1>8, <3>0, <3>3
      <4> QED
        BY <1>2, <1>9, <3>0, <3>1, <4>1, <4>2, TaskFrame DEF Steady
    <3> QED
      BY <3>2, <3>3
  <2>2. n \notin Leaving' /\ RoomsUsed(n)' /\ LineWell(n)'
    BY <1>1, <1>2, <1>3, <1>5 DEF Leaving, RoomsUsed, LineWell, Steady, HandlersWell, Lobby
  <2>3. ASSUME NEW u \in Leaving, u \in Leaving', Exists(u.room)' PROVE Apart(u, n)'
    <3>0. u.room \in Rooms
      BY TaskTypes DEF IInv, Leaving
    <3>1. u # t
      BY <1>0, <1>5, <1>6, <2>3 DEF Leaving
    <3>2. Apart(u, t) /\ (Marked(u)' => Marked(u))
      BY <1>2, <1>3, <1>8, <1>9, <2>3, <3>0, <3>1 DEF Steady, HandlersWell, Marked
    <3> QED
      BY <1>2, <1>5, <2>2, <3>2 DEF Apart, InLine
  <2>4. work' \subseteq work \cup {n}
    BY <1>6
  <2> QED
    BY <1>2, <1>5, <2>1, <2>2, <2>3, <2>4, HandlersStep DEF Steady
<1> QED
  BY <1>12, <1>13, <1>14, <1>15 DEF Steady

LEMMA JoinSteady ==
  ASSUME IInv, IInv', Steady, NEW p \in Players, NEW r \in Rooms, Join(p, r), Orderly'
  PROVE  Steady'
<1>0. room \in [Rooms -> Room] /\ room[r] \in Room
  BY DEF IInv, TypeOK
<1>1. PICK x : x = [room[r] EXCEPT !.seats = room[r].seats \cup {p}, !.accepted = {}, !.clock = "off"]
  OBVIOUS
<1>2. /\ room' = [room EXCEPT ![r] = x] /\ work' = work /\ offers' = offers
      /\ ~Overtaken({p}, Handlers) /\ ~Bereaves(r)
      /\ Lobby(r) /\ Cardinality(room[r].seats) = 1 /\ p \notin room[r].seats
  <2>1. room' = [room EXCEPT ![r].seats = room[r].seats \cup {p}, ![r].accepted = {}, ![r].clock = "off"]
    BY <1>0 DEF Join
  <2>2. room' = [room EXCEPT ![r] = x]
    BY <1>0, <1>1, <2>1
  <2> QED
    BY <2>2 DEF Join, Orderly, Lobby
<1>3. /\ room'[r].stage = room[r].stage /\ room'[r].seats = room[r].seats \cup {p}
      /\ room'[r].queued = room[r].queued /\ room'[r].clock = "off" /\ room'[r].accepted = {}
      /\ \A q \in Rooms \ {r} : room'[q] = room[q]
  BY <1>0, <1>1, <1>2 DEF Room
<1>4. \A q \in Players : entry'[q] # Nil => entry'[q] = entry[q]
  BY DEF Join
<1>5. room[r].queued # {} => \A q \in Players : entry'[q] # Nil => entry'[q].retained # r
  BY DEF Join
<1>6. room[r].seats # {} /\ room[r].queued \subseteq room[r].seats /\ room[r].seats \subseteq Players
  <2>1. IsFiniteSet(room[r].seats)
    BY Shape
  <2>2. room[r].seats # {}
    BY <1>2, <2>1, FS_EmptySet
  <2> QED
    BY <2>2, Shape
<1>7. /\ ~Paired(r) /\ ~Paired(r)' /\ ~Matchmade(r) /\ ~Matchmade(r)' /\ ~Accepting(r)'
      /\ Lobby(r)' /\ Exists(r) /\ Exists(r)' /\ Row(r)' = Row(r)
      /\ \A q \in Rooms : (Lobby(q)' <=> Lobby(q)) /\ (Exists(q)' <=> Exists(q))
                          /\ room'[q].queued = room[q].queued /\ room'[q].stage = room[q].stage
  <2>1. ~Paired(r) /\ ~Paired(r)'
    BY <1>2, <1>3, <1>6 DEF Paired
  <2> QED
    BY <1>2, <1>3, <2>1 DEF Paired, Matchmade, Full, Accepting, Lobby, Exists, Row
<1>8. \A u \in Leaving : p \notin u.who
  BY <1>2 DEF Overtaken, Leaving, Handlers
<1>9. ASSUME NEW q \in Players, entry'[q] # Nil, entry'[q].retained = r
      PROVE  q \notin room'[r].seats
  <2>1. room[r].queued = {} /\ entry[q] # Nil /\ entry[q].retained = r
    BY <1>4, <1>5, <1>9
  <2>2. q \notin room[r].seats
    BY <1>2, <2>1, RoomParts DEF SeatsAgree
  <2>3. q # p
    <3>1. \E u \in Leaving : q \in u.who
      BY <1>2, <1>6, <2>1, <2>2, RoomParts DEF SeatsAgree
    <3> QED
      BY <1>8, <3>1
  <2> QED
    BY <1>3, <2>2, <2>3
<1>10. RoomWell(r)'
  <2>1. MarksAgree(r)'
    BY <1>4, <1>7, RoomParts DEF MarksAgree
  <2>2. RowAgrees(r)'
    BY <1>2, <1>7, RoomParts DEF RowAgrees, Leaving
  <2>3. SeatsAgree(r)'
    <3>1. ASSUME NEW q \in Players, entry'[q] # Nil, entry'[q].retained = r
          PROVE  \E t \in Leaving' : t.room = r /\ q \in t.who /\ q \in Row(r)'
      <4>1. entry[q] # Nil /\ entry[q].retained = r /\ q \notin room[r].seats
        BY <1>3, <1>4, <1>9, <3>1
      <4>2. \E t \in Leaving : t.room = r /\ q \in t.who /\ q \in Row(r)
        BY <1>2, <1>6, <4>1, RoomParts DEF SeatsAgree
      <4> QED
        BY <1>2, <1>7, <4>2 DEF Leaving
    <3>2. room'[r].seats \subseteq Players
      BY <1>3, <1>6
    <3> QED
      BY <1>9, <3>1, <3>2 DEF SeatsAgree
  <2>4. ClockAgrees(r)'
    BY <1>3, <1>7 DEF ClockAgrees
  <2> QED
    BY <2>1, <2>2, <2>3, <2>4 DEF RoomWell
<1>11. ASSUME NEW q \in Rooms \ {r} PROVE RoomWell(q)'
  <2>1. SearchesKeep(q)
    <3>1. Matchmade(q) => \A y \in room[q].seats : entry[y] # Nil => entry'[y] # Nil
      BY <1>2, NotBereaved
    <3> QED
      BY <1>4, <3>1, SearchesEnded
  <2> QED
    BY <1>2, <1>3, <2>1, RoomFrame DEF Steady, Leaving, Closing
<1>12. OneMatch'
  <2>1. \A q \in Rooms \ {r} : Matchmade(q)' => Matchmade(q)
    BY <1>3 DEF Matchmade, Full
  <2> QED
    BY <1>3, <1>7, <2>1, MatchFrame DEF Steady
<1>13. HandlersWell'
  <2>1. ASSUME NEW u \in work PROVE TaskKeeps(u)
    <3>0. u.room \in Rooms /\ u \in Tasks
      BY TaskTypes DEF IInv
    <3>1. CASE u.room = r /\ u \in Leaving
      <4>1. LeftWell(u) /\ LineWell(u) /\ u \in Handlers
        BY <1>7, <3>1 DEF Steady, HandlersWell, Leaving, Handlers
      <4>2. (Marked(u)' <=> Marked(u)) /\ Row(u.room)' = Row(u.room)
        BY <1>2 DEF Marked, Row
      <4>3. u.rest \subseteq Players
        BY <3>0, TaskTypes
      <4>4. LeftWell(u)'
        BY <1>2, <1>3, <1>4, <1>6, <1>7, <3>1, <4>1, <4>2, <4>3 DEF LeftWell
      <4>5. LineWell(u)'
        <5>1. RoomsUsed(u) /\ \A i \in DOMAIN u.line : u.line[i].keep \in Rooms \cup {Nil}
          BY <3>0, TaskTypes DEF Steady, HandlersWell
        <5> QED
          BY <1>7, <4>1, <5>1 DEF LineWell
      <4> QED
        BY <1>7, <3>0, <3>1, <4>1, <4>2, <4>4, <4>5 DEF TaskKeeps, Leaving
    <3>2. CASE ~(u.room = r /\ u \in Leaving)
      <4>1. u.do = "evict" => (room'[u.room].clock = "up" => room[u.room].clock = "up")
        BY <1>3, <3>0
      <4>2. u \in Leaving => room'[u.room] = room[u.room]
        BY <1>3, <3>0, <3>2
      <4> QED
        BY <1>2, <1>4, <1>7, <3>0, <4>1, <4>2, TaskFrame DEF Steady
    <3> QED
      BY <3>1, <3>2
  <2> QED
    BY <1>2, <1>7, <2>1, HandlersStep DEF Steady
<1> QED
  BY <1>10, <1>11, <1>12, <1>13 DEF Steady

(* Players give up seats. *)
LEMMA SeatsGivenUp ==
  ASSUME IInv, NEW r \in Rooms, NEW gone, room' = [room EXCEPT ![r] = Without(r, gone)]
  PROVE  /\ room'[r].stage = room[r].stage /\ room'[r].seats = room[r].seats \ gone
         /\ room'[r].queued = room[r].queued \ gone /\ room'[r].clock = "off" /\ room'[r].accepted = {}
         /\ \A q \in Rooms \ {r} : room'[q] = room[q]
         /\ \A q \in Rooms : (Lobby(q)' <=> Lobby(q)) /\ (Exists(q)' <=> Exists(q))
                             /\ room'[q].stage = room[q].stage
                             /\ (room'[q].clock = "up" => room[q].clock = "up")
         /\ gone \cap room[r].seats # {} => ~Paired(r)' /\ ~Matchmade(r)' /\ ~Accepting(r)' /\ ~Full(r)'
<1>1. room \in [Rooms -> Room] /\ room[r] \in Room
  BY DEF IInv, TypeOK
<1>2. PICK x : x = Without(r, gone)
  OBVIOUS
<1>3. /\ x.stage = room[r].stage /\ x.seats = room[r].seats \ gone
      /\ x.queued = room[r].queued \ gone /\ x.clock = "off" /\ x.accepted = {}
  BY <1>1, <1>2 DEF Without, Room
<1>4. room'[r] = x /\ \A q \in Rooms \ {r} : room'[q] = room[q]
  BY <1>1, <1>2
<1>5. gone \cap room[r].seats # {} => Cardinality(room'[r].seats) # 2
  BY <1>3, <1>4, Shape, OneLess
<1> QED
  BY <1>3, <1>4, <1>5 DEF Lobby, Exists, Paired, Matchmade, Accepting, Full

(* No other handler has to do with these players. *)
LEMMA NotOvertaken ==
  ASSUME NEW S, ~Overtaken(S, Handlers), NEW u \in Handlers
  PROVE  S \cap u.who = {} /\ S \cap u.rest = {} /\ S \cap InLine(u) = {}
  BY DEF Overtaken

LEMMA LeaveRoomSteady ==
  ASSUME IInv, IInv', Steady, NEW p \in Players, NEW r \in Rooms, LeaveRoom(p, r), Orderly'
  PROVE  Steady'
<1>1. PICK rest : rest = room[r].queued \ {p}
  OBVIOUS
<1>2. PICK n : n = Task("left", r, {p}, room[r].seats \ {p}, Requeue(r, rest, {}))
  OBVIOUS
<1>3. /\ room' = [room EXCEPT ![r] = Without(r, {p})] /\ work' = work \cup {n}
      /\ entry' = entry /\ offers' = offers /\ Lobby(r) /\ p \in room[r].seats
      /\ ~Overtaken({p} \cup rest, Handlers)
  BY <1>1, <1>2 DEF LeaveRoom, Orderly, Lobby
<1>4. /\ n.do = "left" /\ n.room = r /\ n.who = {p} /\ n.rest = room[r].seats \ {p}
      /\ n.line = Requeue(r, rest, {})
      /\ \A i \in DOMAIN n.line : n.line[i].keep = r /\ n.line[i].who \in rest
  BY <1>2, RequeueLine DEF Task
<1>5. /\ room'[r].stage = room[r].stage /\ room'[r].seats = room[r].seats \ {p}
      /\ room'[r].queued = rest /\ room'[r].clock = "off" /\ room'[r].accepted = {}
      /\ \A q \in Rooms \ {r} : room'[q] = room[q]
      /\ \A q \in Rooms : (Lobby(q)' <=> Lobby(q)) /\ (Exists(q)' <=> Exists(q))
                          /\ room'[q].stage = room[q].stage
                          /\ (room'[q].clock = "up" => room[q].clock = "up")
      /\ ~Paired(r)' /\ ~Matchmade(r)' /\ ~Accepting(r)' /\ ~Full(r)'
  BY <1>1, <1>3, SeatsGivenUp
<1>6. ASSUME NEW u \in Handlers
      PROVE  p \notin u.who /\ p \notin u.rest /\ p \notin InLine(u) /\ rest \cap u.rest = {} /\ rest \cap InLine(u) = {}
  <2>1. /\ ({p} \cup rest) \cap u.who = {} /\ ({p} \cup rest) \cap u.rest = {}
        /\ ({p} \cup rest) \cap InLine(u) = {}
    BY <1>3, NotOvertaken
  <2> QED
    BY <2>1
<1>7. n \in Leaving' /\ n \in Handlers' /\ n \notin work
  <2>1. n \notin Handlers
    BY <1>4, <1>6
  <2> QED
    BY <1>3, <1>4, <2>1 DEF Leaving, Handlers
<1>8. Exists(r) /\ Exists(r)' /\ Lobby(r)' /\ Row(r)' = Row(r) /\ room[r].queued \subseteq room[r].seats
      /\ room[r].seats \subseteq Players
  BY <1>3, <1>5, Shape DEF Exists, Lobby, Row
<1>9. ASSUME NEW u \in Leaving, u.room = r
      PROVE  rest = {} /\ LeftWell(u) /\ u \in Handlers
  <2>1. LeftWell(u) /\ u \in Handlers
    BY <1>8, <1>9 DEF Steady, HandlersWell, Leaving, Handlers
  <2> QED
    BY <1>1, <1>6, <1>9, <2>1 DEF LeftWell
<1>10. offers[r] # <<>> => Matchmade(r) /\ Row(r) = room[r].seats /\ Cardinality(room[r].seats) = 2
  <2> SUFFICES ASSUME offers[r] # <<>> PROVE Paired(r) /\ Row(r) = room[r].seats
    BY <1>3, RoomParts DEF ClockAgrees, Paired, Matchmade, Full, Lobby
  <2>1. ASSUME NEW u \in Leaving, u.room = r PROVE FALSE
    <3>1. rest = {} /\ LeftWell(u) /\ u \in Handlers /\ Marked(u) /\ p \notin u.rest
      BY <1>6, <1>9, <2>1 DEF Marked
    <3>2. u.rest = {}
      BY <1>1, <2>1, <3>1 DEF LeftWell
    <3> QED
      BY <1>3, <2>1, <3>1, <3>2 DEF LeftWell
  <2> QED
    BY <1>3, <2>1, RoomParts DEF RowAgrees
<1>11. ASSUME NEW q \in room[r].seats, entry[q] # Nil, entry[q].retained = r, room[r].seats # {q}
       PROVE  entry[q].offer = r /\ q \in Row(r)
  <2>1. Cardinality(room[r].seats) = 2
    <3>1. {q} \subseteq room[r].seats /\ {q} # room[r].seats /\ {q} # {} /\ room[r].seats # {}
      BY <1>11
    <3>2. Cardinality(room[r].seats) # 1
      BY <3>1, Shape, OneLess
    <3>3. Cardinality(room[r].seats) # 0
      BY <3>1, Shape, FS_EmptySet
    <3> QED
      BY <3>2, <3>3, Shape
  <2>2. Matchmade(r)
    BY <1>3, <1>11, <2>1, RoomParts DEF SeatsAgree, Full, Lobby
  <2> QED
    BY <1>8, <1>11, <2>2, RoomParts DEF MarksAgree
<1>12. RoomWell(r)'
  <2>1. MarksAgree(r)'
    BY <1>3, <1>5, <1>8, RoomParts DEF MarksAgree
  <2>2. RowAgrees(r)'
    BY <1>4, <1>5, <1>7 DEF RowAgrees
  <2>3. SeatsAgree(r)'
    <3>1. ASSUME NEW q \in room'[r].seats, entry'[q] # Nil, entry'[q].retained = r
          PROVE  q \in room'[r].queued
      <4>1. q \in room[r].queued
        BY <1>3, <1>5, <3>1, RoomParts DEF SeatsAgree
      <4> QED
        BY <1>1, <1>5, <3>1, <4>1
    <3>2. ASSUME NEW q \in Players \ room'[r].seats, entry'[q] # Nil, entry'[q].retained = r, room'[r].seats # {}
          PROVE  \E t \in Leaving' : t.room = r /\ q \in t.who /\ q \in Row(r)'
      <4>1. CASE q = p
        <5>1. q \in room[r].seats /\ room[r].seats # {q}
          BY <1>3, <1>5, <3>2, <4>1
        <5>2. q \in Row(r)
          BY <1>3, <1>11, <3>2, <5>1
        <5> QED
          BY <1>4, <1>7, <1>8, <4>1, <5>2
      <4>2. CASE q # p
        <5>1. q \notin room[r].seats /\ room[r].seats # {}
          BY <1>5, <3>2, <4>2
        <5>2. \E t \in Leaving : t.room = r /\ q \in t.who /\ q \in Row(r)
          BY <1>3, <3>2, <5>1, RoomParts DEF SeatsAgree
        <5> QED
          BY <1>3, <1>8, <5>2 DEF Leaving
      <4> QED
        BY <4>1, <4>2
    <3> QED
      BY <1>5, <3>1, <3>2 DEF SeatsAgree
  <2>4. ClockAgrees(r)'
    BY <1>5 DEF ClockAgrees
  <2> QED
    BY <2>1, <2>2, <2>3, <2>4 DEF RoomWell
<1>13. ASSUME NEW q \in Rooms \ {r} PROVE RoomWell(q)'
  BY <1>3, <1>5, RoomFrame DEF Steady, SearchesKeep, Leaving, Closing
<1>14. OneMatch'
  <2>1. \A q \in Rooms \ {r} : Matchmade(q)' => Matchmade(q)
    BY <1>5 DEF Matchmade, Full
  <2> QED
    BY <1>5, <2>1, MatchFrame DEF Steady
<1>15. HandlersWell'
  <2>1. ASSUME NEW u \in work PROVE TaskKeeps(u)
    <3>0. u.room \in Rooms /\ u \in Tasks
      BY TaskTypes DEF IInv
    <3>1. u \in Handlers => LineWell(u)'
      <4> SUFFICES ASSUME u \in Handlers PROVE LineWell(u)'
        OBVIOUS
      <4>1. RoomsUsed(u) /\ LineWell(u)
        BY DEF Steady, HandlersWell
      <4>2. \A q \in Rooms : \A x \in InLine(u) : x \in room[q].queued => x \in room'[q].queued
        BY <1>1, <1>5, <1>6
      <4> QED
        BY <1>5, <3>0, <4>1, <4>2, LineFrame
    <3>2. u.do = "evict" => SweepWell(u)'
      BY <1>3, <1>5, <3>0 DEF Steady, HandlersWell, SweepWell
    <3>3. ASSUME u \in Leaving, Exists(u.room)
          PROVE  LeftWell(u)' /\ room'[u.room].queued \subseteq room[u.room].queued
      <4>1. LeftWell(u) /\ u \in Handlers
        BY <3>3 DEF Steady, HandlersWell, Leaving, Handlers
      <4>2. CASE u.room = r
        <5>1. (Marked(u)' <=> Marked(u)) /\ Row(u.room)' = Row(u.room)
          BY <1>3 DEF Marked, Row
        <5>2. rest = {} /\ p \notin u.rest
          BY <1>6, <1>9, <3>3, <4>1, <4>2
        <5>3. room'[u.room].queued = {} /\ ~Paired(u.room)' /\ room'[u.room].seats = room[u.room].seats \ {p}
          BY <1>5, <4>2, <5>2 DEF Paired
        <5>4. Marked(u) => u.rest = {}
          BY <1>1, <4>1, <4>2, <5>2 DEF LeftWell
        <5> QED
          BY <1>3, <4>1, <5>1, <5>3, <5>4 DEF LeftWell
      <4>3. CASE u.room # r
        <5>1. room'[u.room] = room[u.room]
          BY <1>5, <3>0, <4>3
        <5>2. u.rest \subseteq Players
          BY <3>0, TaskTypes
        <5> QED
          BY <1>3, <3>0, <4>1, <5>1, <5>2, LeftFrame
      <4> QED
        BY <4>2, <4>3
    <3> QED
      BY <1>3, <1>5, <3>0, <3>1, <3>2, <3>3 DEF TaskKeeps, Marked
  <2>2. RoomsUsed(n)' /\ LineWell(n)'
    BY <1>4, <1>5, <1>8 DEF RoomsUsed, LineWell, Exists
  <2>3. offers[r] # <<>> => rest = room[r].seats \ {p}
    BY <1>1, <1>10 DEF Matchmade
  <2>4. LeftWell(n)'
    <3>1. Marked(n)' <=> offers[r] # <<>>
      BY <1>3, <1>4 DEF Marked
    <3>2. rest \subseteq n.rest /\ n.rest \subseteq room[r].seats
      BY <1>1, <1>4, <1>8
    <3>3. offers[r] # <<>> => \A q \in n.rest : entry[q] # Nil => entry[q].offer = r
      BY <1>10, <3>2, RoomParts DEF MarksAgree
    <3>4. offers[r] # <<>> => /\ Row(r) \cap {p} # {} /\ Row(r) \subseteq {p} \cup n.rest
                              /\ n.rest \subseteq Row(r) /\ n.rest \cap {p} = {} /\ n.rest # {}
      <4>1. \A q \in room[r].seats : Cardinality(room[r].seats) = 2 => room[r].seats \ {q} # {}
        BY Shape, OneLess
      <4> QED
        BY <1>3, <1>4, <1>10, <4>1
    <3>5. \A q \in rest : entry[q] # Nil /\ entry[q].retained = r => entry[q].offer = r
      <4>1. \A q \in rest : q \in room[r].seats /\ room[r].seats # {q}
        BY <1>1, <1>3, <1>8
      <4> QED
        BY <1>11, <4>1
    <3>6. /\ room'[n.room].queued = rest /\ ~Paired(n.room)' /\ Row(n.room)' = Row(r)
          /\ offers'[n.room] = offers[r] /\ entry' = entry
      BY <1>3, <1>4, <1>5, <1>8 DEF Paired
    <3> QED
      BY <1>4, <2>3, <3>1, <3>2, <3>3, <3>4, <3>5, <3>6 DEF LeftWell
  <2>5. ASSUME NEW u \in Handlers PROVE Apart(n, u)'
    <3>1. Marked(n)' => n.rest = rest
      BY <1>3, <1>4, <2>3 DEF Marked
    <3>2. u \in Leaving' /\ u.room = r => rest = {}
      <4>1. u \in Leaving' => u \in Leaving
        BY DEF Leaving, Handlers
      <4> QED
        BY <1>9, <4>1
    <3>3. \A i \in DOMAIN u.line : u.line[i].who \notin rest
      BY <1>6 DEF InLine
    <3> QED
      BY <1>4, <1>5, <1>6, <3>1, <3>2, <3>3 DEF Apart, InLine
  <2>6. ASSUME NEW u \in Leaving, Exists(u.room)' PROVE Apart(u, n)'
    <3>0. u \in Handlers /\ u.room \in Rooms
      BY TaskTypes DEF Leaving, Handlers, IInv
    <3>1. Marked(n)' => n.rest = rest
      BY <1>3, <1>4, <2>3 DEF Marked
    <3>2. u.room = r => room'[u.room].queued = {}
      BY <1>5, <1>9
    <3>3. InLine(n) \subseteq rest
      BY <1>4 DEF InLine
    <3> QED
      BY <1>4, <1>6, <3>0, <3>1, <3>2, <3>3 DEF Apart, InLine
  <2> QED
    BY <1>3, <1>4, <1>5, <1>7, <2>1, <2>2, <2>4, <2>5, <2>6, HandlersStep DEF Steady
<1> QED
  BY <1>12, <1>13, <1>14, <1>15 DEF Steady

(* Declining moves the searches of the offer, and no other. *)
LEMMA DeclinedOf ==
  ASSUME IInv, Steady, NEW p \in Players, NEW r \in Rooms, Decline(p, r), NEW q \in Players
  PROVE  /\ entry[q] = Nil <=> entry'[q] = Nil
         /\ entry[q] # Nil => \/ entry'[q] = entry[q] /\ entry[q].offer # r
                              \/ /\ entry[q].offer = r /\ entry'[q].offer = Nil
                                 /\ entry'[q].retained = IF q = p THEN Nil ELSE r
<1>1. entry \in [Players -> Entry \cup {Nil}] /\ r # Nil /\ Nil \notin Entry
  BY MatchmakingAssumption DEF IInv, TypeOK
<1>2. PICK gone : gone = [retained |-> Nil, offer |-> Nil, avoid |-> entry[p].avoid \cup {r} \cup (room[r].seats \ {p})]
  OBVIOUS
<1>3. PICK e : e = IF entry[p] # Nil /\ entry[p].offer = r THEN gone ELSE entry[p]
  OBVIOUS
<1> DEFINE after == [entry EXCEPT ![p] =
                       IF entry[p] # Nil /\ entry[p].offer = r
                       THEN [retained |-> Nil, offer |-> Nil,
                             avoid |-> entry[p].avoid \cup {r} \cup (room[r].seats \ {p})]
                       ELSE @]
<1>4. after = [entry EXCEPT ![p] = e]
  BY <1>2, <1>3
<1>5. entry' = [x \in Players |-> IF after[x] # Nil /\ after[x].offer = r
                                  THEN [after[x] EXCEPT !.offer = Nil, !.retained = r] ELSE after[x]]
  BY DEF Decline
<1> HIDE DEF after
<1>6. CASE q = p /\ entry[p] # Nil /\ entry[p].offer = r
  <2>1. gone \in Entry
    <3>1. entry[p] \in Entry /\ room[r].seats \subseteq Players
      BY <1>1, <1>6, Shape
    <3>2. entry[p].avoid \cup {r} \cup (room[r].seats \ {p}) \in SUBSET (Players \cup Rooms)
      BY <3>1 DEF Entry
    <3> QED
      BY <1>2, <3>2 DEF Entry
  <2>2. after[p] = gone /\ gone.offer = Nil /\ gone.retained = Nil /\ gone # Nil
    <3>1. gone # Nil
      BY <1>1, <2>1
    <3>2. gone.offer = Nil /\ gone.retained = Nil
      BY <1>2
    <3>3. after[p] = gone
      BY <1>1, <1>3, <1>4, <1>6
    <3> QED
      BY <3>1, <3>2, <3>3
  <2>3. entry'[p] = gone
    BY <1>1, <1>5, <2>2
  <2> QED
    BY <1>6, <2>2, <2>3
<1>7. CASE ~(q = p /\ entry[p] # Nil /\ entry[p].offer = r)
  <2>1. after[q] = entry[q]
    BY <1>1, <1>3, <1>4, <1>7
  <2>2. CASE entry[q] # Nil /\ entry[q].offer = r
    <3>1. PICK f \in Entry : f = entry[q]
      BY <1>1, <2>2
    <3>2. entry'[q] = [f EXCEPT !.offer = Nil, !.retained = r]
      BY <1>5, <2>1, <2>2, <3>1
    <3>3. [f EXCEPT !.offer = Nil, !.retained = r] \in Entry
      BY <3>1 DEF Entry
    <3>4. entry'[q].offer = Nil /\ entry'[q].retained = r /\ entry'[q] # Nil
      BY <1>1, <3>1, <3>2, <3>3 DEF Entry
    <3> QED
      BY <1>7, <2>2, <3>4
  <2>3. CASE ~(entry[q] # Nil /\ entry[q].offer = r)
    BY <1>5, <2>1, <2>3
  <2> QED
    BY <2>2, <2>3
<1> QED
  BY <1>6, <1>7

LEMMA DeclineSteady ==
  ASSUME IInv, IInv', Steady, NEW p \in Players, NEW r \in Rooms, Decline(p, r), Orderly'
  PROVE  Steady'
<1>1. PICK other : other = room[r].seats \ {p}
  OBVIOUS
<1>2. /\ Accepting(r) /\ p \in room[r].seats /\ room' = [room EXCEPT ![r] = Without(r, {p})]
      /\ offers' = [offers EXCEPT ![r] = <<>>] /\ ~Overtaken({p}, Handlers)
  BY DEF Decline, OffersDeclined, Orderly
<1>3. /\ room'[r].stage = room[r].stage /\ room'[r].seats = other
      /\ room'[r].queued = room[r].queued \ {p} /\ room'[r].clock = "off" /\ room'[r].accepted = {}
      /\ \A q \in Rooms \ {r} : room'[q] = room[q]
      /\ \A q \in Rooms : (Lobby(q)' <=> Lobby(q)) /\ (Exists(q)' <=> Exists(q))
                          /\ room'[q].stage = room[q].stage
                          /\ (room'[q].clock = "up" => room[q].clock = "up")
      /\ ~Paired(r)' /\ ~Matchmade(r)' /\ ~Accepting(r)' /\ ~Full(r)'
  BY <1>1, <1>2, SeatsGivenUp
<1>4. /\ Matchmade(r) /\ room[r].queued = room[r].seats /\ room'[r].queued = other
      /\ offers[r] # <<>> /\ Row(r) = room[r].seats /\ Lobby(r) /\ Exists(r)
      /\ \A t \in Leaving : t.room # r
      /\ room[r].seats \subseteq Players
  <2>1. Matchmade(r) /\ offers[r] # <<>>
    BY <1>2, RoomParts DEF Accepting, RowAgrees
  <2> QED
    BY <1>1, <1>3, <2>1, MatchedRow, Shape DEF Matchmade
<1>5. \A q \in room[r].seats : entry[q] # Nil /\ entry[q].offer = r
  BY <1>4, RoomParts DEF MarksAgree
<1>6. \A q \in Players :
        /\ entry[q] = Nil <=> entry'[q] = Nil
        /\ entry[q] # Nil => \/ entry'[q] = entry[q] /\ entry[q].offer # r
                             \/ /\ entry[q].offer = r /\ entry'[q].offer = Nil
                                /\ entry'[q].retained = IF q = p THEN Nil ELSE r
  BY DeclinedOf
<1>7. /\ offers'[r] = <<>> /\ \A q \in Rooms \ {r} : offers'[q] = offers[q]
      /\ Nil \notin Rooms
  BY <1>2, MatchmakingAssumption DEF IInv, TypeOK
<1>8. PICK n : /\ work' = work \cup {n} /\ n.do = "queue" /\ n.room = r
               /\ \A i \in DOMAIN n.line : /\ n.line[i].who \in room[r].seats
                                           /\ n.line[i].keep = Nil \/ (n.line[i].keep = r /\ n.line[i].who \in other)
  <2>1. PICK kept : kept = {s \in other : entry'[s] # Nil /\ entry'[s].retained = r}
    OBVIOUS
  <2>2. PICK on : on = Requeue(r, kept, {})
    OBVIOUS
  <2>3. PICK back : back = <<Again(p, Nil, {r})>>
    OBVIOUS
  <2>4. PICK line \in {on \o back, back \o on} :
          work' = work \cup {Task("queue", r, {}, {}, line)}
    BY <1>1, <2>1, <2>2, <2>3 DEF Decline
  <2>5. PICK T : T = {a \in Agains : /\ a.who \in room[r].seats
                                     /\ a.keep = Nil \/ (a.keep = r /\ a.who \in other)}
    OBVIOUS
  <2>6. on \in Seq(T)
    <3>1. CASE kept = {}
      BY <2>2, <3>1 DEF Requeue
    <3>2. CASE kept # {}
      <4>1. PICK s : s = CHOOSE x \in kept : TRUE
        OBVIOUS
      <4>2. s \in other /\ s \in Players /\ s \in room[r].seats
        BY <1>1, <1>4, <2>1, <3>2, <4>1
      <4>3. on = <<Again(s, r, {})>>
        BY <2>2, <3>2, <4>1 DEF Requeue
      <4>4. Again(s, r, {}) \in Agains
        BY <4>2, AgainTyped
      <4>5. Again(s, r, {}).who = s /\ Again(s, r, {}).keep = r
        BY DEF Again
      <4>6. Again(s, r, {}) \in T
        BY <2>5, <4>2, <4>4, <4>5
      <4> QED
        BY <4>3, <4>6
    <3> QED
      BY <3>1, <3>2
  <2>7. back \in Seq(T)
    <3>1. Again(p, Nil, {r}) \in Agains
      BY AgainTyped
    <3>2. Again(p, Nil, {r}).who = p /\ Again(p, Nil, {r}).keep = Nil
      BY DEF Again
    <3>3. PICK a : a = Again(p, Nil, {r})
      OBVIOUS
    <3>4. a \in T
      BY <1>2, <2>5, <3>1, <3>2, <3>3
    <3> QED
      BY <2>3, <3>3, <3>4
  <2>8. line \in Seq(T)
    BY <2>4, <2>6, <2>7, ConcatProperties
  <2>9. \A i \in DOMAIN line : line[i] \in T
    BY <2>8
  <2>10. PICK n : n = Task("queue", r, {}, {}, line)
    OBVIOUS
  <2>11. n.do = "queue" /\ n.room = r /\ n.line = line
    BY <2>10 DEF Task
  <2>12. \A i \in DOMAIN line : /\ line[i].who \in room[r].seats
                                /\ line[i].keep = Nil \/ (line[i].keep = r /\ line[i].who \in other)
    BY <2>5, <2>9
  <2> QED
    BY <2>4, <2>10, <2>11, <2>12
<1>9. n \notin Leaving' /\ \A u \in Leaving : u \in Leaving'
  BY <1>8 DEF Leaving
<1>10. ASSUME NEW q \in Rooms \ {r} PROVE RoomWell(q)'
  <2>1. SearchesKeep(q)
    <3>1. \A x \in room[q].seats : x \in Players
      BY Shape
    <3>2. ASSUME NEW x \in Players, entry'[x] # Nil, entry'[x] # entry[x]
          PROVE  /\ entry'[x].retained # q /\ entry'[x].offer # q
                 /\ Matchmade(q) => x \notin room[q].seats
      <4>1. entry[x] # Nil /\ entry[x].offer = r /\ entry'[x].offer = Nil /\ entry'[x].retained \in {Nil, r}
        BY <1>6, <3>2
      <4> QED
        BY <1>7, <4>1, RoomParts DEF MarksAgree
    <3> QED
      BY <1>6, <3>1, <3>2 DEF SearchesKeep
  <2> QED
    BY <1>3, <1>7, <1>8, <1>9, <2>1, RoomFrame DEF Steady, Closing
<1>11. RoomWell(r)'
  <2>1. MarksAgree(r)'
    <3>1. \A q \in Players : entry'[q] # Nil => entry'[q].offer # r
      BY <1>6, <1>7
    <3> QED
      BY <1>3, <3>1 DEF MarksAgree
  <2>2. RowAgrees(r)'
    BY <1>3, <1>7 DEF RowAgrees
  <2>3. SeatsAgree(r)'
    <3>1. ASSUME NEW q \in Players \ other, entry'[q] # Nil, entry'[q].retained = r PROVE FALSE
      <4>1. entry[q] # Nil /\ q # p
        BY <1>2, <1>5, <1>6, <1>7, <3>1
      <4>2. q \notin room[r].seats
        BY <1>1, <3>1, <4>1
      <4>3. entry[q].offer # r
        BY <1>4, <4>1, <4>2, RoomParts DEF MarksAgree
      <4>4. entry[q].retained = r
        BY <1>6, <3>1, <4>1, <4>3
      <4> QED
        BY <1>2, <1>4, <4>1, <4>2, <4>4, RoomParts DEF SeatsAgree
    <3> QED
      BY <1>3, <1>4, <3>1 DEF SeatsAgree
  <2>4. ClockAgrees(r)'
    BY <1>3, <1>7 DEF ClockAgrees
  <2> QED
    BY <2>1, <2>2, <2>3, <2>4 DEF RoomWell
<1>12. OneMatch'
  <2>1. \A q \in Rooms \ {r} : Matchmade(q)' => Matchmade(q)
    BY <1>3 DEF Matchmade, Full
  <2> QED
    BY <1>3, <2>1, MatchFrame DEF Steady
<1>13. HandlersWell'
  <2>1. ASSUME NEW u \in work PROVE TaskKeeps(u)
    <3>0. u.room \in Rooms /\ u \in Tasks
      BY TaskTypes DEF IInv
    <3>1. u \in Handlers => LineWell(u)'
      <4> SUFFICES ASSUME u \in Handlers PROVE LineWell(u)'
        OBVIOUS
      <4>1. RoomsUsed(u) /\ LineWell(u)
        BY DEF Steady, HandlersWell
      <4>2. p \notin InLine(u)
        BY <1>2, NotOvertaken
      <4>3. \A q \in Rooms : \A x \in InLine(u) : x \in room[q].queued => x \in room'[q].queued
        BY <1>3, <4>2
      <4> QED
        BY <1>3, <3>0, <4>1, <4>3, LineFrame
    <3>2. u.do = "evict" => SweepWell(u)'
      BY <1>3, <1>7, <3>0 DEF Steady, HandlersWell, SweepWell
    <3>3. ASSUME u \in Leaving, Exists(u.room)
          PROVE  /\ LeftWell(u)' /\ room'[u.room].queued = room[u.room].queued
                 /\ offers'[u.room] = offers[u.room]
      <4>1. LeftWell(u)
        BY <3>3 DEF Steady, HandlersWell
      <4>2. u.room # r /\ room'[u.room] = room[u.room] /\ offers'[u.room] = offers[u.room]
        BY <1>3, <1>4, <1>7, <3>0, <3>3
      <4>3. ASSUME NEW x \in Players, entry'[x] # Nil, entry'[x] # entry[x]
            PROVE  entry'[x].retained # u.room /\ (Marked(u) => x \notin u.rest)
        <5>1. entry[x] # Nil /\ entry[x].offer = r /\ entry'[x].retained \in {Nil, r}
          BY <1>6, <4>3
        <5> QED
          BY <1>7, <3>0, <4>1, <4>2, <5>1 DEF LeftWell
      <4>4. u.rest \subseteq Players
        BY <3>0, TaskTypes
      <4> QED
        BY <3>0, <4>1, <4>2, <4>3, <4>4, LeftFrame
    <3> QED
      BY <1>3, <3>0, <3>1, <3>2, <3>3 DEF TaskKeeps, Marked
  <2>2. RoomsUsed(n)' /\ LineWell(n)'
    <3>1. room'[r].stage # "unused"
      BY <1>3, <1>4 DEF Exists
    <3> QED
      BY <1>3, <1>4, <1>8, <3>1 DEF RoomsUsed, LineWell
  <2>3. ASSUME NEW u \in Leaving, Exists(u.room)' PROVE Apart(u, n)'
    <3>0. u.room \in Rooms /\ u \in Tasks
      BY TaskTypes DEF IInv, Leaving
    <3>1. Exists(u.room) /\ u.room # r /\ LeftWell(u) /\ offers'[u.room] = offers[u.room]
      BY <1>3, <1>4, <1>7, <2>3, <3>0 DEF Steady, HandlersWell
    <3>2. Marked(u)' => u.rest \cap room[r].seats = {}
      <4>1. Marked(u)' => Marked(u)
        BY <3>1 DEF Marked
      <4> QED
        BY <1>5, <3>1, <4>1 DEF LeftWell
    <3>3. InLine(n) \subseteq room[r].seats
      BY <1>8 DEF InLine
    <3>4. \A i \in DOMAIN n.line : n.line[i].keep # u.room
      BY <1>7, <1>8, <3>0, <3>1
    <3> QED
      BY <1>9, <3>2, <3>3, <3>4 DEF Apart, InLine
  <2> QED
    BY <1>3, <1>8, <1>9, <2>1, <2>2, <2>3, HandlersStep DEF Steady
<1> QED
  BY <1>10, <1>11, <1>12, <1>13 DEF Steady

(* Who the sweep still queues again is left in the room. *)
LEMMA KeptLine ==
  ASSUME NEW t \in Tasks, SweepWell(t), NEW rest
  PROVE  LET kept == SetToSeq({a \in Range(t.line) : a.who \in rest})
         IN  \A i \in DOMAIN kept : kept[i].keep = t.room /\ kept[i].who \in rest
<1>1. PICK S : S = {a \in Range(t.line) : a.who \in rest}
  OBVIOUS
<1>2. IsFiniteSet(S)
  <2>1. DOMAIN t.line = 1 .. Len(t.line) /\ Len(t.line) \in Nat
    BY TaskTypes, LenProperties
  <2>2. IsFiniteSet(DOMAIN t.line)
    BY <2>1, FS_Interval
  <2>3. IsFiniteSet({t.line[i] : i \in DOMAIN t.line})
    BY <2>2, FewValues
  <2>4. S \subseteq {t.line[i] : i \in DOMAIN t.line}
    BY <1>1 DEF Range
  <2> QED
    BY <2>3, <2>4, FS_Subset
<1>3. SetToSeq(S) \in Seq(S)
  BY <1>2, ListTyped
<1>4. PICK kept : kept = SetToSeq(S)
  OBVIOUS
<1>5. \A i \in DOMAIN kept : kept[i] \in S
  BY <1>3, <1>4
<1>6. \A a \in S : a.keep = t.room /\ a.who \in rest
  BY <1>1 DEF SweepWell, Range
<1> QED
  BY <1>1, <1>4, <1>5, <1>6

LEMMA ClockOnSteady ==
  ASSUME IInv, IInv', Steady, NEW t \in work, Evict(t, {}), Orderly'
  PROVE  Steady'
<1>0. t \in Tasks /\ t.room \in Rooms /\ room \in [Rooms -> Room]
  BY TaskTypes DEF IInv, TypeOK
<1>1. PICK r \in Rooms : r = t.room
  BY <1>0
<1>2. PICK x : x = [room[r] EXCEPT !.clock = "on"]
  OBVIOUS
<1>3. /\ room' = [room EXCEPT ![r] = x] /\ work' = work \ {t} /\ entry' = entry /\ offers' = offers
      /\ room[r].clock = "up" /\ t.do = "evict"
  <2>1. room' = [room EXCEPT ![r].clock = "on"]
    BY <1>1 DEF Evict
  <2>2. room' = [room EXCEPT ![r] = x]
    BY <1>2, <2>1
  <2> QED
    BY <1>1, <2>2 DEF Evict
<1>4. /\ room'[r].stage = room[r].stage /\ room'[r].seats = room[r].seats
      /\ room'[r].queued = room[r].queued /\ room'[r].clock = "on"
      /\ room'[r].accepted = room[r].accepted
      /\ \A q \in Rooms \ {r} : room'[q] = room[q]
  BY <1>0, <1>2, <1>3 DEF Room
<1>5. /\ \A q \in Rooms : (Matchmade(q)' <=> Matchmade(q)) /\ (Full(q)' <=> Full(q))
                          /\ (Lobby(q)' <=> Lobby(q)) /\ (Paired(q)' <=> Paired(q)) /\ (Exists(q)' <=> Exists(q))
                          /\ (Accepting(q)' <=> Accepting(q))
                          /\ Row(q)' = Row(q) /\ room'[q].seats = room[q].seats
                          /\ room'[q].queued = room[q].queued /\ room'[q].stage = room[q].stage
  BY <1>3, <1>4 DEF Matchmade, Accepting, Full, Lobby, Paired, Exists, Row
<1>6. Leaving' = Leaving /\ Closing \subseteq Closing'
  BY <1>3 DEF Leaving, Closing
<1>7. RoomWell(r)'
  <2>1. MarksAgree(r)' /\ RowAgrees(r)' /\ SeatsAgree(r)'
    BY <1>3, <1>5, <1>6, RoomParts DEF MarksAgree, RowAgrees, SeatsAgree
  <2>2. ClockAgrees(r)'
    BY <1>3, <1>4, <1>5, <1>6, RoomParts DEF ClockAgrees
  <2> QED
    BY <2>1, <2>2 DEF RoomWell
<1>8. ASSUME NEW q \in Rooms \ {r} PROVE RoomWell(q)'
  BY <1>3, <1>4, <1>6, RoomFrame DEF Steady, SearchesKeep, Closing
<1>9. OneMatch'
  BY <1>5, MatchFrame DEF Steady
<1>10. HandlersWell'
  <2>1. ASSUME NEW u \in work PROVE TaskKeeps(u)
    <3>1. u.room \in Rooms
      BY TaskTypes DEF IInv
    <3>2. room'[u.room].clock = "up" => room[u.room].clock = "up"
      BY <1>4, <3>1
    <3> QED
      BY <1>3, <1>5, <3>1, <3>2, TaskFrame DEF Steady
  <2> QED
    BY <1>3, <1>5, <2>1, HandlersStep DEF Steady
<1> QED
  BY <1>7, <1>8, <1>9, <1>10 DEF Steady

LEMMA EvictSteady ==
  ASSUME IInv, IInv', Steady, NEW t \in work, NEW out \in SUBSET Players, out # {}, Evict(t, out), Orderly'
  PROVE  Steady'
<1>0. t \in Tasks /\ t.room \in Rooms
  BY TaskTypes DEF IInv
<1>1. PICK r \in Rooms : r = t.room
  BY <1>0
<1>2. /\ Matchmade(r) /\ room[r].clock = "up" /\ out \subseteq room[r].seats /\ t.do = "evict"
      /\ room' = [room EXCEPT ![r] = Without(r, out)] /\ entry' = entry /\ offers' = offers
      /\ ~Overtaken(room[r].seats, Handlers)
  BY <1>1 DEF Evict, Orderly
<1>3. PICK rest : rest = room[r].seats \ out
  OBVIOUS
<1>4. rest = IF Cardinality(out) = 1 THEN room[r].seats \ out ELSE {}
  <2>1. /\ out # room[r].seats => Cardinality(out) = 1
        /\ Cardinality(room[r].seats) = 2
    BY <1>2, Shape, OneLess DEF Matchmade, Full
  <2> QED
    BY <1>3, <2>1
<1>5. SweepWell(t)
  BY <1>2 DEF Steady, HandlersWell
<1>6. PICK kept : kept = SetToSeq({a \in Range(t.line) : a.who \in rest})
  OBVIOUS
<1>7. \A i \in DOMAIN kept : kept[i].keep = r /\ kept[i].who \in rest
  BY <1>0, <1>1, <1>5, <1>6, KeptLine
<1>8. PICK n : n = IF t.line = <<>> THEN Task("queue", r, {}, {}, Requeue(r, rest, {}))
                   ELSE Task("clean", r, out, rest, kept)
  OBVIOUS
<1>9. /\ work' = (work \ {t}) \cup IF n.do = "queue" /\ n.line = <<>> THEN {} ELSE {n}
  BY <1>1, <1>2, <1>4, <1>6, <1>8 DEF Evict
<1>10. /\ n.room = r /\ \A i \in DOMAIN n.line : n.line[i].keep = r /\ n.line[i].who \in rest
       /\ \/ n.do = "queue" /\ offers[r] = <<>>
          \/ n.do = "clean" /\ n.who = out /\ n.rest = rest /\ n \in work'
  <2>1. CASE t.line = <<>>
    <3>1. offers[r] = <<>>
      BY <1>1, <1>2, <1>5, <2>1 DEF SweepWell
    <3>2. n.do = "queue" /\ n.room = r /\ n.line = Requeue(r, rest, {})
      BY <1>8, <2>1 DEF Task
    <3> QED
      BY <3>1, <3>2, RequeueLine
  <2>2. CASE t.line # <<>>
    <3>1. n.do = "clean" /\ n.who = out /\ n.rest = rest /\ n.room = r /\ n.line = kept
      BY <1>8, <2>2 DEF Task
    <3> QED
      BY <1>7, <1>9, <3>1
  <2> QED
    BY <2>1, <2>2
<1>11. /\ room'[r].stage = room[r].stage /\ room'[r].seats = rest
       /\ room'[r].queued = rest /\ room'[r].clock = "off" /\ room'[r].accepted = {}
       /\ \A q \in Rooms \ {r} : room'[q] = room[q]
       /\ \A q \in Rooms : (Lobby(q)' <=> Lobby(q)) /\ (Exists(q)' <=> Exists(q))
                           /\ room'[q].stage = room[q].stage
                           /\ (room'[q].clock = "up" => room[q].clock = "up")
       /\ ~Paired(r)' /\ ~Matchmade(r)' /\ ~Accepting(r)' /\ ~Full(r)'
  <2>1. room[r].queued = room[r].seats /\ out \cap room[r].seats # {}
    BY <1>2 DEF Matchmade
  <2> QED
    BY <1>2, <1>3, <2>1, SeatsGivenUp
<1>12. /\ offers[r] # <<>> => Row(r) = room[r].seats
       /\ Lobby(r) /\ Exists(r) /\ \A u \in Leaving : u.room # r
       /\ room[r].seats \subseteq Players /\ room[r].seats # {} /\ room[r].queued = room[r].seats
       /\ Row(r)' = Row(r) /\ (offers[r] = <<>> => Row(r) = {})
  BY <1>2, MatchedRow, Shape, OneLess, RowOf DEF Matchmade, Full, Row
<1>13. \A q \in room[r].seats : entry[q] # Nil => entry[q].offer = r /\ q \in Row(r)
  BY <1>2, <1>12, RoomParts DEF MarksAgree
<1>14. ASSUME NEW u \in Handlers
       PROVE  /\ room[r].seats \cap u.who = {} /\ room[r].seats \cap u.rest = {}
              /\ room[r].seats \cap InLine(u) = {}
  BY <1>2, NotOvertaken
<1>15. /\ Closing \subseteq Closing'
       /\ \A u \in Leaving : u \in Leaving'
       /\ work' \subseteq work \cup {n}
  BY <1>2, <1>9 DEF Leaving, Closing
<1>16. RoomWell(r)'
  <2>1. MarksAgree(r)'
    BY <1>2, <1>11, <1>12, RoomParts DEF MarksAgree
  <2>2. RowAgrees(r)'
    BY <1>2, <1>10, <1>11 DEF RowAgrees, Leaving
  <2>3. SeatsAgree(r)'
    <3>1. ASSUME NEW q \in Players \ rest, entry[q] # Nil, entry[q].retained = r
          PROVE  \E u \in Leaving' : u.room = r /\ q \in u.who /\ q \in Row(r)
      <4>1. q \in room[r].seats
        BY <1>12, <3>1, RoomParts DEF SeatsAgree
      <4>2. q \in out /\ q \in Row(r)
        BY <1>3, <1>13, <3>1, <4>1
      <4>3. n.do = "clean" /\ n.who = out /\ n \in work'
        BY <1>10, <1>12, <4>2
      <4> QED
        BY <1>10, <4>2, <4>3 DEF Leaving
    <3> QED
      BY <1>2, <1>11, <1>12, <3>1 DEF SeatsAgree
  <2>4. ClockAgrees(r)'
    BY <1>11 DEF ClockAgrees
  <2> QED
    BY <2>1, <2>2, <2>3, <2>4 DEF RoomWell
<1>17. ASSUME NEW q \in Rooms \ {r} PROVE RoomWell(q)'
  BY <1>2, <1>11, <1>15, RoomFrame DEF Steady, SearchesKeep
<1>18. OneMatch'
  <2>1. \A q \in Rooms \ {r} : Matchmade(q)' => Matchmade(q)
    BY <1>11 DEF Matchmade, Full
  <2> QED
    BY <1>11, <2>1, MatchFrame DEF Steady
<1>19. HandlersWell'
  <2>1. ASSUME NEW u \in work PROVE TaskKeeps(u)
    <3>0. u.room \in Rooms /\ u \in Tasks
      BY TaskTypes DEF IInv
    <3>1. u \in Handlers => LineWell(u)'
      <4> SUFFICES ASSUME u \in Handlers PROVE LineWell(u)'
        OBVIOUS
      <4>1. RoomsUsed(u) /\ LineWell(u)
        BY DEF Steady, HandlersWell
      <4>2. \A q \in Rooms : \A x \in InLine(u) : x \in room[q].queued => x \in room'[q].queued
        BY <1>11, <1>12, <1>14
      <4> QED
        BY <1>11, <3>0, <4>1, <4>2, LineFrame
    <3>2. u.do = "evict" => SweepWell(u)'
      BY <1>2, <1>11, <3>0 DEF Steady, HandlersWell, SweepWell
    <3>3. ASSUME u \in Leaving, Exists(u.room)
          PROVE  LeftWell(u)' /\ room'[u.room].queued = room[u.room].queued
      <4>1. LeftWell(u) /\ u.room # r
        BY <1>12, <3>3 DEF Steady, HandlersWell
      <4>2. room'[u.room] = room[u.room] /\ u.rest \subseteq Players
        BY <1>11, <3>0, <4>1, TaskTypes
      <4> QED
        BY <1>2, <3>0, <4>1, <4>2, LeftFrame
    <3> QED
      BY <1>2, <1>11, <3>0, <3>1, <3>2, <3>3 DEF TaskKeeps, Marked
  <2>2. RoomsUsed(n)' /\ LineWell(n)'
    BY <1>10, <1>11, <1>12 DEF RoomsUsed, LineWell, Exists
  <2>3. ASSUME n \in Leaving' PROVE LeftWell(n)'
    <3>1. n.do = "clean" /\ n.who = out /\ n.rest = rest /\ n.room = r
      BY <1>10, <2>3 DEF Leaving
    <3>2. rest \subseteq room[r].seats /\ room[r].seats \subseteq out \cup rest /\ rest \cap out = {}
          /\ room[r].seats \cap out # {}
      BY <1>2, <1>3
    <3> QED
      BY <1>2, <1>11, <1>12, <1>13, <3>1, <3>2 DEF LeftWell, Paired
  <2>4. ASSUME n \in Leaving', NEW u \in Handlers PROVE Apart(n, u)'
    <3>1. n.rest = rest /\ n.room = r /\ rest \subseteq room[r].seats
      BY <1>3, <1>10, <2>4 DEF Leaving
    <3>2. u \in Leaving' => u.room # r
      BY <1>12 DEF Leaving, Handlers
    <3>3. \A i \in DOMAIN u.line : u.line[i].who \notin room[r].seats
      BY <1>14 DEF InLine
    <3>4. rest \cap InLine(u) = {} /\ rest \cap u.rest = {}
      BY <1>14, <3>1
    <3> QED
      BY <1>11, <3>1, <3>2, <3>3, <3>4 DEF Apart, InLine
  <2>5. ASSUME NEW u \in Leaving, Exists(u.room)' PROVE Apart(u, n)'
    <3>1. u.room # r /\ u \in Handlers
      BY <1>12 DEF Leaving, Handlers
    <3>2. rest \cap u.rest = {}
      BY <1>3, <1>14, <3>1
    <3>3. InLine(n) \subseteq rest
      BY <1>10 DEF InLine
    <3>4. n \in Leaving' => n.rest = rest /\ n.room = r
      BY <1>10 DEF Leaving
    <3> QED
      BY <1>10, <3>1, <3>2, <3>3, <3>4 DEF Apart, InLine
  <2>6. n.do # "evict"
    BY <1>10
  <2> QED
    BY <1>11, <1>15, <2>1, <2>2, <2>3, <2>4, <2>5, <2>6, HandlersStep DEF Steady
<1> QED
  BY <1>16, <1>17, <1>18, <1>19 DEF Steady

-----------------------------------------------------------------------------
(* queueForMatch                                                             *)

(* Whoever queues has no match, the room he waits in has his seat, and no    *)
(* handler that will change his search is under way.                         *)
Seeks(p, keep) ==
  /\ ~Assigned(p)
  /\ keep # Nil => Exists(keep) /\ (Lobby(keep) => p \in room[keep].queued)
  /\ \A u \in Leaving : Exists(u.room) => /\ Marked(u) => p \notin u.rest
                                          /\ p \in room[u.room].queued => keep # u.room

LEMMA Unmatched ==
  ASSUME NEW p, ~Assigned(p), NEW q \in Rooms, Matchmade(q)
  PROVE  p \notin room[q].seats
  BY DEF Assigned, Matchmade

(* What a transaction of queueForMatch leaves well. *)
TablesWell ==
  /\ \A q \in Rooms : RoomWell(q)'
  /\ OneMatch'
  /\ \A u \in work : TaskKeeps(u)
  /\ \A q \in Rooms : room'[q].stage = "unused" => room[q].stage = "unused"

LEMMA WaitWell ==
  ASSUME IInv, Steady, NEW p \in Players, NEW keep \in Rooms \cup {Nil}, NEW avoid, Seeks(p, keep),
         Wait(p, keep, avoid), Leaving' = Leaving,
         Closing \subseteq Closing'
  PROVE  TablesWell
<1>0. room \in [Rooms -> Room] /\ entry \in [Players -> Entry \cup {Nil}] /\ Nil \notin Rooms /\ Nil \notin Entry
  BY MatchmakingAssumption DEF IInv, TypeOK
<1>1. PICK r \in Rooms :
        /\ entry' = [entry EXCEPT ![p] = [retained |-> r, offer |-> Nil, avoid |-> avoid]]
        /\ \/ keep = r /\ room' = room
           \/ /\ keep = Nil /\ room[r].stage = "unused"
              /\ room' = [room EXCEPT ![r] = [NoRoom EXCEPT !.stage = "lobby", !.seats = {p}, !.queued = {p}]]
  BY DEF Wait
<1>2. /\ offers' = offers /\ entry'[p].retained = r /\ entry'[p].offer = Nil
      /\ \A x \in Players \ {p} : entry'[x] = entry[x]
  BY <1>0, <1>1 DEF Wait
<1>3. \A q \in Rooms \ {r} : room'[q] = room[q]
  BY <1>0, <1>1
<1>4. \A q \in Rooms : Matchmade(q) => p \notin room[q].seats
  BY Unmatched DEF Seeks
<1>5. ASSUME NEW q \in Rooms \ {r} PROVE RoomWell(q)'
  <2>1. SearchesKeep(q)
    <3>1. room[q].seats \subseteq Players
      BY Shape
    <3> QED
      BY <1>0, <1>2, <1>4, <3>1 DEF SearchesKeep
  <2> QED
    BY <1>2, <1>3, <2>1, RoomFrame DEF Steady, Closing
<1>6. CASE keep = r /\ room' = room
  <2>1. Exists(r) /\ (Lobby(r) => p \in room[r].queued /\ ~Full(r))
    BY <1>6, <1>0 DEF Seeks, Assigned
  <2>2. /\ \A q \in Rooms : (Matchmade(q)' <=> Matchmade(q)) /\ (Full(q)' <=> Full(q))
                            /\ (Lobby(q)' <=> Lobby(q)) /\ (Paired(q)' <=> Paired(q)) /\ (Exists(q)' <=> Exists(q))
                            /\ (Accepting(q)' <=> Accepting(q)) /\ Row(q)' = Row(q)
    BY <1>2, <1>6 DEF Matchmade, Accepting, Full, Lobby, Paired, Exists, Row
  <2>3. RoomWell(r)'
    <3>0. room[r].seats \subseteq Players /\ room[r].queued \subseteq room[r].seats
      BY Shape
    <3>1. MarksAgree(r)'
      BY <1>0, <1>2, <1>4, <1>6, <2>2, <3>0, RoomParts DEF MarksAgree
    <3>2. RowAgrees(r)' /\ ClockAgrees(r)'
      BY <1>2, <1>6, <2>2, RoomParts DEF RowAgrees, ClockAgrees
    <3>3. SeatsAgree(r)'
      BY <1>2, <1>6, <2>1, <2>2, <3>0, RoomParts DEF SeatsAgree
    <3> QED
      BY <3>1, <3>2, <3>3 DEF RoomWell
  <2>4. OneMatch'
    BY <1>6, <2>2, MatchFrame DEF Steady
  <2>5. ASSUME NEW u \in work PROVE TaskKeeps(u)
    <3>1. u \in Leaving /\ Exists(u.room) =>
            /\ p \in room[u.room].queued => r # u.room
            /\ Marked(u) => p \notin u.rest
      BY <1>6 DEF Seeks
    <3>2. u \in Tasks /\ u.room \in Rooms
      BY TaskTypes DEF IInv
    <3> QED
      BY <1>2, <1>6, <2>2, <3>1, <3>2, TaskFrame DEF Steady
  <2> QED
    BY <1>5, <1>6, <2>3, <2>4, <2>5 DEF TablesWell
<1>7. CASE /\ keep = Nil /\ room[r].stage = "unused"
           /\ room' = [room EXCEPT ![r] = [NoRoom EXCEPT !.stage = "lobby", !.seats = {p}, !.queued = {p}]]
  <2>1. /\ room'[r].stage = "lobby" /\ room'[r].seats = {p} /\ room'[r].queued = {p}
        /\ room'[r].accepted = {} /\ room'[r].clock = "off" /\ Cardinality(room'[r].seats) = 1
    BY <1>0, <1>7, FS_Singleton DEF NoRoom
  <2>2. ~Matchmade(r)' /\ ~Accepting(r)' /\ ~Full(r)' /\ ~Paired(r)' /\ Lobby(r)'
    BY <2>1 DEF Matchmade, Accepting, Full, Paired, Lobby
  <2>3. ~Exists(r) /\ offers[r] = <<>> /\ ~Matchmade(r)
        /\ \A x \in Players : entry[x] # Nil => entry[x].retained # r /\ entry[x].offer # r
    BY <1>7, Shape DEF Exists, Matchmade, Full
  <2>4. RoomWell(r)'
    <3>1. MarksAgree(r)'
      BY <1>0, <1>2, <2>2, <2>3 DEF MarksAgree
    <3>2. RowAgrees(r)' /\ ClockAgrees(r)'
      BY <1>2, <2>1, <2>2, <2>3 DEF RowAgrees, ClockAgrees
    <3>3. SeatsAgree(r)'
      BY <1>2, <2>1, <2>2, <2>3 DEF SeatsAgree
    <3> QED
      BY <3>1, <3>2, <3>3 DEF RoomWell
  <2>5. OneMatch'
    <3>1. \A q \in Rooms \ {r} : Matchmade(q)' => Matchmade(q)
      BY <1>3 DEF Matchmade, Full
    <3> QED
      BY <1>3, <2>2, <3>1, MatchFrame DEF Steady
  <2>6. ASSUME NEW u \in work PROVE TaskKeeps(u)
    <3>0. u \in Tasks /\ u.room \in Rooms /\ u.room # r
      BY <1>7, TaskTypes DEF IInv, Steady, HandlersWell, RoomsUsed
    <3>1. u \in Leaving /\ Exists(u.room) => (Marked(u) => p \notin u.rest)
      BY DEF Seeks
    <3>2. room'[u.room] = room[u.room] /\ (Exists(u.room)' <=> Exists(u.room))
      BY <1>3, <3>0 DEF Exists
    <3>3. \A q \in Rooms : Lobby(q)' => room[q].stage = "unused" \/ (Lobby(q) /\ room'[q] = room[q])
      BY <1>3, <1>7 DEF Lobby
    <3> QED
      BY <1>2, <3>0, <3>1, <3>2, <3>3, TaskFrame DEF Steady
  <2>7. \A q \in Rooms : room'[q].stage = "unused" => room[q].stage = "unused"
    BY <1>3, <1>7
  <2> QED
    BY <1>5, <2>4, <2>5, <2>6, <2>7 DEF TablesWell
<1> QED
  BY <1>1, <1>6, <1>7

(* Where a pair meets, what it takes along and what goes. *)
Meets(p, o, avoid, r, gone) ==
  /\ r \notin gone
  /\ room[r].stage = "unused" \/
       (Lobby(r) /\ room[r].seats # {} /\ room[r].seats \subseteq {p, o} /\ ~Full(r))
  /\ \A u \in Leaving : u.room # r
  /\ offers[r] = <<>> /\ offers'[r] = <<o, p>>
  /\ room'[r].stage = "lobby" /\ room'[r].seats = {p, o} /\ room'[r].queued = {p, o}
  /\ room'[r].accepted = {} /\ room'[r].clock = "on"
  /\ \A x \in gone : Lobby(x) /\ ~Full(x) /\ room'[x].stage = "deleted" /\ room'[x].clock = "off"
                     /\ offers'[x] = <<>> /\ room[x].seats \subseteq {p, o}
  /\ \A x \in Rooms \ ({r} \cup gone) : room'[x] = room[x] /\ offers'[x] = offers[x]
  /\ \A x \in {p, o} : entry'[x] # Nil /\ entry'[x].retained = r /\ entry'[x].offer = r
  /\ entry'[p].avoid = avoid /\ entry'[o].avoid = entry[o].avoid
  /\ \A x \in Players \ {p, o} :
       entry'[x] = IF entry[x] = Nil \/ entry[x].retained \in gone THEN Nil ELSE entry[x]

LEMMA PairOf ==
  ASSUME IInv, Steady, NEW p \in Players, NEW keep \in Rooms \cup {Nil},
         NEW avoid \in SUBSET (Players \cup Rooms), Seeks(p, keep),
         NEW o \in Candidates(p, keep, avoid), Pair(p, keep, avoid, o)
  PROVE  \E r \in Rooms, gone \in SUBSET Rooms : Meets(p, o, avoid, r, gone)
<1>0. /\ room \in [Rooms -> Room] /\ entry \in [Players -> Entry \cup {Nil}] /\ Nil \notin Rooms /\ Nil \notin Entry
      /\ offers \in [Rooms -> (Players \X Players) \cup {<<>>}]
  BY MatchmakingAssumption DEF IInv, TypeOK
<1>1. /\ o \in Players /\ o # p /\ entry[o] # Nil /\ entry[o] \in Entry /\ entry[o].offer = Nil
      /\ entry[o].retained \in Rooms /\ o \in room[entry[o].retained].seats
  BY <1>0 DEF Candidates, Entry
<1>2. PICK m \in Rooms : m = entry[o].retained
  BY <1>1
<1>3. PICK r \in Venue(p, keep, o) :
       LET gone == {x \in Rooms \ {r} :
                      /\ room[x].stage = "lobby"
                      /\ \/ x = keep /\ room[x].seats \subseteq {p}
                         \/ x = entry[o].retained /\ room[x].seats \subseteq {o}}
           here == IF room[r].stage = "unused" THEN NoRoom ELSE room[r]
           came == {p, o} \ here.seats
           seated == [here EXCEPT !.stage = "lobby", !.seats = {p, o},
                                  !.queued = @ \cup came, !.accepted = {}, !.clock = "on"]
       IN  /\ room' = RoomsWithout([room EXCEPT ![r] = seated], gone)
           /\ entry' = EntriesPaired(p, keep, avoid, o, r, gone)
           /\ offers' = OffersWithout([offers EXCEPT ![r] = IF @ = <<>> THEN <<o, p>> ELSE @], gone)
  BY DEF Pair
<1>4. PICK gone :
        gone = {x \in Rooms \ {r} :
                      /\ room[x].stage = "lobby"
                      /\ \/ x = keep /\ room[x].seats \subseteq {p}
                         \/ x = m /\ room[x].seats \subseteq {o}}
  OBVIOUS
<1>5. PICK here : here = IF room[r].stage = "unused" THEN NoRoom ELSE room[r]
  OBVIOUS
<1>6. PICK seated : seated = [here EXCEPT !.stage = "lobby", !.seats = {p, o},
                                !.queued = @ \cup ({p, o} \ here.seats), !.accepted = {}, !.clock = "on"]
  OBVIOUS
<1>7. /\ room' = RoomsWithout([room EXCEPT ![r] = seated], gone)
      /\ entry' = EntriesPaired(p, keep, avoid, o, r, gone)
      /\ offers' = OffersWithout([offers EXCEPT ![r] = IF @ = <<>> THEN <<o, p>> ELSE @], gone)
  BY <1>2, <1>3, <1>4, <1>5, <1>6
<1>8. \/ r = keep /\ Alone(r, p) /\ keep # Nil
      \/ r = m /\ Alone(r, o)
      \/ room[r].stage = "unused"
  BY <1>2, <1>3 DEF Venue
<1>9. r \in Rooms /\ gone \in SUBSET Rooms /\ r \notin gone
  BY <1>2, <1>3, <1>4, <1>8 DEF Venue
<1>10. /\ \A u \in Leaving : u.room # r
       /\ offers[r] = <<>>
       /\ room[r].stage # "unused" => room[r].queued = room[r].seats /\ Lobby(r)
                                      /\ Cardinality(room[r].seats) # 2
  <2>1. CASE r = keep /\ Alone(r, p)
    <3>1. Lobby(r) /\ Exists(r) /\ room[r].seats = {p} /\ p \in room[r].queued /\ Cardinality(room[r].seats) = 1
      BY <1>0, <1>9, <2>1, FS_Singleton DEF Alone, Lobby, Exists, Seeks
    <3>2. \A u \in Leaving : u.room # r
      BY <2>1, <3>1 DEF Seeks
    <3>3. offers[r] = <<>>
      <4>1. RowAgrees(r) /\ ~Paired(r)
        BY <1>9, <3>1, RoomParts DEF Paired
      <4> QED
        BY <3>1, <3>2, <4>1 DEF RowAgrees
    <3>4. room[r].queued = room[r].seats
      BY <1>9, <3>1, Shape
    <3> QED
      BY <3>1, <3>2, <3>3, <3>4
  <2>2. CASE r = m /\ Alone(r, o)
    <3>1. Lobby(r) /\ Exists(r) /\ room[r].seats = {o} /\ Cardinality(room[r].seats) = 1
      BY <2>2, FS_Singleton DEF Alone, Lobby, Exists
    <3>2. o \in room[r].queued
      BY <1>1, <1>2, <1>9, <2>2, <3>1, RoomParts DEF SeatsAgree
    <3>3. \A u \in Leaving : u.room # r
      BY <1>0, <1>1, <1>2, <1>9, <2>2, <3>1, <3>2 DEF Steady, HandlersWell, LeftWell
    <3>4. offers[r] = <<>>
      <4>1. RowAgrees(r) /\ ~Paired(r)
        BY <1>9, <3>1, RoomParts DEF Paired
      <4> QED
        BY <3>1, <3>3, <4>1 DEF RowAgrees
    <3>5. room[r].queued = room[r].seats
      BY <1>9, <3>1, <3>2, Shape
    <3> QED
      BY <3>1, <3>3, <3>4, <3>5
  <2>3. CASE room[r].stage = "unused"
    <3>1. offers[r] = <<>>
      BY <1>9, <2>3, Shape DEF Exists
    <3>2. \A u \in Leaving : u.room # r
      BY <2>3 DEF Steady, HandlersWell, RoomsUsed, Leaving
    <3> QED
      BY <2>3, <3>1, <3>2
  <2> QED
    BY <1>8, <2>1, <2>2, <2>3
<1>11. /\ seated.stage = "lobby" /\ seated.seats = {p, o} /\ seated.queued = {p, o}
       /\ seated.accepted = {} /\ seated.clock = "on"
  <2>1. here \in Room /\ here.queued = here.seats /\ here.seats \subseteq {p, o}
    <3>1. CASE room[r].stage = "unused"
      BY <1>5, <3>1 DEF NoRoom, Room
    <3>2. CASE room[r].stage # "unused"
      BY <1>0, <1>5, <1>8, <1>9, <1>10, <3>2 DEF Alone
    <3> QED
      BY <3>1, <3>2
  <2>2. PICK q : q = here.queued \cup ({p, o} \ here.seats)
    OBVIOUS
  <2>3. q = {p, o}
    BY <2>1, <2>2
  <2>4. seated = [here EXCEPT !.stage = "lobby", !.seats = {p, o}, !.queued = q,
                              !.accepted = {}, !.clock = "on"]
    BY <1>6, <2>2
  <2> QED
    BY <2>1, <2>3, <2>4 DEF Room
<1>12. /\ room'[r] = seated
       /\ \A x \in gone : room'[x].stage = "deleted" /\ room'[x].clock = "off"
       /\ \A x \in Rooms \ ({r} \cup gone) : room'[x] = room[x]
  BY <1>0, <1>7, <1>9 DEF RoomsWithout, NoRoom
<1>13. /\ offers'[r] = <<o, p>>
       /\ \A x \in gone : offers'[x] = <<>>
       /\ \A x \in Rooms \ ({r} \cup gone) : offers'[x] = offers[x]
  BY <1>0, <1>7, <1>9, <1>10 DEF OffersWithout
<1>14. ASSUME NEW x \in gone PROVE Lobby(x) /\ ~Full(x) /\ room[x].seats \subseteq {p, o}
  <2>1. Lobby(x)
    BY <1>4 DEF Lobby
  <2>2. \E y : room[x].seats \subseteq {y}
    BY <1>4
  <2>3. PICK y : room[x].seats \subseteq {y}
    BY <2>2
  <2>4. room[x].seats = {} \/ room[x].seats = {y}
    BY <2>3
  <2>5. Cardinality(room[x].seats) = 0 \/ Cardinality(room[x].seats) = 1
    BY <2>4, FS_EmptySet, FS_Singleton
  <2>6. room[x].seats \subseteq {p, o}
    BY <1>4
  <2> QED
    BY <2>1, <2>5, <2>6 DEF Full
<1>15. PICK e : e = [retained |-> r, offer |-> r, avoid |-> avoid]
  OBVIOUS
<1>16. PICK f : f = [entry[o] EXCEPT !.retained = r, !.offer = r]
  OBVIOUS
<1>17. /\ e # Nil /\ f # Nil /\ e.retained = r /\ e.offer = r /\ f.retained = r /\ f.offer = r
       /\ e.avoid = avoid /\ f.avoid = entry[o].avoid
  <2>1. f \in Entry /\ f.retained = r /\ f.offer = r /\ f.avoid = entry[o].avoid
    BY <1>1, <1>9, <1>16 DEF Entry
  <2>2. e.retained = r /\ e.offer = r /\ e.avoid = avoid
    BY <1>15
  <2>3. e # Nil
    BY <1>15, <1>0, <1>9 DEF Entry
  <2> QED
    BY <1>0, <2>1, <2>2, <2>3
<1>18. PICK en : en = [entry EXCEPT ![p] = e, ![o] = f]
  OBVIOUS
<1>19. entry' = EntriesWithout(en, gone) /\ en[p] = e /\ en[o] = f
       /\ \A x \in Players \ {p, o} : en[x] = entry[x]
  BY <1>0, <1>1, <1>7, <1>15, <1>16, <1>18 DEF EntriesPaired
<1>20. ASSUME NEW x \in {p, o}
       PROVE  entry'[x] # Nil /\ entry'[x].retained = r /\ entry'[x].offer = r /\ entry'[x] = en[x]
  <2>1. x \in Players /\ en[x] # Nil /\ en[x].retained = r /\ en[x].offer = r
    BY <1>1, <1>17, <1>19
  <2>2. entry'[x] = en[x]
    BY <1>9, <1>19, <2>1 DEF EntriesWithout
  <2> QED
    BY <2>1, <2>2
<1>21. ASSUME NEW x \in Players \ {p, o}
       PROVE  entry'[x] = IF entry[x] = Nil \/ entry[x].retained \in gone THEN Nil ELSE entry[x]
  <2>1. EntriesWithout(en, gone)[x] = EntriesWithout(entry, gone)[x]
    BY <1>19 DEF EntriesWithout
  <2> QED
    BY <1>9, <1>19, <2>1, Cascade
<1>22. room[r].stage = "unused" \/
         (Lobby(r) /\ room[r].seats # {} /\ room[r].seats \subseteq {p, o} /\ ~Full(r))
  BY <1>8, <1>10 DEF Alone, Full
<1>23. entry'[p].avoid = avoid /\ entry'[o].avoid = entry[o].avoid
  BY <1>17, <1>19, <1>20
<1> QED
  BY <1>9, <1>10, <1>11, <1>12, <1>13, <1>14, <1>20, <1>21, <1>22, <1>23 DEF Meets

LEMMA PairWell ==
  ASSUME IInv, Steady, NEW p \in Players, NEW keep \in Rooms \cup {Nil},
         NEW avoid \in SUBSET (Players \cup Rooms), Seeks(p, keep),
         NEW o \in Candidates(p, keep, avoid), Pair(p, keep, avoid, o), Leaving' = Leaving,
         Closing \subseteq Closing'
  PROVE  TablesWell
<1>0. PICK r \in Rooms, gone \in SUBSET Rooms : Meets(p, o, avoid, r, gone)
  BY PairOf
<1>1. /\ r \notin gone
      /\ room[r].stage = "unused" \/
           (Lobby(r) /\ room[r].seats # {} /\ room[r].seats \subseteq {p, o} /\ ~Full(r))
      /\ \A u \in Leaving : u.room # r
      /\ offers[r] = <<>> /\ offers'[r] = <<o, p>>
      /\ room'[r].stage = "lobby" /\ room'[r].seats = {p, o} /\ room'[r].queued = {p, o}
      /\ room'[r].accepted = {} /\ room'[r].clock = "on"
      /\ \A x \in gone : Lobby(x) /\ ~Full(x) /\ room'[x].stage = "deleted" /\ room'[x].clock = "off"
                         /\ offers'[x] = <<>>
      /\ \A x \in Rooms \ ({r} \cup gone) : room'[x] = room[x] /\ offers'[x] = offers[x]
      /\ \A x \in {p, o} : entry'[x] # Nil /\ entry'[x].retained = r /\ entry'[x].offer = r
      /\ \A x \in Players \ {p, o} :
           entry'[x] = IF entry[x] = Nil \/ entry[x].retained \in gone THEN Nil ELSE entry[x]
  BY <1>0 DEF Meets
<1>2. o \in Players /\ o # p /\ entry[o] # Nil /\ entry[o].offer = Nil /\ Nil \notin Rooms
  BY MatchmakingAssumption DEF Candidates
<1>3. \A q \in Rooms : Matchmade(q) => p \notin room[q].seats /\ o \notin room[q].seats
  BY <1>2, Unmatched, RoomParts DEF Seeks, MarksAgree
<1>4. Cardinality({p, o}) = 2
  BY <1>2, Two
<1>5. /\ Lobby(r)' /\ Full(r)' /\ Matchmade(r)' /\ Paired(r)' /\ Exists(r)'
      /\ Row(r)' = {p, o} /\ Row(r) = {} /\ ~Matchmade(r)
  <2>1. Row(r)' = {p, o}
    <3>1. DOMAIN <<o, p>> = 1 .. 2
      OBVIOUS
    <3>2. {<<o, p>>[i] : i \in 1 .. 2} = {p, o}
      OBVIOUS
    <3> QED
      BY <1>1, <3>1, <3>2 DEF Row
  <2>2. Row(r) = {}
    BY <1>1, RowOf
  <2>3. ~Matchmade(r)
    BY <1>1 DEF Matchmade, Full
  <2> QED
    BY <1>1, <1>4, <2>1, <2>2, <2>3 DEF Lobby, Full, Matchmade, Paired, Exists
<1>6. \A x \in Players \ {p, o} : entry'[x] # Nil => entry'[x] = entry[x] /\ entry[x].retained \notin gone
  BY <1>1
<1>7. RoomWell(r)'
  <2>1. MarksAgree(r)'
    <3>1. ASSUME NEW x \in Players \ {p, o}, entry'[x] # Nil PROVE entry'[x].offer # r
      BY <1>5, <1>6, <3>1, RoomParts DEF MarksAgree
    <3> QED
      BY <1>1, <1>5, <3>1 DEF MarksAgree
  <2>2. RowAgrees(r)'
    BY <1>1, <1>5 DEF RowAgrees
  <2>3. SeatsAgree(r)'
    <3>1. ASSUME NEW x \in Players \ {p, o}, entry'[x] # Nil PROVE entry'[x].retained # r
      <4>1. CASE room[r].stage = "unused"
        BY <1>6, <3>1, <4>1, Shape DEF Exists
      <4>2. CASE Lobby(r) /\ room[r].seats # {} /\ room[r].seats \subseteq {p, o}
        BY <1>1, <1>6, <3>1, <4>2, RoomParts DEF SeatsAgree
      <4> QED
        BY <1>1, <4>1, <4>2
    <3> QED
      BY <1>1, <1>5, <3>1 DEF SeatsAgree
  <2>4. ClockAgrees(r)'
    BY <1>1, <1>5 DEF ClockAgrees
  <2> QED
    BY <2>1, <2>2, <2>3, <2>4 DEF RoomWell
<1>8. ASSUME NEW q \in gone PROVE RoomWell(q)'
  <2>1. ASSUME NEW x \in Players, entry'[x] # Nil PROVE entry'[x].offer # q
    <3>1. CASE x \in {p, o}
      BY <1>1, <3>1
    <3>2. CASE x \notin {p, o}
      BY <1>6, <2>1, <3>2, RoomParts DEF MarksAgree
    <3> QED
      BY <3>1, <3>2
  <2> QED
    BY <1>1, <2>1, GoneFrame
<1>9. ASSUME NEW q \in Rooms \ ({r} \cup gone) PROVE RoomWell(q)'
  <2>1. SearchesKeep(q)
    <3>1. room[q].seats \subseteq Players
      BY Shape
    <3>2. Matchmade(q) => \A x \in room[q].seats : entry[x] # Nil => entry[x].retained = q
      BY <3>1, RoomParts DEF MarksAgree
    <3>3. Matchmade(q) => \A x \in room[q].seats : entry[x] # Nil => entry'[x] # Nil
      BY <1>1, <1>3, <3>1, <3>2
    <3>4. ASSUME NEW x \in Players, entry'[x] # Nil
          PROVE  \/ entry'[x] = entry[x]
                 \/ /\ entry'[x].retained # q /\ entry'[x].offer # q
                    /\ Matchmade(q) => x \notin room[q].seats
      BY <1>1, <1>3, <1>6, <3>4
    <3> QED
      BY <3>3, <3>4 DEF SearchesKeep
  <2> QED
    BY <1>1, <2>1, RoomFrame DEF Steady, Closing
<1>10. OneMatch'
  <2>1. ASSUME NEW q \in Rooms \ {r}, Matchmade(q)'
        PROVE  Matchmade(q) /\ room'[q].seats = room[q].seats /\ {p, o} \cap room[q].seats = {}
    <3>1. q \notin gone
      BY <1>1, <2>1 DEF Matchmade, Full
    <3>2. room'[q] = room[q]
      BY <1>1, <3>1
    <3>3. Matchmade(q)
      BY <2>1, <3>2 DEF Matchmade, Full
    <3> QED
      BY <1>3, <3>2, <3>3
  <2> QED
    BY <1>1, <2>1 DEF Steady, OneMatch
<1>11. ASSUME NEW u \in work PROVE TaskKeeps(u)
  <2>0. u \in Tasks /\ u.room \in Rooms
    BY TaskTypes DEF IInv
  <2>1. ASSUME NEW q \in Rooms, Lobby(q)'
        PROVE  \/ room[q].stage = "unused"
               \/ Lobby(q) /\ \A x \in InLine(u) : x \in room[q].queued => x \in room'[q].queued
    <3>1. q \notin gone
      BY <1>1, <2>1 DEF Lobby
    <3>2. CASE q = r
      BY <1>1, <3>2, Shape
    <3>3. CASE q # r
      BY <1>1, <2>1, <3>1, <3>3 DEF Lobby
    <3> QED
      BY <3>2, <3>3
  <2>2. ASSUME u.do = "evict"
        PROVE  /\ room'[u.room].clock = "up" => room[u.room].clock = "up"
               /\ room'[u.room].clock = "up" /\ offers[u.room] = <<>> => offers'[u.room] = <<>>
    BY <1>1, <2>0
  <2>3. ASSUME u \in Leaving, Exists(u.room)'
        PROVE  u.room \in Rooms \ ({r} \cup gone)
    BY <1>1, <2>0, <2>3 DEF Exists
  <2>4. ASSUME u \in Leaving, Exists(u.room)', NEW x \in Players, entry'[x] # Nil, entry'[x] # entry[x]
        PROVE  entry'[x].retained # u.room /\ (Marked(u) => x \notin u.rest)
    <3>1. x \in {p, o} /\ entry'[x].retained = r /\ u.room # r
      BY <1>1, <1>6, <2>3, <2>4
    <3>2. Exists(u.room)
      BY <1>1, <2>3, <2>4 DEF Exists
    <3>3. Marked(u) => p \notin u.rest
      BY <2>4, <3>2 DEF Seeks
    <3>4. Marked(u) => o \notin u.rest
      BY <1>2, <2>0, <2>4, <3>2 DEF Steady, HandlersWell, LeftWell
    <3> QED
      BY <3>1, <3>3, <3>4
  <2>5. u \in Leaving /\ Exists(u.room)' =>
          Exists(u.room) /\ room'[u.room] = room[u.room] /\ offers'[u.room] = offers[u.room]
    BY <1>1, <2>3 DEF Exists
  <2>6. CASE u.do = "evict"
    <3>1. SweepWell(u)'
      BY <2>2, <2>6 DEF Steady, HandlersWell, SweepWell
    <3> QED
      BY <2>6, <3>1 DEF TaskKeeps, Handlers, Leaving
  <2>7. CASE u.do # "evict"
    BY <2>1, <2>4, <2>5, <2>7, TaskFrame DEF Steady
  <2> QED
    BY <2>6, <2>7
<1>12. \A q \in Rooms : room'[q].stage = "unused" => room[q].stage = "unused"
  BY <1>1
<1>13. \A q \in Rooms : RoomWell(q)'
  BY <1>7, <1>8, <1>9
<1> QED
  BY <1>10, <1>11, <1>12, <1>13 DEF TablesWell

(* A transaction that changes nothing. *)
LEMMA QuietWell ==
  ASSUME IInv, Steady, UNCHANGED db, Leaving' = Leaving,
         Closing \subseteq Closing'
  PROVE  TablesWell
<1>1. room' = room /\ entry' = entry /\ offers' = offers
  BY DEF db
<1>2. \A q \in Rooms : RoomWell(q)'
  BY <1>1, RoomFrame DEF Steady, SearchesKeep, Closing
<1>3. OneMatch'
  BY <1>1, MatchFrame DEF Steady, Matchmade, Full
<1>4. \A u \in work : TaskKeeps(u)
  BY <1>1, TaskFrame DEF Steady, Lobby, Exists
<1> QED
  BY <1>1, <1>2, <1>3, <1>4 DEF TablesWell

LEMMA QueueWell ==
  ASSUME IInv, Steady, NEW p \in Players, NEW keep \in Rooms \cup {Nil},
         NEW more \in SUBSET (Players \cup Rooms), Queue(p, keep, more),
         keep # Nil /\ Lobby(keep) => p \in room[keep].queued,
         \A u \in Leaving : Exists(u.room) => /\ Marked(u) => p \notin u.rest
                                              /\ p \in room[u.room].queued => keep # u.room,
         Leaving' = Leaving, Closing \subseteq Closing'
  PROVE  TablesWell
<1>1. CASE UNCHANGED db
  BY <1>1, QuietWell
<1>2. CASE /\ ~Assigned(p) /\ (keep # Nil => Exists(keep))
           /\ \/ Wait(p, keep, Avoided(p, more))
              \/ \E o \in Candidates(p, keep, Avoided(p, more)) : Pair(p, keep, Avoided(p, more), o)
  <2>1. Seeks(p, keep)
    BY <1>2 DEF Seeks
  <2>2. Avoided(p, more) \in SUBSET (Players \cup Rooms)
    BY AvoidedTyped, TypeParts DEF IInv
  <2> QED
    BY <1>2, <2>1, <2>2, WaitWell, PairWell
<1> QED
  BY <1>1, <1>2 DEF Queue

LEMMA QueueJoinSteady ==
  ASSUME IInv, IInv', Steady, NEW p \in Players, QueueJoin(p), Orderly'
  PROVE  Steady'
<1>1. work' = work /\ ~Overtaken({p}, Handlers) /\ Nil \notin Rooms
  BY MatchmakingAssumption DEF QueueJoin, Orderly
<1>2. Leaving' = Leaving /\ Closing' = Closing /\ Leaving \subseteq Handlers
  BY <1>1 DEF Leaving, Closing, Handlers
<1>3. TablesWell
  <2>1. CASE Queue(p, Nil, {})
    <3>1. \A u \in Leaving : p \notin u.rest /\ u.room # Nil
      BY <1>1, <1>2, TaskTypes DEF Overtaken, Leaving, IInv
    <3> QED
      BY <1>1, <1>2, <2>1, <3>1, QueueWell
  <2>2. CASE QueueFails(p, Nil, {})
    BY <1>1, <1>2, <2>2, QuietWell DEF QueueFails
  <2> QED
    BY <2>1, <2>2 DEF QueueJoin
<1>4. HandlersWell'
  BY <1>1, <1>3, HandlersStep DEF TablesWell, Steady
<1> QED
  BY <1>3, <1>4 DEF TablesWell, Steady

LEMMA QueueAgainSteady ==
  ASSUME IInv, IInv', Steady, NEW t \in work, QueueAgain(t), Orderly'
  PROVE  Steady'
<1>0. t \in Tasks /\ t.room \in Rooms /\ t.line \in Seq(Agains) /\ t.line # <<>> /\ t.do = "queue"
  BY TaskTypes DEF IInv, QueueAgain
<1>1. PICK a \in Agains : a = Head(t.line)
  BY <1>0, HeadTailProperties
<1>2. 1 \in DOMAIN t.line /\ t.line[1] = a
  BY <1>0, <1>1
<1>3. /\ Queue(a.who, a.keep, a.more)
      /\ a.who \in Players /\ a.keep \in Rooms \cup {Nil} /\ a.more \in SUBSET (Players \cup Rooms)
  BY <1>1 DEF QueueAgain, Agains
<1>4. PICK n : n = [t EXCEPT !.line = Tail(t.line)]
  OBVIOUS
<1>5. work' = work \ {t} \/ work' = (work \ {t}) \cup {n}
  BY <1>4 DEF QueueAgain
<1>6. n.do = "queue" /\ n.room = t.room
      /\ \A i \in DOMAIN n.line : i + 1 \in DOMAIN t.line /\ n.line[i] = t.line[i + 1]
  <2>1. n.do = "queue" /\ n.room = t.room /\ n.line = Tail(t.line)
    BY <1>0, <1>4 DEF Tasks
  <2> QED
    BY <1>0, <2>1
<1>7. /\ Leaving' = Leaving /\ t \in Handlers /\ t \notin Leaving /\ n \notin Leaving'
      /\ Closing \subseteq Closing'
  BY <1>0, <1>5, <1>6 DEF Leaving, Handlers, Closing
<1>8. LineWell(t) /\ RoomsUsed(t) /\ \A u \in Leaving : Exists(u.room) => Apart(u, t)
  BY <1>7 DEF Steady, HandlersWell
<1>9. TablesWell
  <2>1. a.keep # Nil /\ Lobby(a.keep) => a.who \in room[a.keep].queued
    BY <1>2, <1>8 DEF LineWell
  <2>2. a.who \in InLine(t)
    BY <1>2 DEF InLine
  <2>3. \A u \in Leaving : Exists(u.room) => /\ Marked(u) => a.who \notin u.rest
                                             /\ a.who \in room[u.room].queued => a.keep # u.room
    BY <1>2, <1>8, <2>2 DEF Apart
  <2> QED
    BY <1>3, <1>7, <2>1, <2>3, QueueWell
<1>10. RoomsUsed(n)' /\ LineWell(n)'
  <2>1. LineWell(t)'
    BY <1>7, <1>9 DEF TablesWell, TaskKeeps
  <2>2. LineWell(n)'
    BY <1>6, <2>1 DEF LineWell
  <2>3. \A i \in DOMAIN t.line : t.line[i].keep \in Rooms \cup {Nil}
    BY <1>0, TaskTypes
  <2>4. RoomsUsed(n)'
    BY <1>0, <1>6, <1>8, <1>9, <2>3 DEF RoomsUsed, TablesWell
  <2> QED
    BY <2>2, <2>4
<1>11. ASSUME NEW u \in Leaving, Exists(u.room)' PROVE Apart(u, n)'
  <2>1. /\ Exists(u.room) /\ (Marked(u)' => Marked(u)) /\ room'[u.room].queued \subseteq room[u.room].queued
    BY <1>9, <1>11 DEF TablesWell, TaskKeeps, Leaving
  <2>2. Apart(u, t)
    BY <1>8, <2>1
  <2>3. InLine(n) \subseteq InLine(t)
    BY <1>6 DEF InLine
  <2>4. \A i \in DOMAIN n.line : n.line[i].who \in room[u.room].queued => n.line[i].keep # u.room
    BY <1>6, <2>2 DEF Apart
  <2>5. Marked(u)' => u.rest \cap InLine(n) = {}
    BY <2>1, <2>2, <2>3 DEF Apart
  <2>6. InLine(n)' = InLine(n)
    BY DEF InLine
  <2> QED
    BY <1>7, <2>1, <2>4, <2>5, <2>6 DEF Apart
<1>12. HandlersWell'
  <2>1. work' \subseteq work \cup {n}
    BY <1>5
  <2> QED
    BY <1>6, <1>7, <1>9, <1>10, <1>11, <2>1, HandlersStep DEF TablesWell, Steady
<1> QED
  BY <1>9, <1>12 DEF TablesWell, Steady

-----------------------------------------------------------------------------
(* Every step                                                                *)

LEMMA StayedOrderly == IInv /\ [Next]_vars /\ Orderly' => Orderly
<1> SUFFICES ASSUME IInv, [Next]_vars, Orderly' PROVE Orderly
  OBVIOUS
<1>0. torn \in BOOLEAN /\ fails \in Nat
  BY DEF IInv, TypeOK
<1>1. CASE UNCHANGED vars
  BY <1>1 DEF vars, ghost, Orderly
<1>2. ASSUME NEW p \in Players, QueueJoin(p) \/ QueueLeave(p) PROVE Orderly
  BY <1>0, <1>2 DEF QueueJoin, QueueLeave, Move, Orderly
<1>3. ASSUME NEW p \in Players, NEW r \in Rooms, Accept(p, r) \/ Decline(p, r) \/ LeaveRoom(p, r) \/ Join(p, r)
      PROVE  Orderly
  <2>1. fails' = fails
    BY <1>3 DEF Accept, Decline, LeaveRoom, Join, Move
  <2>2. torn => torn'
    <3>1. CASE Accept(p, r)
      BY <3>1 DEF Accept
    <3>2. CASE Decline(p, r)
      BY <3>2 DEF Decline
    <3>3. CASE LeaveRoom(p, r)
      BY <3>3 DEF LeaveRoom
    <3>4. CASE Join(p, r)
      BY <3>4 DEF Join
    <3> QED
      BY <1>3, <3>1, <3>2, <3>3, <3>4
  <2> QED
    BY <1>0, <2>1, <2>2 DEF Orderly
<1>4. ASSUME NEW r \in Rooms, Start(r) \/ Delete(r) \/ Deadline(r) \/ Sweep(r) PROVE Orderly
  BY <1>0, <1>4 DEF Start, Delete, Deadline, Sweep, ghost, Move, Orderly
<1>5. ASSUME NEW t \in work, Commit(t) \/ CommitLoad(t) \/ CommitEnd(t)
                             \/ Lookup(t) \/ Release(t) \/ QueueAgain(t) \/ Spare(t)
                             \/ \E out \in SUBSET Players : Evict(t, out)
      PROVE  Orderly
  <2>1. fails' = fails
    BY <1>5 DEF Commit, CommitLoad, CommitEnd, Lookup, Release, QueueAgain, Spare, Evict
  <2>2. torn => torn'
    <3>1. CASE Commit(t) \/ CommitLoad(t) \/ CommitEnd(t)
      BY <3>1 DEF Commit, CommitLoad, CommitEnd, ghost
    <3>2. CASE Lookup(t)
      BY <3>2 DEF Lookup
    <3>3. CASE Release(t)
      BY <3>3 DEF Release
    <3>4. CASE QueueAgain(t) \/ Spare(t)
      BY <3>4 DEF QueueAgain, Spare, ghost
    <3>5. ASSUME NEW out \in SUBSET Players, Evict(t, out) PROVE torn => torn'
      BY <3>5 DEF Evict
    <3> QED
      BY <1>5, <3>1, <3>2, <3>3, <3>4, <3>5
  <2> QED
    BY <1>0, <2>1, <2>2 DEF Orderly
<1>6. ASSUME NEW t \in work, Break(t) \/ Lose(t) PROVE Orderly
  BY <1>0, <1>6 DEF Break, Lose, Orderly
<1> QED
  BY <1>1, <1>2, <1>3, <1>4, <1>5, <1>6 DEF Next

LEMMA StepSteady == IInv /\ IInv' /\ Steady /\ [Next]_vars /\ Orderly' => Steady'
<1> SUFFICES ASSUME IInv, IInv', Steady, [Next]_vars, Orderly' PROVE Steady'
  OBVIOUS
<1>1. CASE UNCHANGED vars
  <2>1. UNCHANGED db /\ work' = work /\ Leaving' = Leaving /\ Closing' = Closing
    BY <1>1 DEF vars, Leaving, Closing
  <2>2. TablesWell
    BY <2>1, QuietWell
  <2>3. HandlersWell'
    BY <2>1, <2>2, HandlersStep DEF TablesWell, Steady
  <2> QED
    BY <2>2, <2>3 DEF TablesWell, Steady
<1>2. CASE \E p \in Players : QueueJoin(p) \/ QueueLeave(p)
  BY <1>2, QueueJoinSteady, QueueLeaveSteady
<1>3. CASE \E p \in Players, r \in Rooms : Accept(p, r) \/ Decline(p, r) \/ LeaveRoom(p, r) \/ Join(p, r)
  BY <1>3, AcceptSteady, DeclineSteady, LeaveRoomSteady, JoinSteady
<1>4. CASE \E r \in Rooms : Start(r) \/ Delete(r) \/ Deadline(r) \/ Sweep(r)
  BY <1>4, StartSteady, DeleteSteady, DeadlineSteady, SweepSteady
<1>5. CASE \E t \in work : Commit(t) \/ CommitLoad(t) \/ CommitEnd(t)
                           \/ Lookup(t) \/ Release(t) \/ QueueAgain(t) \/ Spare(t)
                           \/ \E out \in SUBSET Players : Evict(t, out)
  BY <1>5, CommitSteady, CommitLoadSteady, CommitEndSteady, LookupSteady, ReleaseSteady,
     QueueAgainSteady, SpareSteady, ClockOnSteady, EvictSteady
<1>6. ASSUME NEW t \in work, Break(t) \/ Lose(t) PROVE FALSE
  <2>1. fails \in Nat
    BY DEF IInv, TypeOK
  <2> QED
    BY <1>6, <2>1 DEF Break, Lose, Orderly
<1> QED
  BY <1>1, <1>2, <1>3, <1>4, <1>5, <1>6 DEF Next

LEMMA InitSteady == Init => Steady
<1> SUFFICES ASSUME Init PROVE Steady
  OBVIOUS
<1>1. ASSUME NEW r \in Rooms PROVE RoomWell(r)
  <2>1. room[r] = NoRoom /\ offers[r] = <<>> /\ \A p \in Players : entry[p] = Nil
    BY DEF Init
  <2>2. room[r].stage = "unused" /\ room[r].clock = "off"
    BY <2>1 DEF NoRoom
  <2>3. ~Lobby(r) /\ ~Exists(r) /\ ~Matchmade(r) /\ ~Accepting(r)
    BY <2>2 DEF Lobby, Exists, Matchmade, Accepting, Full
  <2> QED
    BY <2>1, <2>2, <2>3 DEF RoomWell, MarksAgree, RowAgrees, SeatsAgree, ClockAgrees
<1>2. OneMatch
  <2>1. \A r \in Rooms : ~Matchmade(r)
    BY DEF Init, NoRoom, Matchmade, Full
  <2> QED
    BY <2>1 DEF OneMatch
<1>3. HandlersWell
  BY DEF Init, HandlersWell, Handlers, Leaving
<1> QED
  BY <1>1, <1>2, <1>3 DEF Steady

-----------------------------------------------------------------------------
(* What players asked for                                                    *)
(*                                                                           *)
(* The tables forget who wants a match and whom he declined.  The parts      *)
(* below tie the two ghosts to them: what a player asked for shows in a      *)
(* room or a search, or a handler under way will see to it.                  *)

(* Whoever wants a match is placed, or a handler will queue him again.       *)
SeekersKnown == \A p \in seeking : Placed(p) \/ \E t \in Handlers : p \in InLine(t)

(* Nobody whose room went into a game is queued again for it and wants it.   *)
LinesTimely ==
  \A t \in Handlers : \A i \in DOMAIN t.line :
    t.line[i].keep # Nil /\ room[t.line[i].keep].stage = "playing" => t.line[i].who \notin seeking

(* The sweep has both searches of an offer it will end.                      *)
SweepKnows(t) ==
  t.do = "evict" /\ t.line # <<>> /\ Matchmade(t.room) /\ room[t.room].clock = "up" =>
    room[t.room].seats \subseteq InLine(t)

(* Who left does not want a match; who is left will be queued again for the  *)
(* room, and with an offer he surely will.                                   *)
LeaverStops(t) ==
  /\ t.who \cap seeking = {}
  /\ t.do = "left" => /\ InLine(t) \subseteq t.rest
                      /\ \A i \in DOMAIN t.line : t.line[i].keep = t.room
                      /\ offers[t.room] # <<>> => t.rest \subseteq InLine(t)

(* Whom somebody declined is in his search, and he sits where it waits.      *)
SpurnsKept(p) ==
  spurned[p] # {} =>
    /\ p \in seeking /\ p \notin spurned[p]
    /\ entry[p] # Nil /\ spurned[p] \subseteq entry[p].avoid
    /\ entry[p].retained # Nil => p \in room[entry[p].retained].seats

(* Nobody is asked to accept whom he declined. *)
AskedAnew(r) == Accepting(r) => \A p \in room[r].seats : spurned[p] \cap room[r].seats = {}

Wishes ==
  /\ SeekersKnown /\ LinesTimely
  /\ \A t \in work : SweepKnows(t)
  /\ \A t \in Leaving : LeaverStops(t)
  /\ \A p \in Players : SpurnsKept(p)
  /\ \A r \in Rooms : AskedAnew(r)

-----------------------------------------------------------------------------
(* What a step leaves alone                                                  *)

(* Nobody begins to want a match while a handler is to act on him.           *)
NewSeekers == \A p \in seeking' \ seeking : \A t \in Handlers : p \notin t.who /\ p \notin InLine(t)

(* A game starts for nobody who is queued again and wants a match. *)
LEMMA LinesFrame ==
  ASSUME Wishes, NewSeekers, work \subseteq Tasks,
         \A q \in Rooms : room'[q].stage = "playing" => room[q].stage = "playing",
         \A t \in Handlers' : \A i \in DOMAIN t.line :
           \/ t.line[i].keep = Nil
           \/ room'[t.line[i].keep].stage = "lobby"
           \/ \E u \in Handlers : \E j \in DOMAIN u.line :
                u.line[j].who = t.line[i].who /\ u.line[j].keep = t.line[i].keep
  PROVE  LinesTimely'
<1> SUFFICES ASSUME NEW t \in Handlers', NEW i \in DOMAIN t.line,
                    t.line[i].keep # Nil, room'[t.line[i].keep].stage = "playing"
             PROVE  t.line[i].who \notin seeking'
  BY DEF LinesTimely
<1>0. PICK u \in Handlers : \E j \in DOMAIN u.line :
        u.line[j].who = t.line[i].who /\ u.line[j].keep = t.line[i].keep
  OBVIOUS
<1>1. PICK j \in DOMAIN u.line : u.line[j].who = t.line[i].who /\ u.line[j].keep = t.line[i].keep
  BY <1>0
<1>2. u.line[j].keep \in Rooms
  BY <1>1, TaskTypes DEF Handlers
<1>3. u.line[j].who \notin seeking
  BY <1>1, <1>2 DEF Wishes, LinesTimely
<1>4. u.line[j].who \in InLine(u)
  BY DEF InLine
<1> QED
  BY <1>1, <1>3, <1>4 DEF NewSeekers

(* The sweep's offer is as it was read, or it is over. *)
LEMMA SweepFrame ==
  ASSUME Wishes, NEW t \in work,
         t.do = "evict" /\ Matchmade(t.room)' /\ room'[t.room].clock = "up" =>
           Matchmade(t.room) /\ room[t.room].clock = "up" /\ room'[t.room].seats = room[t.room].seats
  PROVE  SweepKnows(t)'
  BY DEF Wishes, SweepKnows, InLine

(* Whoever left does not come back while his handler is under way. *)
LEMMA LeaverFrame ==
  ASSUME Wishes, NewSeekers, NEW t \in Leaving, offers'[t.room] # <<>> => offers[t.room] # <<>>
  PROVE  LeaverStops(t)'
  BY DEF Wishes, LeaverStops, NewSeekers, InLine, Leaving, Handlers

(* A search keeps what it avoids, and its seat. *)
LEMMA SpurnsFrame ==
  ASSUME IInv, Wishes, NEW p \in Players,
         spurned'[p] # {} =>
           /\ spurned'[p] = spurned[p] /\ p \in seeking'
           /\ entry[p] # Nil => entry'[p] # Nil /\ entry[p].avoid \subseteq entry'[p].avoid
           /\ entry'[p].retained # Nil => \/ entry'[p].retained = entry[p].retained
                                             /\ (p \in room[entry[p].retained].seats => p \in room'[entry[p].retained].seats)
                                          \/ p \in room'[entry'[p].retained].seats
  PROVE  SpurnsKept(p)'
  BY DEF Wishes, SpurnsKept

(* Who is asked was asked before. *)
LEMMA AskedFrame ==
  ASSUME Wishes, NEW r \in Rooms,
         Accepting(r)' => /\ Accepting(r) /\ room'[r].seats = room[r].seats
                          /\ \A p \in room[r].seats : spurned'[p] \subseteq spurned[p]
  PROVE  AskedAnew(r)'
  BY DEF Wishes, AskedAnew

(* Who is placed stays placed where his search and his seat are as before.   *)
LEMMA PlacedFrame ==
  ASSUME NEW p, Placed(p), IInv, p \in Players,
         \A r \in Rooms : Full(r) /\ p \in room[r].queued => Full(r)' /\ p \in room'[r].queued,
         \/ /\ entry'[p] = entry[p]
            /\ \A r \in Rooms : entry[p].retained = r /\ Alone(r, p) => Alone(r, p)'
         \/ Assigned(p)
  PROVE  Placed(p)'
<1>1. Assigned(p) => Assigned(p)'
  BY DEF Assigned
<1>2. CASE entry[p] # Nil /\ entry[p].offer = Nil /\ entry[p].retained # Nil
           /\ Alone(entry[p].retained, p) /\ entry'[p] = entry[p]
           /\ \A r \in Rooms : entry[p].retained = r /\ Alone(r, p) => Alone(r, p)'
  <2>1. entry[p].retained \in Rooms
    BY <1>2 DEF IInv, TypeOK, Entry
  <2> QED
    BY <1>2, <2>1 DEF Placed
<1> QED
  BY <1>1, <1>2 DEF Placed

(* Players stop wanting a match. *)
LEMMA StopKeeps ==
  ASSUME IInv, Wishes, NEW gone, Stop(gone)
  PROVE  /\ seeking' = seeking \ gone /\ NewSeekers
         /\ \A p \in Players : /\ spurned'[p] \subseteq spurned[p]
                               /\ spurned'[p] # {} => spurned'[p] = spurned[p] /\ p \notin gone /\ p \in seeking'
<1>1. seeking' = seeking \ gone /\ spurned' = [p \in Players |-> IF p \in gone THEN {} ELSE spurned[p]]
  BY DEF Stop
<1>2. \A p \in Players : spurned[p] # {} => p \in seeking
  BY DEF Wishes, SpurnsKept
<1>3. NewSeekers
  BY <1>1 DEF NewSeekers
<1> QED
  BY <1>1, <1>2, <1>3

(* Nobody asks for anything. *)
LEMMA UnwishedKeeps ==
  ASSUME IInv, Wishes, UNCHANGED <<seeking, spurned>>
  PROVE  /\ seeking' = seeking /\ NewSeekers
         /\ \A p \in Players : spurned'[p] = spurned[p] /\ (spurned'[p] # {} => p \in seeking')
  BY DEF Wishes, SpurnsKept, NewSeekers

(* Whoever is in a handler's line is in one still. *)
LEMMA SeekersFrame ==
  ASSUME IInv, Wishes, seeking' \subseteq seeking,
         \A t \in Handlers : InLine(t) # {} => \E u \in Handlers' : InLine(t) \subseteq InLine(u),
         \A p \in seeking' : Placed(p) => Placed(p)'
  PROVE  SeekersKnown'
<1> SUFFICES ASSUME NEW p \in seeking' PROVE Placed(p)' \/ \E t \in Handlers' : p \in InLine(t)
  BY DEF SeekersKnown, InLine
<1>1. Placed(p) \/ \E t \in Handlers : p \in InLine(t)
  BY DEF Wishes, SeekersKnown
<1> QED
  BY <1>1

(* Whoever leaves the queue wants no match. *)
LEMMA QueueLeaveWishes ==
  ASSUME IInv, IInv', Steady, Wishes, NEW p \in Players, QueueLeave(p), Orderly'
  PROVE  Wishes'
<1>1. /\ room' = room /\ offers' = offers /\ work' = work /\ Stop({p})
      /\ entry' = [entry EXCEPT ![p] = Nil] /\ entry[p] # Nil
  BY DEF QueueLeave
<1>2. \A x \in Players \ {p} : entry'[x] = entry[x]
  BY <1>1 DEF IInv, TypeOK
<1>3. /\ seeking' = seeking \ {p} /\ NewSeekers /\ seeking \subseteq Players
      /\ \A q \in Players : /\ spurned'[q] \subseteq spurned[q]
                            /\ spurned'[q] # {} => spurned'[q] = spurned[q] /\ q # p /\ q \in seeking'
  BY <1>1, StopKeeps DEF IInv, TypeOK
<1>4. Handlers' = Handlers /\ Leaving' = Leaving
  BY <1>1 DEF Handlers, Leaving
<1>5. SeekersKnown'
  <2>1. ASSUME NEW q \in seeking', Placed(q) PROVE Placed(q)'
    BY <1>1, <1>2, <1>3, <2>1, PlacedFrame DEF Full, Alone
  <2> QED
    BY <1>3, <1>4, <2>1, SeekersFrame
<1>6. LinesTimely'
  BY <1>1, <1>3, <1>4, LinesFrame DEF IInv
<1>7. \A t \in work' : SweepKnows(t)'
  BY <1>1, SweepFrame DEF Matchmade, Full
<1>8. \A t \in Leaving' : LeaverStops(t)'
  BY <1>1, <1>3, <1>4, LeaverFrame
<1>9. \A q \in Players : SpurnsKept(q)'
  BY <1>1, <1>2, <1>3, SpurnsFrame
<1>11. \A r \in Rooms : AskedAnew(r)'
  BY <1>1, <1>3, Shape, AskedFrame DEF Accepting, Matchmade, Full
<1> QED
  BY <1>5, <1>6, <1>7, <1>8, <1>9, <1>11 DEF Wishes

(* When both accepted they want no other match.                              *)
LEMMA AcceptWishes ==
  ASSUME IInv, IInv', Steady, Wishes, NEW p \in Players, NEW r \in Rooms, Accept(p, r), Orderly'
  PROVE  Wishes'
<1>0. room \in [Rooms -> Room] /\ room[r] \in Room
  BY DEF IInv, TypeOK
<1>1. PICK x : x = [room[r] EXCEPT !.accepted = room[r].accepted \cup {p}]
  OBVIOUS
<1>2. PICK n : n = Task("commit", r, room[r].seats, {}, <<>>)
  OBVIOUS
<1>3. /\ room' = [room EXCEPT ![r] = x] /\ work' = work \cup {n}
      /\ entry' = entry /\ offers' = offers
  <2>1. room' = [room EXCEPT ![r].accepted = room[r].accepted \cup {p}]
    BY DEF Accept
  <2>2. room' = [room EXCEPT ![r] = x]
    BY <1>1, <2>1
  <2> QED
    BY <1>2, <2>2 DEF Accept
<1>4. /\ room'[r].accepted = room[r].accepted \cup {p}
      /\ \A q \in Rooms \ {r} : room'[q] = room[q]
      /\ \A q \in Rooms : /\ room'[q].stage = room[q].stage /\ room'[q].seats = room[q].seats
                          /\ room'[q].queued = room[q].queued /\ room'[q].clock = room[q].clock
  BY <1>0, <1>1, <1>3 DEF Room
<1>5. n.do = "commit" /\ n.room = r /\ n.who = room[r].seats
  BY <1>2 DEF Task
<1>6. Leaving' = Leaving /\ Handlers' = Handlers
  BY <1>3, <1>5 DEF Leaving, Handlers
<1>7. /\ \A q \in Rooms : /\ (Matchmade(q)' <=> Matchmade(q)) /\ (Full(q)' <=> Full(q))
                          /\ (Paired(q)' <=> Paired(q)) /\ Row(q)' = Row(q)
                          /\ \A y : Alone(q, y)' <=> Alone(q, y)
  BY <1>3, <1>4 DEF Matchmade, Full, Paired, Row, Alone
<1>8. \/ Stop(room[r].accepted \cup {p}) /\ Accepting(r) /\ room'[r].accepted = room[r].seats
      \/ UNCHANGED <<seeking, spurned>> /\ ~(Accepting(r) /\ room'[r].accepted = room[r].seats)
  BY <1>4 DEF Accept
<1>9. /\ seeking' \subseteq seeking /\ NewSeekers /\ seeking \subseteq Players
      /\ Accepting(r) /\ room'[r].accepted = room[r].seats => seeking' \cap room[r].seats = {}
      /\ \A q \in Players : /\ spurned'[q] \subseteq spurned[q]
                            /\ spurned'[q] # {} => spurned'[q] = spurned[q] /\ q \in seeking'
  <2>1. CASE Stop(room[r].accepted \cup {p}) /\ Accepting(r) /\ room'[r].accepted = room[r].seats
    BY <1>4, <2>1, StopKeeps DEF IInv, TypeOK
  <2>2. CASE UNCHANGED <<seeking, spurned>> /\ ~(Accepting(r) /\ room'[r].accepted = room[r].seats)
    BY <2>2, UnwishedKeeps DEF IInv, TypeOK
  <2> QED
    BY <1>8, <2>1, <2>2
<1>10. SeekersKnown'
  <2>1. ASSUME NEW q \in seeking', Placed(q) PROVE Placed(q)'
    BY <1>3, <1>4, <1>7, <1>9, <2>1, PlacedFrame
  <2> QED
    BY <1>6, <1>9, <2>1, SeekersFrame
<1>11. LinesTimely'
  BY <1>4, <1>6, <1>9, LinesFrame DEF IInv
<1>12. \A t \in work' : SweepKnows(t)'
  <2>1. \A t \in work : SweepKnows(t)'
    <3>1. \A t \in work : t.room \in Rooms
      BY TaskTypes DEF IInv
    <3> QED
      BY <1>4, <1>7, <3>1, SweepFrame
  <2> QED
    BY <1>3, <1>5, <2>1 DEF SweepKnows
<1>13. \A t \in Leaving' : LeaverStops(t)'
  BY <1>3, <1>6, <1>9, LeaverFrame
<1>14. \A q \in Players : SpurnsKept(q)'
  BY <1>3, <1>4, <1>9, MatchmakingAssumption, SpurnsFrame DEF IInv, TypeOK, Entry
<1>17. ASSUME NEW q \in Rooms PROVE AskedAnew(q)'
  <2>1. Accepting(q)' => Accepting(q)
    <3>1. CASE q = r
      <4>1. room[r].accepted \subseteq room[r].seats /\ p \in room[r].seats
        BY Shape DEF Accept
      <4> QED
        BY <1>4, <1>7, <3>1, <4>1 DEF Accepting
    <3> QED
      BY <1>4, <1>7, <3>1 DEF Accepting
  <2> QED
    BY <1>4, <1>9, <2>1, Shape, AskedFrame
<1> QED
  BY <1>10, <1>11, <1>12, <1>13, <1>14, <1>17 DEF Wishes

(* Whoever plays wants no match. *)
LEMMA StartWishes ==
  ASSUME IInv, IInv', Steady, Wishes, NEW r \in Rooms, Start(r), Orderly'
  PROVE  Wishes'
<1>0. room \in [Rooms -> Room] /\ room[r] \in Room
  BY DEF IInv, TypeOK
<1>1. PICK x : x = [room[r] EXCEPT !.stage = "playing", !.clock = "off"]
  OBVIOUS
<1>2. /\ room' = [room EXCEPT ![r] = x] /\ work' = work /\ entry' = entry /\ offers' = offers /\ Lobby(r)
      /\ Stop(room[r].seats)
  BY <1>0, <1>1 DEF Start, Full, Lobby
<1>3. /\ room'[r].stage = "playing" /\ room'[r].seats = room[r].seats
      /\ room'[r].queued = room[r].queued /\ room'[r].clock = "off"
      /\ room'[r].accepted = room[r].accepted
      /\ \A q \in Rooms \ {r} : room'[q] = room[q]
  BY <1>0, <1>1, <1>2 DEF Room
<1>4. Handlers' = Handlers /\ Leaving' = Leaving
  BY <1>2 DEF Handlers, Leaving
<1>5. /\ seeking' = seeking \ room[r].seats /\ NewSeekers /\ seeking \subseteq Players
      /\ room[r].queued \subseteq room[r].seats
      /\ \A q \in Players : /\ spurned'[q] \subseteq spurned[q]
                            /\ spurned'[q] # {} => spurned'[q] = spurned[q] /\ q \in seeking'
  BY <1>2, Shape, StopKeeps DEF IInv, TypeOK
<1>6. SeekersKnown'
  <2>1. ASSUME NEW q \in seeking', Placed(q) PROVE Placed(q)'
    <3>1. q \notin room[r].seats
      BY <1>5
    <3>2. \A y \in Rooms : Full(y) /\ q \in room[y].queued => Full(y)' /\ q \in room'[y].queued
      BY <1>3, <1>5, <3>1 DEF Full
    <3>3. \A y \in Rooms : Alone(y, q) => Alone(y, q)'
      BY <1>3, <3>1 DEF Alone
    <3> QED
      BY <1>2, <1>5, <2>1, <3>2, <3>3, PlacedFrame
  <2> QED
    BY <1>4, <1>5, <2>1, SeekersFrame
<1>7. LinesTimely'
  <2> SUFFICES ASSUME NEW t \in Handlers, NEW i \in DOMAIN t.line,
                      t.line[i].keep # Nil, room'[t.line[i].keep].stage = "playing"
               PROVE  t.line[i].who \notin seeking'
    BY <1>4 DEF LinesTimely
  <2>1. t.line[i].keep \in Rooms /\ LineWell(t)
    BY TaskTypes DEF Handlers, IInv, Steady, HandlersWell
  <2>2. CASE t.line[i].keep = r
    BY <1>2, <1>5, <2>1, <2>2 DEF LineWell
  <2>3. CASE t.line[i].keep # r
    BY <1>3, <1>5, <2>1, <2>3 DEF Wishes, LinesTimely
  <2> QED
    BY <2>2, <2>3
<1>8. ASSUME NEW t \in work PROVE SweepKnows(t)'
  <2>1. t.room \in Rooms
    BY TaskTypes DEF IInv
  <2>2. ~Matchmade(r)' /\ \A q \in Rooms \ {r} : Matchmade(q)' => Matchmade(q)
    BY <1>3 DEF Matchmade, Full
  <2> QED
    BY <1>3, <2>1, <2>2, SweepFrame
<1>9. \A t \in Leaving' : LeaverStops(t)'
  BY <1>2, <1>4, <1>5, LeaverFrame
<1>10. ASSUME NEW q \in Players PROVE SpurnsKept(q)'
  <2>1. \A y \in Rooms : room'[y].seats = room[y].seats
    BY <1>3
  <2>2. entry[q] # Nil => entry[q].retained \in Rooms \cup {Nil}
    BY DEF IInv, TypeOK, Entry
  <2> QED
    BY <1>2, <1>5, <2>1, <2>2, SpurnsFrame DEF Wishes, SpurnsKept
<1>12. ASSUME NEW q \in Rooms PROVE AskedAnew(q)'
  <2>1. Accepting(q)' => Accepting(q) /\ room'[q] = room[q]
    BY <1>3 DEF Accepting, Matchmade, Full
  <2> QED
    BY <1>5, <2>1, Shape, AskedFrame
<1> QED
  BY <1>2, <1>6, <1>7, <1>8, <1>9, <1>10, <1>12 DEF Wishes

(* A list has everybody that is to be listed. *)
LEMMA ListAll ==
  ASSUME NEW S, IsFiniteSet(S)
  PROVE  \A a \in S : \E i \in DOMAIN SetToSeq(S) : SetToSeq(S)[i] = a
<1> DEFINE n == Cardinality(S)
<1>1. n \in Nat
  BY FS_CardinalityType
<1>2. PICK f : f \in Bijection(1 .. n, S)
  BY FS_CountingElements, <1>1, FS_NatBijection DEF ExistsBijection
<1>3. f \in [1 .. n -> S] /\ \A a, b \in 1 .. n : f[a] = f[b] => a = b
  BY <1>2 DEF Bijection, Injection, IsInjective
<1>4. f \in [1 .. n -> S] /\ IsInjective(f)
  BY <1>3 DEF IsInjective
<1>5. SetToSeq(S) \in [1 .. n -> S] /\ IsInjective(SetToSeq(S))
  BY <1>4 DEF SetToSeq
<1>6. PICK g : g = SetToSeq(S)
  OBVIOUS
<1>7. g \in Injection(1 .. n, S)
  BY <1>5, <1>6 DEF Injection, IsInjective
<1>8. Cardinality(1 .. n) = n
  BY <1>1, FS_Interval
<1>9. g \in Surjection(1 .. n, S)
  BY <1>7, <1>8, FS_Injection
<1> QED
  BY <1>5, <1>6, <1>9 DEF Surjection

(* No sweep that read an older room is under way when a deadline passes. *)
LEMMA DeadlineWishes ==
  ASSUME IInv, IInv', Steady, Wishes, NEW r \in Rooms, Deadline(r), Orderly'
  PROVE  Wishes'
<1>0. room \in [Rooms -> Room] /\ room[r] \in Room
  BY DEF IInv, TypeOK
<1>1. PICK x : x = [room[r] EXCEPT !.clock = "up"]
  OBVIOUS
<1>2. /\ room' = [room EXCEPT ![r] = x] /\ work' = work /\ entry' = entry /\ offers' = offers
      /\ seeking' = seeking /\ spurned' = spurned
      /\ room[r].clock = "on" /\ \A t \in work : t.do = "evict" => t.room # r
  BY <1>0, <1>1 DEF Deadline, ghost
<1>3. /\ \A q \in Rooms \ {r} : room'[q] = room[q]
      /\ \A q \in Rooms : /\ room'[q].stage = room[q].stage /\ room'[q].seats = room[q].seats
                          /\ room'[q].queued = room[q].queued /\ room'[q].accepted = room[q].accepted
                          /\ room'[q].clock = "off" <=> room[q].clock = "off"
  BY <1>0, <1>1, <1>2 DEF Room
<1>4. /\ \A q \in Rooms : /\ (Matchmade(q)' <=> Matchmade(q)) /\ (Full(q)' <=> Full(q))
                          /\ (Paired(q)' <=> Paired(q)) /\ (Accepting(q)' <=> Accepting(q))
                          /\ \A y : Alone(q, y)' <=> Alone(q, y)
  BY <1>3 DEF Matchmade, Accepting, Full, Paired, Alone
<1>5. Handlers' = Handlers /\ Leaving' = Leaving
  BY <1>2 DEF Handlers, Leaving
<1>6. /\ NewSeekers /\ seeking \subseteq Players
      /\ \A q \in Players : spurned'[q] = spurned[q] /\ (spurned'[q] # {} => q \in seeking')
  BY <1>2, UnwishedKeeps DEF IInv, TypeOK
<1>7. SeekersKnown'
  <2>1. ASSUME NEW q \in seeking', Placed(q) PROVE Placed(q)'
    BY <1>2, <1>3, <1>4, <1>6, <2>1, PlacedFrame
  <2> QED
    BY <1>2, <1>5, <2>1, SeekersFrame
<1>8. LinesTimely'
  BY <1>3, <1>5, <1>6, LinesFrame DEF IInv
<1>9. ASSUME NEW t \in work PROVE SweepKnows(t)'
  <2>1. t.room \in Rooms
    BY TaskTypes DEF IInv
  <2> QED
    BY <1>2, <1>3, <1>4, <2>1, SweepFrame
<1>10. \A t \in Leaving' : LeaverStops(t)'
  BY <1>2, <1>5, <1>6, LeaverFrame
<1>11. ASSUME NEW q \in Players PROVE SpurnsKept(q)'
  <2>1. entry[q] # Nil => entry[q].retained \in Rooms \cup {Nil}
    BY DEF IInv, TypeOK, Entry
  <2> QED
    BY <1>2, <1>3, <1>6, <2>1, SpurnsFrame DEF Wishes, SpurnsKept
<1>13. \A q \in Rooms : AskedAnew(q)'
  BY <1>2, <1>3, <1>4, AskedFrame
<1> QED
  BY <1>2, <1>7, <1>8, <1>9, <1>10, <1>11, <1>13 DEF Wishes

(* Whoever sat in a room that is gone stops with it. *)
LEMMA DeleteWishes ==
  ASSUME IInv, IInv', Steady, Wishes, NEW r \in Rooms, Delete(r), Orderly'
  PROVE  Wishes'
<1>1. work' = work /\ room' = RoomsWithout(room, {r}) /\ Stop(room[r].seats)
      /\ entry' = EntriesWithout(entry, {r}) /\ offers' = OffersWithout(offers, {r}) /\ Exists(r)
  BY DEF Delete
<1>2. /\ room'[r].stage = "deleted" /\ room'[r].clock = "off"
      /\ \A q \in Rooms \ {r} : room'[q] = room[q] /\ offers'[q] = offers[q]
      /\ offers'[r] = <<>>
  BY <1>1 DEF RoomsWithout, OffersWithout, NoRoom
<1>3. \A p \in Players : entry'[p] = IF entry[p] = Nil \/ entry[p].retained = r THEN Nil ELSE entry[p]
  BY <1>1, Cascade
<1>4. Handlers' = Handlers /\ Leaving' = Leaving
  BY <1>1 DEF Handlers, Leaving
<1>5. /\ seeking' = seeking \ room[r].seats /\ NewSeekers /\ seeking \subseteq Players
      /\ room[r].queued \subseteq room[r].seats
      /\ \A q \in Players : /\ spurned'[q] \subseteq spurned[q]
                            /\ spurned'[q] # {} => spurned'[q] = spurned[q] /\ q \in seeking'
  BY <1>1, Shape, StopKeeps DEF IInv, TypeOK
<1>6. SeekersKnown'
  <2>1. ASSUME NEW q \in seeking', Placed(q) PROVE Placed(q)'
    <3>1. q \notin room[r].seats
      BY <1>5
    <3>2. \A y \in Rooms : Full(y) /\ q \in room[y].queued => Full(y)' /\ q \in room'[y].queued
      BY <1>2, <1>5, <3>1 DEF Full
    <3>3. \A y \in Rooms : Alone(y, q) => Alone(y, q)'
      BY <1>2, <3>1 DEF Alone
    <3>4. entry'[q] = entry[q] \/ Assigned(q)
      BY <1>3, <1>5, <2>1, <3>1 DEF Placed, Alone
    <3> QED
      BY <1>5, <2>1, <3>2, <3>3, <3>4, PlacedFrame
  <2> QED
    BY <1>4, <1>5, <2>1, SeekersFrame
<1>7. LinesTimely'
  <2>1. \A q \in Rooms : room'[q].stage = "playing" => room[q].stage = "playing"
    BY <1>2
  <2> QED
    BY <1>4, <1>5, <2>1, LinesFrame DEF IInv
<1>8. ASSUME NEW t \in work PROVE SweepKnows(t)'
  <2>1. t.room \in Rooms
    BY TaskTypes DEF IInv
  <2>2. ~Matchmade(r)' /\ \A q \in Rooms \ {r} : Matchmade(q)' => Matchmade(q)
    BY <1>2 DEF Matchmade, Full
  <2> QED
    BY <1>2, <2>1, <2>2, SweepFrame
<1>9. \A t \in Leaving' : LeaverStops(t)'
  BY <1>1, <1>2, <1>4, <1>5, LeaverFrame, TaskTypes DEF Leaving, IInv
<1>10. ASSUME NEW q \in Players PROVE SpurnsKept(q)'
  <2>1. entry[q] # Nil => entry[q].retained \in Rooms \cup {Nil}
    BY DEF IInv, TypeOK, Entry
  <2>2. spurned'[q] # {} => entry[q] # Nil /\ entry[q].retained # r /\ Nil # r
    BY <1>5, MatchmakingAssumption DEF Wishes, SpurnsKept
  <2> QED
    BY <1>2, <1>3, <1>5, <2>1, <2>2, SpurnsFrame
<1>12. ASSUME NEW q \in Rooms PROVE AskedAnew(q)'
  <2>1. Accepting(q)' => Accepting(q) /\ room'[q] = room[q]
    BY <1>2 DEF Accepting, Matchmade, Full
  <2> QED
    BY <1>5, <2>1, Shape, AskedFrame
<1> QED
  BY <1>1, <1>6, <1>7, <1>8, <1>9, <1>10, <1>12 DEF Wishes

(* The sweep reads both searches of the offer it is to end. *)
LEMMA SweepWishes ==
  ASSUME IInv, IInv', Steady, Wishes, NEW r \in Rooms, Sweep(r), Orderly'
  PROVE  Wishes'
<1>1. PICK known : known = {q \in Players : entry[q] # Nil /\ q \in Row(r)}
  OBVIOUS
<1>2. PICK again : again = {Again(q, r, entry[q].avoid \cap Rooms) : q \in known}
  OBVIOUS
<1>3. PICK n : n = Task("evict", r, {}, {}, SetToSeq(again))
  OBVIOUS
<1>4. /\ work' = work \cup {n} /\ room' = room /\ entry' = entry /\ offers' = offers
      /\ seeking' = seeking /\ spurned' = spurned /\ Full(r) /\ room[r].clock = "up"
  BY <1>1, <1>2, <1>3 DEF Sweep, db, ghost
<1>5. n.do = "evict" /\ n.room = r /\ n.line = SetToSeq(again)
  BY <1>3 DEF Task
<1>6. Leaving' = Leaving /\ Handlers' = Handlers
  BY <1>4, <1>5 DEF Leaving, Handlers
<1>7. IsFiniteSet(again)
  <2>1. IsFiniteSet(known)
    BY <1>1, MatchmakingAssumption, FS_Subset
  <2>2. PICK f : f = [q \in known |-> Again(q, r, entry[q].avoid \cap Rooms)]
    OBVIOUS
  <2>3. again = {f[q] : q \in known} /\ DOMAIN f = known
    BY <1>2, <2>2
  <2> QED
    BY <2>1, <2>3, FewValues
<1>8. SweepKnows(n)'
  <2> SUFFICES ASSUME n.line # <<>>, Matchmade(r), NEW p \in room[r].seats
               PROVE  p \in InLine(n)
    BY <1>4, <1>5 DEF SweepKnows, Matchmade, Full, InLine
  <2>1. again # {}
    <3> SUFFICES ASSUME again = {} PROVE FALSE
      OBVIOUS
    <3>1. n.line \in Seq({})
      BY <1>5, <1>7, ListTyped
    <3>2. \A i \in 1 .. Len(n.line) : n.line[i] \in {}
      BY <3>1
    <3>3. Len(n.line) = 0
      BY <3>1, <3>2, LenProperties
    <3> QED
      BY <3>1, <3>3, EmptySeq
  <2>2. offers[r] # <<>>
    <3>1. PICK q : q \in known
      BY <1>2, <2>1
    <3>2. q \in Row(r)
      BY <1>1, <3>1 DEF Row
    <3> QED
      BY <3>2, RowOf
  <2>3. p \in Row(r) /\ entry[p] # Nil /\ p \in Players
    BY <2>2, MatchedRow, RoomParts, Shape DEF MarksAgree
  <2>4. p \in known
    BY <1>1, <2>3 DEF Row
  <2>5. PICK a \in again : a = Again(p, r, entry[p].avoid \cap Rooms)
    BY <1>2, <2>4
  <2>6. a.who = p
    BY <2>5 DEF Again
  <2>7. PICK i \in DOMAIN n.line : n.line[i] = a
    BY <1>5, <1>7, ListAll
  <2> QED
    BY <2>6, <2>7 DEF InLine
<1>9. /\ NewSeekers /\ seeking \subseteq Players
      /\ \A q \in Players : spurned'[q] = spurned[q] /\ (spurned'[q] # {} => q \in seeking')
  BY <1>4, UnwishedKeeps DEF IInv, TypeOK
<1>10. SeekersKnown'
  <2>1. ASSUME NEW q \in seeking', Placed(q) PROVE Placed(q)'
    BY <1>4, <1>9, <2>1, PlacedFrame DEF Full, Alone
  <2> QED
    BY <1>4, <1>6, <2>1, SeekersFrame
<1>11. LinesTimely'
  BY <1>4, <1>6, <1>9, LinesFrame DEF IInv
<1>12. \A t \in work' : SweepKnows(t)'
  <2>1. \A t \in work : SweepKnows(t)'
    BY <1>4, SweepFrame DEF Matchmade, Full
  <2> QED
    BY <1>4, <1>8, <2>1
<1>13. \A t \in Leaving' : LeaverStops(t)'
  BY <1>4, <1>6, <1>9, LeaverFrame
<1>14. \A q \in Players : SpurnsKept(q)'
  BY <1>4, <1>9, SpurnsFrame
<1>16. \A q \in Rooms : AskedAnew(q)'
  BY <1>4, AskedFrame DEF Accepting, Matchmade, Full
<1> QED
  BY <1>10, <1>11, <1>12, <1>13, <1>14, <1>16 DEF Wishes

(* A room the sweep spares is as it was. *)
LEMMA SpareWishes ==
  ASSUME IInv, IInv', Steady, Wishes, NEW t \in work, Spare(t), Orderly'
  PROVE  Wishes'
<1>0. t \in Tasks /\ t.room \in Rooms /\ room \in [Rooms -> Room] /\ room[t.room] \in Room
  BY TaskTypes DEF IInv, TypeOK
<1>1. room[t.room].clock # "up"
  <2>1. room[t.room].clock = "up" => Matchmade(t.room)
    BY <1>0, RoomParts DEF ClockAgrees, Matchmade, Full, Lobby, Paired
  <2> QED
    BY <2>1 DEF Spare
<1>2. room' = room
  <2>1. room' = [room EXCEPT ![t.room].clock = room[t.room].clock]
    BY <1>1 DEF Spare
  <2> QED
    BY <1>0, <2>1 DEF Room
<1>3. /\ entry' = entry /\ offers' = offers /\ work' = work \ {t} /\ t.do = "evict"
      /\ seeking' = seeking /\ spurned' = spurned
  BY DEF Spare, ghost
<1>4. Leaving' = Leaving /\ Handlers' = Handlers
  BY <1>3 DEF Leaving, Handlers
<1>5. /\ NewSeekers /\ seeking \subseteq Players
      /\ \A q \in Players : spurned'[q] = spurned[q] /\ (spurned'[q] # {} => q \in seeking')
  BY <1>3, UnwishedKeeps DEF IInv, TypeOK
<1>6. SeekersKnown'
  <2>1. ASSUME NEW q \in seeking', Placed(q) PROVE Placed(q)'
    BY <1>2, <1>3, <1>5, <2>1, PlacedFrame DEF Full, Alone
  <2> QED
    BY <1>3, <1>4, <2>1, SeekersFrame
<1>7. LinesTimely'
  BY <1>2, <1>4, <1>5, LinesFrame DEF IInv
<1>8. \A u \in work' : SweepKnows(u)'
  BY <1>2, <1>3, SweepFrame DEF Matchmade, Full
<1>9. \A u \in Leaving' : LeaverStops(u)'
  BY <1>3, <1>4, <1>5, LeaverFrame
<1>10. \A q \in Players : SpurnsKept(q)'
  BY <1>2, <1>3, <1>5, SpurnsFrame
<1>12. \A r \in Rooms : AskedAnew(r)'
  BY <1>2, <1>3, AskedFrame DEF Accepting, Matchmade, Full
<1> QED
  BY <1>6, <1>7, <1>8, <1>9, <1>10, <1>12 DEF Wishes

(* The clock of a match goes on. *)
LEMMA ClockOnWishes ==
  ASSUME IInv, IInv', Steady, Wishes, NEW t \in work, Evict(t, {}), Orderly'
  PROVE  Wishes'
<1>0. t \in Tasks /\ t.room \in Rooms /\ room \in [Rooms -> Room]
  BY TaskTypes DEF IInv, TypeOK
<1>1. PICK r \in Rooms : r = t.room
  BY <1>0
<1>2. PICK x : x = [room[r] EXCEPT !.clock = "on"]
  OBVIOUS
<1>3. /\ room' = [room EXCEPT ![r] = x] /\ work' = work \ {t} /\ entry' = entry /\ offers' = offers
      /\ t.do = "evict"
  <2>1. room' = [room EXCEPT ![r].clock = "on"]
    BY <1>1 DEF Evict
  <2>2. room' = [room EXCEPT ![r] = x]
    BY <1>2, <2>1
  <2> QED
    BY <1>1, <2>2 DEF Evict
<1>4. /\ room'[r].stage = room[r].stage /\ room'[r].seats = room[r].seats
      /\ room'[r].queued = room[r].queued /\ room'[r].clock = "on"
      /\ room'[r].accepted = room[r].accepted /\ room[r].clock = "up"
      /\ \A q \in Rooms \ {r} : room'[q] = room[q]
  BY <1>0, <1>1, <1>2, <1>3 DEF Room, Evict
<1>5. seeking' = seeking /\ \A q \in Players : spurned'[q] = spurned[q]
  <2>1. Cardinality({}) = 0
    BY FS_EmptySet
  <2>2. spurned' = [q \in Players |-> IF q \in {} THEN {} ELSE spurned[q]]
    BY DEF Evict
  <2> QED
    BY <2>1, <2>2 DEF Evict
<1>6. /\ \A q \in Rooms : /\ (Matchmade(q)' <=> Matchmade(q)) /\ (Full(q)' <=> Full(q))
                          /\ (Paired(q)' <=> Paired(q)) /\ (Accepting(q)' <=> Accepting(q))
                          /\ \A y : Alone(q, y)' <=> Alone(q, y)
                          /\ room'[q].seats = room[q].seats /\ room'[q].queued = room[q].queued
                          /\ room'[q].stage = room[q].stage /\ room'[q].accepted = room[q].accepted
                          /\ (room'[q].clock = "up" => room[q].clock = "up")
  BY <1>3, <1>4 DEF Matchmade, Accepting, Full, Paired, Alone
<1>7. Leaving' = Leaving /\ Handlers' = Handlers
  BY <1>3 DEF Leaving, Handlers
<1>8. /\ NewSeekers /\ seeking \subseteq Players
      /\ \A q \in Players : spurned'[q] = spurned[q] /\ (spurned'[q] # {} => q \in seeking')
  BY <1>5 DEF IInv, TypeOK, NewSeekers, Wishes, SpurnsKept
<1>9. SeekersKnown'
  <2>1. ASSUME NEW q \in seeking', Placed(q) PROVE Placed(q)'
    BY <1>3, <1>5, <1>6, <1>8, <2>1, PlacedFrame
  <2> QED
    BY <1>5, <1>7, <2>1, SeekersFrame
<1>10. LinesTimely'
  BY <1>6, <1>7, <1>8, LinesFrame DEF IInv
<1>11. ASSUME NEW u \in work' PROVE SweepKnows(u)'
  <2>1. u \in work /\ u.room \in Rooms
    BY <1>3, TaskTypes DEF IInv
  <2> QED
    BY <1>6, <2>1, SweepFrame
<1>12. \A u \in Leaving' : LeaverStops(u)'
  BY <1>3, <1>7, <1>8, LeaverFrame
<1>13. ASSUME NEW q \in Players PROVE SpurnsKept(q)'
  <2>1. entry[q] # Nil => entry[q].retained \in Rooms \cup {Nil}
    BY DEF IInv, TypeOK, Entry
  <2> QED
    BY <1>3, <1>6, <1>8, <2>1, SpurnsFrame DEF Wishes, SpurnsKept
<1>15. \A q \in Rooms : AskedAnew(q)'
  BY <1>6, <1>8, Shape, AskedFrame
<1> QED
  BY <1>9, <1>10, <1>11, <1>12, <1>13, <1>15 DEF Wishes

(* An acceptance moves on, and nobody's wishes with it.                      *)
LEMMA ClosingWishes ==
  ASSUME IInv, Steady, Wishes, NEW t \in work, t.do \in {"commit", "load"}, UNCHANGED <<db, ghost>>,
         NEW n, n.do \in {"load", "end"}, work' \subseteq (work \ {t}) \cup {n}, work \ {t} \subseteq work'
  PROVE  Wishes'
<1>1. room' = room /\ entry' = entry /\ offers' = offers /\ seeking' = seeking /\ spurned' = spurned
  BY DEF db, ghost
<1>2. Leaving' = Leaving /\ Handlers' = Handlers
  BY DEF Leaving, Handlers
<1>3. \A u \in work' : SweepKnows(u)'
  BY <1>1 DEF Wishes, SweepKnows, InLine, Matchmade, Full
<1>4. SeekersKnown' /\ LinesTimely'
  BY <1>1, <1>2 DEF Wishes, SeekersKnown, LinesTimely, InLine, Placed, Assigned, Full, Alone
<1>5. \A u \in Leaving' : LeaverStops(u)'
  BY <1>1, <1>2 DEF Wishes, LeaverStops, InLine
<1>6. (\A p \in Players : SpurnsKept(p)') /\ \A q \in Rooms : AskedAnew(q)'
  BY <1>1 DEF Wishes, SpurnsKept, AskedAnew, Accepting, Matchmade, Full
<1> QED
  BY <1>3, <1>4, <1>5, <1>6 DEF Wishes

LEMMA CommitWishes ==
  ASSUME IInv, IInv', Steady, Wishes, NEW t \in work, Commit(t), Orderly'
  PROVE  Wishes'
<1>1. PICK n : n = Task("load", t.room, Row(t.room), {}, <<>>)
  OBVIOUS
<1>2. n.do = "load" /\ work' \subseteq (work \ {t}) \cup {n} /\ work \ {t} \subseteq work'
  BY <1>1 DEF Commit, Task
<1> QED
  BY <1>2, ClosingWishes DEF Commit

LEMMA CommitLoadWishes ==
  ASSUME IInv, IInv', Steady, Wishes, NEW t \in work, CommitLoad(t), Orderly'
  PROVE  Wishes'
<1>1. PICK n : n = [t EXCEPT !.do = "end"]
  OBVIOUS
<1>2. n.do = "end" /\ work' \subseteq (work \ {t}) \cup {n} /\ work \ {t} \subseteq work'
  BY <1>1 DEF CommitLoad, IInv, Tasks
<1> QED
  BY <1>2, ClosingWishes DEF CommitLoad

(* An acceptance ends no search of a player who wants a match.               *)
LEMMA CommitEndWishes ==
  ASSUME IInv, IInv', Steady, Wishes, NEW t \in work, CommitEnd(t), Orderly'
  PROVE  Wishes'
<1>0. t \in Tasks /\ t.room \in Rooms
  BY TaskTypes DEF IInv
<1>1. PICK r \in Rooms : r = t.room
  BY <1>0
<1>2. /\ room' = room /\ work' = work \ {t} /\ t.do = "end" /\ seeking' = seeking /\ spurned' = spurned
      /\ entry' = EntriesCommitted(t) /\ offers' = [offers EXCEPT ![r] = <<>>] /\ ~Strikes(t)
  BY <1>1 DEF CommitEnd, Orderly
<1>3. Leaving' = Leaving /\ Handlers' = Handlers
  BY <1>2 DEF Leaving, Handlers
<1>5. /\ NewSeekers /\ seeking \subseteq Players
      /\ \A q \in Players : spurned'[q] = spurned[q] /\ (spurned'[q] # {} => q \in seeking')
  BY <1>2, UnwishedKeeps DEF IInv, TypeOK
<1>6. \A q \in Rooms : offers'[q] # <<>> => offers[q] # <<>>
  BY <1>2 DEF IInv, TypeOK
<1>7. \A q \in seeking : entry'[q] = entry[q]
  BY <1>2, <1>5 DEF EntriesCommitted, Strikes, IInv, TypeOK
<1>8. SeekersKnown'
  <2>1. ASSUME NEW q \in seeking', Placed(q) PROVE Placed(q)'
    BY <1>2, <1>5, <1>7, <2>1, PlacedFrame DEF Full, Alone
  <2> QED
    BY <1>2, <1>3, <2>1, SeekersFrame
<1>9. LinesTimely'
  BY <1>2, <1>3, <1>5, LinesFrame DEF IInv
<1>10. \A u \in work' : SweepKnows(u)'
  BY <1>2, SweepFrame DEF Matchmade, Full
<1>11. ASSUME NEW u \in Leaving' PROVE LeaverStops(u)'
  <2>1. u \in Leaving /\ u.room \in Rooms
    BY <1>3, TaskTypes DEF IInv, Leaving
  <2> QED
    BY <1>5, <1>6, <2>1, LeaverFrame
<1>12. ASSUME NEW q \in Players PROVE SpurnsKept(q)'
  <2>1. spurned'[q] # {} => q \in seeking /\ entry'[q] = entry[q]
    BY <1>2, <1>5, <1>7
  <2> QED
    BY <1>2, <1>5, <2>1, SpurnsFrame
<1>14. \A q \in Rooms : AskedAnew(q)'
  BY <1>2, AskedFrame DEF Accepting, Matchmade, Full
<1> QED
  BY <1>8, <1>9, <1>10, <1>11, <1>12, <1>14 DEF Wishes

(* Of one player left nobody is forgotten. *)
LEMMA RequeueAll ==
  ASSUME NEW r, NEW S, \A y, z \in S : y = z, NEW line, line = Requeue(r, S, {}), NEW x \in S
  PROVE  \E i \in DOMAIN line : line[i].who = x
<1>1. PICK a : a = Again(CHOOSE p \in S : TRUE, r, {})
  OBVIOUS
<1>2. a.who = x
  BY <1>1 DEF Again
<1>3. line = <<a>>
  BY <1>1 DEF Requeue
<1> QED
  BY <1>2, <1>3

(* What becomes of the handler of a leave that looks for an offer. *)
LEMMA LookupOf ==
  ASSUME IInv, Steady, NEW t \in work, Lookup(t), NEW r \in Rooms, r = t.room
  PROVE  \E n :
    /\ n.room = r
    /\ \/ /\ t.who \cap Row(r) # {} /\ work' = (work \ {t}) \cup {n} /\ entry' = entry
          /\ Exists(r) /\ offers[r] # <<>> /\ LeftWell(t) /\ Marked(t)
          /\ n.do = "resolve" /\ n.who = t.who /\ n.rest = t.rest
          /\ n.line = Requeue(r, t.rest, {}) /\ \A x, y \in t.rest : x = y
       \/ /\ t.who \cap Row(r) = {} /\ n.do = "queue" /\ n.line = t.line
          /\ work' = (work \ {t}) \cup {n} \/ (t.line = <<>> /\ work' = work \ {t})
          /\ entry' = entry \/ entry' = [p \in Players |-> IF p \in t.who THEN Nil ELSE entry[p]]
<1>0. t \in Tasks /\ t.do = "left" /\ t \in Leaving
  BY DEF IInv, Lookup, Leaving
<1>1. t.who \cap Row(r) # {} <=> t.who \cap Row(t.room) # {}
  BY DEF Row
<1>2. CASE t.who \cap Row(r) # {}
  <2>1. PICK other : other = Row(t.room) \ t.who
    OBVIOUS
  <2>2. PICK line : line = IF t.rest = other THEN Requeue(t.room, other, {}) ELSE <<>>
    OBVIOUS
  <2>3. PICK n : n = [t EXCEPT !.do = "resolve", !.rest = other, !.line = line]
    OBVIOUS
  <2>4. work' = (work \ {t}) \cup {n} /\ entry' = entry
    BY <1>1, <1>2, <2>1, <2>2, <2>3 DEF Lookup
  <2>5. offers[r] # <<>> /\ Exists(r)
    BY <1>2, RowOf
  <2>6. LeftWell(t) /\ Marked(t)
    BY <1>0, <2>5 DEF Steady, HandlersWell, Marked
  <2>7. Row(r) = {offers[r][i] : i \in 1 .. 2} /\ Row(r) = {offers[r][1], offers[r][2]}
    BY <2>5, RowOf
  <2>8. other = t.rest
    BY <2>1, <2>5, <2>6, <2>7 DEF LeftWell
  <2>9. \A x, y \in t.rest : x = y
    BY <1>2, <2>1, <2>7, <2>8
  <2>10. n.do = "resolve" /\ n.room = r /\ n.who = t.who /\ n.rest = t.rest /\ n.line = line
    BY <1>0, <2>3, <2>8 DEF Tasks
  <2>11. line = Requeue(r, t.rest, {})
    BY <2>2, <2>8
  <2> QED
    BY <1>2, <2>4, <2>5, <2>6, <2>9, <2>10, <2>11
<1>3. CASE t.who \cap Row(r) = {}
  <2>1. PICK n : n = [t EXCEPT !.do = "queue"]
    OBVIOUS
  <2>2. work' = (work \ {t}) \cup {n} \/ (t.line = <<>> /\ work' = work \ {t})
    BY <1>1, <1>3, <2>1 DEF Lookup, Then
  <2>3. entry' = entry \/ entry' = [p \in Players |-> IF p \in t.who THEN Nil ELSE entry[p]]
    BY <1>1, <1>3 DEF Lookup
  <2>4. n.do = "queue" /\ n.line = t.line /\ n.room = r
    BY <1>0, <2>1 DEF Tasks
  <2> QED
    BY <1>3, <2>2, <2>3, <2>4
<1> QED
  BY <1>2, <1>3

(* With an offer or without one, whoever is left is queued again. *)
LEMMA LookupWishes ==
  ASSUME IInv, IInv', Steady, Wishes, NEW t \in work, Lookup(t), Orderly'
  PROVE  Wishes'
<1>0. t \in Tasks /\ t.room \in Rooms /\ t.do = "left" /\ t \in Leaving /\ t \in Handlers /\ LeaverStops(t)
  BY TaskTypes DEF IInv, Lookup, Leaving, Handlers, Wishes
<1>1. PICK r \in Rooms : r = t.room
  BY <1>0
<1>2. room' = room /\ offers' = offers /\ seeking' = seeking /\ spurned' = spurned
  BY DEF Lookup
<1>3. PICK n :
    /\ n.room = r
    /\ \/ /\ t.who \cap Row(r) # {} /\ work' = (work \ {t}) \cup {n} /\ entry' = entry
          /\ Exists(r) /\ offers[r] # <<>> /\ LeftWell(t) /\ Marked(t)
          /\ n.do = "resolve" /\ n.who = t.who /\ n.rest = t.rest
          /\ n.line = Requeue(r, t.rest, {}) /\ \A x, y \in t.rest : x = y
       \/ /\ t.who \cap Row(r) = {} /\ n.do = "queue" /\ n.line = t.line
          /\ work' = (work \ {t}) \cup {n} \/ (t.line = <<>> /\ work' = work \ {t})
          /\ entry' = entry \/ entry' = [p \in Players |-> IF p \in t.who THEN Nil ELSE entry[p]]
  BY <1>1, LookupOf
<1>4. work' \subseteq (work \ {t}) \cup {n} /\ work \ {t} \subseteq work' /\ n.do \in {"resolve", "queue"}
  BY <1>3
<1>5. /\ NewSeekers /\ seeking \subseteq Players
      /\ \A q \in Players : spurned'[q] = spurned[q] /\ (spurned'[q] # {} => q \in seeking')
  BY <1>2, UnwishedKeeps DEF IInv, TypeOK
<1>6. \A q \in seeking : entry'[q] = entry[q]
  BY <1>0, <1>3, <1>5 DEF LeaverStops
<1>7. ASSUME NEW u \in Handlers, InLine(u) # {} PROVE \E v \in Handlers' : InLine(u) \subseteq InLine(v)
  <2>1. CASE u # t
    BY <1>4, <2>1 DEF Handlers
  <2>2. CASE u = t /\ n.line = t.line /\ n.do = "queue"
    <3>1. t.line # <<>>
      BY <1>7, <2>2 DEF InLine
    <3>2. n \in Handlers'
      BY <1>3, <2>2, <3>1 DEF Handlers
    <3> QED
      BY <2>2, <3>2 DEF InLine
  <2>3. CASE u = t /\ n.line = Requeue(r, t.rest, {}) /\ n \in work' /\ \A x, y \in t.rest : x = y
    <3>1. \A x \in t.rest : \E i \in DOMAIN n.line : n.line[i].who = x
      BY <2>3, RequeueAll
    <3>2. InLine(t) \subseteq InLine(n)
      BY <1>0, <3>1 DEF LeaverStops, InLine
    <3> QED
      BY <1>4, <2>3, <3>2 DEF Handlers
  <2> QED
    BY <1>3, <2>1, <2>2, <2>3
<1>8. SeekersKnown'
  <2>1. ASSUME NEW q \in seeking', Placed(q) PROVE Placed(q)'
    BY <1>2, <1>5, <1>6, <2>1, PlacedFrame DEF Full, Alone
  <2> QED
    BY <1>2, <1>7, <2>1, SeekersFrame
<1>9. LinesTimely'
  <2>1. ASSUME NEW u \in Handlers', NEW i \in DOMAIN u.line
        PROVE  \E v \in Handlers : \E j \in DOMAIN v.line :
                 v.line[j].who = u.line[i].who /\ v.line[j].keep = u.line[i].keep
    <3>1. CASE u \in work
      BY <2>1, <3>1 DEF Handlers
    <3>2. CASE u = n /\ n.line = t.line
      BY <1>0, <2>1, <3>2
    <3>3. CASE u = n /\ n.line = Requeue(r, t.rest, {}) /\ offers[r] # <<>>
      <4>1. u.line[i].keep = r /\ u.line[i].who \in t.rest
        BY <2>1, <3>3, RequeueLine
      <4>2. PICK j \in DOMAIN t.line : t.line[j].who = u.line[i].who
        BY <1>0, <1>1, <3>3, <4>1 DEF LeaverStops, InLine
      <4> QED
        BY <1>0, <1>1, <4>1, <4>2 DEF LeaverStops
    <3> QED
      BY <1>3, <2>1, <3>1, <3>2, <3>3 DEF Handlers
  <2> QED
    BY <1>2, <1>5, <2>1, LinesFrame DEF IInv
<1>10. \A u \in work' : SweepKnows(u)'
  <2>1. \A u \in work : SweepKnows(u)'
    BY <1>2, SweepFrame DEF Matchmade, Full
  <2> QED
    BY <1>4, <2>1 DEF SweepKnows
<1>11. ASSUME NEW u \in Leaving' PROVE LeaverStops(u)'
  <2>1. CASE u \in work
    BY <1>2, <1>5, <1>11, <2>1, LeaverFrame DEF Leaving
  <2>2. CASE u = n /\ n.do = "resolve"
    BY <1>0, <1>2, <1>3, <2>2 DEF LeaverStops
  <2> QED
    BY <1>3, <1>11, <2>1, <2>2 DEF Leaving
<1>12. ASSUME NEW q \in Players PROVE SpurnsKept(q)'
  <2>1. spurned'[q] # {} => q \in seeking /\ entry'[q] = entry[q]
    BY <1>2, <1>5, <1>6
  <2> QED
    BY <1>2, <1>5, <2>1, SpurnsFrame
<1>14. \A q \in Rooms : AskedAnew(q)'
  BY <1>2, AskedFrame DEF Accepting, Matchmade, Full
<1> QED
  BY <1>8, <1>9, <1>10, <1>11, <1>12, <1>14 DEF Wishes

(* A release ends the searches of who is out, and no other. *)
LEMMA ReleaseSpares ==
  ASSUME IInv, NEW t \in work, Release(t), NEW p \in Players, entry[p] # Nil, p \notin t.who
  PROVE  entry'[p] # Nil /\ entry'[p].avoid = entry[p].avoid
<1>0. t \in Tasks /\ t.room \in Rooms
  BY TaskTypes DEF IInv
<1>1. PICK es : es = IF t.do = "clean" THEN EntriesOffOffer(entry, t.room) ELSE entry
  OBVIOUS
<1>2. entry' = Released(es, t)
  BY <1>1 DEF Release
<1>3. entry[p] \in Entry /\ Nil \notin Entry /\ t.room \in Rooms
  BY <1>0, MatchmakingAssumption DEF IInv, TypeOK
<1>4. PICK e \in Entry : e = entry[p]
  BY <1>3
<1>5. es[p] = IF t.do = "clean" /\ e.offer = t.room THEN [e EXCEPT !.offer = Nil] ELSE e
  BY <1>1, <1>3, <1>4 DEF EntriesOffOffer
<1>6. PICK f : f = es[p]
  OBVIOUS
<1>7. f \in Entry /\ f.avoid = e.avoid
  BY <1>4, <1>5, <1>6 DEF Entry
<1>8. entry'[p] = IF p \in t.rest
                  THEN [f EXCEPT !.retained = t.room, !.offer = IF t.do = "resolve" THEN Nil ELSE f.offer]
                  ELSE f
  BY <1>2, <1>3, <1>6, <1>7 DEF Released
<1>9. entry'[p] \in Entry /\ entry'[p].avoid = f.avoid
  <2>1. CASE p \notin t.rest
    BY <1>7, <1>8, <2>1
  <2>2. CASE p \in t.rest
    <3>1. PICK o \in Rooms \cup {Nil} : o = IF t.do = "resolve" THEN Nil ELSE f.offer
      BY <1>7 DEF Entry
    <3>2. entry'[p] = [f EXCEPT !.retained = t.room, !.offer = o]
      BY <1>8, <2>2, <3>1
    <3> QED
      BY <1>3, <1>7, <3>1, <3>2 DEF Entry
  <2> QED
    BY <2>1, <2>2
<1> QED
  BY <1>3, <1>4, <1>7, <1>9

(* Whoever is left is queued again after his search is free. *)
LEMMA ReleaseWishes ==
  ASSUME IInv, IInv', Steady, Wishes, NEW t \in work, Release(t), Orderly'
  PROVE  Wishes'
<1>0. t \in Tasks /\ t.room \in Rooms /\ t.do \in {"resolve", "clean"} /\ t \in Leaving /\ t \in Handlers
      /\ LeaverStops(t)
  BY TaskTypes DEF IInv, Release, Leaving, Handlers, Wishes
<1>1. PICK r \in Rooms : r = t.room
  BY <1>0
<1>2. room' = room /\ offers' = [offers EXCEPT ![r] = <<>>] /\ seeking' = seeking /\ spurned' = spurned
  BY <1>1 DEF Release
<1>3. PICK n : n = [t EXCEPT !.do = "queue"]
  OBVIOUS
<1>4. n.do = "queue" /\ n.room = r /\ n.line = t.line
  BY <1>0, <1>1, <1>3 DEF Tasks
<1>5. /\ work' = (work \ {t}) \cup {n} \/ (t.line = <<>> /\ work' = work \ {t})
      /\ work' \subseteq (work \ {t}) \cup {n} /\ work \ {t} \subseteq work'
  BY <1>3 DEF Release, Then
<1>6. offers'[r] = <<>> /\ \A q \in Rooms \ {r} : offers'[q] = offers[q]
  BY <1>2 DEF IInv, TypeOK
<1>7. /\ NewSeekers /\ seeking \subseteq Players
      /\ \A q \in Players : spurned'[q] = spurned[q] /\ (spurned'[q] # {} => q \in seeking')
  BY <1>2, UnwishedKeeps DEF IInv, TypeOK
<1>8. \A q \in seeking : entry[q] # Nil =>
        /\ entry'[q] # Nil /\ entry'[q].avoid = entry[q].avoid /\ entry'[q].retained = entry[q].retained
        /\ entry[q].offer = Nil => entry'[q] = entry[q]
  <2> SUFFICES ASSUME NEW q \in seeking, entry[q] # Nil
               PROVE  /\ entry'[q] # Nil /\ entry'[q].avoid = entry[q].avoid
                      /\ entry'[q].retained = entry[q].retained
                      /\ entry[q].offer = Nil => entry'[q] = entry[q]
    OBVIOUS
  <2>1. q \in Players /\ q \notin t.who /\ Nil # t.room
    BY <1>0, <1>7, MatchmakingAssumption DEF LeaverStops
  <2>2. entry'[q] # Nil /\ entry'[q].avoid = entry[q].avoid
    BY <2>1, ReleaseSpares
  <2> QED
    BY <2>1, <2>2, ReleasedOf
<1>9. ASSUME NEW u \in Handlers, InLine(u) # {} PROVE \E v \in Handlers' : InLine(u) \subseteq InLine(v)
  <2>1. CASE u # t
    BY <1>5, <2>1 DEF Handlers
  <2>2. CASE u = t
    <3>1. n \in Handlers'
      BY <1>4, <1>5, <1>9, <2>2 DEF Handlers, InLine
    <3> QED
      BY <1>4, <2>2, <3>1 DEF InLine
  <2> QED
    BY <2>1, <2>2
<1>10. SeekersKnown'
  <2>1. ASSUME NEW q \in seeking', Placed(q) PROVE Placed(q)'
    <3>1. entry'[q] = entry[q] \/ Assigned(q)
      BY <1>2, <1>8, <2>1 DEF Placed
    <3> QED
      BY <1>2, <1>7, <2>1, <3>1, PlacedFrame DEF Full, Alone
  <2> QED
    BY <1>2, <1>9, <2>1, SeekersFrame
<1>11. LinesTimely'
  <2>1. ASSUME NEW u \in Handlers', NEW i \in DOMAIN u.line
        PROVE  \E v \in Handlers : \E j \in DOMAIN v.line :
                 v.line[j].who = u.line[i].who /\ v.line[j].keep = u.line[i].keep
    <3>1. u \in Handlers \/ u = n
      BY <1>5, <2>1 DEF Handlers
    <3> QED
      BY <1>0, <1>4, <2>1, <3>1
  <2> QED
    BY <1>2, <1>7, <2>1, LinesFrame DEF IInv
<1>12. \A u \in work' : SweepKnows(u)'
  <2>1. \A u \in work : SweepKnows(u)'
    BY <1>2, SweepFrame DEF Matchmade, Full
  <2> QED
    BY <1>4, <1>5, <2>1 DEF SweepKnows
<1>13. ASSUME NEW u \in Leaving' PROVE LeaverStops(u)'
  <2>1. u \in Leaving /\ u.room \in Rooms
    BY <1>4, <1>5, <1>13, TaskTypes DEF Leaving, IInv
  <2> QED
    BY <1>6, <1>7, <2>1, LeaverFrame
<1>14. ASSUME NEW q \in Players PROVE SpurnsKept(q)'
  <2>1. spurned'[q] # {} => q \in seeking /\ entry[q] # Nil
    BY <1>2, <1>7 DEF Wishes, SpurnsKept
  <2> QED
    BY <1>2, <1>7, <1>8, <2>1, SpurnsFrame
<1>16. \A q \in Rooms : AskedAnew(q)'
  BY <1>2, AskedFrame DEF Accepting, Matchmade, Full
<1> QED
  BY <1>10, <1>11, <1>12, <1>13, <1>14, <1>16 DEF Wishes

(* Whoever joins a player that waits ends both searches. *)
LEMMA JoinWishes ==
  ASSUME IInv, IInv', Steady, Wishes, NEW p \in Players, NEW r \in Rooms, Join(p, r), Orderly'
  PROVE  Wishes'
<1>0. room \in [Rooms -> Room] /\ room[r] \in Room
  BY DEF IInv, TypeOK
<1>1. PICK x : x = [room[r] EXCEPT !.seats = room[r].seats \cup {p}, !.accepted = {}, !.clock = "off"]
  OBVIOUS
<1>2. /\ room' = [room EXCEPT ![r] = x] /\ work' = work /\ offers' = offers
      /\ Lobby(r) /\ Cardinality(room[r].seats) = 1 /\ p \notin room[r].seats
  <2>1. room' = [room EXCEPT ![r].seats = room[r].seats \cup {p}, ![r].accepted = {}, ![r].clock = "off"]
    BY <1>0 DEF Join
  <2>2. room' = [room EXCEPT ![r] = x]
    BY <1>0, <1>1, <2>1
  <2> QED
    BY <2>2 DEF Join, Lobby
<1>3. /\ room'[r].stage = room[r].stage /\ room'[r].seats = room[r].seats \cup {p}
      /\ room'[r].queued = room[r].queued /\ room'[r].clock = "off" /\ room'[r].accepted = {}
      /\ \A q \in Rooms \ {r} : room'[q] = room[q]
  BY <1>0, <1>1, <1>2 DEF Room
<1>4. PICK ends : ends = {q \in Players : q = p \/ (entry[q] # Nil /\ entry[q].retained = r)}
  OBVIOUS
<1>5. \/ /\ room[r].queued # {} /\ Stop(ends)
         /\ entry' = [q \in Players |-> IF q \in ends THEN Nil ELSE entry[q]]
      \/ room[r].queued = {} /\ UNCHANGED <<entry, seeking, spurned>>
  BY <1>4 DEF Join
<1>6. /\ seeking' \subseteq seeking /\ NewSeekers /\ seeking \subseteq Players
      /\ room[r].queued # {} => seeking' \cap ends = {}
      /\ \A q \in Players : /\ spurned'[q] \subseteq spurned[q]
                            /\ spurned'[q] # {} => spurned'[q] = spurned[q] /\ q \in seeking'
  <2>1. CASE room[r].queued # {} /\ Stop(ends)
    BY <2>1, StopKeeps DEF IInv, TypeOK
  <2>2. CASE room[r].queued = {} /\ UNCHANGED <<entry, seeking, spurned>>
    BY <2>2, UnwishedKeeps DEF IInv, TypeOK
  <2> QED
    BY <1>5, <2>1, <2>2
<1>7. \A q \in seeking' : entry'[q] = entry[q]
  BY <1>5, <1>6
<1>8. ~Paired(r)' /\ ~Matchmade(r)' /\ ~Accepting(r)' /\ ~Full(r)
  <2>1. room[r].queued \subseteq room[r].seats
    BY Shape
  <2>2. ~Paired(r)' /\ ~Matchmade(r)'
    BY <1>2, <1>3, <2>1 DEF Paired, Matchmade
  <2> QED
    BY <1>2, <2>2 DEF Accepting, Full
<1>9. Handlers' = Handlers /\ Leaving' = Leaving
  BY <1>2 DEF Handlers, Leaving
<1>10. SeekersKnown'
  <2>1. ASSUME NEW q \in seeking', Placed(q) PROVE Placed(q)'
    <3>1. q \in Players /\ entry'[q] = entry[q]
      BY <1>6, <1>7
    <3>2. \A y \in Rooms : Full(y) /\ q \in room[y].queued => Full(y)' /\ q \in room'[y].queued
      BY <1>3, <1>8 DEF Full
    <3>3. CASE entry[q] # Nil /\ entry[q].retained = r /\ Alone(r, q)
      <4>1. q \in room[r].queued
        BY <1>2, <3>1, <3>3, RoomParts DEF SeatsAgree, Alone
      <4> QED
        BY <1>4, <1>6, <3>1, <3>3, <4>1
    <3>4. CASE ~(entry[q] # Nil /\ entry[q].retained = r /\ Alone(r, q))
      <4>1. (entry[q] # Nil /\ \A y \in Rooms : entry[q].retained = y /\ Alone(y, q) => Alone(y, q)') \/ Assigned(q)
        BY <1>3, <2>1, <3>4 DEF Alone, Placed
      <4> QED
        BY <2>1, <3>1, <3>2, <4>1, PlacedFrame
    <3> QED
      BY <3>3, <3>4
  <2> QED
    BY <1>6, <1>9, <2>1, SeekersFrame
<1>11. LinesTimely'
  <2>1. \A q \in Rooms : room'[q].stage = room[q].stage
    BY <1>3
  <2> QED
    BY <1>6, <1>9, <2>1, LinesFrame DEF IInv
<1>12. ASSUME NEW u \in work PROVE SweepKnows(u)'
  <2>1. u.room \in Rooms /\ \A q \in Rooms \ {r} : Matchmade(q)' => Matchmade(q)
    BY <1>3, TaskTypes DEF IInv, Matchmade, Full
  <2> QED
    BY <1>3, <1>8, <2>1, SweepFrame
<1>13. \A u \in Leaving' : LeaverStops(u)'
  BY <1>2, <1>6, <1>9, LeaverFrame
<1>14. ASSUME NEW q \in Players PROVE SpurnsKept(q)'
  <2>1. spurned'[q] # {} => spurned'[q] = spurned[q] /\ q \in seeking' /\ entry'[q] = entry[q]
    BY <1>6, <1>7
  <2>2. entry[q] # Nil => entry[q].retained \in Rooms \cup {Nil}
    BY DEF IInv, TypeOK, Entry
  <2>3. \A y \in Rooms : room[y].seats \subseteq room'[y].seats
    BY <1>3
  <2> QED
    BY <2>1, <2>2, <2>3, SpurnsFrame DEF Wishes, SpurnsKept
<1>16. ASSUME NEW q \in Rooms PROVE AskedAnew(q)'
  <2>1. Accepting(q)' => Accepting(q) /\ room'[q] = room[q]
    BY <1>3, <1>8 DEF Accepting, Matchmade, Full
  <2> QED
    BY <1>6, <2>1, Shape, AskedFrame
<1> QED
  BY <1>2, <1>10, <1>11, <1>12, <1>13, <1>14, <1>16 DEF Wishes

(* Of two seats one is left. *)
LEMMA OneLeft ==
  ASSUME IInv, NEW r \in Rooms, NEW p \in room[r].seats, NEW x \in room[r].seats \ {p},
         NEW y \in room[r].seats \ {p}
  PROVE  x = y
<1> SUFFICES ASSUME x # y PROVE FALSE
  OBVIOUS
<1>1. IsFiniteSet(room[r].seats) /\ Cardinality(room[r].seats) \in 0 .. 2
  BY Shape
<1>2. IsFiniteSet(room[r].seats \ {p}) /\ Cardinality(room[r].seats \ {p}) = Cardinality(room[r].seats) - 1
  BY <1>1, FS_RemoveElement
<1>3. Cardinality({x, y}) = 2
  BY Two
<1>4. Cardinality({x, y}) <= Cardinality(room[r].seats \ {p})
  BY <1>2, FS_Subset
<1> QED
  BY <1>1, <1>2, <1>3, <1>4

(* An offer somebody may leave is of a match that stands. *)
LEMMA OfferThere ==
  ASSUME IInv, Steady, NEW r \in Rooms, Lobby(r), offers[r] # <<>>, NEW p \in room[r].seats,
         ~Overtaken({p} \cup room[r].queued, Handlers)
  PROVE  Matchmade(r)
<1>1. ASSUME NEW u \in Leaving, u.room = r PROVE FALSE
  <2>1. u \in Handlers /\ LeftWell(u) /\ Marked(u)
    BY <1>1 DEF Steady, HandlersWell, Leaving, Handlers, Lobby, Exists, Marked
  <2>2. ({p} \cup room[r].queued) \cap u.rest = {}
    BY <2>1, NotOvertaken
  <2> QED
    BY <1>1, <2>1, <2>2 DEF LeftWell
<1>2. Paired(r)
  BY <1>1, RoomParts DEF RowAgrees
<1> QED
  BY <1>2, RoomParts DEF ClockAgrees, Paired, Matchmade, Full, Lobby

(* Whoever leaves a seat wants no match; the one he leaves searches on. *)
LEMMA LeaveRoomWishes ==
  ASSUME IInv, IInv', Steady, Wishes, NEW p \in Players, NEW r \in Rooms, LeaveRoom(p, r), Orderly'
  PROVE  Wishes'
<1>1. PICK rest : rest = room[r].queued \ {p}
  OBVIOUS
<1>2. PICK n : n = Task("left", r, {p}, room[r].seats \ {p}, Requeue(r, rest, {}))
  OBVIOUS
<1>3. /\ room' = [room EXCEPT ![r] = Without(r, {p})] /\ work' = work \cup {n}
      /\ entry' = entry /\ offers' = offers /\ Lobby(r) /\ p \in room[r].seats
      /\ ~Overtaken({p} \cup rest, Handlers)
      /\ seeking' = (seeking \ {p}) \cup rest /\ spurned' = [spurned EXCEPT ![p] = {}]
  BY <1>1, <1>2 DEF LeaveRoom, Orderly, Lobby
<1>4. /\ n.do = "left" /\ n.room = r /\ n.who = {p} /\ n.rest = room[r].seats \ {p}
      /\ n.line = Requeue(r, rest, {})
      /\ \A i \in DOMAIN n.line : n.line[i].keep = r /\ n.line[i].who \in rest
  BY <1>2, RequeueLine DEF Task
<1>5. /\ room'[r].stage = room[r].stage /\ room'[r].seats = room[r].seats \ {p}
      /\ \A q \in Rooms \ {r} : room'[q] = room[q]
      /\ \A q \in Rooms : room'[q].stage = room[q].stage
      /\ ~Paired(r)' /\ ~Matchmade(r)' /\ ~Accepting(r)' /\ ~Full(r)'
  BY <1>3, SeatsGivenUp
<1>6. room[r].queued \subseteq room[r].seats /\ room[r].seats \subseteq Players
  BY Shape
<1>7. rest = InLine(n)
  <2>1. ASSUME NEW x \in rest PROVE \E i \in DOMAIN n.line : n.line[i].who = x
    <3>1. \A y, z \in rest : y = z
      BY <1>1, <1>3, <1>6, OneLeft
    <3> QED
      BY <1>4, <3>1, RequeueAll
  <2> QED
    BY <1>4, <2>1 DEF InLine
<1>8. n \in Handlers' /\ Handlers' = Handlers \cup {n} /\ Leaving' = Leaving \cup {n}
  BY <1>3, <1>4 DEF Handlers, Leaving
<1>9. /\ NewSeekers /\ seeking \subseteq Players
      /\ \A q \in Players : /\ spurned'[q] \subseteq spurned[q]
                            /\ spurned'[q] # {} => spurned'[q] = spurned[q] /\ q # p /\ q \in seeking'
  <2>1. NewSeekers
    BY <1>3, NotOvertaken DEF NewSeekers
  <2>2. \A q \in Players : spurned'[q] = IF q = p THEN {} ELSE spurned[q]
    BY <1>3 DEF IInv, TypeOK
  <2> QED
    BY <1>3, <2>1, <2>2 DEF IInv, TypeOK, Wishes, SpurnsKept
<1>10. SeekersKnown'
  <2> SUFFICES ASSUME NEW q \in seeking' PROVE Placed(q)' \/ \E t \in Handlers' : q \in InLine(t)
    BY DEF SeekersKnown, InLine
  <2>1. CASE q \in rest
    BY <1>7, <1>8, <2>1
  <2>2. CASE q \notin rest
    <3>1. q \in seeking /\ q # p /\ q \in Players
      BY <1>3, <1>9, <2>2
    <3>2. Placed(q) \/ \E t \in Handlers : q \in InLine(t)
      BY <3>1 DEF Wishes, SeekersKnown
    <3>3. ASSUME Placed(q) PROVE Placed(q)'
      <4>1. \A y \in Rooms : Full(y) /\ q \in room[y].queued => Full(y)' /\ q \in room'[y].queued
        BY <1>1, <1>5, <2>2, <3>1 DEF Full
      <4>2. \A y \in Rooms : Alone(y, q) => Alone(y, q)'
        BY <1>3, <1>5, <3>1 DEF Alone
      <4> QED
        BY <1>3, <3>1, <3>3, <4>1, <4>2, PlacedFrame
    <3> QED
      BY <1>8, <3>2, <3>3
  <2> QED
    BY <2>1, <2>2
<1>11. LinesTimely'
  <2>1. ASSUME NEW u \in Handlers', NEW i \in DOMAIN u.line
        PROVE  \/ room'[u.line[i].keep].stage = "lobby"
               \/ u \in Handlers
    BY <1>3, <1>4, <1>5, <1>8, <2>1 DEF Lobby
  <2> QED
    BY <1>5, <1>9, <2>1, LinesFrame DEF IInv
<1>12. ASSUME NEW u \in work' PROVE SweepKnows(u)'
  <2>1. CASE u \in work
    <3>1. u.room \in Rooms /\ \A q \in Rooms \ {r} : Matchmade(q)' => Matchmade(q)
      BY <1>5, <2>1, TaskTypes DEF IInv, Matchmade, Full
    <3> QED
      BY <1>5, <2>1, <3>1, SweepFrame
  <2>2. CASE u = n
    BY <1>4, <2>2 DEF SweepKnows
  <2> QED
    BY <1>3, <2>1, <2>2
<1>13. ASSUME NEW u \in Leaving' PROVE LeaverStops(u)'
  <2>1. CASE u \in Leaving
    BY <1>3, <1>9, <2>1, LeaverFrame
  <2>2. CASE u = n
    <3>1. n.who \cap seeking' = {}
      BY <1>1, <1>3, <1>4
    <3>2. InLine(n) \subseteq n.rest
      BY <1>1, <1>4, <1>6, <1>7
    <3>3. offers[r] # <<>> => n.rest \subseteq InLine(n)
      <4>1. ({p} \cup rest) = {p} \cup room[r].queued
        BY <1>1
      <4>2. offers[r] # <<>> => Matchmade(r)
        BY <1>3, <4>1, OfferThere
      <4> QED
        BY <1>1, <1>4, <1>7, <4>2 DEF Matchmade
    <3> QED
      BY <1>3, <1>4, <2>2, <3>1, <3>2, <3>3 DEF LeaverStops, InLine
  <2> QED
    BY <1>8, <2>1, <2>2
<1>14. ASSUME NEW q \in Players PROVE SpurnsKept(q)'
  <2>1. entry[q] # Nil => entry[q].retained \in Rooms \cup {Nil}
    BY DEF IInv, TypeOK, Entry
  <2>2. q # p => \A y \in Rooms : q \in room[y].seats => q \in room'[y].seats
    BY <1>5
  <2> QED
    BY <1>3, <1>9, <2>1, <2>2, SpurnsFrame DEF Wishes, SpurnsKept
<1>16. ASSUME NEW q \in Rooms PROVE AskedAnew(q)'
  <2>1. Accepting(q)' => Accepting(q) /\ room'[q] = room[q]
    BY <1>5 DEF Accepting, Matchmade, Full
  <2> QED
    BY <1>9, <2>1, Shape, AskedFrame
<1> QED
  BY <1>10, <1>11, <1>12, <1>13, <1>14, <1>16 DEF Wishes

(* What the searches of a declined offer avoid. *)
LEMMA DeclineAvoids ==
  ASSUME IInv, NEW p \in Players, NEW r \in Rooms, Decline(p, r), NEW q \in Players, entry[q] # Nil
  PROVE  entry'[q].avoid = IF q = p /\ entry[p].offer = r
                           THEN entry[p].avoid \cup {r} \cup (room[r].seats \ {p}) ELSE entry[q].avoid
<1>1. entry \in [Players -> Entry \cup {Nil}] /\ r # Nil /\ Nil \notin Entry
  BY MatchmakingAssumption DEF IInv, TypeOK
<1>2. PICK more : more = entry[p].avoid \cup {r} \cup (room[r].seats \ {p})
  OBVIOUS
<1>3. PICK gone : gone = [retained |-> Nil, offer |-> Nil, avoid |-> more]
  OBVIOUS
<1>4. PICK e : e = IF entry[p] # Nil /\ entry[p].offer = r THEN gone ELSE entry[p]
  OBVIOUS
<1> DEFINE after == [entry EXCEPT ![p] =
                       IF entry[p] # Nil /\ entry[p].offer = r
                       THEN [retained |-> Nil, offer |-> Nil,
                             avoid |-> entry[p].avoid \cup {r} \cup (room[r].seats \ {p})]
                       ELSE @]
<1>5. after = [entry EXCEPT ![p] = e]
  BY <1>2, <1>3, <1>4
<1>6. entry' = [x \in Players |-> IF after[x] # Nil /\ after[x].offer = r
                                  THEN [after[x] EXCEPT !.offer = Nil, !.retained = r] ELSE after[x]]
  BY DEF Decline
<1> HIDE DEF after
<1>7. CASE q = p /\ entry[p].offer = r
  <2>1. after[p] = gone /\ gone.offer = Nil /\ gone.avoid = more
    BY <1>1, <1>3, <1>4, <1>5, <1>7
  <2>2. entry'[p] = gone
    BY <1>1, <1>6, <2>1
  <2> QED
    BY <1>2, <1>7, <2>1, <2>2
<1>8. CASE ~(q = p /\ entry[p].offer = r)
  <2>1. after[q] = entry[q]
    BY <1>1, <1>4, <1>5, <1>8
  <2>2. PICK f \in Entry : f = entry[q]
    BY <1>1
  <2>3. CASE f.offer = r
    <3>1. entry'[q] = [f EXCEPT !.offer = Nil, !.retained = r]
      BY <1>6, <2>1, <2>2, <2>3
    <3>2. entry'[q].avoid = f.avoid
      BY <2>2, <3>1 DEF Entry
    <3> QED
      BY <1>8, <2>2, <3>2
  <2>4. CASE f.offer # r
    BY <1>6, <1>8, <2>1, <2>2, <2>4
  <2> QED
    BY <2>3, <2>4
<1> QED
  BY <1>7, <1>8

(* A list has what the lists have that it was made of. *)
LEMMA ListsJoined ==
  ASSUME NEW s \in Seq(Agains), NEW u \in Seq(Agains), NEW x,
         (\E i \in DOMAIN u : u[i].who = x) \/ \E i \in DOMAIN s : s[i].who = x
  PROVE  \E j \in DOMAIN (s \o u) : (s \o u)[j].who = x
<1> PICK w : w = s \o u
  OBVIOUS
<1>1. /\ w \in Seq(Agains) /\ Len(w) = Len(s) + Len(u) /\ Len(s) \in Nat /\ Len(u) \in Nat
      /\ \A i \in 1 .. Len(s) + Len(u) : w[i] = IF i <= Len(s) THEN s[i] ELSE u[i - Len(s)]
  BY ConcatProperties, LenProperties
<1>2. /\ DOMAIN w = 1 .. Len(s) + Len(u)
      /\ DOMAIN s = 1 .. Len(s) /\ DOMAIN u = 1 .. Len(u)
  BY <1>1, LenProperties
<1>3. ASSUME NEW i \in DOMAIN s PROVE \E j \in DOMAIN w : w[j] = s[i]
  <2>1. i \in 1 .. Len(s) + Len(u) /\ i <= Len(s)
    BY <1>1, <1>2
  <2> QED
    BY <1>1, <1>2, <2>1
<1>4. ASSUME NEW i \in DOMAIN u PROVE \E j \in DOMAIN w : w[j] = u[i]
  <2>1. PICK j : j = i + Len(s)
    OBVIOUS
  <2>2. j \in 1 .. Len(s) + Len(u) /\ ~(j <= Len(s)) /\ j - Len(s) = i
    BY <1>1, <1>2, <2>1
  <2> QED
    BY <1>1, <1>2, <2>2
<1> QED
  BY <1>3, <1>4

(* Both players of a declined offer will be queued again. *)
LEMMA DeclineLine ==
  ASSUME IInv, Steady, NEW p \in Players, NEW r \in Rooms, Decline(p, r)
  PROVE  \E n : /\ work' = work \cup {n} /\ n.do = "queue" /\ n.room = r /\ room[r].seats \subseteq InLine(n)
                /\ \A i \in DOMAIN n.line : n.line[i].keep \in {Nil, r}
<1>1. PICK other : other = room[r].seats \ {p}
  OBVIOUS
<1>2. p \in room[r].seats /\ Matchmade(r) /\ offers[r] # <<>> /\ room[r].seats \subseteq Players
  BY Shape, RoomParts DEF Decline, Accepting, RowAgrees
<1>3. PICK kept : kept = {s \in other : entry'[s] # Nil /\ entry'[s].retained = r}
  OBVIOUS
<1>4. kept = other
  <2>1. \A s \in other : s \in Players /\ entry[s] # Nil /\ entry[s].offer = r /\ s # p
    BY <1>1, <1>2, RoomParts DEF MarksAgree
  <2>2. \A s \in other : entry'[s] # Nil /\ entry'[s].retained = r
    BY <2>1, DeclinedOf
  <2> QED
    BY <1>3, <2>2
<1>5. PICK on : on = Requeue(r, kept, {})
  OBVIOUS
<1>6. PICK back : back = <<Again(p, Nil, {r})>>
  OBVIOUS
<1>7. PICK line \in {on \o back, back \o on} : work' = work \cup {Task("queue", r, {}, {}, line)}
  BY <1>1, <1>3, <1>5, <1>6 DEF Decline
<1>8. on \in Seq(Agains) /\ back \in Seq(Agains)
  BY <1>1, <1>2, <1>4, <1>5, <1>6, RequeueTyped, AgainTyped
<1>9. back[1].who = p /\ back[1].keep = Nil /\ DOMAIN back = {1}
  BY <1>6 DEF Again
<1>10. ASSUME NEW x \in room[r].seats PROVE \E j \in DOMAIN line : line[j].who = x
  <2>1. (\E i \in DOMAIN back : back[i].who = x) \/ \E i \in DOMAIN on : on[i].who = x
    <3>1. CASE x = p
      BY <1>9, <3>1
    <3>2. CASE x # p
      <4>1. x \in kept /\ \A y, z \in kept : y = z
        BY <1>1, <1>2, <1>4, <3>2, OneLeft
      <4> QED
        BY <1>5, <4>1, RequeueAll
    <3> QED
      BY <3>1, <3>2
  <2> QED
    <3>1. \E j \in DOMAIN (on \o back) : (on \o back)[j].who = x
      BY <1>8, <2>1, ListsJoined
    <3>2. \E j \in DOMAIN (back \o on) : (back \o on)[j].who = x
      BY <1>8, <2>1, ListsJoined
    <3> QED
      BY <1>7, <3>1, <3>2
<1>11. \A j \in DOMAIN line : line[j].keep \in {Nil, r}
  <2>1. PICK T : T = {a \in Agains : a.keep \in {Nil, r}}
    OBVIOUS
  <2>2. on \in Seq(T)
    <3>1. \A i \in DOMAIN on : on[i].keep = r
      BY <1>5, RequeueLine
    <3>2. \A i \in 1 .. Len(on) : on[i] \in T
      BY <1>8, <2>1, <3>1
    <3> QED
      BY <1>8, <3>2, IsASeq, LenProperties
  <2>3. back \in Seq(T)
    <3>1. \A i \in 1 .. Len(back) : back[i] \in T
      BY <1>8, <1>9, <2>1, LenProperties
    <3> QED
      BY <1>8, <3>1, IsASeq, LenProperties
  <2>4. line \in Seq(T)
    BY <1>7, <2>2, <2>3, ConcatProperties
  <2>5. \A j \in DOMAIN line : line[j] \in T
    BY <2>4
  <2> QED
    BY <2>1, <2>5
<1>12. PICK n : n = Task("queue", r, {}, {}, line)
  OBVIOUS
<1>13. n.do = "queue" /\ n.room = r /\ n.line = line
  BY <1>12 DEF Task
<1> QED
  BY <1>7, <1>10, <1>11, <1>12, <1>13 DEF InLine

(* A declined offer: both search on, and the decliner avoids the other. *)
LEMMA DeclineWishes ==
  ASSUME IInv, IInv', Steady, Wishes, NEW p \in Players, NEW r \in Rooms, Decline(p, r), Orderly'
  PROVE  Wishes'
<1>1. PICK other : other = room[r].seats \ {p}
  OBVIOUS
<1>2. /\ Accepting(r) /\ p \in room[r].seats /\ room' = [room EXCEPT ![r] = Without(r, {p})]
      /\ offers' = [offers EXCEPT ![r] = <<>>] /\ ~Overtaken({p}, Handlers)
      /\ seeking' = seeking \cup {p}
  BY DEF Decline, OffersDeclined, Orderly
<1>3. \A q \in Players :
        spurned'[q] = IF q # p THEN spurned[q] ELSE IF p \in seeking THEN spurned[p] \cup other ELSE {}
  <2>1. spurned' = [spurned EXCEPT ![p] = IF p \in seeking THEN spurned[p] \cup other ELSE {}]
    BY <1>1 DEF Decline
  <2> QED
    BY <2>1 DEF IInv, TypeOK
<1>4. /\ room'[r].stage = room[r].stage /\ room'[r].seats = other
      /\ \A q \in Rooms \ {r} : room'[q] = room[q]
      /\ \A q \in Rooms : room'[q].stage = room[q].stage
      /\ ~Paired(r)' /\ ~Matchmade(r)' /\ ~Accepting(r)' /\ ~Full(r)'
  BY <1>1, <1>2, SeatsGivenUp
<1>5. /\ Matchmade(r) /\ Row(r) = room[r].seats /\ Lobby(r) /\ room[r].seats \subseteq Players
      /\ room[r].queued = room[r].seats
      /\ \A q \in room[r].seats : entry[q] # Nil /\ entry[q].offer = r
  <2>1. Matchmade(r) /\ offers[r] # <<>>
    BY <1>2, RoomParts DEF Accepting, RowAgrees
  <2> QED
    BY <2>1, MatchedRow, RoomParts, Shape DEF MarksAgree, Matchmade
<1>6. \A q \in Players :
        /\ entry[q] = Nil <=> entry'[q] = Nil
        /\ entry[q] # Nil => \/ entry'[q] = entry[q] /\ entry[q].offer # r
                             \/ /\ entry[q].offer = r /\ entry'[q].offer = Nil
                                /\ entry'[q].retained = IF q = p THEN Nil ELSE r
  BY DeclinedOf
<1>7. \A q \in Players \ room[r].seats : entry'[q] = entry[q]
  BY <1>5, <1>6, RoomParts DEF MarksAgree
<1>8. /\ offers'[r] = <<>> /\ \A q \in Rooms \ {r} : offers'[q] = offers[q]
      /\ Nil \notin Rooms
  BY <1>2, MatchmakingAssumption DEF IInv, TypeOK
<1>9. PICK n : /\ work' = work \cup {n} /\ n.do = "queue" /\ n.room = r /\ room[r].seats \subseteq InLine(n)
               /\ \A i \in DOMAIN n.line : n.line[i].keep \in {Nil, r}
  BY DeclineLine
<1>10. n \in Handlers' /\ Handlers' = Handlers \cup {n} /\ Leaving' = Leaving
  BY <1>9 DEF Handlers, Leaving
<1>11. NewSeekers /\ seeking \subseteq Players
  BY <1>2, NotOvertaken DEF NewSeekers, IInv, TypeOK
<1>12. SeekersKnown'
  <2> SUFFICES ASSUME NEW q \in seeking' PROVE Placed(q)' \/ \E t \in Handlers' : q \in InLine(t)
    BY DEF SeekersKnown, InLine
  <2>1. CASE q \in room[r].seats
    BY <1>9, <1>10, <2>1
  <2>2. CASE q \notin room[r].seats
    <3>1. q \in seeking /\ q \in Players
      BY <1>2, <1>11, <2>2
    <3>2. Placed(q) \/ \E t \in Handlers : q \in InLine(t)
      BY <3>1 DEF Wishes, SeekersKnown
    <3>3. ASSUME Placed(q) PROVE Placed(q)'
      <4>1. \A y \in Rooms : Full(y) /\ q \in room[y].queued => Full(y)' /\ q \in room'[y].queued
        BY <1>4, <1>5, <2>2 DEF Full
      <4>2. \A y \in Rooms : Alone(y, q) => Alone(y, q)'
        BY <1>4, <2>2 DEF Alone
      <4> QED
        BY <1>7, <2>2, <3>1, <3>3, <4>1, <4>2, PlacedFrame
    <3> QED
      BY <1>10, <3>2, <3>3
  <2> QED
    BY <2>1, <2>2
<1>13. LinesTimely'
  <2>1. ASSUME NEW u \in Handlers', NEW i \in DOMAIN u.line
        PROVE  \/ u.line[i].keep = Nil
               \/ room'[u.line[i].keep].stage = "lobby"
               \/ u \in Handlers
    BY <1>4, <1>5, <1>9, <1>10, <2>1 DEF Lobby
  <2> QED
    BY <1>4, <1>11, <2>1, LinesFrame DEF IInv
<1>14. ASSUME NEW u \in work' PROVE SweepKnows(u)'
  <2>1. CASE u \in work
    <3>1. u.room \in Rooms /\ \A q \in Rooms \ {r} : Matchmade(q)' => Matchmade(q)
      BY <1>4, <2>1, TaskTypes DEF IInv, Matchmade, Full
    <3> QED
      BY <1>4, <2>1, <3>1, SweepFrame
  <2>2. CASE u = n
    BY <1>9, <2>2 DEF SweepKnows
  <2> QED
    BY <1>9, <2>1, <2>2
<1>15. ASSUME NEW u \in Leaving' PROVE LeaverStops(u)'
  <2>1. u \in Leaving /\ u.room \in Rooms
    BY <1>10, <1>15, TaskTypes DEF Leaving, IInv
  <2> QED
    BY <1>8, <1>11, <2>1, LeaverFrame
<1>16. ASSUME NEW q \in Players PROVE SpurnsKept(q)'
  <2>0. entry[q] # Nil => entry'[q].avoid = IF q = p /\ entry[p].offer = r
                            THEN entry[p].avoid \cup {r} \cup other ELSE entry[q].avoid
    BY <1>1, DeclineAvoids
  <2>1. CASE q = p
    <3>1. /\ entry[p] # Nil /\ entry[p].offer = r /\ entry'[p] # Nil
          /\ entry'[p].avoid = entry[p].avoid \cup {r} \cup other
      BY <1>2, <1>5, <1>6, <2>0, <2>1
    <3>2. entry'[p].retained = Nil
      BY <1>6, <1>8, <3>1
    <3>3. spurned[p] \subseteq entry[p].avoid /\ p \notin spurned[p]
      BY DEF Wishes, SpurnsKept
    <3>4. spurned'[p] \subseteq spurned[p] \cup other
      BY <1>3
    <3> QED
      BY <1>1, <1>2, <2>1, <3>1, <3>2, <3>3, <3>4 DEF SpurnsKept
  <2>2. CASE q \in other
    <3>1. /\ q # p /\ entry[q] # Nil /\ entry[q].offer = r /\ entry'[q] # Nil
          /\ entry'[q].avoid = entry[q].avoid
      BY <1>1, <1>5, <1>6, <2>0, <2>2
    <3>2. entry'[q].retained = r /\ spurned'[q] = spurned[q]
      BY <1>3, <1>6, <3>1
    <3> QED
      BY <1>2, <1>4, <2>2, <3>1, <3>2 DEF Wishes, SpurnsKept
  <2>3. CASE q \notin room[r].seats
    <3>1. entry'[q] = entry[q] /\ q # p /\ spurned'[q] = spurned[q]
      BY <1>2, <1>3, <1>7, <2>3
    <3>2. entry[q] # Nil => entry[q].retained \in Rooms \cup {Nil}
      BY DEF IInv, TypeOK, Entry
    <3>3. \A y \in Rooms : q \in room[y].seats => q \in room'[y].seats
      BY <1>4, <2>3
    <3> QED
      BY <1>2, <3>1, <3>2, <3>3, SpurnsFrame DEF Wishes, SpurnsKept
  <2> QED
    BY <1>1, <2>1, <2>2, <2>3
<1>18. ASSUME NEW q \in Rooms PROVE AskedAnew(q)'
  <2>1. ASSUME Accepting(q)'
        PROVE  Accepting(q) /\ room'[q] = room[q] /\ q # r
    BY <1>4, <2>1 DEF Accepting, Matchmade, Full
  <2>2. Accepting(q)' => p \notin room[q].seats
    BY <1>2, <1>5, <2>1 DEF Steady, OneMatch, Accepting
  <2> QED
    BY <1>3, <2>1, <2>2, Shape, AskedFrame
<1> QED
  BY <1>12, <1>13, <1>14, <1>15, <1>16, <1>18 DEF Wishes

(* The entries of those who are not out. *)
KeptOf(t, rest) == {a \in Range(t.line) : a.who \in rest}

(* Whoever is kept is in the list of those who are kept. *)
LEMMA KeptAll ==
  ASSUME NEW t \in Tasks, NEW rest, rest \subseteq InLine(t), NEW x \in rest
  PROVE  \E i \in DOMAIN SetToSeq(KeptOf(t, rest)) : SetToSeq(KeptOf(t, rest))[i].who = x
<1>0. PICK S : S = KeptOf(t, rest)
  OBVIOUS
<1>1. S = {a \in Range(t.line) : a.who \in rest}
  BY <1>0 DEF KeptOf
<1>2. IsFiniteSet(S)
  <2>1. DOMAIN t.line = 1 .. Len(t.line) /\ Len(t.line) \in Nat
    BY TaskTypes, LenProperties
  <2>2. IsFiniteSet(DOMAIN t.line)
    BY <2>1, FS_Interval
  <2>3. IsFiniteSet({t.line[i] : i \in DOMAIN t.line})
    BY <2>2, FewValues
  <2>4. S \subseteq {t.line[i] : i \in DOMAIN t.line}
    BY <1>1 DEF Range
  <2> QED
    BY <2>3, <2>4, FS_Subset
<1>3. PICK i \in DOMAIN t.line : t.line[i].who = x
  BY DEF InLine
<1>4. t.line[i] \in S
  BY <1>1, <1>3 DEF Range
<1>5. \E j \in DOMAIN SetToSeq(S) : SetToSeq(S)[j] = t.line[i]
  BY <1>2, <1>4, ListAll
<1> QED
  BY <1>0, <1>3, <1>5

(* Whoever did not accept is out; the other searches on. *)
LEMMA EvictWishes ==
  ASSUME IInv, IInv', Steady, Wishes, NEW t \in work, NEW out \in SUBSET Players, out # {},
         Evict(t, out), Orderly'
  PROVE  Wishes'
<1>0. t \in Tasks /\ t.room \in Rooms
  BY TaskTypes DEF IInv
<1>1. PICK r \in Rooms : r = t.room
  BY <1>0
<1>2. /\ Matchmade(r) /\ room[r].clock = "up" /\ out \subseteq room[r].seats /\ t.do = "evict"
      /\ room' = [room EXCEPT ![r] = Without(r, out)] /\ entry' = entry /\ offers' = offers
      /\ ~Overtaken(room[r].seats, Handlers)
  BY <1>1 DEF Evict, Orderly
<1>3. PICK rest : rest = room[r].seats \ out
  OBVIOUS
<1>4. rest = IF Cardinality(out) = 1 THEN room[r].seats \ out ELSE {}
  <2>1. /\ out # room[r].seats => Cardinality(out) = 1
        /\ Cardinality(room[r].seats) = 2
    BY <1>2, Shape, OneLess DEF Matchmade, Full
  <2> QED
    BY <1>3, <2>1
<1>5. SweepWell(t) /\ (t.line # <<>> => rest \subseteq InLine(t))
  BY <1>1, <1>2, <1>3 DEF Steady, HandlersWell, Wishes, SweepKnows
<1>6. PICK kept : kept = SetToSeq({a \in Range(t.line) : a.who \in rest})
  OBVIOUS
<1>7. \A i \in DOMAIN kept : kept[i].keep = r /\ kept[i].who \in rest
  BY <1>0, <1>1, <1>5, <1>6, KeptLine
<1>8. PICK n : n = IF t.line = <<>> THEN Task("queue", r, {}, {}, Requeue(r, rest, {}))
                   ELSE Task("clean", r, out, rest, kept)
  OBVIOUS
<1>9. /\ work' = (work \ {t}) \cup IF n.do = "queue" /\ n.line = <<>> THEN {} ELSE {n}
      /\ seeking' = (seeking \ out) \cup rest
      /\ spurned' = [q \in Players |-> IF q \in out THEN {} ELSE spurned[q]]
  <2>1. rest = IF t.line = <<>> THEN rest ELSE rest \cap InLine(t)
    BY <1>5
  <2>2. seeking' = (seeking \ out) \cup IF t.line = <<>> THEN rest ELSE rest \cap InLine(t)
    BY <1>1, <1>4 DEF Evict
  <2> QED
    BY <1>1, <1>2, <1>4, <1>6, <1>8, <2>1, <2>2 DEF Evict
<1>10. /\ n.room = r /\ \A i \in DOMAIN n.line : n.line[i].keep = r /\ n.line[i].who \in rest
       /\ \/ n.do = "queue" /\ n.line = Requeue(r, rest, {})
          \/ n.do = "clean" /\ n.who = out /\ n.rest = rest /\ n.line = kept /\ t.line # <<>>
  <2>1. CASE t.line = <<>>
    <3>1. n.do = "queue" /\ n.room = r /\ n.line = Requeue(r, rest, {})
      BY <1>8, <2>1 DEF Task
    <3> QED
      BY <3>1, RequeueLine
  <2>2. CASE t.line # <<>>
    <3>1. n.do = "clean" /\ n.who = out /\ n.rest = rest /\ n.room = r /\ n.line = kept
      BY <1>8, <2>2 DEF Task
    <3> QED
      BY <1>7, <2>2, <3>1
  <2> QED
    BY <2>1, <2>2
<1>11. /\ room'[r].stage = room[r].stage /\ room'[r].seats = rest
       /\ \A q \in Rooms \ {r} : room'[q] = room[q]
       /\ \A q \in Rooms : room'[q].stage = room[q].stage
       /\ ~Paired(r)' /\ ~Matchmade(r)' /\ ~Accepting(r)' /\ ~Full(r)'
       /\ Lobby(r)
  <2>1. room[r].queued = room[r].seats /\ out \cap room[r].seats # {}
    BY <1>2 DEF Matchmade
  <2> QED
    BY <1>2, <1>3, <2>1, SeatsGivenUp DEF Matchmade, Full, Lobby
<1>12. room[r].seats \subseteq Players /\ room[r].queued = room[r].seats
  BY <1>2, Shape DEF Matchmade
<1>13. ASSUME NEW x \in rest
       PROVE  n \in work' /\ \E i \in DOMAIN n.line : n.line[i].who = x
  <2>1. \E i \in DOMAIN n.line : n.line[i].who = x
    <3>1. CASE n.line = Requeue(r, rest, {})
      <4>1. PICK o : o \in out
        OBVIOUS
      <4>2. o \in room[r].seats /\ rest \subseteq room[r].seats \ {o}
        BY <1>2, <1>3, <4>1
      <4>3. \A y, z \in rest : y = z
        BY <4>2, OneLeft
      <4> QED
        BY <3>1, <4>3, RequeueAll
    <3>2. CASE n.line = kept /\ t.line # <<>>
      <4>0. rest \subseteq InLine(t)
        BY <1>5, <3>2
      <4>1. kept = SetToSeq(KeptOf(t, rest))
        BY <1>6 DEF KeptOf
      <4>2. \E i \in DOMAIN kept : kept[i].who = x
        BY <1>0, <4>0, <4>1, KeptAll
      <4> QED
        BY <3>2, <4>2
    <3> QED
      BY <1>10, <3>1, <3>2
  <2>2. n.line # <<>>
    BY <2>1
  <2> QED
    BY <1>9, <2>1, <2>2
<1>14. Handlers \subseteq Handlers' /\ Handlers' \subseteq Handlers \cup {n} /\ (n \in work' => n \in Handlers')
       /\ Leaving \subseteq Leaving' /\ Leaving' \subseteq Leaving \cup {n}
  BY <1>2, <1>9, <1>10 DEF Handlers, Leaving
<1>15. /\ NewSeekers /\ seeking \subseteq Players
       /\ \A q \in Players : /\ spurned'[q] \subseteq spurned[q]
                             /\ spurned'[q] # {} => spurned'[q] = spurned[q] /\ q \notin out /\ q \in seeking'
  <2>1. NewSeekers
    BY <1>2, <1>3, <1>9, NotOvertaken DEF NewSeekers
  <2> QED
    BY <1>9, <2>1 DEF IInv, TypeOK, Wishes, SpurnsKept
<1>16. SeekersKnown'
  <2> SUFFICES ASSUME NEW q \in seeking' PROVE Placed(q)' \/ \E u \in Handlers' : q \in InLine(u)
    BY DEF SeekersKnown, InLine
  <2>1. CASE q \in rest
    BY <1>13, <1>14, <2>1 DEF InLine
  <2>2. CASE q \notin rest
    <3>1. q \in seeking /\ q \notin room[r].seats /\ q \in Players
      BY <1>3, <1>9, <1>15, <2>2
    <3>2. Placed(q) \/ \E u \in Handlers : q \in InLine(u)
      BY <3>1 DEF Wishes, SeekersKnown
    <3>3. ASSUME Placed(q) PROVE Placed(q)'
      <4>1. \A y \in Rooms : Full(y) /\ q \in room[y].queued => Full(y)' /\ q \in room'[y].queued
        BY <1>11, <1>12, <3>1 DEF Full
      <4>2. \A y \in Rooms : Alone(y, q) => Alone(y, q)'
        BY <1>11, <3>1 DEF Alone
      <4> QED
        BY <1>2, <3>1, <3>3, <4>1, <4>2, PlacedFrame
    <3> QED
      BY <1>14, <3>2, <3>3
  <2> QED
    BY <2>1, <2>2
<1>17. LinesTimely'
  <2>1. ASSUME NEW u \in Handlers', NEW i \in DOMAIN u.line
        PROVE  room'[u.line[i].keep].stage = "lobby" \/ u \in Handlers
    BY <1>10, <1>11, <1>14, <2>1 DEF Lobby
  <2> QED
    BY <1>11, <1>15, <2>1, LinesFrame DEF IInv
<1>18. ASSUME NEW u \in work' PROVE SweepKnows(u)'
  <2>1. CASE u \in work
    <3>1. u.room \in Rooms /\ \A q \in Rooms \ {r} : Matchmade(q)' => Matchmade(q)
      BY <1>11, <2>1, TaskTypes DEF IInv, Matchmade, Full
    <3> QED
      BY <1>11, <2>1, <3>1, SweepFrame
  <2>2. CASE u = n
    BY <1>10, <2>2 DEF SweepKnows
  <2> QED
    BY <1>9, <2>1, <2>2
<1>19. ASSUME NEW u \in Leaving' PROVE LeaverStops(u)'
  <2>1. CASE u \in Leaving
    BY <1>2, <1>15, <2>1, LeaverFrame
  <2>2. CASE u = n
    <3>1. u.do = "clean" /\ u.who = out
      BY <1>10, <1>19, <2>2 DEF Leaving
    <3> QED
      BY <1>3, <1>9, <3>1 DEF LeaverStops
  <2> QED
    BY <1>14, <2>1, <2>2
<1>20. ASSUME NEW q \in Players PROVE SpurnsKept(q)'
  <2>1. entry[q] # Nil => entry[q].retained \in Rooms \cup {Nil}
    BY DEF IInv, TypeOK, Entry
  <2>2. q \notin out => \A y \in Rooms : q \in room[y].seats => q \in room'[y].seats
    BY <1>3, <1>11
  <2> QED
    BY <1>2, <1>15, <2>1, <2>2, SpurnsFrame DEF Wishes, SpurnsKept
<1>22. ASSUME NEW q \in Rooms PROVE AskedAnew(q)'
  <2>1. Accepting(q)' => Accepting(q) /\ room'[q] = room[q]
    BY <1>11 DEF Accepting, Matchmade, Full
  <2> QED
    BY <1>15, <2>1, Shape, AskedFrame
<1> QED
  BY <1>16, <1>17, <1>18, <1>19, <1>20, <1>22 DEF Wishes

(* What a transaction of queueForMatch does for the player it is for, and    *)
(* spares the others.                                                        *)
Serves(p) ==
  /\ p \in seeking' => Placed(p)'
  /\ \A x \in Players \ {p} : Placed(x) => Placed(x)'
  /\ \A x \in Players : SpurnsKept(x)'
  /\ \A q \in Rooms : AskedAnew(q)'
  /\ \A q \in Rooms : /\ room'[q].stage = "playing" => room[q].stage = "playing"
                      /\ Matchmade(q)' /\ room'[q].clock = "up" => Matchmade(q) /\ room'[q] = room[q]
  /\ \A u \in Leaving : offers'[u.room] # <<>> => offers[u.room] # <<>>

(* Whom it is for: he may begin to want a match with it, and no game of the  *)
(* room it is for has started.                                               *)
Asks(p, keep) ==
  /\ seeking' \subseteq seeking \cup {p} /\ (\A x \in Players : spurned'[x] # {} => x \in seeking')
  /\ \A x \in Players : spurned'[x] = spurned[x]
  /\ keep # Nil /\ room[keep].stage = "playing" => p \notin seeking'
  /\ \A u \in Leaving : Exists(u.room) => (Marked(u) => p \notin u.rest)

(* Whoever waits alone in his room has no offer, unless a handler of that    *)
(* offer is under way.                                                       *)
LEMMA AloneFree ==
  ASSUME IInv, Steady, NEW p \in Players, entry[p] # Nil, entry[p].retained # Nil,
         Alone(entry[p].retained, p),
         \A u \in Leaving : Exists(u.room) => (Marked(u) => p \notin u.rest)
  PROVE  entry[p].offer = Nil
<1> SUFFICES ASSUME entry[p].offer # Nil PROVE FALSE
  OBVIOUS
<1>1. PICK q \in Rooms : q = entry[p].offer
  BY DEF IInv, TypeOK, Entry
<1>2. p \in Row(q) /\ entry[p].retained = q
  BY <1>1, RoomParts DEF MarksAgree
<1>3. offers[q] # <<>> /\ Lobby(q) /\ room[q].seats = {p} /\ Exists(q)
  BY <1>2, RowOf DEF Alone, Lobby, Exists
<1>4. ~Paired(q)
  <2>1. Cardinality({p}) = 1
    BY FS_Singleton
  <2> QED
    BY <1>3, <2>1 DEF Paired
<1>5. PICK u \in Leaving : u.room = q
  BY <1>3, <1>4, RoomParts DEF RowAgrees
<1>6. p \in room[q].queued
  BY <1>2, <1>3, RoomParts DEF SeatsAgree
<1>7. LeftWell(u) /\ Marked(u)
  BY <1>3, <1>5 DEF Steady, HandlersWell, Marked
<1> QED
  BY <1>3, <1>5, <1>6, <1>7 DEF LeftWell

(* He has a place already. *)
LEMMA QuietServes ==
  ASSUME IInv, Steady, Wishes, NEW p \in Players, NEW keep, UNCHANGED db, Asks(p, keep),
         p \in seeking' => Assigned(p) \/ Reopened(p, keep) \/ (seeking' = seeking /\ Placed(p))
  PROVE  Serves(p)
<1>1. room' = room /\ entry' = entry /\ offers' = offers
  BY DEF db
<1>2. \A x \in Players : Placed(x)' <=> Placed(x)
  BY <1>1 DEF Placed, Assigned, Full, Alone
<1>3. p \in seeking' => Placed(p)
  <2>1. Assigned(p) => Placed(p)
    BY DEF Placed
  <2>2. Reopened(p, keep) => Placed(p)
    BY AloneFree DEF Reopened, Placed, Asks
  <2> QED
    BY <2>1, <2>2
<1>4. \A x \in Players : SpurnsKept(x)'
  BY <1>1 DEF Wishes, SpurnsKept, Asks
<1>6. \A q \in Rooms : AskedAnew(q)'
  BY <1>1, Shape, AskedFrame DEF Asks, Accepting, Matchmade, Full
<1> QED
  BY <1>1, <1>2, <1>3, <1>4, <1>6 DEF Serves, Matchmade, Full

(* He waits. *)
LEMMA WaitServes ==
  ASSUME IInv, Steady, Wishes, NEW p \in Players, NEW keep \in Rooms \cup {Nil},
         NEW avoid \in SUBSET (Players \cup Rooms), Seeks(p, keep),
         entry[p] # Nil => entry[p].avoid \subseteq avoid,
         Wait(p, keep, avoid), Asks(p, keep)
  PROVE  Serves(p)
<1>0. room \in [Rooms -> Room] /\ entry \in [Players -> Entry \cup {Nil}] /\ Nil \notin Rooms /\ Nil \notin Entry
  BY MatchmakingAssumption DEF IInv, TypeOK
<1>1. PICK r \in Rooms :
        /\ entry' = [entry EXCEPT ![p] = [retained |-> r, offer |-> Nil, avoid |-> avoid]]
        /\ \/ keep = r /\ room' = room
           \/ /\ keep = Nil /\ room[r].stage = "unused"
              /\ room' = [room EXCEPT ![r] = [NoRoom EXCEPT !.stage = "lobby", !.seats = {p}, !.queued = {p}]]
  BY DEF Wait
<1>2. PICK e : e = [retained |-> r, offer |-> Nil, avoid |-> avoid]
  OBVIOUS
<1>3. e.retained = r /\ e.offer = Nil /\ e.avoid = avoid /\ e # Nil
  <2>1. e.retained = r /\ e.offer = Nil /\ e.avoid = avoid
    BY <1>2
  <2>2. e # Nil
    BY <1>0, <1>2 DEF Entry
  <2> QED
    BY <2>1, <2>2
<1>4. /\ offers' = offers /\ entry'[p] = e
      /\ \A x \in Players \ {p} : entry'[x] = entry[x]
      /\ \A q \in Rooms \ {r} : room'[q] = room[q]
  BY <1>0, <1>1, <1>2 DEF Wait
<1>5. /\ room'[r].stage = "playing" => room[r].stage = "playing" /\ p \notin seeking'
      /\ p \in seeking' => Alone(r, p)'
      /\ room'[r] = room[r] \/ (room[r].stage = "unused" /\ Cardinality(room'[r].seats) # 2)
  <2>1. CASE keep = r /\ room' = room
    <3>1. Exists(r) /\ (Lobby(r) => p \in room[r].queued /\ ~Full(r))
      BY <1>0, <2>1 DEF Seeks, Assigned
    <3>2. ASSUME p \in seeking' PROVE Alone(r, p)
      <4>1. Lobby(r) /\ p \in room[r].seats /\ ~Full(r)
        BY <1>0, <2>1, <3>1, <3>2, Shape DEF Asks, Exists, Lobby
      <4>2. IsFiniteSet(room[r].seats) /\ Cardinality(room[r].seats) \in 0 .. 2
            /\ Cardinality(room[r].seats) # 2
        BY <4>1, Shape DEF Full, Lobby
      <4>3. ASSUME NEW x \in room[r].seats, x # p PROVE FALSE
        <5>1. Cardinality({p, x}) = 2
          BY <4>3, Two
        <5>2. Cardinality({p, x}) <= Cardinality(room[r].seats)
          BY <4>1, <4>2, FS_Subset
        <5> QED
          BY <4>2, <5>1, <5>2
      <4>4. room[r].seats = {p}
        BY <4>1, <4>3
      <4> QED
        BY <4>1, <4>4 DEF Alone, Lobby
    <3> QED
      BY <1>0, <2>1, <3>2 DEF Asks, Alone
  <2>2. CASE /\ keep = Nil /\ room[r].stage = "unused"
             /\ room' = [room EXCEPT ![r] = [NoRoom EXCEPT !.stage = "lobby", !.seats = {p}, !.queued = {p}]]
    <3>1. /\ room'[r].stage = "lobby" /\ room'[r].seats = {p} /\ Cardinality(room'[r].seats) = 1
      BY <1>0, <2>2, FS_Singleton DEF NoRoom
    <3> QED
      BY <2>2, <3>1 DEF Alone
  <2> QED
    BY <1>1, <2>1, <2>2
<1>6. p \in seeking' => Placed(p)'
  BY <1>0, <1>3, <1>4, <1>5 DEF Placed
<1>7. ASSUME NEW x \in Players \ {p}, Placed(x) PROVE Placed(x)'
  <2>1. \A q \in Rooms : Full(q) /\ x \in room[q].queued => Full(q)' /\ x \in room'[q].queued
    BY <1>4, <1>5 DEF Full
  <2>2. \A q \in Rooms : Alone(q, x) => Alone(q, x)'
    BY <1>4, <1>5 DEF Alone
  <2> QED
    BY <1>4, <1>7, <2>1, <2>2, PlacedFrame
<1>8. ASSUME NEW x \in Players PROVE SpurnsKept(x)'
  <2>1. CASE x = p
    BY <1>3, <1>4, <1>5, <2>1 DEF Wishes, SpurnsKept, Asks, Alone
  <2>2. CASE x # p
    <3>1. entry[x] # Nil /\ entry[x].retained # Nil => entry[x].retained \in Rooms /\ Exists(entry[x].retained)
      BY <1>0, MatchmakingAssumption DEF IInv, TypeOK, Entry
    <3>2. \A q \in Rooms : Exists(q) /\ x \in room[q].seats => x \in room'[q].seats
      BY <1>4, <1>5 DEF Exists
    <3> QED
      BY <1>4, <2>2, <3>1, <3>2 DEF Wishes, SpurnsKept, Asks
  <2> QED
    BY <2>1, <2>2
<1>10. \A q \in Rooms : /\ room'[q].stage = "playing" => room[q].stage = "playing"
                        /\ Matchmade(q)' => Matchmade(q) /\ room'[q] = room[q]
  BY <1>4, <1>5 DEF Matchmade, Full
<1>11. \A q \in Rooms : AskedAnew(q)'
  BY <1>10, Shape, AskedFrame DEF Asks, Accepting
<1> QED
  BY <1>4, <1>6, <1>7, <1>8, <1>10, <1>11 DEF Serves

(* He meets somebody. *)
LEMMA PairServes ==
  ASSUME IInv, IInv', Steady, Wishes, NEW p \in Players, NEW keep \in Rooms \cup {Nil},
         NEW avoid \in SUBSET (Players \cup Rooms), Seeks(p, keep),
         entry[p] # Nil => entry[p].avoid \subseteq avoid,
         NEW o \in Candidates(p, keep, avoid), Pair(p, keep, avoid, o), Asks(p, keep)
  PROVE  Serves(p)
<1>0. PICK r \in Rooms, gone \in SUBSET Rooms : Meets(p, o, avoid, r, gone)
  BY PairOf
<1>1. /\ r \notin gone
      /\ room[r].stage = "unused" \/
           (Lobby(r) /\ room[r].seats # {} /\ room[r].seats \subseteq {p, o} /\ ~Full(r))
      /\ \A u \in Leaving : u.room # r
      /\ offers[r] = <<>> /\ offers'[r] = <<o, p>>
      /\ room'[r].stage = "lobby" /\ room'[r].seats = {p, o} /\ room'[r].queued = {p, o}
      /\ room'[r].accepted = {} /\ room'[r].clock = "on"
      /\ \A x \in gone : Lobby(x) /\ ~Full(x) /\ room'[x].stage = "deleted" /\ room'[x].clock = "off"
                         /\ offers'[x] = <<>> /\ room[x].seats \subseteq {p, o}
      /\ \A x \in Rooms \ ({r} \cup gone) : room'[x] = room[x] /\ offers'[x] = offers[x]
      /\ \A x \in {p, o} : entry'[x] # Nil /\ entry'[x].retained = r /\ entry'[x].offer = r
      /\ entry'[p].avoid = avoid /\ entry'[o].avoid = entry[o].avoid
      /\ \A x \in Players \ {p, o} :
           entry'[x] = IF entry[x] = Nil \/ entry[x].retained \in gone THEN Nil ELSE entry[x]
  BY <1>0 DEF Meets
<1>2. /\ o \in Players /\ o # p /\ entry[o] # Nil /\ entry[o].offer = Nil /\ Nil \notin Rooms
      /\ o \notin avoid /\ p \notin entry[o].avoid
  BY MatchmakingAssumption DEF Candidates
<1>3. /\ Full(r)' /\ p \in room'[r].queued /\ o \in room'[r].queued
  <2>1. Cardinality({p, o}) = 2
    BY <1>2, Two
  <2> QED
    BY <1>1, <2>1 DEF Full
<1>4. \A q \in Rooms \ ({r} \cup gone) : room'[q] = room[q] /\ offers'[q] = offers[q]
  BY <1>1
<1>5. \A x \in {p, o} : Placed(x)'
  BY <1>3 DEF Placed, Assigned
<1>6. \A x \in Players \ {p, o} :
        entry[x] # Nil /\ entry[x].retained \notin gone => entry'[x] = entry[x]
  BY <1>1
<1>7. \A x \in Players \ {p, o} : \A q \in Rooms :
        Exists(q) /\ x \in room[q].seats => q # r /\ q \notin gone
  BY <1>1 DEF Exists
<1>8. ASSUME NEW x \in Players \ {p, o}, Placed(x) PROVE Placed(x)'
  <2>1. ASSUME NEW q \in Rooms, Exists(q), x \in room[q].seats PROVE room'[q] = room[q]
    BY <1>4, <1>7, <2>1
  <2>2. \A q \in Rooms : Full(q) /\ x \in room[q].queued => Full(q)' /\ x \in room'[q].queued
    BY <2>1, Shape DEF Full, Exists
  <2>3. \A q \in Rooms : Alone(q, x) => Alone(q, x)' /\ q \notin gone
    BY <1>7, <2>1 DEF Alone, Exists
  <2>4. entry'[x] = entry[x] \/ Assigned(x)
    <3>1. CASE entry[x] # Nil /\ entry[x].retained # Nil /\ Alone(entry[x].retained, x)
      <4>1. entry[x].retained \in Rooms
        BY <3>1 DEF IInv, TypeOK, Entry
      <4> QED
        BY <1>6, <2>3, <3>1, <4>1
    <3> QED
      BY <1>8, <3>1 DEF Placed
  <2> QED
    BY <1>8, <2>2, <2>3, <2>4, PlacedFrame
<1>9. ASSUME NEW x \in Players PROVE SpurnsKept(x)'
  <2>1. CASE x = p
    BY <1>1, <2>1 DEF Wishes, SpurnsKept, Asks
  <2>2. CASE x = o
    BY <1>1, <1>2, <2>2 DEF Wishes, SpurnsKept, Asks
  <2>3. CASE x \notin {p, o}
    <3>1. entry[x] # Nil /\ entry[x].retained # Nil => entry[x].retained \in Rooms /\ Exists(entry[x].retained)
      BY MatchmakingAssumption DEF IInv, TypeOK, Entry
    <3>2. spurned[x] # {} => entry[x] # Nil /\ (entry[x].retained # Nil => x \in room[entry[x].retained].seats)
      BY DEF Wishes, SpurnsKept
    <3>3. spurned[x] # {} => entry'[x] = entry[x]
      <4>1. spurned[x] # {} => entry[x].retained \notin gone
        BY <1>2, <1>7, <2>3, <3>1, <3>2
      <4> QED
        BY <1>6, <2>3, <3>2, <4>1
    <3>4. spurned[x] # {} /\ entry[x].retained # Nil => room'[entry[x].retained] = room[entry[x].retained]
      BY <1>4, <1>7, <2>3, <3>1, <3>2
    <3> QED
      BY <3>3, <3>4 DEF Wishes, SpurnsKept, Asks
  <2> QED
    BY <2>1, <2>2, <2>3
<1>10. ASSUME NEW q \in Rooms PROVE AskedAnew(q)'
  <2>1. CASE q = r
    <3>2. spurned[p] \cap {p, o} = {}
      BY <1>2 DEF Wishes, SpurnsKept
    <3>3. spurned[o] \cap {p, o} = {}
      BY <1>2 DEF Wishes, SpurnsKept
    <3>4. \A x \in {p, o} : spurned'[x] = spurned[x]
      BY <1>2 DEF Asks
    <3>5. \A x \in room'[q].seats : spurned'[x] \cap room'[q].seats = {}
      BY <1>1, <2>1, <3>2, <3>3, <3>4
    <3> QED
      BY <3>5 DEF AskedAnew
  <2>2. CASE q \in gone
    BY <1>1, <2>2 DEF AskedAnew, Accepting, Matchmade, Full
  <2>3. CASE q \notin {r} \cup gone
    <3>1. room'[q] = room[q] /\ offers'[q] = offers[q]
      BY <1>4, <2>3
    <3> QED
      BY <3>1, Shape, AskedFrame DEF Asks, Accepting, Matchmade, Full
  <2> QED
    BY <2>1, <2>2, <2>3
<1>11. ASSUME NEW q \in Rooms
       PROVE  /\ room'[q].stage = "playing" => room[q].stage = "playing"
              /\ Matchmade(q)' /\ room'[q].clock = "up" => Matchmade(q) /\ room'[q] = room[q]
  BY <1>1 DEF Matchmade, Full
<1>12. ASSUME NEW u \in Leaving PROVE offers'[u.room] # <<>> => offers[u.room] # <<>>
  <2>1. u.room \in Rooms /\ u.room # r
    BY <1>1, TaskTypes DEF Leaving, IInv
  <2> QED
    BY <1>1, <2>1
<1> QED
  BY <1>5, <1>8, <1>9, <1>10, <1>11, <1>12 DEF Serves

(* A transaction of queueForMatch serves the player it is for. *)
LEMMA QueueServes ==
  ASSUME IInv, IInv', Steady, Wishes, NEW p \in Players, NEW keep \in Rooms \cup {Nil},
         NEW more \in SUBSET (Players \cup Rooms), Queue(p, keep, more), Asks(p, keep),
         keep # Nil /\ Lobby(keep) => p \in room[keep].queued,
         \A u \in Leaving : Exists(u.room) /\ p \in room[u.room].queued => keep # u.room
  PROVE  Serves(p)
<1>1. CASE Assigned(p) \/ Reopened(p, keep)
  <2>1. UNCHANGED db
    BY <1>1 DEF Queue
  <2>2. p \in seeking' => Assigned(p) \/ Reopened(p, keep) \/ (seeking' = seeking /\ Placed(p))
    BY <1>1
  <2> QED
    BY <2>1, <2>2, QuietServes
<1>2. CASE ~(Assigned(p) \/ Reopened(p, keep))
  <2>1. /\ keep # Nil => Exists(keep)
        /\ \/ Wait(p, keep, Avoided(p, more))
           \/ \E o \in Candidates(p, keep, Avoided(p, more)) : Pair(p, keep, Avoided(p, more), o)
    BY <1>2 DEF Queue
  <2>2. Seeks(p, keep)
    BY <1>2, <2>1 DEF Seeks, Asks
  <2>3. /\ Avoided(p, more) \in SUBSET (Players \cup Rooms)
        /\ entry[p] # Nil => entry[p].avoid \subseteq Avoided(p, more)
    BY AvoidedTyped, TypeParts DEF IInv, Avoided
  <2>4. CASE Wait(p, keep, Avoided(p, more))
    BY <2>2, <2>3, <2>4, WaitServes
  <2>5. ASSUME NEW o \in Candidates(p, keep, Avoided(p, more)), Pair(p, keep, Avoided(p, more), o)
        PROVE  Serves(p)
    BY <2>2, <2>3, <2>5, PairServes
  <2> QED
    BY <2>1, <2>4, <2>5
<1> QED
  BY <1>1, <1>2

(* Every player keeps what he has, then, and so does every handler but the   *)
(* one that queued.                                                          *)
LEMMA ServedWishes ==
  ASSUME IInv, Steady, Wishes, NewSeekers, NEW p \in Players, NEW keep, Asks(p, keep), Serves(p),
         Leaving' = Leaving,
         \A u \in work' : u \in work \/ u.do = "queue",
         \A x \in Players \ {p} : \A u \in Handlers : x \in InLine(u) => \E n \in Handlers' : x \in InLine(n),
         \A n \in Handlers' : \A i \in DOMAIN n.line :
           \E u \in Handlers : \E j \in DOMAIN u.line :
             u.line[j].who = n.line[i].who /\ u.line[j].keep = n.line[i].keep
  PROVE  Wishes'
<1>1. SeekersKnown'
  <2> SUFFICES ASSUME NEW q \in seeking' PROVE Placed(q)' \/ \E n \in Handlers' : q \in InLine(n)
    BY DEF SeekersKnown, InLine
  <2>1. CASE q = p
    BY <2>1 DEF Serves
  <2>2. CASE q # p
    <3>1. q \in seeking /\ q \in Players
      BY <2>2 DEF Asks, IInv, TypeOK
    <3>2. Placed(q) \/ \E u \in Handlers : q \in InLine(u)
      BY <3>1 DEF Wishes, SeekersKnown
    <3> QED
      BY <2>2, <3>1, <3>2 DEF Serves
  <2> QED
    BY <2>1, <2>2
<1>2. LinesTimely'
  BY LinesFrame DEF IInv, Serves
<1>3. ASSUME NEW u \in work' PROVE SweepKnows(u)'
  <2>1. CASE u \in work
    BY <2>1, TaskTypes, SweepFrame DEF IInv, Serves
  <2>2. CASE u.do = "queue"
    BY <2>2 DEF SweepKnows
  <2> QED
    BY <2>1, <2>2
<1>4. ASSUME NEW u \in Leaving' PROVE LeaverStops(u)'
  BY LeaverFrame DEF Serves
<1> QED
  BY <1>1, <1>2, <1>3, <1>4 DEF Wishes, Serves

(* Whoever joins the queue is matched or waits. *)
LEMMA QueueJoinWishes ==
  ASSUME IInv, IInv', Steady, Wishes, NEW p \in Players, QueueJoin(p), Orderly'
  PROVE  Wishes'
<1>1. /\ work' = work /\ Nil \notin Rooms
      /\ \A u \in Handlers : p \notin u.who /\ p \notin u.rest /\ p \notin InLine(u)
  BY MatchmakingAssumption DEF QueueJoin, Orderly, Overtaken
<1>2. Leaving' = Leaving /\ Handlers' = Handlers /\ Handlers \subseteq work /\ Leaving \subseteq Handlers
      /\ \A u \in Leaving : u \in work /\ u.room \in Rooms
  BY <1>1, TaskTypes DEF Leaving, Handlers, IInv
<1>3. /\ seeking' = seeking \/ seeking' = seeking \cup {p}
      /\ \A x \in Players : spurned'[x] = spurned[x]
      /\ (QueueFails(p, Nil, {}) => Queue(p, Nil, {}) \/ seeking' = seeking)
  <2>1. CASE UNCHANGED <<seeking, spurned>>
    BY <2>1
  <2>2. CASE Queue(p, Nil, {}) /\ Seek(p)
    <3>1. p \notin seeking => spurned[p] = {}
      BY DEF Wishes, SpurnsKept
    <3>2. spurned \in [Players -> SUBSET Players]
      BY DEF IInv, TypeOK
    <3> QED
      BY <2>2, <3>1, <3>2 DEF Seek
  <2> QED
    BY <2>1, <2>2 DEF QueueJoin
<1>4. NewSeekers
  BY <1>1, <1>2, <1>3 DEF NewSeekers
<1>5. Asks(p, Nil)
  BY <1>1, <1>2, <1>3 DEF Asks, Wishes, SpurnsKept
<1>6. Serves(p)
  <2>1. CASE Queue(p, Nil, {})
    BY <1>1, <1>2, <1>5, <2>1, QueueServes
  <2>2. CASE QueueFails(p, Nil, {}) /\ seeking' = seeking
    <3>1. p \in seeking => Placed(p)
      BY <1>1, <1>2 DEF Wishes, SeekersKnown
    <3> QED
      BY <1>1, <1>5, <2>2, <3>1, QuietServes DEF QueueFails
  <2> QED
    BY <1>3, <2>1, <2>2 DEF QueueJoin
<1> QED
  BY <1>1, <1>2, <1>4, <1>5, <1>6, ServedWishes

(* Whoever is queued again is matched or waits, and the next in line follows. *)
LEMMA QueueAgainWishes ==
  ASSUME IInv, IInv', Steady, Wishes, NEW t \in work, QueueAgain(t), Orderly'
  PROVE  Wishes'
<1>0. t \in Tasks /\ t.room \in Rooms /\ t.line \in Seq(Agains) /\ t.line # <<>> /\ t.do = "queue"
  BY TaskTypes DEF IInv, QueueAgain
<1>1. PICK a \in Agains : a = Head(t.line)
  BY <1>0, HeadTailProperties
<1>2. 1 \in DOMAIN t.line /\ t.line[1] = a
  BY <1>0, <1>1
<1>3. /\ Queue(a.who, a.keep, a.more) /\ seeking' = seeking /\ spurned' = spurned
      /\ a.who \in Players /\ a.keep \in Rooms \cup {Nil} /\ a.more \in SUBSET (Players \cup Rooms)
  BY <1>1 DEF QueueAgain, Agains, ghost
<1>4. PICK n : n = [t EXCEPT !.line = Tail(t.line)]
  OBVIOUS
<1>5. work' = (work \ {t}) \cup IF Len(t.line) = 1 THEN {} ELSE {n}
  BY <1>4 DEF QueueAgain
<1>6. /\ n.do = "queue"
      /\ \A i \in DOMAIN n.line : i + 1 \in DOMAIN t.line /\ n.line[i] = t.line[i + 1]
      /\ \A i \in DOMAIN t.line : i # 1 => Len(t.line) # 1 /\ i - 1 \in DOMAIN n.line /\ n.line[i - 1] = t.line[i]
  <2>1. n.do = "queue" /\ n.line = Tail(t.line)
    BY <1>0, <1>4 DEF Tasks
  <2> QED
    BY <1>0, <2>1
<1>7. /\ Leaving' = Leaving /\ t \in Handlers /\ Handlers' = (Handlers \ {t}) \cup (work' \cap {n})
      /\ \A u \in Leaving : u \in work
  BY <1>0, <1>5, <1>6 DEF Leaving, Handlers
<1>8. LineWell(t) /\ \A u \in Leaving : Exists(u.room) => Apart(u, t)
  <2>1. t \notin Leaving
    BY <1>0 DEF Leaving
  <2> QED
    BY <1>7, <2>1 DEF Steady, HandlersWell
<1>9. a.keep # Nil /\ room[a.keep].stage = "playing" => a.who \notin seeking
  BY <1>2, <1>7 DEF Wishes, LinesTimely
<1>10. /\ a.keep # Nil /\ Lobby(a.keep) => a.who \in room[a.keep].queued
       /\ \A u \in Leaving : Exists(u.room) => /\ Marked(u) => a.who \notin u.rest
                                               /\ a.who \in room[u.room].queued => a.keep # u.room
  <2>1. a.keep # Nil /\ Lobby(a.keep) => a.who \in room[a.keep].queued
    BY <1>2, <1>8 DEF LineWell
  <2>2. a.who \in InLine(t)
    BY <1>2 DEF InLine
  <2> QED
    BY <1>2, <1>8, <2>1, <2>2 DEF Apart
<1>11. NewSeekers
  BY <1>3 DEF NewSeekers
<1>12. Asks(a.who, a.keep)
  BY <1>3, <1>9, <1>10 DEF Asks, Wishes, SpurnsKept
<1>13. Serves(a.who)
  BY <1>3, <1>7, <1>10, <1>12, QueueServes
<1>14. ASSUME NEW x \in Players \ {a.who}, NEW u \in Handlers, x \in InLine(u)
       PROVE  \E m \in Handlers' : x \in InLine(m)
  <2>1. CASE u # t
    BY <1>7, <1>14, <2>1
  <2>2. CASE u = t
    <3>1. PICK i \in DOMAIN t.line : t.line[i].who = x
      BY <1>14, <2>2 DEF InLine
    <3>2. i # 1
      BY <1>2, <3>1
    <3>3. n \in work' /\ x \in InLine(n)
      BY <1>5, <1>6, <3>1, <3>2 DEF InLine
    <3> QED
      BY <1>7, <3>3
  <2> QED
    BY <2>1, <2>2
<1>15. ASSUME NEW m \in Handlers', NEW i \in DOMAIN m.line
       PROVE  \E u \in Handlers : \E j \in DOMAIN u.line :
                u.line[j].who = m.line[i].who /\ u.line[j].keep = m.line[i].keep
  <2>1. CASE m \in Handlers
    BY <2>1
  <2>2. CASE m = n
    <3>1. i + 1 \in DOMAIN t.line /\ n.line[i] = t.line[i + 1]
      BY <1>6, <1>15, <2>2
    <3> QED
      BY <1>7, <2>2, <3>1
  <2> QED
    BY <1>7, <2>1, <2>2
<1>16. \A u \in work' : u \in work \/ u.do = "queue"
  BY <1>5, <1>6
<1> QED
  BY <1>3, <1>7, <1>11, <1>12, <1>13, <1>14, <1>15, <1>16, ServedWishes

(* Every step keeps what players asked for. *)
LEMMA StepWishes == IInv /\ IInv' /\ Steady /\ Wishes /\ [Next]_vars /\ Orderly' => Wishes'
<1> SUFFICES ASSUME IInv, IInv', Steady, Wishes, [Next]_vars, Orderly' PROVE Wishes'
  OBVIOUS
<1>1. CASE UNCHANGED vars
  <2>1. /\ room' = room /\ entry' = entry /\ offers' = offers /\ work' = work
        /\ seeking' = seeking /\ spurned' = spurned
    BY <1>1 DEF vars, db, ghost
  <2> QED
    BY <2>1 DEF Wishes, SeekersKnown, LinesTimely, SweepKnows, LeaverStops, SpurnsKept, AskedAnew,
                Placed, Assigned, Full, Alone, Handlers, Leaving, InLine, Matchmade, Accepting, Paired, Row
<1>2. CASE \E p \in Players : QueueJoin(p) \/ QueueLeave(p)
  BY <1>2, QueueJoinWishes, QueueLeaveWishes
<1>3. CASE \E p \in Players, r \in Rooms : Accept(p, r) \/ Decline(p, r) \/ LeaveRoom(p, r) \/ Join(p, r)
  BY <1>3, AcceptWishes, DeclineWishes, LeaveRoomWishes, JoinWishes
<1>4. CASE \E r \in Rooms : Start(r) \/ Delete(r) \/ Deadline(r) \/ Sweep(r)
  BY <1>4, StartWishes, DeleteWishes, DeadlineWishes, SweepWishes
<1>5. CASE \E t \in work : Commit(t) \/ CommitLoad(t) \/ CommitEnd(t)
                           \/ Lookup(t) \/ Release(t) \/ QueueAgain(t) \/ Spare(t)
                           \/ \E out \in SUBSET Players : Evict(t, out)
  BY <1>5, CommitWishes, CommitLoadWishes, CommitEndWishes, LookupWishes, ReleaseWishes,
     QueueAgainWishes, SpareWishes, ClockOnWishes, EvictWishes
<1>6. ASSUME NEW t \in work, Break(t) \/ Lose(t) PROVE FALSE
  <2>1. fails \in Nat
    BY DEF IInv, TypeOK
  <2> QED
    BY <1>6, <2>1 DEF Break, Lose, Orderly
<1> QED
  BY <1>1, <1>2, <1>3, <1>4, <1>5, <1>6 DEF Next

(* Nobody has asked for anything. *)
LEMMA InitWishes == Init => Wishes
<1> SUFFICES ASSUME Init PROVE Wishes
  OBVIOUS
<1>1. work = {} /\ seeking = {} /\ \A p \in Players : spurned[p] = {}
  BY DEF Init
<1>2. \A r \in Rooms : offers[r] = <<>> /\ room[r].stage = "unused"
  BY DEF Init, NoRoom
<1> QED
  BY <1>1, <1>2 DEF Wishes, SeekersKnown, LinesTimely, SweepKnows, LeaverStops, SpurnsKept,
                    AskedAnew, Handlers, Leaving, Accepting, Matchmade, Full

-----------------------------------------------------------------------------
(* The theorems                                                              *)

LEMMA InitOK == Init => OK
<1> SUFFICES ASSUME Init PROVE OK
  OBVIOUS
<1>1. Tidy(NoRoom)
  BY FewSeats DEF Tidy, NoRoom, Room
<1>2. RoomsOK(room)
  BY <1>1 DEF Init, RoomsOK, Tidy
<1>3. EntriesOK(entry, In(room)) /\ OffersOK(offers, In(room))
  BY DEF Init, EntriesOK, OffersOK
<1>4. GhostsOK
  <2>1. moves \in 0 .. MaxMoves /\ fails \in 0 .. MaxFails
    BY MatchmakingAssumption DEF Init
  <2>2. seeking \subseteq Players /\ torn \in BOOLEAN /\ spurned \in [Players -> SUBSET Players]
    BY DEF Init
  <2> QED
    BY <2>1, <2>2 DEF GhostsOK
<1>5. work \subseteq Tasks
  BY DEF Init
<1> QED
  BY <1>2, <1>3, <1>4, <1>5 DEF OK, TablesOK

LEMMA StepOK == OK /\ [Next]_vars => Kept
<1> SUFFICES ASSUME OK, [Next]_vars PROVE Kept
  OBVIOUS
<1>1. CASE UNCHANGED vars
  BY <1>1 DEF vars, db, ghost, OK, Kept, GhostsOK
<1>2. CASE \E p \in Players : QueueJoin(p) \/ QueueLeave(p)
  BY <1>2, QueueJoinOK, QueueLeaveOK
<1>3. CASE \E p \in Players, r \in Rooms : Accept(p, r) \/ Decline(p, r) \/ LeaveRoom(p, r) \/ Join(p, r)
  BY <1>3, AcceptOK, DeclineOK, LeaveRoomOK, JoinOK
<1>4. CASE \E r \in Rooms : Start(r) \/ Delete(r) \/ Deadline(r) \/ Sweep(r)
  BY <1>4, StartOK, DeleteOK, DeadlineOK, SweepOK
<1>5. CASE \E t \in work : \/ Commit(t) \/ CommitLoad(t) \/ CommitEnd(t)
                           \/ Lookup(t) \/ Release(t) \/ QueueAgain(t) \/ Break(t) \/ Lose(t)
                           \/ Spare(t) \/ \E out \in SUBSET Players : Evict(t, out)
  <2>1. PICK t \in Tasks : \/ Commit(t) \/ CommitLoad(t) \/ CommitEnd(t)
                           \/ Lookup(t) \/ Release(t) \/ QueueAgain(t) \/ Break(t) \/ Lose(t)
                           \/ Spare(t) \/ \E out \in SUBSET Players : Evict(t, out)
    BY <1>5 DEF OK
  <2> QED
    BY <2>1, CommitOK, CommitLoadOK, CommitEndOK, LookupOK, ReleaseOK, QueueAgainOK, EndedOK, SpareOK, EvictOK
<1> QED
  BY <1>1, <1>2, <1>3, <1>4, <1>5 DEF Next

(* Whatever players do while handlers are under way or lost, a handler that  *)
(* comes back finds and leaves tables in order (store.ts:1822-3106).         *)
THEOREM Invariance == Spec => []IInv
<1>1. Init => IInv
  BY InitOK, TypeParts DEF OK, IInv
<1>2. IInv /\ [Next]_vars => IInv'
  BY StepOK, TypeParts, TypePartsNext DEF OK, Kept, IInv
<1> QED
  BY <1>1, <1>2, PTL DEF Spec

(* Two seats at most, and no search or offer of a room that is gone: no      *)
(* transaction leaves what a foreign key would have refused.                 *)
THEOREM TypeCorrect == Spec => []TypeOK
<1>1. IInv => TypeOK
  BY DEF IInv
<1> QED
  BY <1>1, Invariance, PTL

(* While no handler is lost or overtaken, seats, searches and offers agree   *)
(* up to what the handlers under way will do (store.ts:1822-3106).           *)
THEOREM TablesAgree == Spec => [](IInv /\ (Orderly => Steady))
<1> DEFINE SInv == IInv /\ (Orderly => Steady)
<1>1. Init => SInv
  BY InitOK, InitSteady, TypeParts DEF OK, IInv
<1>2. SInv /\ [Next]_vars => SInv'
  <2> SUFFICES ASSUME SInv, [Next]_vars PROVE SInv'
    OBVIOUS
  <2>1. IInv'
    BY StepOK, TypeParts, TypePartsNext DEF OK, Kept, IInv
  <2>2. Orderly' => Steady'
    BY <2>1, StayedOrderly, StepSteady
  <2> QED
    BY <2>1, <2>2
<1> HIDE DEF SInv
<1>3. Spec => []SInv
  BY <1>1, <1>2, PTL DEF Spec
<1> QED
  BY <1>3 DEF SInv

(* Pairing under the format's lock, requeues and commands of other tabs      *)
(* never put a player into a second match (store.ts:1869-2361).              *)
THEOREM MatchedOnce == Spec => []NoDoubleBooking
<1>1. IInv /\ (Orderly => Steady) => NoDoubleBooking
  BY DEF Steady, OneMatch, NoDoubleBooking
<1> QED
  BY <1>1, TablesAgree, PTL

(* What an accepted or abandoned offer acts on are the two who sit there     *)
(* (store.ts:2923-2967, 3046-3096).                                          *)
THEOREM RowIsSeats == Spec => []OfferAgrees
<1>1. IInv /\ (Orderly => Steady) => OfferAgrees
  <2> SUFFICES ASSUME IInv, Steady, NEW r \in Rooms, Accepting(r)
               PROVE  Row(r) = room[r].seats
    BY DEF OfferAgrees
  <2>1. offers[r] # <<>>
    BY RoomParts DEF RowAgrees
  <2> QED
    BY <2>1, MatchedRow DEF Accepting
<1> QED
  BY <1>1, TablesAgree, PTL

(* Once both accepted and the handlers are through, neither player searches: *)
(* nobody can be paired with them (store.ts:2970-3096).                      *)
THEOREM AcceptedStop == Spec => []SearchEnds
<1>1. IInv /\ (Orderly => Steady) => SearchEnds
  <2> SUFFICES ASSUME IInv, Steady, work = {}, NEW r \in Rooms, Full(r), room[r].queued = room[r].seats,
                      room[r].accepted = room[r].seats, NEW p \in room[r].seats
               PROVE  entry[p] = Nil
    BY DEF SearchEnds
  <2>1. Lobby(r) /\ Paired(r) /\ p \in Players
    BY Shape DEF Full, Lobby, Paired
  <2>2. Matchmade(r)
    BY <2>1, RoomParts DEF ClockAgrees, Matchmade
  <2>3. offers[r] = <<>>
    BY <2>1, RoomParts DEF ClockAgrees, Closing
  <2>4. Row(r) = {}
    BY <2>3, RowOf
  <2> QED
    BY <2>1, <2>2, <2>4, RoomParts DEF MarksAgree
<1> QED
  BY <1>1, TablesAgree, PTL

(* What players asked for, the tables show or a handler under way will see   *)
(* to: whoever wants a match, whoever left and whoever declined              *)
(* (store.ts:1822-3106, 3565-3740).                                          *)
THEOREM WishesHeld == Spec => [](IInv /\ (Orderly => Steady /\ Wishes))
<1> DEFINE WInv == IInv /\ (Orderly => Steady /\ Wishes)
<1>1. Init => WInv
  BY InitOK, InitSteady, InitWishes, TypeParts DEF OK, IInv
<1>2. WInv /\ [Next]_vars => WInv'
  <2> SUFFICES ASSUME WInv, [Next]_vars PROVE WInv'
    OBVIOUS
  <2>1. IInv'
    BY StepOK, TypeParts, TypePartsNext DEF OK, Kept, IInv
  <2>2. Orderly' => Steady'
    BY <2>1, StayedOrderly, StepSteady
  <2>3. Orderly' => Wishes'
    BY <2>1, StayedOrderly, StepWishes
  <2> QED
    BY <2>1, <2>2, <2>3
<1> HIDE DEF WInv
<1>3. Spec => []WInv
  BY <1>1, <1>2, PTL DEF Spec
<1> QED
  BY <1>3 DEF WInv

(* Whoever is declined is not offered to the decliner again in that search,  *)
(* whatever happens to rooms, seats and the search's row (store.ts:1955-2361,*)
(* 2590-2762).                                                               *)
THEOREM DeclinedForGood == Spec => []NeverAgain
<1>1. IInv /\ (Orderly => Steady /\ Wishes) => NeverAgain
  BY DEF Wishes, AskedAnew, NeverAgain
<1> QED
  BY <1>1, WishesHeld, PTL

(* When the handlers are through, whoever asked for a match and did not call *)
(* it off is matched, or waits alone where a search can find him             *)
(* (store.ts:1869-2361, 2590-2762, 2923-2967, 3496-3740).                    *)
THEOREM SeekersPlaced == Spec => []NoneStranded
<1>1. IInv /\ (Orderly => Steady /\ Wishes) => NoneStranded
  BY DEF Wishes, SeekersKnown, Handlers, NoneStranded
<1> QED
  BY <1>1, WishesHeld, PTL

=============================================================================
