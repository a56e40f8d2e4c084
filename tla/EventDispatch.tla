---------------------------- MODULE EventDispatch ----------------------------
(***************************************************************************)
(* The inlined call-in loops of CEventHandler (EventHandler.h 379-921).    *)
(* Every loop takes count = list.size() once, then for i in 0..count-1     *)
(* reads ec = list[i], tests whether ec may see the event and calls it.    *)
(* The call-in runs client code (a Lua handle, a widget), which may add or *)
(* remove event clients; AddClient and RemoveClient keep each list sorted  *)
(* by GetOrder() through ListInsert and ListRemove, which are implemented  *)
(* in EventHandler.cpp, outside this source, and are modelled from their   *)
(* contract.  A client is its order (a natural number); the data of the    *)
(* event is its kind of loop and the ally teams its filter reads.          *)
(***************************************************************************)
EXTENDS Integers, Sequences, FiniteSets

CONSTANTS
  Clients,    \* the event clients, identified by their order
  AllyTeams,  \* the ally teams of units and features
  Reentrant   \* may a call-in add or remove event clients?

ASSUME DispatchAssumption ==
  /\ Clients \subseteq Nat /\ AllyTeams \subseteq Nat
  /\ Reentrant \in BOOLEAN

\* CEventClient::SpecialTeams.
NoAccessTeam == -1
AllAccessTeam == -2
ReadTeams == AllyTeams \cup {NoAccessTeam, AllAccessTeam}

\* A feature or projectile of the global team, or without an owner.
GlobalTeam == -1

VARIABLES
  clients,   \* the client list of the event (listUnitMoved, ...)
  readTeam,  \* GetReadAllyTeam() of each client
  pc,        \* "idle", "loop" (inside a call-in loop), "crashed"
  ev,        \* the event being dispatched
  count,     \* the size of the list when the loop began
  i,         \* the loop index
  calls,     \* the clients called in this dispatch, in order
  answer,    \* noGfx of Explosion, the result of DefaultCommand
  snap,      \* history: the list when the loop began
  stayed     \* history: the clients of snap never removed since

vars == <<clients, readTeam, pc, ev, count, i, calls, answer, snap, stayed>>

-----------------------------------------------------------------------------
(* The filters of the loops.                                               *)

\* EventClient.h: GetFullRead() is GetReadAllyTeam() == AllAccessTeam.
FullRead(c) == readTeam[c] = AllAccessTeam

\* CEventClient::CanReadAllyTeam.
CanReadAllyTeam(c, at) == FullRead(c) \/ readTeam[c] = at

\* The loops of the unit call-ins: the client must read the unit's (or
\* the radar event's) ally team.
UnitFilter(c, e) == CanReadAllyTeam(c, e.team)

\* UnitLoaded and UnitUnloaded: the client reads everything, or the ally
\* team of the unit or of its transport.
TransportFilter(c, e) ==
  FullRead(c) \/ readTeam[c] = e.team \/ readTeam[c] = e.team2

\* The feature and projectile call-ins: a global object is seen by all.
GlobalFilter(c, e) == e.team < 0 \/ CanReadAllyTeam(c, e.team)

\* Does client c get the call-in of event e?  The render, height-map and
\* DefaultCommand loops call every client; Explosion only full readers.
Reads(c, e) ==
  CASE e.loop = "unit"      -> UnitFilter(c, e)
    [] e.loop = "transport" -> TransportFilter(c, e)
    [] e.loop = "global"    -> GlobalFilter(c, e)
    [] e.loop = "explosion" -> FullRead(c)
    [] e.loop \in {"render", "default"} -> TRUE

\* The events, by the shape of their loop.
Events ==
       [loop : {"unit"}, team : AllyTeams, team2 : {GlobalTeam}]
  \cup [loop : {"transport"}, team : AllyTeams, team2 : AllyTeams]
  \cup [loop : {"global"}, team : AllyTeams \cup {GlobalTeam}, team2 : {GlobalTeam}]
  \cup [loop : {"render", "explosion", "default"}, team : {GlobalTeam},
        team2 : {GlobalTeam}]

\* What a call-in may return: Explosion's "no graphics" and
\* DefaultCommand's "handled"; the other call-ins return nothing.
Returns(e) == IF e.loop \in {"explosion", "default"} THEN BOOLEAN ELSE {FALSE}

-----------------------------------------------------------------------------
(* The client lists.                                                       *)

\* The clients of a list.
Members(l) == {l[k] : k \in 1..Len(l)}

\* The lists the handler keeps: sorted by order, each client once.
SortedLists ==
  UNION { {l \in [1..n -> Clients] : \A j, k \in 1..n : j < k => l[j] < l[k]} :
          n \in 0..Cardinality(Clients) }

\* ListInsert: a client already in the list is not added again; otherwise
\* it goes before the first client of a larger order, or at the end.
ListInsert(l, c) ==
  IF c \in Members(l) THEN l
  ELSE LET larger == {k \in 1..Len(l) : c < l[k]}
           p == IF larger = {} THEN Len(l) + 1
                ELSE CHOOSE k \in larger : \A j \in larger : k <= j
       IN  [k \in 1..(Len(l) + 1) |->
              IF k < p THEN l[k] ELSE IF k = p THEN c ELSE l[k - 1]]

\* ListRemove: the first entry of the client is erased, if there is one.
ListRemove(l, c) ==
  IF c \notin Members(l) THEN l
  ELSE LET p == CHOOSE k \in 1..Len(l) : l[k] = c /\ \A j \in 1..(k - 1) : l[j] # c
       IN  [k \in 1..(Len(l) - 1) |-> IF k < p THEN l[k] ELSE l[k + 1]]

\* The lists a call-in of client ec may leave: a reentrant call-in may
\* add a client (a widget loaded by another) or remove one (itself, when
\* a widget shuts down from inside its own call-in, or another).
Reentered(l) ==
  {l} \cup IF Reentrant
           THEN {ListInsert(l, x) : x \in Clients} \cup {ListRemove(l, x) : x \in Clients}
           ELSE {}

-----------------------------------------------------------------------------
(* Actions.                                                                *)

Init ==
  /\ clients \in SortedLists
  /\ readTeam \in [Clients -> ReadTeams]
  /\ pc = "idle"
  /\ ev = [loop |-> "render", team |-> GlobalTeam, team2 |-> GlobalTeam]
  /\ count = 0 /\ i = 0
  /\ calls = <<>> /\ answer = FALSE
  /\ snap = <<>> /\ stayed = {}

\* Outside a dispatch, a client is added to the list (AddClient, or
\* InsertEvent for this call-in).
AddClient ==
  /\ pc = "idle"
  /\ \E c \in Clients : clients' = ListInsert(clients, c)
  /\ UNCHANGED <<readTeam, pc, ev, count, i, calls, answer, snap, stayed>>

\* Outside a dispatch, a client is removed (RemoveClient, RemoveEvent).
RemoveClient ==
  /\ pc = "idle"
  /\ \E c \in Clients : clients' = ListRemove(clients, c)
  /\ UNCHANGED <<readTeam, pc, ev, count, i, calls, answer, snap, stayed>>

\* Explosion's noGfx = noGfx || ec->Explosion(...): once a client has
\* asked for no graphics the rest are not called.
Consulted(e, noGfx) == ~(e.loop = "explosion" /\ noGfx)

\* Is the loop still running?  DefaultCommand counts down from count - 1.
InLoop == IF ev.loop = "default" THEN i >= 0 ELSE i < count

\* The next value of the loop index.
Advanced(j) == IF ev.loop = "default" THEN j - 1 ELSE j + 1

\* Mutant: the forward loops start at 1.
DispatchFromOne ==
  /\ pc = "idle"
  /\ \E e \in Events :
       /\ ev' = e
       /\ i' = IF e.loop = "default" THEN Len(clients) - 1 ELSE 1
  /\ count' = Len(clients)
  /\ calls' = <<>> /\ answer' = FALSE
  /\ snap' = clients /\ stayed' = Members(clients)
  /\ pc' = "loop"
  /\ UNCHANGED <<clients, readTeam>>

\* A call-in begins: count = list.size() and the index is set, 0 for the
\* forward loops, count - 1 for DefaultCommand's reverse loop.
Dispatch ==
  /\ pc = "idle"
  /\ \E e \in Events :
       /\ ev' = e
       /\ i' = IF e.loop = "default" THEN Len(clients) - 1 ELSE 0
  /\ count' = Len(clients)
  /\ calls' = <<>> /\ answer' = FALSE
  /\ snap' = clients /\ stayed' = Members(clients)
  /\ pc' = "loop"
  /\ UNCHANGED <<clients, readTeam>>

\* One iteration: ec = list[i].  Past the end of a list that shrank the
\* read is undefined and the program is taken to crash.  Otherwise the
\* filter is tested and the call-in made; DefaultCommand returns at the
\* first client that handles it.
CallIn ==
  /\ pc = "loop" /\ InLoop
  /\ IF i >= Len(clients)
     THEN /\ pc' = "crashed"
          /\ UNCHANGED <<clients, i, calls, answer, stayed>>
     ELSE LET ec == clients[i + 1]
          IN  /\ i' = Advanced(i)
              /\ IF Reads(ec, ev) /\ Consulted(ev, answer)
                 THEN /\ calls' = Append(calls, ec)
                      /\ \E r \in Returns(ev), l \in Reentered(clients) :
                           /\ answer' = (answer \/ r)
                           /\ clients' = l
                           /\ pc' = IF ev.loop = "default" /\ r THEN "idle" ELSE "loop"
                 ELSE UNCHANGED <<calls, answer, clients, pc>>
              /\ stayed' = stayed \cap Members(clients')
  /\ UNCHANGED <<readTeam, ev, count, snap>>

\* The loop condition fails: the call-in returns.
LoopExit ==
  /\ pc = "loop" /\ ~InLoop
  /\ pc' = "idle"
  /\ UNCHANGED <<clients, readTeam, ev, count, i, calls, answer, snap, stayed>>

Next == AddClient \/ RemoveClient \/ Dispatch \/ CallIn \/ LoopExit

Spec == Init /\ [][Next]_vars

-----------------------------------------------------------------------------
(* Properties.                                                             *)

TypeOK ==
  /\ clients \in Seq(Clients)
  /\ readTeam \in [Clients -> ReadTeams]
  /\ pc \in {"idle", "loop", "crashed"}
  /\ ev \in Events \cup {[loop |-> "render", team |-> GlobalTeam, team2 |-> GlobalTeam]}
  /\ count \in Nat /\ i \in Int
  /\ calls \in Seq(Clients) /\ answer \in BOOLEAN
  /\ snap \in Seq(Clients) /\ stayed \subseteq Clients

\* The readers of event e among the clients of l that stayed subscribed.
StableReaders(l, e, s) == SelectSeq(l, LAMBDA c : c \in s /\ Reads(c, e))

\* Does client a come before client b in the loop over event e?  The
\* lists are sorted by order; DefaultCommand runs from the back.
Ahead(e, a, b) == IF e.loop = "default" THEN b < a ELSE a < b

\* Spec sections 1 and 5 (the event bus publishes to its subscribers): a
\* dispatch calls each client that can read the event and stayed
\* subscribed through it exactly once, in the order of the list; the
\* loops that stop at an answer (Explosion's noGfx, DefaultCommand) call
\* the readers before the one that answered and no later one.
DeliveredInOrderOnce ==
  [][pc = "loop" /\ pc' = "idle" =>
       LET kept == {j \in 1..Len(calls') : calls'[j] \in stayed'}
           got  == {calls'[j] : j \in kept}
           want == {c \in Members(snap) \cap stayed' : Reads(c, ev)}
       IN  /\ \A j, k \in kept : j < k => Ahead(ev, calls'[j], calls'[k])
           /\ got \subseteq want
           /\ IF ev.loop \in {"explosion", "default"}
              THEN /\ \A r \in want, g \in got : Ahead(ev, r, g) => r \in got
                   /\ ~answer' => want \subseteq got
              ELSE want \subseteq got]_vars

\* A call-in loop never reads past the end of its client list.  The loop
\* bound is the size taken before the first call-in, and a call-in that
\* removes a client shrinks the list under it.
NoReadPastEnd == pc # "crashed"

\* Spec section 1: every subscriber that may see an explosion is told of
\* it.  Explosion's noGfx = noGfx || ec->Explosion(...) stops calling the
\* full-read clients once one of them has asked for no graphics.
ExplosionReachesAllFullReaders ==
  [][pc = "loop" /\ pc' = "idle" /\ ev.loop = "explosion" =>
       calls' = StableReaders(snap, ev, stayed')]_vars

=============================================================================
