------------------------ MODULE EventDispatch_proofs ------------------------
(***************************************************************************)
(* Proofs about the call-in loops of CEventHandler.  For every value of    *)
(* the constants, the client lists stay sorted by order with each client   *)
(* once, and every variable keeps its type; a loop reads past the end of  *)
(* its list only after a call-in removed a client of the list it began     *)
(* with.  When the call-ins leave the lists alone (Reentrant = FALSE),     *)
(* every loop calls the readers of its event once each, in the order of    *)
(* the list (DeliveredInOrderOnce).                                        *)
(***************************************************************************)
EXTENDS EventDispatch, WellFoundedInduction, TLAPS

\* A list sorted by order: strictly increasing, so each client is in it
\* once.
Sorted(l) == \A j, k \in 1..Len(l) : j < k => l[j] < l[k]

Lists == {l \in Seq(Clients) : Sorted(l)}

\* The inductive invariant for every value of the constants: the types,
\* the sorted lists, and a forward loop's index that never goes below 0.
IInv ==
  /\ TypeOK
  /\ clients \in Lists
  /\ pc = "loop" /\ ev.loop # "default" => i \in Nat

\* The positions of snap that the loop has passed: a forward loop has
\* read 1..i, DefaultCommand's reverse loop (i+2)..count.
Done == IF ev.loop = "default" THEN (i + 2)..count ELSE 1..i

\* What a loop has done so far when the call-ins leave the lists alone:
\* it runs over the list it began with, each client it called is a
\* reader from the passed part of the list, the calls are in the loop's
\* order, and every passed reader was called, except, once Explosion's
\* answer is set, those after the last call.
LoopFacts ==
  /\ clients = snap /\ stayed = Members(snap) /\ count = Len(snap)
  /\ i \in IF ev.loop = "default" THEN -1..(count - 1) ELSE 0..count
  /\ answer => ev.loop \in {"explosion", "default"}
  /\ \A j \in 1..Len(calls) : \E k \in Done : calls[j] = snap[k] /\ Reads(snap[k], ev)
  /\ \A j, k \in 1..Len(calls) : j < k => Ahead(ev, calls[j], calls[k])
  /\ \A k \in Done : Reads(snap[k], ev) =>
       \/ snap[k] \in Members(calls)
       \/ answer /\ \A j \in 1..Len(calls) : ~Ahead(ev, snap[k], calls[j])

\* The inductive invariant of the loops without reentry: no crash, and
\* inside a loop LoopFacts, with DefaultCommand's answer still unset.
LoopInv ==
  /\ pc \in {"idle", "loop"}
  /\ pc = "loop" => LoopFacts /\ (ev.loop = "default" => ~answer)

\* The body of DeliveredInOrderOnce for the event e, the list s the loop
\* began with, the calls cs, the clients st still listed and the answer.
Delivered(e, s, cs, st, ans) ==
  LET kept == {j \in 1..Len(cs) : cs[j] \in st}
      got  == {cs[j] : j \in kept}
      want == {c \in Members(s) \cap st : Reads(c, e)}
  IN  /\ \A j, k \in kept : j < k => Ahead(e, cs[j], cs[k])
      /\ got \subseteq want
      /\ IF e.loop \in {"explosion", "default"}
         THEN /\ \A r \in want, g \in got : Ahead(e, r, g) => r \in got
              /\ ~ans => want \subseteq got
         ELSE want \subseteq got

\* A step that ends a loop ends it with what DeliveredInOrderOnce asks.
EndsDelivered ==
  pc = "loop" /\ pc' = "idle" => Delivered(ev, snap, calls', stayed', answer')

\* A call-in loop reads list[i] past the end only after a call-in of that
\* loop removed a client of the list it began with: additions alone, and
\* removals of clients the loop did not start with, never make it read
\* past the end, whatever the order of the reentrant calls.
CrashOnlyAfterRemoval == pc = "crashed" => ~(Members(snap) \subseteq stayed)

\* The inductive invariant for the reentrant loops: the list a loop began
\* with is sorted and count is its length; inside a loop the clients that
\* stayed are in the current list, and DefaultCommand's index is below
\* count.
RInv ==
  /\ pc \in {"loop", "crashed"} => snap \in Lists /\ count = Len(snap)
  /\ pc = "loop" => /\ stayed \subseteq Members(clients)
                    /\ ev.loop = "default" => i < count
  /\ CrashOnlyAfterRemoval

-----------------------------------------------------------------------------
(* Lemmas on the lists.                                                    *)

\* A nonempty set of naturals has a least element.
LEMMA MinExists ==
  ASSUME NEW T \in SUBSET Nat, T # {}
  PROVE  \E x \in T : \A y \in T : x <= y
<1>1. PICK x \in T : \A y \in T : ~(<<y, x>> \in OpToRel(<, Nat))
  BY NatLessThanWellFounded, WFMin
<1>2. \A y \in T : <<y, x>> \in Nat \X Nat
  OBVIOUS
<1>3. \A y \in T : ~(y < x)
  BY <1>1, <1>2 DEF OpToRel
<1>. QED
  BY <1>3

LEMMA ClientsNat == Clients \subseteq Nat
BY DispatchAssumption

\* The entries of a list of clients are naturals.
LEMMA ListNat ==
  ASSUME NEW l \in Seq(Clients)
  PROVE  \A k \in 1..Len(l) : l[k] \in Nat
<1>1. \A k \in 1..Len(l) : l[k] \in Clients
  OBVIOUS
<1>. QED
  BY <1>1, ClientsNat

\* The initial lists are sorted lists of clients.
LEMMA SortedListsLists == SortedLists \subseteq Lists
<1>. SUFFICES ASSUME NEW n \in 0..Cardinality(Clients),
                    NEW l \in [1..n -> Clients],
                    \A j, k \in 1..n : j < k => l[j] < l[k]
             PROVE  l \in Lists
  BY DEF SortedLists
<1>1. n \in Nat
  OBVIOUS
<1>2. l \in Seq(Clients) /\ Len(l) = n
  BY <1>1
<1>. QED
  BY <1>2 DEF Lists, Sorted

\* The entries of a sorted list are ordered as their positions.
LEMMA SortedOrder ==
  ASSUME NEW l \in Lists, NEW j \in 1..Len(l), NEW k \in 1..Len(l)
  PROVE  /\ l[j] < l[k] <=> j < k
         /\ l[j] = l[k] <=> j = k
<1>1. l \in Seq(Clients) /\ Sorted(l)
  BY DEF Lists
<1>2. l[j] \in Nat /\ l[k] \in Nat
  BY <1>1, ListNat
<1>3. j < k => l[j] < l[k]
  BY <1>1 DEF Sorted
<1>4. k < j => l[k] < l[j]
  BY <1>1 DEF Sorted
<1>. QED
  BY <1>2, <1>3, <1>4

LEMMA MembersClients ==
  ASSUME NEW l \in Seq(Clients)
  PROVE  Members(l) \subseteq Clients
BY DEF Members

\* ListInsert keeps a list sorted.
LEMMA InsertSorted ==
  ASSUME NEW l \in Lists, NEW c \in Clients
  PROVE  ListInsert(l, c) \in Lists
<1>1. CASE c \in Members(l)
  BY <1>1 DEF ListInsert
<1>2. CASE c \notin Members(l)
  <2>. DEFINE larger == {k \in 1..Len(l) : c < l[k]}
              p == IF larger = {} THEN Len(l) + 1
                   ELSE CHOOSE k \in larger : \A j \in larger : k <= j
              r == [k \in 1..(Len(l) + 1) |->
                      IF k < p THEN l[k] ELSE IF k = p THEN c ELSE l[k - 1]]
  <2>1. ListInsert(l, c) = r
    BY <1>2 DEF ListInsert
  <2>2. l \in Seq(Clients) /\ Sorted(l)
    BY DEF Lists
  <2>3. c \in Nat /\ \A k \in 1..Len(l) : l[k] \in Nat /\ l[k] # c
    <3>1. c \in Nat /\ \A k \in 1..Len(l) : l[k] \in Nat
      BY <2>2, ClientsNat, ListNat
    <3>2. \A k \in 1..Len(l) : l[k] # c
      BY <1>2 DEF Members
    <3>. QED
      BY <3>1, <3>2
  <2>4. /\ p \in 1..(Len(l) + 1)
        /\ \A k \in 1..Len(l) : k < p => l[k] < c
        /\ \A k \in 1..Len(l) : k >= p => c < l[k]
    <3>1. CASE larger = {}
      BY <2>2, <2>3, <3>1
    <3>2. CASE larger # {}
      <4>1. larger \in SUBSET Nat
        BY <2>2
      <4>2. \E x \in larger : \A y \in larger : x <= y
        BY <3>2, <4>1, MinExists
      <4>3. p \in larger /\ \A y \in larger : p <= y
        BY <3>2, <4>2, Zenon
      <4>. HIDE DEF p
      <4>4. ASSUME NEW k \in 1..Len(l), k < p PROVE l[k] < c
        <5>1. k \notin larger
          BY <4>3, <4>4
        <5>. QED
          BY <2>3, <5>1
      <4>5. ASSUME NEW k \in 1..Len(l), k > p PROVE c < l[k]
        <5>1. l[p] < l[k] /\ c < l[p]
          BY <2>2, <4>3, <4>5 DEF Sorted
        <5>. QED
          BY <2>3, <4>3, <5>1
      <4>6. p \in 1..Len(l) /\ c < l[p]
        BY <4>3
      <4>. QED
        BY <2>2, <4>4, <4>5, <4>6
    <3>. QED
      BY <3>1, <3>2
  <2>. HIDE DEF p, larger
  <2>5. \A k \in 1..(Len(l) + 1) : r[k] \in Clients
    BY <2>2, <2>4
  <2>6. r \in Seq(Clients) /\ Len(r) = Len(l) + 1
    BY <2>2, <2>5
  <2>7. Sorted(r)
    <3>. SUFFICES ASSUME NEW j \in 1..(Len(l) + 1), NEW k \in 1..(Len(l) + 1), j < k
                 PROVE  r[j] < r[k]
      BY <2>6 DEF Sorted
    <3>1. CASE k < p
      BY <2>2, <2>3, <2>4, <3>1 DEF Sorted
    <3>2. CASE j < p /\ k = p
      BY <2>4, <3>2
    <3>3. CASE j < p /\ k > p
      BY <2>2, <2>3, <2>4, <3>3
    <3>4. CASE j = p
      BY <2>2, <2>4, <3>4
    <3>5. CASE j > p
      BY <2>2, <2>3, <2>4, <3>5 DEF Sorted
    <3>. QED
      BY <2>4, <3>1, <3>2, <3>3, <3>4, <3>5
  <2>. QED
    BY <2>1, <2>6, <2>7 DEF Lists
<1>. QED
  BY <1>1, <1>2

\* ListRemove keeps a list sorted.
LEMMA RemoveSorted ==
  ASSUME NEW l \in Lists, NEW c
  PROVE  ListRemove(l, c) \in Lists
<1>1. CASE c \notin Members(l)
  BY <1>1 DEF ListRemove
<1>2. CASE c \in Members(l)
  <2>. DEFINE p == CHOOSE k \in 1..Len(l) : l[k] = c /\ \A j \in 1..(k - 1) : l[j] # c
              r == [k \in 1..(Len(l) - 1) |-> IF k < p THEN l[k] ELSE l[k + 1]]
  <2>1. ListRemove(l, c) = r
    BY <1>2 DEF ListRemove
  <2>2. PICK q \in 1..Len(l) : l[q] = c
    BY <1>2 DEF Members
  <2>3. \A j \in 1..(q - 1) : l[j] # c
    BY <2>2, SortedOrder
  <2>4. p \in 1..Len(l)
    BY <2>2, <2>3
  <2>5. l \in Seq(Clients) /\ Sorted(l)
    BY DEF Lists
  <2>6. r \in Seq(Clients) /\ Len(r) = Len(l) - 1
    BY <2>4, <2>5
  <2>7. Sorted(r)
    BY <2>4, <2>5, <2>6, ClientsNat DEF Sorted
  <2>. QED
    BY <2>1, <2>6, <2>7 DEF Lists
<1>. QED
  BY <1>1, <1>2

\* Every list a call-in may leave is a sorted list.
LEMMA ReenteredSorted ==
  ASSUME NEW l \in Lists
  PROVE  Reentered(l) \subseteq Lists
BY InsertSorted, RemoveSorted DEF Reentered

-----------------------------------------------------------------------------
(* Type correctness, for every value of the constants.                     *)

LEMMA InitIInv == Init => IInv
<1>. SUFFICES ASSUME Init PROVE IInv
  OBVIOUS
<1>1. clients \in Lists
  BY SortedListsLists DEF Init
<1>2. clients \in Seq(Clients)
  BY <1>1 DEF Lists
<1>3. ev \in Events \cup {[loop |-> "render", team |-> GlobalTeam, team2 |-> GlobalTeam]}
  BY DEF Init
<1>4. readTeam \in [Clients -> ReadTeams] /\ pc = "idle"
  BY DEF Init
<1>5. count \in Nat /\ i \in Int
  BY DEF Init
<1>6. answer \in BOOLEAN
  BY Zenon DEF Init
<1>7. calls \in Seq(Clients) /\ snap \in Seq(Clients) /\ stayed \subseteq Clients
  BY DEF Init
<1>. QED
  BY <1>1, <1>2, <1>3, <1>4, <1>5, <1>6, <1>7, Zenon DEF IInv, TypeOK

\* The two outcomes of a call-in of clients[i + 1]: the client is
\* called, and may change the list, or it is skipped.
Called ==
  /\ Reads(clients[i + 1], ev) /\ Consulted(ev, answer)
  /\ calls' = Append(calls, clients[i + 1])
  /\ clients' \in Reentered(clients)
  /\ \E r \in Returns(ev) :
       /\ answer' = (answer \/ r)
       /\ pc' = IF ev.loop = "default" /\ r THEN "idle" ELSE "loop"

Skipped ==
  /\ ~(Reads(clients[i + 1], ev) /\ Consulted(ev, answer))
  /\ UNCHANGED <<calls, answer, clients, pc>>

LEMMA CallInCases ==
  ASSUME CallIn, ~(i >= Len(clients))
  PROVE  /\ i' = Advanced(i)
         /\ stayed' = stayed \cap Members(clients')
         /\ UNCHANGED <<readTeam, ev, count, snap>>
         /\ Called \/ Skipped
BY Zenon DEF CallIn, Called, Skipped

\* A call-in reads an entry of its list: 0 <= i < Len(clients).
LEMMA CallInEntry ==
  ASSUME IInv, pc = "loop", InLoop, ~(i >= Len(clients))
  PROVE  /\ i + 1 \in 1..Len(clients)
         /\ clients[i + 1] \in Clients
<1>1. i \in Nat
  BY DEF IInv, TypeOK, InLoop
<1>. QED
  BY <1>1 DEF IInv, TypeOK

LEMMA NextIInv == IInv /\ [Next]_vars => IInv'
<1>. SUFFICES ASSUME IInv, [Next]_vars PROVE IInv'
  OBVIOUS
<1>0. /\ clients \in Lists /\ calls \in Seq(Clients) /\ stayed \subseteq Clients
      /\ i \in Int
  BY Zenon DEF IInv, TypeOK
<1>8. answer \in BOOLEAN
  BY Zenon DEF IInv, TypeOK
<1>1. CASE AddClient
  <2>1. clients' \in Lists
    BY <1>0, <1>1, InsertSorted DEF AddClient
  <2>. QED
    BY <1>1, <2>1, Zenon DEF AddClient, IInv, TypeOK, Lists
<1>2. CASE RemoveClient
  <2>1. clients' \in Lists
    BY <1>0, <1>2, RemoveSorted DEF RemoveClient
  <2>. QED
    BY <1>2, <2>1, Zenon DEF RemoveClient, IInv, TypeOK, Lists
<1>3. CASE Dispatch
  <2>1. clients \in Seq(Clients) /\ Len(clients) \in Nat
    BY <1>0 DEF Lists
  <2>2. ev' \in Events /\ i' \in Int /\ (ev'.loop # "default" => i' \in Nat)
    BY <1>3, <2>1 DEF Dispatch
  <2>3. stayed' \subseteq Clients
    BY <1>3, <2>1, MembersClients DEF Dispatch
  <2>4. answer' \in BOOLEAN /\ pc' = "loop"
    BY <1>3, Zenon DEF Dispatch
  <2>5. /\ clients' \in Lists /\ count' \in Nat
        /\ calls' \in Seq(Clients) /\ snap' \in Seq(Clients)
    BY <1>0, <1>3, <2>1 DEF Dispatch
  <2>6. readTeam' \in [Clients -> ReadTeams]
    BY <1>3, Zenon DEF Dispatch, IInv, TypeOK
  <2>. QED
    BY <2>2, <2>3, <2>4, <2>5, <2>6, Zenon DEF IInv, TypeOK, Lists
<1>4. CASE CallIn /\ i >= Len(clients)
  BY <1>4, Zenon DEF CallIn, IInv, TypeOK
<1>5. CASE CallIn /\ ~(i >= Len(clients))
  <2>1. /\ i + 1 \in 1..Len(clients)
        /\ clients[i + 1] \in Clients
    BY <1>5, CallInEntry DEF CallIn
  <2>2. Called \/ Skipped
    BY <1>5, CallInCases
  <2>3. clients' \in Lists
    BY <1>0, <2>2, ReenteredSorted DEF Called, Skipped
  <2>4. calls' \in Seq(Clients)
    BY <1>0, <2>1, <2>2 DEF Called, Skipped
  <2>5. stayed' \subseteq Clients
    BY <1>0, <1>5, CallInCases
  <2>6. i' \in Int /\ (ev.loop # "default" => i' \in Nat)
    BY <1>0, <1>5, <2>1, CallInCases DEF Advanced
  <2>7. answer' \in BOOLEAN /\ pc' \in {"idle", "loop"}
    <3>1. CASE Called
      <4>1. PICK r \in Returns(ev) :
              /\ answer' = (answer \/ r)
              /\ pc' = IF ev.loop = "default" /\ r THEN "idle" ELSE "loop"
        BY <3>1 DEF Called
      <4>. QED
        BY <4>1, Zenon
    <3>2. CASE Skipped
      BY <1>8, <1>5, <3>2, Zenon DEF CallIn, Skipped
    <3>. QED
      BY <2>2, <3>1, <3>2
  <2>8. UNCHANGED <<readTeam, ev, count, snap>>
    BY <1>5, CallInCases
  <2>. QED
    BY <2>3, <2>4, <2>5, <2>6, <2>7, <2>8, Zenon DEF IInv, TypeOK, Lists
<1>6. CASE LoopExit
  BY <1>6, Zenon DEF LoopExit, IInv, TypeOK
<1>7. CASE UNCHANGED vars
  BY <1>7, Zenon DEF vars, IInv, TypeOK
<1>. QED
  BY <1>1, <1>2, <1>3, <1>4, <1>5, <1>6, <1>7 DEF Next

-----------------------------------------------------------------------------
(* The loops without reentry.                                              *)

\* On a sorted list, Ahead compares positions: ascending for the forward
\* loops, descending for DefaultCommand.
LEMMA AheadIndex ==
  ASSUME NEW s \in Lists, NEW e, NEW j \in 1..Len(s), NEW k \in 1..Len(s)
  PROVE  Ahead(e, s[j], s[k]) <=> IF e.loop = "default" THEN k < j ELSE j < k
BY SortedOrder DEF Ahead

LEMMA MembersAppend ==
  ASSUME NEW S, NEW s \in Seq(S), NEW x
  PROVE  Members(Append(s, x)) = Members(s) \cup {x}
BY DEF Members

\* Whether a client reads an event depends on readTeam alone.
LEMMA ReadsUnchanged ==
  ASSUME readTeam' = readTeam, NEW c, NEW e
  PROVE  Reads(c, e)' <=> Reads(c, e)
BY DEF Reads, UnitFilter, TransportFilter, GlobalFilter, CanReadAllyTeam, FullRead

\* A call-in that cannot touch the lists leaves them as they are.
LEMMA NoReentry ==
  ASSUME ~Reentrant, NEW l
  PROVE  Reentered(l) = {l}
BY DEF Reentered

\* One call-in inside a loop keeps LoopFacts, whether it calls the client
\* or skips it, and whether DefaultCommand returns early or not.
LEMMA CallInLoop ==
  ASSUME ~Reentrant, IInv, LoopInv, CallIn
  PROVE  /\ ~(i >= Len(clients))
         /\ LoopFacts'
         /\ pc' \in {"idle", "loop"}
         /\ pc' = "loop" => (ev.loop = "default" => ~answer')
<1>1. /\ pc = "loop" /\ InLoop
      /\ LoopFacts
      /\ ev.loop = "default" => ~answer
  BY DEF CallIn, LoopInv
<1>2. snap \in Lists /\ Len(snap) \in Nat /\ i \in Int
  BY <1>1 DEF LoopFacts, IInv, TypeOK, Lists
<1>3. ~(i >= Len(clients))
  BY <1>1, <1>2 DEF LoopFacts, InLoop
<1>. DEFINE k0 == i + 1
            ec == snap[k0]
<1>4. /\ i' = Advanced(i)
      /\ stayed' = stayed \cap Members(clients')
      /\ UNCHANGED <<readTeam, ev, count, snap>>
      /\ Called \/ Skipped
  BY <1>3, CallInCases
<1>5. clients' = clients /\ clients = snap
  BY <1>1, <1>4, NoReentry DEF Called, Skipped, LoopFacts
<1>6. /\ k0 \in 1..Len(snap) /\ ec = clients[i + 1]
      /\ k0 \notin Done
      /\ Done' = Done \cup {k0}
      /\ Done \subseteq 1..Len(snap)
  BY <1>1, <1>2, <1>3, <1>4, <1>5 DEF LoopFacts, InLoop, Done, Advanced
<1>7. \A k \in Done : Ahead(ev, snap[k], ec)
  BY <1>1, <1>2, <1>6, AheadIndex DEF Done
<1>8. \A j \in 1..Len(calls) : Ahead(ev, calls[j], ec)
  BY <1>1, <1>6, <1>7 DEF LoopFacts
<1>9. /\ clients' = snap' /\ stayed' = Members(snap') /\ count' = Len(snap')
      /\ i' \in IF ev'.loop = "default" THEN -1..(count' - 1) ELSE 0..count'
  BY <1>1, <1>2, <1>3, <1>4, <1>5 DEF LoopFacts, InLoop, Advanced
<1>10. CASE Called
  <2>1. ~answer
    BY <1>1, <1>10 DEF Called, Consulted, LoopFacts
  <2>2. PICK r \in Returns(ev) :
          /\ answer' = (answer \/ r)
          /\ pc' = IF ev.loop = "default" /\ r THEN "idle" ELSE "loop"
    BY <1>10 DEF Called
  <2>3. /\ answer' => ev'.loop \in {"explosion", "default"}
        /\ pc' \in {"idle", "loop"}
        /\ pc' = "loop" => (ev.loop = "default" => ~answer')
    BY <1>4, <2>1, <2>2, Zenon DEF Returns
  <2>4. /\ calls' = Append(calls, ec)
        /\ Reads(ec, ev)
        /\ calls \in Seq(Clients)
    BY <1>6, <1>10 DEF Called, IInv, TypeOK
  <2>5. (\A j \in 1..Len(calls) : \E k \in Done : calls[j] = snap[k] /\ Reads(snap[k], ev))'
    BY <1>1, <1>4, <1>6, <2>4, ReadsUnchanged DEF LoopFacts
  <2>6. (\A j, k \in 1..Len(calls) : j < k => Ahead(ev, calls[j], calls[k]))'
    BY <1>1, <1>4, <1>8, <2>4 DEF LoopFacts
  <2>7. \A k \in Done' : Reads(snap[k], ev) => snap'[k] \in Members(calls')
    <3>1. Members(calls') = Members(calls) \cup {ec}
      BY <2>4, MembersAppend
    <3>2. \A k \in Done : Reads(snap[k], ev) => snap[k] \in Members(calls)
      BY <1>1, <2>1 DEF LoopFacts
    <3>. QED
      BY <1>4, <1>6, <3>1, <3>2
  <2>8. (\A k \in Done : Reads(snap[k], ev) =>
          \/ snap[k] \in Members(calls)
          \/ answer /\ \A j \in 1..Len(calls) : ~Ahead(ev, snap[k], calls[j]))'
    BY <1>4, <2>7, ReadsUnchanged
  <2>9. LoopFacts'
    BY <1>9, <2>3, <2>5, <2>6, <2>8, Zenon DEF LoopFacts
  <2>. QED
    BY <1>3, <2>3, <2>9
<1>11. CASE Skipped
  <2>1. UNCHANGED <<calls, answer, pc>>
    BY <1>11 DEF Skipped
  <2>2. Reads(ec, ev) => answer /\ ev.loop = "explosion"
    BY <1>6, <1>11 DEF Skipped, Consulted
  <2>3. \A j \in 1..Len(calls) : ~Ahead(ev, ec, calls[j])
    <3>. SUFFICES ASSUME NEW j \in 1..Len(calls) PROVE ~Ahead(ev, ec, calls[j])
      OBVIOUS
    <3>1. PICK kj \in Done : calls[j] = snap[kj]
      BY <1>1 DEF LoopFacts
    <3>2. kj \in 1..Len(snap) /\ kj # k0
      BY <1>6
    <3>3. Ahead(ev, snap[kj], ec)
      BY <1>7
    <3>4. /\ Ahead(ev, snap[kj], ec) <=> IF ev.loop = "default" THEN k0 < kj ELSE kj < k0
          /\ Ahead(ev, ec, snap[kj]) <=> IF ev.loop = "default" THEN kj < k0 ELSE k0 < kj
      BY <1>2, <1>6, <3>2, AheadIndex
    <3>. QED
      BY <1>2, <3>1, <3>2, <3>3, <3>4
  <2>4. (\A k \in Done : Reads(snap[k], ev) =>
          \/ snap[k] \in Members(calls)
          \/ answer /\ \A j \in 1..Len(calls) : ~Ahead(ev, snap[k], calls[j]))'
    BY <1>1, <1>4, <1>6, <2>1, <2>2, <2>3, ReadsUnchanged DEF LoopFacts
  <2>5. /\ answer' => ev'.loop \in {"explosion", "default"}
        /\ (\A j \in 1..Len(calls) : \E k \in Done : calls[j] = snap[k] /\ Reads(snap[k], ev))'
        /\ (\A j, k \in 1..Len(calls) : j < k => Ahead(ev, calls[j], calls[k]))'
    BY <1>1, <1>4, <1>6, <2>1, ReadsUnchanged DEF LoopFacts
  <2>6. LoopFacts'
    BY <1>9, <2>4, <2>5 DEF LoopFacts
  <2>. QED
    BY <1>1, <1>3, <2>1, <2>6
<1>. QED
  BY <1>4, <1>10, <1>11

\* Every state the dispatcher reaches is well typed, whatever the call-ins
\* do to the lists: the lists stay sorted lists of clients, and calls only
\* ever records a client read from inside its list.
THEOREM TypeCorrect == Spec => []TypeOK
<1>1. Spec => []IInv
  BY InitIInv, NextIInv, PTL DEF Spec
<1>. QED
  BY <1>1, PTL DEF IInv

-----------------------------------------------------------------------------
(* Reads past the end with reentrant call-ins.                             *)

\* A strictly increasing map of 1..n into 1..m needs n <= m.
LEMMA IncreasingBound ==
  ASSUME NEW n \in Nat, NEW m \in Nat, NEW f \in [1..n -> 1..m],
         \A j, k \in 1..n : j < k => f[j] < f[k]
  PROVE  n <= m
<1>1. \A k \in 1..n : k <= f[k]
  <2>. SUFFICES ASSUME NEW k0 \in 1..n, f[k0] < k0 PROVE FALSE
    OBVIOUS
  <2>. DEFINE T == {k \in 1..n : f[k] < k}
  <2>1. T \in SUBSET Nat /\ T # {}
    OBVIOUS
  <2>2. PICK x \in T : \A y \in T : x <= y
    BY <2>1, MinExists
  <2>3. x - 1 \in 1..n /\ f[x] < x
    OBVIOUS
  <2>4. x - 1 \notin T
    BY <2>2, <2>3
  <2>5. f[x - 1] < f[x]
    BY <2>3
  <2>. QED
    BY <2>3, <2>4, <2>5
<1>. QED
  BY <1>1

\* A sorted list whose clients are all in another sorted list is no
\* longer than it.
LEMMA SubListShorter ==
  ASSUME NEW s \in Lists, NEW c \in Lists, Members(s) \subseteq Members(c)
  PROVE  Len(s) <= Len(c)
<1>. DEFINE f == [k \in 1..Len(s) |-> CHOOSE m \in 1..Len(c) : c[m] = s[k]]
<1>1. \A k \in 1..Len(s) : f[k] \in 1..Len(c) /\ c[f[k]] = s[k]
  <2>. SUFFICES ASSUME NEW k \in 1..Len(s) PROVE \E m \in 1..Len(c) : c[m] = s[k]
    OBVIOUS
  <2>. QED
    BY DEF Members
<1>. HIDE DEF f
<1>2. f \in [1..Len(s) -> 1..Len(c)]
  BY <1>1 DEF f
<1>3. \A j, k \in 1..Len(s) : j < k => f[j] < f[k]
  <2>. SUFFICES ASSUME NEW j \in 1..Len(s), NEW k \in 1..Len(s), j < k
               PROVE  f[j] < f[k]
    OBVIOUS
  <2>1. s[j] < s[k]
    BY SortedOrder
  <2>2. c[f[j]] < c[f[k]]
    BY <1>1, <2>1
  <2>. QED
    BY <1>1, <2>2, SortedOrder
<1>4. Len(s) \in Nat /\ Len(c) \in Nat
  BY DEF Lists
<1>. QED
  BY <1>2, <1>3, <1>4, IncreasingBound

LEMMA InitRInv == Init => RInv
BY DEF Init, RInv, CrashOnlyAfterRemoval

\* The step that reads past the end: i < count, and a list that kept every
\* client of snap is at least as long as snap.
LEMMA CrashStep ==
  ASSUME IInv, RInv, CallIn, i >= Len(clients)
  PROVE  RInv'
<1>1. pc = "loop" /\ InLoop /\ pc' = "crashed"
  BY DEF CallIn
<1>2. UNCHANGED <<snap, count, stayed>>
  BY DEF CallIn
<1>3. snap \in Lists /\ count = Len(snap) /\ stayed \subseteq Members(clients)
  BY <1>1 DEF RInv
<1>4. i < count
  BY <1>1 DEF RInv, InLoop
<1>5. ~(Members(snap) \subseteq stayed)
  <2>. SUFFICES ASSUME Members(snap) \subseteq stayed PROVE FALSE
    OBVIOUS
  <2>1. Len(snap) <= Len(clients)
    BY <1>3, SubListShorter DEF IInv
  <2>2. i \in Int /\ Len(clients) \in Nat
    BY DEF IInv, TypeOK
  <2>. QED
    BY <1>3, <1>4, <2>1, <2>2
<1>. QED
  BY <1>1, <1>2, <1>3, <1>5 DEF RInv, CrashOnlyAfterRemoval

LEMMA NextRInv ==
  ASSUME IInv, RInv, [Next]_vars
  PROVE  RInv'
<1>1. CASE AddClient \/ RemoveClient \/ LoopExit
  BY <1>1 DEF AddClient, RemoveClient, LoopExit, RInv, CrashOnlyAfterRemoval
<1>2. CASE Dispatch
  <2>1. clients \in Lists /\ clients' = clients /\ snap' = clients
        /\ count' = Len(clients) /\ stayed' = Members(clients) /\ pc' = "loop"
    BY <1>2 DEF Dispatch, IInv
  <2>2. ev'.loop = "default" => i' < count'
    BY <1>2 DEF Dispatch
  <2>. QED
    BY <2>1, <2>2 DEF RInv, CrashOnlyAfterRemoval
<1>3. CASE CallIn /\ i >= Len(clients)
  BY <1>3, CrashStep
<1>4. CASE CallIn /\ ~(i >= Len(clients))
  <2>1. /\ i' = Advanced(i)
        /\ stayed' = stayed \cap Members(clients')
        /\ UNCHANGED <<readTeam, ev, count, snap>>
        /\ Called \/ Skipped
    BY <1>4, CallInCases
  <2>2. pc' \in {"idle", "loop"}
    BY <1>4, <2>1, Zenon DEF CallIn, Called, Skipped
  <2>3. pc = "loop" /\ snap \in Lists /\ count = Len(snap) /\ i \in Int
    BY <1>4 DEF CallIn, RInv, IInv, TypeOK
  <2>4. ev.loop = "default" => i' < count
    BY <2>1, <2>3 DEF RInv, Advanced
  <2>. QED
    BY <2>1, <2>2, <2>3, <2>4 DEF RInv, CrashOnlyAfterRemoval
<1>5. CASE UNCHANGED vars
  BY <1>5 DEF vars, RInv, CrashOnlyAfterRemoval
<1>. QED
  BY <1>1, <1>2, <1>3, <1>4, <1>5 DEF Next

\* Spec section on the call-in loops: a loop reads list[i] for i below the
\* count it took when it began.  Whatever the call-ins do (Reentrant TRUE
\* or FALSE), a loop that reads past the end has lost a client of the list
\* it began with to a removal from inside one of its call-ins: additions,
\* and removals of clients added after the loop began, are harmless.  The
\* dispatch_bounds run shows that such a removal does produce the read.
THEOREM ReadPastEndOnlyAfterRemoval == Spec => []CrashOnlyAfterRemoval
<1>1. Spec => [](IInv /\ RInv)
  BY InitIInv, InitRInv, NextIInv, NextRInv, PTL DEF Spec
<1>2. RInv => CrashOnlyAfterRemoval
  BY DEF RInv
<1>. QED
  BY <1>1, <1>2, PTL

LEMMA InitLoopInv == Init => LoopInv
BY Zenon DEF Init, LoopInv

LEMMA NextLoopInv ==
  ASSUME ~Reentrant
  PROVE  IInv /\ LoopInv /\ [Next]_vars => LoopInv'
<1>. SUFFICES ASSUME IInv, LoopInv, [Next]_vars PROVE LoopInv'
  OBVIOUS
<1>1. CASE AddClient \/ RemoveClient
  BY <1>1, Zenon DEF AddClient, RemoveClient, LoopInv
<1>2. CASE Dispatch
  <2>1. clients \in Seq(Clients) /\ Len(clients) \in Nat
    BY DEF IInv, Lists
  <2>2. /\ pc' = "loop" /\ answer' = FALSE /\ calls' = <<>>
        /\ snap' = clients /\ clients' = clients /\ readTeam' = readTeam
        /\ stayed' = Members(clients) /\ count' = Len(clients)
        /\ i' = IF ev'.loop = "default" THEN Len(clients) - 1 ELSE 0
    BY <1>2, Zenon DEF Dispatch
  <2>3. Done' = {}
    BY <2>1, <2>2 DEF Done
  <2>4. (/\ clients = snap /\ stayed = Members(snap) /\ count = Len(snap)
         /\ i \in IF ev.loop = "default" THEN -1..(count - 1) ELSE 0..count)'
    BY <2>1, <2>2
  <2>5. (answer => ev.loop \in {"explosion", "default"})' /\ (ev.loop = "default" => ~answer)'
    BY <2>2, Zenon
  <2>6. /\ (\A j \in 1..Len(calls) : \E k \in Done : calls[j] = snap[k] /\ Reads(snap[k], ev))'
        /\ (\A j, k \in 1..Len(calls) : j < k => Ahead(ev, calls[j], calls[k]))'
        /\ (\A k \in Done : Reads(snap[k], ev) =>
              \/ snap[k] \in Members(calls)
              \/ answer /\ \A j \in 1..Len(calls) : ~Ahead(ev, snap[k], calls[j]))'
    BY <2>2, <2>3
  <2>. QED
    BY <2>2, <2>4, <2>5, <2>6, Zenon DEF LoopInv, LoopFacts
<1>3. CASE CallIn
  <2>1. ev' = ev
    BY <1>3 DEF CallIn
  <2>. QED
    BY <1>3, <2>1, CallInLoop, Zenon DEF LoopInv
<1>4. CASE LoopExit
  BY <1>4, Zenon DEF LoopExit, LoopInv
<1>5. CASE UNCHANGED vars
  BY <1>5, ReadsUnchanged DEF vars, LoopInv, LoopFacts, Done
<1>. QED
  BY <1>1, <1>2, <1>3, <1>4, <1>5 DEF Next

\* The passed part of a list is closed under the loop's direction: an
\* index past a passed one (backwards, from the end) or before a passed one
\* (forwards, from 1) has been passed too.
LEMMA LaterIndex ==
  ASSUME NEW n \in Nat, NEW x \in Int, NEW kg \in (x + 2)..n,
         NEW kr \in 1..n, kg < kr
  PROVE  kr \in (x + 2)..n
OBVIOUS

LEMMA EarlierIndex ==
  ASSUME NEW n \in Nat, NEW x \in Int, NEW kg \in 1..x,
         NEW kr \in 1..n, kr < kg
  PROVE  kr \in 1..x
OBVIOUS

\* A loop ends having passed its whole list unless an answer cut it short.
EndCovers ==
  ev.loop \notin {"explosion", "default"} \/ ~answer' => Done' = 1..Len(snap)

\* A loop that ends with LoopFacts has delivered its event as
\* DeliveredInOrderOnce asks: in order, to readers of its list only, and
\* to all of them unless it was cut short by an answer.
LEMMA FactsDelivered ==
  ASSUME snap \in Lists, calls' \in Seq(Clients), LoopFacts',
         snap' = snap, ev' = ev, readTeam' = readTeam, EndCovers
  PROVE  Delivered(ev, snap, calls', stayed', answer')
<1>. DEFINE kept == {j \in 1..Len(calls') : calls'[j] \in stayed'}
            got  == {calls'[j] : j \in kept}
            want == {c \in Members(snap) \cap stayed' : Reads(c, ev)}
<1>1. /\ stayed' = Members(snap)
      /\ Len(snap) \in Nat
      /\ Done' = IF ev.loop = "default" THEN (i' + 2)..Len(snap) ELSE 1..i'
      /\ i' \in Int
      /\ Done' \subseteq 1..Len(snap)
  BY DEF LoopFacts, Done, Lists
<1>0. Len(snap) \in Nat /\ i' \in Int
  BY <1>1
<1>10. Done' = IF ev.loop = "default" THEN (i' + 2)..Len(snap) ELSE 1..i'
  BY <1>1
<1>2. /\ \A j \in 1..Len(calls') : \E k \in Done' : calls'[j] = snap[k] /\ Reads(snap[k], ev)
      /\ \A j, k \in 1..Len(calls') : j < k => Ahead(ev, calls'[j], calls'[k])
  BY ReadsUnchanged DEF LoopFacts
<1>3. \A k \in Done' : Reads(snap[k], ev) =>
        \/ snap[k] \in Members(calls')
        \/ answer' /\ \A j \in 1..Len(calls') : ~Ahead(ev, snap[k], calls'[j])
  BY ReadsUnchanged DEF LoopFacts
<1>4. answer' => ev.loop \in {"explosion", "default"}
  BY Zenon DEF LoopFacts
<1>5. kept = 1..Len(calls') /\ got = Members(calls')
  BY <1>1, <1>2 DEF Members
<1>6. \A j, k \in kept : j < k => Ahead(ev, calls'[j], calls'[k])
  BY <1>2, <1>5
<1>7. got \subseteq want
  <2>. SUFFICES ASSUME NEW g \in got PROVE g \in want
    OBVIOUS
  <2>1. PICK j \in 1..Len(calls') : g = calls'[j]
    BY <1>5 DEF Members
  <2>. HIDE DEF want, got, kept
  <2>2. PICK k \in Done' : g = snap[k] /\ Reads(snap[k], ev)
    BY <1>2, <2>1
  <2>3. k \in 1..Len(snap)
    BY <1>1, <2>2
  <2>4. g \in Members(snap) /\ g \in stayed' /\ Reads(g, ev)
    BY <1>1, <2>2, <2>3 DEF Members
  <2>. QED
    BY <2>4, Zenon DEF want
<1>8. \A r \in want, g \in got : Ahead(ev, r, g) => r \in got
  <2>. SUFFICES ASSUME NEW r \in want, NEW g \in got, Ahead(ev, r, g) PROVE r \in got
    OBVIOUS
  <2>1. PICK kr \in 1..Len(snap) : r = snap[kr] /\ Reads(r, ev)
    BY DEF Members
  <2>2. PICK j \in 1..Len(calls') : g = calls'[j]
    BY <1>5 DEF Members
  <2>3. PICK kg \in Done' : g = snap[kg]
    BY <1>2, <2>2
  <2>. HIDE DEF want, got, kept
  <2>4. kg \in 1..Len(snap) /\ Ahead(ev, snap[kr], snap[kg])
    BY <1>1, <2>1, <2>3
  <2>5. IF ev.loop = "default" THEN kg < kr ELSE kr < kg
    BY <2>1, <2>4, AheadIndex
  <2>6. kr \in Done'
    <3>1. CASE ev.loop = "default"
      <4>1. Done' = (i' + 2)..Len(snap)
        BY <1>10, <3>1
      <4>2. kg \in (i' + 2)..Len(snap) /\ kg < kr
        BY <2>3, <2>5, <3>1, <4>1
      <4>3. kr \in (i' + 2)..Len(snap)
        BY <1>0, <2>1, <4>2, LaterIndex
      <4>. QED
        BY <4>1, <4>3
    <3>2. CASE ev.loop # "default"
      <4>1. Done' = 1..i'
        BY <1>10, <3>2
      <4>2. kg \in 1..i' /\ kr < kg
        BY <2>3, <2>5, <3>2, <4>1
      <4>3. kr \in 1..i'
        BY <1>0, <2>1, <4>2, EarlierIndex
      <4>. QED
        BY <4>1, <4>3
    <3>. QED
      BY <3>1, <3>2
  <2>7. ~(answer' /\ \A jj \in 1..Len(calls') : ~Ahead(ev, snap[kr], calls'[jj]))
    BY <2>1, <2>2
  <2>. QED
    BY <1>3, <1>5, <2>1, <2>6, <2>7
<1>9. ev.loop \notin {"explosion", "default"} \/ ~answer' => want \subseteq got
  <2>. SUFFICES ASSUME ev.loop \notin {"explosion", "default"} \/ ~answer', NEW r \in want
               PROVE  r \in got
    OBVIOUS
  <2>1. ~answer'
    BY <1>4
  <2>3. Done' = 1..Len(snap)
    BY Zenon DEF EndCovers
  <2>2. PICK kr \in 1..Len(snap) : r = snap[kr] /\ Reads(r, ev)
    BY DEF Members
  <2>. QED
    BY <1>3, <1>5, <2>1, <2>2, <2>3
<1>. QED
  BY <1>6, <1>7, <1>8, <1>9 DEF Delivered

\* Every step that ends a loop, by LoopExit or by DefaultCommand's early
\* return, ends it as DeliveredInOrderOnce asks.
LEMMA StepDelivered ==
  ASSUME ~Reentrant, IInv, LoopInv, [Next]_vars
  PROVE  EndsDelivered
<1>. SUFFICES ASSUME pc = "loop", pc' = "idle"
              PROVE  Delivered(ev, snap, calls', stayed', answer')
  BY DEF EndsDelivered
<1>1. LoopFacts /\ snap \in Lists
  BY DEF LoopInv, LoopFacts, IInv
<1>0. calls' \in Seq(Clients)
  BY NextIInv DEF IInv, TypeOK
<1>2. CASE CallIn
  <2>1. LoopFacts' /\ UNCHANGED <<snap, ev, readTeam>>
    BY <1>2, CallInLoop DEF CallIn
  <2>2. answer' /\ ev.loop = "default"
    <3>1. ~(i >= Len(clients))
      BY <1>2, CallInLoop
    <3>2. Called \/ Skipped
      BY <1>2, <3>1, CallInCases
    <3>. QED
      BY <3>2, Zenon DEF Called, Skipped
  <2>. QED
    <3>1. EndCovers
      BY <2>2, Zenon DEF EndCovers
    <3>. QED
      BY <1>0, <1>1, <2>1, <2>2, <3>1, FactsDelivered
<1>3. CASE LoopExit
  <2>1. UNCHANGED <<clients, readTeam, ev, count, i, calls, answer, snap, stayed>>
    BY <1>3 DEF LoopExit
  <2>2. LoopFacts'
    BY <1>1, <2>1, ReadsUnchanged DEF LoopFacts, Done
  <2>3. ~InLoop /\ i \in Int /\ LoopFacts
    BY <1>1, <1>3 DEF LoopExit, IInv, TypeOK
  <2>4. Done' = 1..Len(snap)
    BY <2>1, <2>3 DEF InLoop, LoopFacts, Done
  <2>. QED
    <3>1. EndCovers
      BY <2>4, Zenon DEF EndCovers
    <3>. QED
      BY <1>0, <1>1, <2>1, <2>2, <3>1, FactsDelivered
<1>4. CASE AddClient \/ RemoveClient \/ Dispatch \/ UNCHANGED vars
  BY <1>4 DEF AddClient, RemoveClient, Dispatch, vars
<1>. QED
  BY <1>2, <1>3, <1>4 DEF Next

\* DeliveredInOrderOnce (spec section on the call-in loops): when no
\* call-in adds or removes a client, every loop of CEventHandler calls each
\* client of its list that may read the event exactly once, in the order
\* of the list (backwards for DefaultCommand), and stops early only on the
\* answer of Explosion or DefaultCommand, having then called every reader
\* before the last one it called.
THEOREM DeliveredInOrderOnceWithoutReentry ==
  ASSUME ~Reentrant
  PROVE  Spec => DeliveredInOrderOnce
<1>1. Spec => [](IInv /\ LoopInv)
  BY InitIInv, InitLoopInv, NextIInv, NextLoopInv, PTL DEF Spec
<1>2. IInv /\ LoopInv /\ [Next]_vars => [EndsDelivered]_vars
  BY StepDelivered
<1>3. Spec => [][EndsDelivered]_vars
  BY <1>1, <1>2, PTL DEF Spec
<1>4. EndsDelivered <=>
        (pc = "loop" /\ pc' = "idle" =>
           LET kept == {j \in 1..Len(calls') : calls'[j] \in stayed'}
               got  == {calls'[j] : j \in kept}
               want == {c \in Members(snap) \cap stayed' : Reads(c, ev)}
           IN  /\ \A j, k \in kept : j < k => Ahead(ev, calls'[j], calls'[k])
               /\ got \subseteq want
               /\ IF ev.loop \in {"explosion", "default"}
                  THEN /\ \A r \in want, g \in got : Ahead(ev, r, g) => r \in got
                       /\ ~answer' => want \subseteq got
                  ELSE want \subseteq got)
  BY DEF EndsDelivered, Delivered
<1>. QED
  BY <1>3, <1>4, PTL DEF DeliveredInOrderOnce

=============================================================================
