----------------------------- MODULE Placement -----------------------------
(***************************************************************************)
(* The strategies that place by load (internal/balancer, consistenthash.go *)
(* and leastconnections.go): requests read the counters of the backends    *)
(* one after another, choose, and only then, in Core.serve, count          *)
(* themselves.  Other requests come and go between any two of these steps. *)
(*                                                                         *)
(* The score of a backend for a key is a fixed hash: all that matters of   *)
(* it is the order it puts the backends in.                                *)
(***************************************************************************)
EXTENDS Integers, FiniteSets, Functions

CONSTANTS
    Servers,   \* the backends, numbered by their place in the pool
    Askers,    \* requests
    Ranks,     \* for each key, the place of each backend by its score, the highest first
    Capacity,  \* the weight of each backend
    Factor     \* balance_factor, in per cent; 0 for no bound

ASSUME PlacementAssumption ==
    /\ Servers \subseteq Nat /\ IsFiniteSet(Servers) /\ IsFiniteSet(Askers)
    /\ Ranks \subseteq [Servers -> Nat]
    /\ \A rank \in Ranks : \A a, b \in Servers : rank[a] = rank[b] => a = b
    /\ Capacity \in [Servers -> Nat \ {0}]
    /\ Factor \in Nat /\ (Factor = 0 \/ Factor >= 100)  \* validateConsistentHash

VARIABLES
    serving,   \* Backend.active
    ask,       \* what each request is doing:
               \*   at: its stage;  among: its candidates;
               \*   keyed, rank: whether it has a key, and the order of that key;
               \*   left: the backends whose counters it has yet to read;
               \*   read: the sum, or the counter, it has read;
               \*   goes: the backend chosen;  room: whether for the room it had
    moves      \* history: how often counters moved since the request began to choose,
               \* up to one more than there are requests

placementVars == <<serving, ask, moves>>

Unranked == [b \in Servers |-> 0]

Idle == [at |-> "idle", among |-> {}, keyed |-> FALSE, rank |-> Unranked, left |-> {}, read |-> 0,
         goes |-> 0, room |-> FALSE]

PlacementInit ==
    /\ serving = [b \in Servers |-> 0]
    /\ ask = [r \in Askers |-> Idle]
    /\ moves = [r \in Askers |-> 0]

TotalCapacity(C) == SumFunctionOnSet(Capacity, C)

\* A request goes on to its next stage without moving a counter.
Proceed(r, to) == ask' = [ask EXCEPT ![r] = to] /\ UNCHANGED <<serving, moves>>
Chosen(r, b, room) == [ask[r] EXCEPT !.at = "chosen", !.left = {}, !.read = 0,
                                     !.goes = b, !.room = room]

-----------------------------------------------------------------------------
(* ConsistentHash.SelectFor.                                               *)

\* The order of the pool, and ConsistentHash.Home.
FirstOf(C) == CHOOSE b \in C : \A a \in C : b <= a
HomeOf(rank, C) == CHOOSE b \in C : \A a \in C : rank[b] <= rank[a]

BeginKeyed(r, C, rank) ==
    /\ ask[r] = Idle
    /\ Proceed(r, LET q == [Idle EXCEPT !.among = C, !.keyed = TRUE, !.rank = rank]
                  IN  IF Factor = 0 THEN [q EXCEPT !.at = "chosen", !.goes = HomeOf(rank, C)]
                      ELSE [q EXCEPT !.at = "adding", !.left = C])

\* room: the counters are added up; then home is tested, and all again in order.
Add(r) ==
    /\ ask[r].at = "adding"
    /\ LET b == FirstOf(ask[r].left)
           q == [ask[r] EXCEPT !.read = @ + serving[b], !.left = @ \ {b}]
       IN  Proceed(r, IF q.left # {} THEN q ELSE [q EXCEPT !.at = "home"])

Ceiling(m, n) == (m + n - 1) \div n

Bound(b, C, requests) == Ceiling(Factor * requests * Capacity[b], 100 * TotalCapacity(C))

\* Slip: the request to be placed is left out of the requests in flight.
HasRoomBeside(r, b) == serving[b] < Bound(b, ask[r].among, ask[r].read)

HasRoom(r, b) == serving[b] < Bound(b, ask[r].among, ask[r].read + 1)

TestHome(r) ==
    /\ ask[r].at = "home"
    /\ LET home == HomeOf(ask[r].rank, ask[r].among)
       IN  Proceed(r, IF HasRoom(r, home) THEN Chosen(r, home, TRUE)
                      ELSE [ask[r] EXCEPT !.at = "testing", !.left = ask[r].among])

Test(r) ==
    /\ ask[r].at = "testing"
    /\ LET b == HomeOf(ask[r].rank, ask[r].left)
       IN  Proceed(r, IF HasRoom(r, b) THEN Chosen(r, b, TRUE)
                      ELSE IF ask[r].left # {b} THEN [ask[r] EXCEPT !.left = @ \ {b}]
                      ELSE Chosen(r, HomeOf(ask[r].rank, ask[r].among), FALSE))

-----------------------------------------------------------------------------
(* LeastConnections.Select, and ConsistentHash.Select.                     *)

\* Slip: the second index is not stepped over the first.
DrawAny(C) == C \X C

Draw(C) == {d \in C \X C : Cardinality(C) > 1 => d[1] # d[2]}

\* Of two backends drawn, the second is read first.
BeginKeyless(r, C) ==
    /\ ask[r] = Idle
    /\ \E d \in Draw(C) :
          Proceed(r, LET q == [Idle EXCEPT !.among = C, !.goes = d[2]]
                     IN  IF Cardinality(C) = 1 THEN [q EXCEPT !.at = "chosen"]
                         ELSE [q EXCEPT !.at = "reading", !.left = {d[1]}])

ReadSecond(r) ==
    /\ ask[r].at = "reading"
    /\ Proceed(r, [ask[r] EXCEPT !.at = "comparing", !.read = serving[ask[r].goes]])

ReadFirst(r) ==
    /\ ask[r].at = "comparing"
    /\ \E first \in ask[r].left :
          Proceed(r, Chosen(r, IF ask[r].read < serving[first] THEN ask[r].goes ELSE first, FALSE))

-----------------------------------------------------------------------------
(* Core.serve.                                                             *)

Choosing(q) == q.at \notin {"idle", "serving"}

\* A counter moves, and r goes on to q.
Count(r, b, change, q) ==
    /\ serving' = [serving EXCEPT ![b] = @ + change]
    /\ ask' = [ask EXCEPT ![r] = q]
    /\ moves' = [s \in Askers |-> IF s = r \/ ~Choosing(ask[s]) THEN 0
                                  ELSE IF moves[s] > Cardinality(Askers) THEN moves[s]
                                  ELSE moves[s] + 1]

\* Backend.Acquire.
Acquire(r) ==
    /\ ask[r].at = "chosen"
    /\ Count(r, ask[r].goes, 1, [Idle EXCEPT !.at = "serving", !.goes = ask[r].goes])

\* The retry budget refuses the attempt: nothing is counted.
Refused(r) ==
    /\ ask[r].at = "chosen"
    /\ ask' = [ask EXCEPT ![r] = Idle]
    /\ moves' = [moves EXCEPT ![r] = 0]
    /\ UNCHANGED serving

\* Backend.Release.
Release(r) ==
    /\ ask[r].at = "serving"
    /\ Count(r, ask[r].goes, -1, Idle)

PlacementNext ==
    \E r \in Askers :
        \/ \E C \in (SUBSET Servers) \ {{}} :
              BeginKeyless(r, C) \/ \E rank \in Ranks : BeginKeyed(r, C, rank)
        \/ Add(r) \/ TestHome(r) \/ Test(r) \/ ReadSecond(r) \/ ReadFirst(r)
        \/ Acquire(r) \/ Refused(r) \/ Release(r)

-----------------------------------------------------------------------------
Underway(C) == SumFunctionOnSet(serving, C)

\* The requests that have chosen, with few enough moves of the counters meanwhile
\* for these to be known.
Settled == {r \in Askers : ask[r].at = "chosen" /\ moves[r] <= Cardinality(Askers)}

\* Where a request goes, as far as the counters it read could tell.  With a key:
\* "some backend always has room, because the bounds add up to more than the
\* requests in flight" (SelectFor), so a request that finds none is sent home only
\* if counters moved while it chose; the backend it goes to is otherwise within its
\* bound, but for what those moves account for, and without any it is the first of
\* the key's order that has room.  Without a key: the backend is not busier than
\* all the other candidates by more than those moves, for the two drawn differ
\* (LeastConnections.Select).
PlacedByLoad ==
    \A r \in Settled :
        LET q == ask[r]
            Full(b) == serving[b] >= Bound(b, q.among, Underway(q.among) + 1)
        IN  /\ Factor > 0 /\ q.keyed /\ ~q.room => moves[r] > 0
            /\ Factor > 0 /\ q.keyed /\ q.room =>
                  serving[q.goes] < Bound(q.goes, q.among, Underway(q.among) + moves[r] + 1)
                                    + moves[r]
            /\ Factor > 0 /\ q.keyed /\ q.room /\ moves[r] = 0 =>
                  \A b \in q.among : q.rank[b] < q.rank[q.goes] => Full(b)
            /\ ~q.keyed /\ Cardinality(q.among) > 1 =>
                  \E b \in q.among \ {q.goes} : serving[q.goes] <= serving[b] + moves[r]

=============================================================================
