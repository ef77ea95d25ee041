---------------------------- MODULE SessionCache ----------------------------
(* The sessions a mock backend remembers (cmd/mockbackend, cache.go).       *)
EXTENDS Integers, Sequences

CONSTANTS
    Sessions,
    Remembered  \* cache.capacity

ASSUME CacheAssumption == Remembered \in Nat \ {0}

VARIABLES
    order,    \* cache.order, the most recently seen at the front
    entries,  \* the keys of cache.entries
    recency   \* history: every session since the last clear, the latest first

cacheVars == <<order, entries, recency>>

CacheInit == order = <<>> /\ entries = {} /\ recency = <<>>

\* Where k is in s, or the place behind the last.
PlaceOf(s, k) ==
    IF \E i \in DOMAIN s : s[i] = k THEN CHOOSE i \in DOMAIN s : s[i] = k ELSE Len(s) + 1

\* k comes first, and those that were before it move back by one.
ToFront(s, k) ==
    LET p == PlaceOf(s, k)
    IN  [i \in 1..(IF p > Len(s) THEN p ELSE Len(s)) |->
            IF i = 1 THEN k ELSE IF i <= p THEN s[i - 1] ELSE s[i]]

\* Slip: a session remembered stays where it is.
SeenInPlace(k) ==
    /\ k \in entries
    /\ UNCHANGED <<order, entries>>

\* seen, of a session that is remembered.
Hit(k) ==
    /\ k \in entries
    /\ order' = ToFront(order, k)
    /\ UNCHANGED entries

\* seen, of one that is not: the oldest makes room.
Miss(k) ==
    /\ k \notin entries
    /\ LET longer == <<k>> \o order
       IN  IF Len(longer) > Remembered
           THEN /\ order' = SubSeq(longer, 1, Remembered)
                /\ entries' = (entries \cup {k}) \ {longer[Len(longer)]}
           ELSE order' = longer /\ entries' = entries \cup {k}

Seen(k) == (Hit(k) \/ Miss(k)) /\ recency' = ToFront(recency, k)

Forget == order' = <<>> /\ entries' = {} /\ recency' = <<>>

CacheNext == Forget \/ \E k \in Sessions : Seen(k)

\* The list and the map agree, and hold the sessions seen latest, as many as there
\* is room for, each once (seen, clear).
RemembersTheLatest ==
    /\ order = SubSeq(recency, 1, IF Len(recency) < Remembered THEN Len(recency) ELSE Remembered)
    /\ entries = {order[i] : i \in DOMAIN order}

=============================================================================
