------------------------------- MODULE Sticky -------------------------------
(***************************************************************************)
(* Sticky sessions (internal/proxy, sticky.go, and the attempts of         *)
(* ServeHTTP it takes part in), for one client with several requests at    *)
(* once.  A token is known by the backend it names: made from a secret and *)
(* an address, it names that backend under every configuration that has    *)
(* it.  The client keeps the cookie of the answer that came last.          *)
(***************************************************************************)
EXTENDS Integers, Sequences, FiniteSets

CONSTANTS
    Homes,     \* backends
    Visits,    \* requests of the client
    Settings,  \* the configurations, in order: the backends of each, whether sticky
               \* sessions are on, and the attempts a request may make
    NoHome

ASSUME StickyAssumption ==
    /\ Settings \in Seq([pool : SUBSET Homes, sticky : BOOLEAN, attempts : Nat \ {0}])
    /\ Settings # <<>> /\ NoHome \notin Homes

VARIABLES
    inForce,  \* the index of the settings in force
    cookie,   \* what the client holds: a backend's token, or no cookie
    visit     \* the requests:
              \*   stage, under: the snapshot;  pinned: what pins.read returned;
              \*   tried, at: the backend of the attempt;  pin: the cookie its answer carries;
              \*   lost: history, that the pinned backend was not to be had or failed

stickyVars == <<inForce, cookie, visit>>

NoVisit == [stage |-> "none", under |-> 1, pinned |-> NoHome, tried |-> {},
            at |-> NoHome, pin |-> NoHome, lost |-> FALSE]

StickyInit ==
    /\ inForce = 1
    /\ cookie = NoHome
    /\ visit = [v \in Visits |-> NoVisit]

Of(v) == Settings[visit[v].under]

NewSettings ==
    /\ inForce < Len(Settings)
    /\ inForce' = inForce + 1
    /\ UNCHANGED <<cookie, visit>>

\* pins.read: a token no backend of the snapshot has is as good as none.
Visit(v) ==
    /\ visit[v] = NoVisit
    /\ LET now == Settings[inForce]
           known == now.sticky /\ cookie \in now.pool
       IN  visit' = [visit EXCEPT ![v] =
                        [NoVisit EXCEPT !.stage = "placing", !.under = inForce,
                                        !.pinned = IF known THEN cookie ELSE NoHome,
                                        !.lost = ~known]]
    /\ UNCHANGED <<inForce, cookie>>

\* Slip: the cookie is made for the backend of the first attempt.
RenewOnce(v, b) ==
    IF visit[v].tried # {} THEN visit[v].pin
    ELSE IF Of(v).sticky /\ b # visit[v].pinned THEN b ELSE NoHome

\* pins.renew.
Renew(v, b) == IF Of(v).sticky /\ b # visit[v].pinned THEN b ELSE NoHome

\* Slip: whoever is not tried may be chosen, pinned or not.
PlaceAnywhere(v, C) == C

\* Core.place: the pinned backend, or the algorithm's choice.
Place(v, C) == IF visit[v].pinned \in C THEN {visit[v].pinned} ELSE C

\* An attempt: available leaves some of the backends not tried yet.
Attempt(v) ==
    /\ visit[v].stage = "placing"
    /\ \E C \in (SUBSET (Of(v).pool \ visit[v].tried)) \ {{}} : \E b \in Place(v, C) :
          visit' = [visit EXCEPT ![v].stage = "asking", ![v].at = b, ![v].pin = Renew(v, b),
                                 ![v].tried = @ \cup {b},
                                 ![v].lost = @ \/ visit[v].pinned \notin C]
    /\ UNCHANGED <<inForce, cookie>>

\* The attempt fails, an answer with a 5xx that is retried included: its cookie is
\* not sent.  Another attempt follows, or the request ends because no attempt or
\* backend is left, or it may not be repeated, or the client gave up waiting.
Fail(v) ==
    /\ visit[v].stage = "asking"
    /\ \/ /\ Cardinality(visit[v].tried) < Of(v).attempts /\ visit[v].tried # Of(v).pool
          /\ visit' = [visit EXCEPT ![v].stage = "placing", ![v].lost = TRUE]
       \/ visit' = [visit EXCEPT ![v] = NoVisit]
    /\ UNCHANGED <<inForce, cookie>>

\* ModifyResponse adds the cookie, and the client keeps it.
Answer(v) ==
    /\ visit[v].stage = "asking"
    /\ cookie' = IF visit[v].pin = NoHome THEN cookie ELSE visit[v].pin
    /\ visit' = [visit EXCEPT ![v] = NoVisit]
    /\ UNCHANGED inForce

\* The cookie reaches its age.
Expire ==
    /\ cookie' = NoHome
    /\ UNCHANGED <<inForce, visit>>

StickyNext ==
    \/ NewSettings \/ Expire
    \/ \E v \in Visits : Visit(v) \/ Attempt(v) \/ Fail(v) \/ Answer(v)

StickySpec == StickyInit /\ [][StickyNext]_stickyVars

-----------------------------------------------------------------------------
\* A client is moved to another backend only by the answer of that backend, to a
\* request whose own pin was unknown or absent, or whose pinned backend was not a
\* candidate or failed it; with sticky sessions on, every other answer leaves it
\* where it is, whatever reloads, retries and other requests of the client come
\* between (place, renew).
MovedOnlyWhenLost ==
    [][cookie' # cookie /\ cookie' # NoHome =>
          \E v \in Visits :
              visit[v].stage = "asking" /\ visit'[v] = NoVisit /\
              visit[v].lost /\ visit[v].at = cookie']_stickyVars

\* After an answer under sticky sessions, the client was pinned to the backend that
\* answered when it asked, or is now: the next request comes back to it.
AnswersPin ==
    [][\A v \in Visits :
          Answer(v) /\ Of(v).sticky => visit[v].at \in {visit[v].pinned, cookie'}]_stickyVars

\* Sticky sessions keep a client where it is: it is moved only from a backend that
\* was lost, and every answer pins it (sticky.go, place).
PinsHold == MovedOnlyWhenLost /\ AnswersPin

=============================================================================
