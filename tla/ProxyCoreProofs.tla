-------------------------- MODULE ProxyCoreProofs --------------------------
(***************************************************************************)
(* Proofs about the forwarding core, for any number of requests, backends  *)
(* and configurations, any pools and any set of faulty backends.           *)
(*                                                                         *)
(* The inductive invariant IInv says of each request what its own record   *)
(* must be (Sound), and of each counter that it counts the requests which  *)
(* are in its use (Exact).  A step is taken by one request: it is shown to *)
(* keep that request sound, and to add to each counter what the request    *)
(* itself begins or stops to add (Balanced).                               *)
(***************************************************************************)
EXTENDS ProxyCoreProperties, FiniteSetTheorems, TLAPS

\* The stages of a request that has not reached a backend in this attempt.
Unsent == {"out", "body", "scan", "asking", "refused", "dial"}

\* The stages of an attempt that failed, until it is left.
Failing == {"failed", "blamed", "unwind"}

\* The stages of an attempt that has been given a backend.
Placing == Serving \cup {"asking", "refused"}

\* A request that is not idempotent and is about to be placed, or whose dial
\* failed, has reached nobody: that is what makes the next attempt harmless.
SentOnce(q) ==
    ~q.idempotent =>
        /\ \A b, c \in q.seen : b = c
        /\ q.pc \in Unsent => q.seen = {}
        /\ q.pc \in Failing /\ q.err = "dial" => q.seen = {}

\* Nothing was begun towards the client before an answer started, nor by an
\* attempt that is retried.
RepliedOnce(q) ==
    /\ q.replies \in {0, 1}
    /\ q.pc \in Unsent \cup {"sent"} => q.replies = 0
    /\ q.pc \in Failing /\ q.err \in {"dial", "lost", "5xx", "cancelled"} => q.replies = 0

\* The error of an attempt is set while it fails and is being left.
ErrorOfThisAttempt(q) == q.pc \notin Failing => q.err = "none"

\* An attempt has a backend, and a request between attempts has none; what
\* available found fit is kept until the choice; only a retry asks the budget, and
\* what it was told is kept no longer than that.
Placed(q) ==
    /\ q.pc \in Placing => q.at \in Addrs
    /\ q.pc \in {"out", "body", "scan"} => q.at = Nobody
    /\ q.pc # "scan" => q.fit = {}
    /\ q.pc \in {"asking", "refused"} => q.n > 0
    /\ q.pc # "asking" => q.ticket = 0

\* An attempt fails because the client hung up, its body broke off on the way to the
\* backend, or the backend is faulty.
BlamesTheFaulty(q) ==
    /\ q.pc = "failed" => q.gone \/ q.at \in Faulty \/ StreamsBroken(q)
    /\ q.pc = "blamed" => q.at \in Faulty \/ StreamsBroken(q)

\* As many backends were tried as the policy and the pool of snapshot i allow.
Exhausts(tried, i) ==
    Cardinality(tried) =
        IF Attempts(i) < Cardinality(Pool(i)) THEN Attempts(i) ELSE Cardinality(Pool(i))

\* Each attempt is at a backend of the pool that none before it was at, so the
\* attempts are counted by the backends tried.
TriesOthers(q) ==
    /\ q.tried \subseteq Pool(q.snap)
    /\ q.fit \subseteq Pool(q.snap) \ q.tried
    /\ q.n < Attempts(q.snap)
    /\ q.pc \in {"out", "body", "scan"} => Cardinality(q.tried) = q.n
    /\ q.pc \in Placing => Cardinality(q.tried) = q.n + 1
    /\ q.pc \notin {"closing", "done"} => q.verdict = "none"
    /\ q.verdict = "no_backend" => Exhausts(q.tried, q.snap)

Sound(q) ==
    /\ SentOnce(q) /\ RepliedOnce(q) /\ ErrorOfThisAttempt(q)
    /\ Placed(q) /\ BlamesTheFaulty(q) /\ TriesOthers(q)

\* A request with record q is in the load of snapshot i, uses one of its retries,
\* is at backend b.
InLoad(i, q) == q.snap = i /\ q.pc \notin {"out", "body", "done"}
Retrying(i, q) ==
    /\ q.snap = i
    /\ q.pc \in {"asking", "refused"} \/ (q.n > 0 /\ q.pc \in Serving)
AtBackend(b, q) == q.pc \in Serving /\ q.at = b

\* The counters of every snapshot's budget and of every backend count those.
Exact ==
    /\ \A i \in Snapshots :
          /\ requests[i] = Cardinality({r \in Requests : InLoad(i, req[r])})
          /\ retries[i] = Cardinality({r \in Requests : Retrying(i, req[r])})
    /\ \A b \in Addrs : active[b] = Cardinality({r \in Requests : AtBackend(b, req[r])})

IInv ==
    /\ TypeOK
    /\ \A r \in Requests : Sound(req[r])
    /\ Exact

-----------------------------------------------------------------------------
(* What a step of request r does, in the terms the invariant needs.        *)

Fields == {"pc", "snap", "idempotent", "body", "gone", "n", "next", "fit", "tried", "at",
           "ticket", "err", "seen", "replies", "verdict"}

\* The other requests stay as they are, and so do r's fields outside F.
Changes(r, F) ==
    /\ req' \in [Requests -> Records]
    /\ \A s \in Requests \ {r} : req'[s] = req[s]
    /\ \A f \in Fields \ F : req'[r][f] = req[r][f]

\* r goes on to another stage.
Moves(r, from, to, F) ==
    /\ req[r].pc \in from /\ req'[r].pc = to
    /\ Changes(r, F)

Weight(counted) == IF counted THEN 1 ELSE 0

\* Each counter changes by what r begins, or stops, to add to it.
Balanced(r) ==
    /\ requests' \in [Snapshots -> Int] /\ retries' \in [Snapshots -> Int]
    /\ active' \in [Addrs -> Int]
    /\ \A i \in Snapshots :
          /\ requests'[i] = requests[i] + Weight(InLoad(i, req'[r])) - Weight(InLoad(i, req[r]))
          /\ retries'[i] = retries[i] + Weight(Retrying(i, req'[r])) - Weight(Retrying(i, req[r]))
    /\ \A b \in Addrs :
          active'[b] = active[b] + Weight(AtBackend(b, req'[r])) - Weight(AtBackend(b, req[r]))

\* r goes on in its use of a budget as tryRetry and the deferred releases do.
Goes(i, r, from, to) ==
    Use(i, req[r]) = from /\ Use(i, req'[r]) = to
Transits(r) ==
    \A i \in Snapshots :
        \/ /\ Use(i, req'[r]) = Use(i, req[r])
           /\ TicketOf(i, req'[r]) = TicketOf(i, req[r])
        \/ /\ TicketOf(i, req'[r]) = TicketOf(i, req[r])
           /\ \/ Goes(i, r, "out", "in") \/ Goes(i, r, "in", "out")
              \/ Goes(i, r, "refused", "in") \/ Goes(i, r, "holding", "in")
        \/ Goes(i, r, "in", "asking") /\ TicketOf(i, req'[r]) = retries[i] + 1
        \/ /\ TicketOf(i, req'[r]) = 0 /\ i = req[r].snap
           /\ \/ Goes(i, r, "asking", "holding") /\ WithinBudget(r)
              \/ Goes(i, r, "asking", "refused") /\ ~WithinBudget(r)

\* What is shown of every step of a request.
Kept(r) ==
    /\ Changes(r, Fields)
    /\ Sound(req'[r])
    /\ Balanced(r)
    /\ Transits(r)

-----------------------------------------------------------------------------
(* The configurations and their pools.                                     *)

\* A snapshot has a configuration, and the first one exists.
LEMMA ConfigTypes ==
    /\ 1 \in Snapshots
    /\ \A i \in Snapshots : Configs[i] \in
          [policy : Policies, maxRetries : Nat, retryOn5xx : BOOLEAN, pool : Seq(Addrs)]
<1>1. Len(Configs) \in Nat /\ Len(Configs) # 0
  BY CoreAssumption
<1> DEFINE Config == [policy : Policies, maxRetries : Nat, retryOn5xx : BOOLEAN,
                      pool : Seq(Addrs)]
<1>2. Configs \in Seq(Config)
  BY CoreAssumption
<1> HIDE DEF Config
<1>3. \A i \in 1..Len(Configs) : Configs[i] \in Config
  BY <1>2
<1> QED
  BY <1>1, <1>3 DEF Snapshots, Config

\* A request is offered to one backend at least (attemptsFor).
LEMMA AttemptsPositive ==
    ASSUME NEW i \in Snapshots
    PROVE  Attempts(i) \in Nat \ {0}
<1>1. Configs[i].maxRetries \in Nat
  BY ConfigTypes
<1> QED
  BY <1>1 DEF Attempts

\* What available looks at is in the pool; a pool is a finite set of addresses.
LEMMA PoolOfAddrs ==
    ASSUME NEW i \in Snapshots
    PROVE  /\ \A k \in Nat \ {0} : k <= Len(Configs[i].pool) => Configs[i].pool[k] \in Pool(i)
           /\ Pool(i) \subseteq Addrs
           /\ IsFiniteSet(Pool(i)) /\ Cardinality(Pool(i)) \in Nat
<1> DEFINE pool == Configs[i].pool
<1>1. pool \in Seq(Addrs)
  BY ConfigTypes
<1>2. Pool(i) = {pool[k] : k \in 1..Len(pool)}
  BY DEF Pool
<1> HIDE DEF pool
<1>3. Len(pool) \in Nat /\ \A k \in 1..Len(pool) : pool[k] \in Addrs
  BY <1>1
<1>4. /\ \A k \in Nat \ {0} : k <= Len(pool) => pool[k] \in Pool(i)
      /\ Pool(i) \subseteq Addrs
  BY <1>2, <1>3
<1>5. IsFiniteSet(Pool(i))
  <2> DEFINE f == [k \in 1..Len(pool) |-> pool[k]]
  <2>1. f \in [1..Len(pool) -> Pool(i)] /\ \A b \in Pool(i) : \E k \in 1..Len(pool) : f[k] = b
    BY <1>2
  <2>2. f \in Surjection(1..Len(pool), Pool(i))
    BY <2>1 DEF Surjection
  <2>3. IsFiniteSet(1..Len(pool))
    BY <1>3, FS_Interval
  <2> QED
    BY <2>2, <2>3, FS_Surjection DEF ExistsSurjection
<1> QED
  BY <1>4, <1>5, FS_CardinalityType DEF pool

\* The backends a request tried are finitely many, and one more is one more.
LEMMA OneMoreTried ==
    ASSUME NEW i \in Snapshots, NEW tried \in SUBSET Pool(i)
    PROVE  /\ Cardinality(tried) \in Nat /\ Cardinality(tried) <= Cardinality(Pool(i))
           /\ \A b \in Pool(i) \ tried :
                 Cardinality(tried \cup {b}) = Cardinality(tried) + 1
<1>1. IsFiniteSet(tried) /\ Cardinality(tried) <= Cardinality(Pool(i))
  BY PoolOfAddrs, FS_Subset
<1> QED
  BY <1>1, FS_AddElement, FS_CardinalityType

-----------------------------------------------------------------------------
(* The changes of a record, one lemma for each form of assignment.         *)

\* A record written anew.
LEMMA Rewritten ==
    ASSUME TypeOK, NEW r \in Requests, NEW q \in Records, req' = [req EXCEPT ![r] = q],
           NEW F, \A f \in Fields \ F : q[f] = req[r][f]
    PROVE  Changes(r, F) /\ req'[r] = q
BY DEF TypeOK, Changes

LEMMA SetStage ==
    ASSUME TypeOK, NEW r \in Requests, NEW stage \in Stages,
           req' = [req EXCEPT ![r].pc = stage]
    PROVE  Changes(r, {"pc"}) /\ req'[r].pc = stage
<1> DEFINE q == req[r]
           p == [q EXCEPT !.pc = stage]
<1>1. q \in Records /\ req' = [req EXCEPT ![r] = p]
  BY DEF TypeOK
<1> HIDE DEF q
<1>2. p \in Records /\ p.pc = stage /\ \A f \in Fields \ {"pc"} : p[f] = q[f]
  BY <1>1 DEF Records, Fields
<1> HIDE DEF p
<1>5. Changes(r, {"pc"}) /\ req'[r] = p
  <2>1. \A f \in Fields \ {"pc"} : p[f] = req[r][f]
    BY <1>2 DEF q
  <2>2. p \in Records /\ req' = [req EXCEPT ![r] = p]
    BY <1>1, <1>2
  <2> QED
    BY <2>1, <2>2, Rewritten
<1> QED
  BY <1>2, <1>5 DEF q

LEMMA SetError ==
    ASSUME TypeOK, NEW r \in Requests, NEW stage \in Stages, NEW err \in Errors,
           req' = [req EXCEPT ![r].pc = stage, ![r].err = err]
    PROVE  Changes(r, {"pc", "err"}) /\ req'[r].pc = stage /\ req'[r].err = err
<1> DEFINE q == req[r]
           p == [q EXCEPT !.pc = stage, !.err = err]
<1>1. q \in Records /\ req' = [req EXCEPT ![r] = p]
  BY DEF TypeOK
<1> HIDE DEF q
<1>2. p \in Records /\ p.pc = stage /\ p.err = err /\ \A f \in Fields \ {"pc", "err"} : p[f] = q[f]
  BY <1>1 DEF Records, Fields
<1> HIDE DEF p
<1>5. Changes(r, {"pc", "err"}) /\ req'[r] = p
  <2>1. \A f \in Fields \ {"pc", "err"} : p[f] = req[r][f]
    BY <1>2 DEF q
  <2>2. p \in Records /\ req' = [req EXCEPT ![r] = p]
    BY <1>1, <1>2
  <2> QED
    BY <2>1, <2>2, Rewritten
<1> QED
  BY <1>2, <1>5 DEF q

LEMMA SetSeen ==
    ASSUME TypeOK, NEW r \in Requests, req[r].at \in Addrs,
           req' = [req EXCEPT ![r].pc = "sent", ![r].seen = @ \cup {req[r].at}]
    PROVE  /\ Changes(r, {"pc", "seen"}) /\ req'[r].pc = "sent"
           /\ req'[r].seen = req[r].seen \cup {req[r].at}
<1> DEFINE q == req[r]
           seen == q.seen \cup {q.at}
           p == [q EXCEPT !.pc = "sent", !.seen = seen]
<1>1. q \in Records /\ req' = [req EXCEPT ![r] = p]
  BY DEF TypeOK
<1>2. seen \in SUBSET Addrs
  BY <1>1 DEF Records
<1> HIDE DEF q, seen
<1>3. p \in Records /\ p.pc = "sent" /\ p.seen = seen /\ \A f \in Fields \ {"pc", "seen"} : p[f] = q[f]
  BY <1>1, <1>2 DEF Records, Fields, Stages
<1> HIDE DEF p
<1>4. Changes(r, {"pc", "seen"}) /\ req'[r] = p
  BY <1>1, <1>3, Rewritten DEF q
<1> QED
  BY <1>3, <1>4 DEF q, seen

LEMMA SetReplies ==
    ASSUME TypeOK, NEW r \in Requests,
           req' = [req EXCEPT ![r].pc = "streaming", ![r].replies = @ + 1]
    PROVE  /\ Changes(r, {"pc", "replies"}) /\ req'[r].pc = "streaming"
           /\ req'[r].replies = req[r].replies + 1
<1> DEFINE q == req[r]
           F == {"pc", "replies"}
           begun == q.replies + 1
           p == [q EXCEPT !.pc = "streaming", !.replies = begun]
<1>1. q \in Records /\ req' = [req EXCEPT ![r] = p]
  BY DEF TypeOK
<1>2. begun \in Nat
  BY <1>1 DEF Records
<1> HIDE DEF q, begun
<1>3. /\ p \in Records /\ p.pc = "streaming" /\ p.replies = begun
      /\ \A f \in Fields \ F : p[f] = q[f]
  BY <1>1, <1>2 DEF Records, Fields, Stages
<1> HIDE DEF p, F
<1>4. Changes(r, F) /\ req'[r] = p
  <2>1. \A f \in Fields \ F : p[f] = req[r][f]
    BY <1>3 DEF q
  <2>2. p \in Records /\ req' = [req EXCEPT ![r] = p]
    BY <1>1, <1>3
  <2> QED
    BY <2>1, <2>2, Rewritten
<1> QED
  BY <1>3, <1>4 DEF q, F, begun

LEMMA SetVerdict ==
    ASSUME TypeOK, NEW r \in Requests,
           req' = [req EXCEPT ![r].pc = "done", ![r].verdict = "too_large", ![r].replies = @ + 1]
    PROVE  /\ Changes(r, {"pc", "verdict", "replies"}) /\ req'[r].pc = "done"
           /\ req'[r].verdict = "too_large" /\ req'[r].replies = req[r].replies + 1
<1> DEFINE q == req[r]
           begun == q.replies + 1
           p == [q EXCEPT !.pc = "done", !.verdict = "too_large", !.replies = begun]
<1>1. q \in Records /\ req' = [req EXCEPT ![r] = p]
  BY DEF TypeOK
<1>2. begun \in Nat
  BY <1>1 DEF Records
<1> HIDE DEF q, begun
<1>3. /\ p \in Records /\ p.pc = "done" /\ p.verdict = "too_large" /\ p.replies = begun
      /\ \A f \in Fields \ {"pc", "verdict", "replies"} : p[f] = q[f]
  BY <1>1, <1>2 DEF Records, Fields, Stages, Verdicts
<1> HIDE DEF p
<1> QED
  BY <1>1, <1>3, Rewritten DEF q, begun

LEMMA SetTicket ==
    ASSUME TypeOK, NEW r \in Requests, NEW stage \in Stages,
           req' = [req EXCEPT ![r].pc = stage, ![r].ticket = 0]
    PROVE  Changes(r, {"pc", "ticket"}) /\ req'[r].pc = stage /\ req'[r].ticket = 0
<1> DEFINE q == req[r]
           p == [q EXCEPT !.pc = stage, !.ticket = 0]
<1>1. q \in Records /\ req' = [req EXCEPT ![r] = p]
  BY DEF TypeOK
<1> HIDE DEF q
<1>2. /\ p \in Records /\ p.pc = stage /\ p.ticket = 0
      /\ \A f \in Fields \ {"pc", "ticket"} : p[f] = q[f]
  BY <1>1 DEF Records, Fields
<1> HIDE DEF p
<1> QED
  BY <1>1, <1>2, Rewritten DEF q

LEMMA SetAttempt ==
    ASSUME TypeOK, NEW r \in Requests,
           req' = [req EXCEPT ![r].pc = "scan", ![r].n = @ + 1, ![r].at = Nobody, ![r].err = "none"]
    PROVE  /\ Changes(r, {"pc", "n", "at", "err"}) /\ req'[r].pc = "scan"
           /\ req'[r].n = req[r].n + 1 /\ req'[r].err = "none" /\ req'[r].at = Nobody
<1> DEFINE q == req[r]
           later == q.n + 1
           p == [q EXCEPT !.pc = "scan", !.n = later, !.at = Nobody, !.err = "none"]
<1>1. q \in Records /\ req' = [req EXCEPT ![r] = p]
  BY DEF TypeOK
<1>2. later \in Nat
  BY <1>1 DEF Records
<1> HIDE DEF q, later
<1>3. /\ p \in Records /\ p.pc = "scan" /\ p.n = later /\ p.err = "none" /\ p.at = Nobody
      /\ \A f \in Fields \ {"pc", "n", "at", "err"} : p[f] = q[f]
  BY <1>1, <1>2 DEF Records, Fields, Stages, Errors
<1> HIDE DEF p
<1>5. Changes(r, {"pc", "n", "at", "err"}) /\ req'[r] = p
  <2>1. \A f \in Fields \ {"pc", "n", "at", "err"} : p[f] = req[r][f]
    BY <1>3 DEF q
  <2>2. p \in Records /\ req' = [req EXCEPT ![r] = p]
    BY <1>1, <1>3
  <2> QED
    BY <2>1, <2>2, Rewritten
<1> QED
  BY <1>3, <1>5 DEF q, later

LEMMA SetGone ==
    ASSUME TypeOK, NEW r \in Requests, req' = [req EXCEPT ![r].gone = TRUE]
    PROVE  Changes(r, {"gone"}) /\ req'[r].gone = TRUE
<1> DEFINE q == req[r]
           p == [q EXCEPT !.gone = TRUE]
<1>1. q \in Records /\ req' = [req EXCEPT ![r] = p]
  BY DEF TypeOK
<1> HIDE DEF q
<1>2. p \in Records /\ p.gone = TRUE /\ \A f \in Fields \ {"gone"} : p[f] = q[f]
  BY <1>1 DEF Records, Fields
<1> HIDE DEF p
<1> QED
  BY <1>1, <1>2, Rewritten DEF q

LEMMA SetFit ==
    ASSUME TypeOK, NEW r \in Requests, NEW b \in Addrs, NEW fit \in BOOLEAN,
           req' = [req EXCEPT ![r].next = @ + 1, ![r].fit = IF fit THEN @ \cup {b} ELSE @]
    PROVE  /\ Changes(r, {"next", "fit"})
           /\ req'[r].fit = IF fit THEN req[r].fit \cup {b} ELSE req[r].fit
<1> DEFINE q == req[r]
           later == q.next + 1
           found == IF fit THEN q.fit \cup {b} ELSE q.fit
           p == [q EXCEPT !.next = later, !.fit = found]
<1>1. q \in Records /\ req' = [req EXCEPT ![r] = p]
  BY DEF TypeOK
<1>2. later \in Nat \ {0} /\ found \in SUBSET Addrs
  BY <1>1 DEF Records
<1> HIDE DEF q, later, found
<1>3. p \in Records /\ p.fit = found /\ \A f \in Fields \ {"next", "fit"} : p[f] = q[f]
  BY <1>1, <1>2 DEF Records, Fields
<1> HIDE DEF p
<1> QED
  BY <1>1, <1>3, Rewritten DEF q, found

LEMMA SetChosen ==
    ASSUME TypeOK, NEW r \in Requests, NEW b \in Addrs, NEW stage \in {"dial", "asking"},
           Chooses(r, b, stage)
    PROVE  /\ Changes(r, {"pc", "at", "tried", "next", "fit", "ticket"})
           /\ req'[r].pc = stage /\ req'[r].at = b
           /\ req'[r].tried = req[r].tried \cup {b} /\ req'[r].fit = {}
           /\ req'[r].ticket = IF stage = "asking" THEN retries[req[r].snap] + 1 ELSE 0
<1> DEFINE q == req[r]
           tried == q.tried \cup {b}
           ticket == IF stage = "asking" THEN retries[q.snap] + 1 ELSE 0
           first == 1
           none == {}
           p == [q EXCEPT !.pc = stage, !.at = b, !.tried = tried, !.next = first,
                          !.fit = none, !.ticket = ticket]
<1>1. q \in Records /\ req' = [req EXCEPT ![r] = p]
  <2>1. req' = [req EXCEPT ![r] = p]
    BY DEF Chooses
  <2> QED
    BY <2>1 DEF TypeOK
<1>2. /\ tried \in SUBSET Addrs /\ ticket \in Nat
      /\ first \in Nat \ {0} /\ none \in SUBSET Addrs
  <2>1. q.tried \in SUBSET Addrs /\ q.snap \in Snapshots
    BY <1>1 DEF Records
  <2>2. retries[q.snap] \in Nat
    BY <2>1 DEF TypeOK
  <2> QED
    BY <2>1, <2>2
<1> HIDE DEF q, tried, ticket, first, none
<1>3. p \in Records
  BY <1>1, <1>2 DEF Records, Stages
<1>4. /\ p.pc = stage /\ p.at = b /\ p.tried = tried /\ p.fit = none /\ p.ticket = ticket
      /\ \A f \in Fields \ {"pc", "at", "tried", "next", "fit", "ticket"} : p[f] = q[f]
  BY <1>1 DEF Records, Fields
<1> HIDE DEF p
<1> QED
  BY <1>1, <1>3, <1>4, Rewritten DEF q, tried, ticket, none

LEMMA SetClosing ==
    ASSUME TypeOK, NEW r \in Requests, NEW verdict \in Verdicts, NEW page \in BOOLEAN,
           Closes(r, verdict, page)
    PROVE  /\ Changes(r, {"pc", "at", "err", "verdict", "replies"})
           /\ req'[r].pc = "closing" /\ req'[r].err = "none" /\ req'[r].verdict = verdict
           /\ req'[r].at = Nobody
           /\ req'[r].replies = IF page THEN req[r].replies + 1 ELSE req[r].replies
<1> DEFINE q == req[r]
           F == {"pc", "at", "err", "verdict", "replies"}
           begun == IF page THEN q.replies + 1 ELSE q.replies
           p == [q EXCEPT !.pc = "closing", !.at = Nobody, !.err = "none",
                          !.verdict = verdict, !.replies = begun]
<1>1. q \in Records /\ req' = [req EXCEPT ![r] = p]
  <2>1. req' = [req EXCEPT ![r] = p]
    BY DEF Closes
  <2> QED
    BY <2>1 DEF TypeOK
<1>2. begun \in Nat
  BY <1>1 DEF Records
<1> HIDE DEF q, begun
<1>3. p \in Records
  BY <1>1, <1>2 DEF Records, Stages, Errors
<1>4. /\ p.pc = "closing" /\ p.err = "none" /\ p.verdict = verdict /\ p.replies = begun
      /\ p.at = Nobody
      /\ \A f \in Fields \ F : p[f] = q[f]
  BY <1>1 DEF Records, Fields
<1> HIDE DEF p, F
<1>5. Changes(r, F) /\ req'[r] = p
  <2>1. \A f \in Fields \ F : p[f] = req[r][f]
    BY <1>4 DEF q
  <2>2. p \in Records /\ req' = [req EXCEPT ![r] = p]
    BY <1>1, <1>3
  <2> QED
    BY <2>1, <2>2, Rewritten
<1> QED
  BY <1>4, <1>5 DEF q, F, begun

-----------------------------------------------------------------------------
(* The use of the counters.                                                *)

\* What the invariant says of a request, in one place.
LEMMA SoundNow ==
    ASSUME IInv, NEW r \in Requests
    PROVE  /\ TypeOK /\ Sound(req[r]) /\ req[r] \in Records
           /\ req[r].snap \in Snapshots /\ req[r].n \in Nat /\ req[r].err \in Errors
           /\ req[r].replies \in Nat
BY DEF IInv, TypeOK, Records

\* A step that leaves the request where it is, as far as the counters go, and
\* leaves the counters alone.
LEMMA Quiet ==
    ASSUME TypeOK, NEW r \in Requests, NEW F, Changes(r, F),
           F \cap {"snap", "n", "at", "ticket"} = {},
           \/ req[r].pc \in Serving /\ req'[r].pc \in Serving
           \/ req[r].pc \in {"out", "body", "done"} /\ req'[r].pc \in {"out", "body", "done"}
           \/ req[r].pc = req'[r].pc,
           UNCHANGED <<requests, retries, active>>
    PROVE  Balanced(r) /\ Transits(r)
<1>1. /\ req'[r].snap = req[r].snap /\ req'[r].n = req[r].n /\ req'[r].at = req[r].at
      /\ req'[r].ticket = req[r].ticket
  BY DEF Changes, Fields
<1>2. /\ requests' \in [Snapshots -> Int] /\ retries' \in [Snapshots -> Int]
      /\ active' \in [Addrs -> Int]
  BY DEF TypeOK
<1>3. Balanced(r)
  BY <1>1, <1>2 DEF Balanced, Weight, InLoad, Retrying, AtBackend, Serving
<1>4. Transits(r)
  BY <1>1 DEF Transits, Use, TicketOf, Serving
<1> QED
  BY <1>3, <1>4

\* Adding one to a counter, or taking one off, leaves the others.
LEMMA Counters ==
    ASSUME TypeOK
    PROVE  /\ \A f \in {requests, retries} : \A i \in Snapshots :
                 /\ [f EXCEPT ![i] = @ + 1] \in [Snapshots -> Int]
                 /\ [f EXCEPT ![i] = @ - 1] \in [Snapshots -> Int]
           /\ \A b \in Addrs :
                 /\ [active EXCEPT ![b] = @ + 1] \in [Addrs -> Int]
                 /\ [active EXCEPT ![b] = @ - 1] \in [Addrs -> Int]
           /\ requests \in [Snapshots -> Int] /\ retries \in [Snapshots -> Int]
           /\ active \in [Addrs -> Int]
BY DEF TypeOK

-----------------------------------------------------------------------------
(* Every step of a request keeps it sound and the counters balanced.       *)

\* Steps that only go on to the next stage of an attempt.
LEMMA AlongKept ==
    ASSUME IInv, NEW r \in Requests,
           \/ Complete(r) \/ Credit(r) \/ CloseCircuit(r)
           \/ Blame(r) \/ Excuse(r) \/ TripCircuit(r)
    PROVE  Kept(r)
<1> DEFINE Along(from, to) == Moves(r, {from}, to, {"pc"})
<1> USE SetStage, SoundNow DEF At, Moves, Stages
<1>1. /\ UNCHANGED <<requests, retries, active>>
      /\ \/ Along("streaming", "served") \/ Along("served", "credited")
         \/ Along("credited", "unwind") \/ Along("blamed", "unwind")
         \/ Along("failed", "unwind")
         \/ Along("failed", "blamed") /\ ~req[r].gone
  <2>1. CASE Complete(r)
    BY <2>1 DEF Complete
  <2>2. CASE Credit(r)
    BY <2>2 DEF Credit
  <2>3. CASE CloseCircuit(r)
    BY <2>3 DEF CloseCircuit
  <2>4. CASE Blame(r)
    BY <2>4 DEF Blame
  <2>5. CASE Excuse(r)
    BY <2>5 DEF Excuse
  <2>6. CASE TripCircuit(r)
    BY <2>6 DEF TripCircuit
  <2> QED
    BY <2>1, <2>2, <2>3, <2>4, <2>5, <2>6
<1>2. Changes(r, {"pc"}) /\ req[r].pc \in Serving /\ req'[r].pc \in Serving
  BY <1>1 DEF Serving
<1>3. Balanced(r) /\ Transits(r)
  BY <1>1, <1>2, Quiet
<1>4. Sound(req'[r])
  BY <1>1
  DEF Changes, Fields, Sound, SentOnce, RepliedOnce, ErrorOfThisAttempt, Placed,
      BlamesTheFaulty, StreamsBroken, Streamed, TriesOthers, Unsent, Failing, Placing,
      Serving
<1> QED
  BY <1>2, <1>3, <1>4 DEF Kept, Changes

\* Entering the load, or being turned away, and leaving it.
LEMMA BoundaryKept ==
    ASSUME IInv, NEW r \in Requests, RefuseBody(r) \/ Start(r) \/ Finish(r)
    PROVE  Kept(r)
<1> USE SoundNow DEF At
<1>1. CASE RefuseBody(r)
  <2>1. /\ Moves(r, {"body"}, "done", {"pc", "verdict", "replies"})
        /\ req'[r].verdict = "too_large" /\ req'[r].replies = req[r].replies + 1
        /\ UNCHANGED <<requests, retries, active>>
    BY <1>1, SetVerdict DEF RefuseBody, Moves
  <2>2. Changes(r, {"pc", "verdict", "replies"})
    BY <2>1 DEF Moves, Changes
  <2>3. Balanced(r) /\ Transits(r)
    BY <2>1, <2>2, Quiet DEF Moves
  <2>4. Sound(req'[r])
    BY <2>1
    DEF Moves, Changes, Fields, Sound, SentOnce, RepliedOnce, ErrorOfThisAttempt, Placed,
        BlamesTheFaulty, StreamsBroken, Streamed, TriesOthers, Unsent, Failing, Placing,
        Serving
  <2> QED
    BY <2>2, <2>3, <2>4 DEF Kept, Changes
<1>2. CASE Start(r)
  <2>1. Moves(r, {"body"}, "scan", {"pc"}) /\ UNCHANGED <<retries, active>>
    BY <1>2, SetStage DEF Start, Moves, Stages
  <2>2. requests' = [requests EXCEPT ![req[r].snap] = @ + 1]
    BY <1>2 DEF Start
  <2>3. Sound(req'[r])
    BY <2>1
    DEF Moves, Changes, Fields, Sound, SentOnce, RepliedOnce, ErrorOfThisAttempt, Placed,
        BlamesTheFaulty, StreamsBroken, Streamed, TriesOthers, Unsent, Failing, Placing,
        Serving
  <2>4. Balanced(r)
    BY <2>1, <2>2, Counters
    DEF TypeOK, Moves, Changes, Fields, Balanced, Weight, InLoad, Retrying, AtBackend, Serving
  <2>5. Transits(r)
    BY <2>1 DEF Sound, Placed, Moves, Changes, Fields, Transits, Use, Goes, TicketOf
  <2> QED
    BY <2>1, <2>3, <2>4, <2>5 DEF Kept, Moves, Changes
<1>3. CASE Finish(r)
  <2>1. Moves(r, {"closing"}, "done", {"pc"}) /\ UNCHANGED <<retries, active>>
    BY <1>3, SetStage DEF Finish, Moves, Stages
  <2>2. requests' = [requests EXCEPT ![req[r].snap] = @ - 1]
    BY <1>3 DEF Finish
  <2>3. Sound(req'[r])
    BY <2>1
    DEF Moves, Changes, Fields, Sound, SentOnce, RepliedOnce, ErrorOfThisAttempt, Placed,
        BlamesTheFaulty, StreamsBroken, Streamed, TriesOthers, Unsent, Failing, Placing,
        Serving
  <2>4. Balanced(r)
    BY <2>1, <2>2, Counters
    DEF TypeOK, Moves, Changes, Fields, Balanced, Weight, InLoad, Retrying, AtBackend, Serving
  <2>5. Transits(r)
    BY <2>1 DEF Sound, Placed, Moves, Changes, Fields, Transits, Use, Goes, TicketOf
  <2> QED
    BY <2>1, <2>3, <2>4, <2>5 DEF Kept, Moves, Changes
<1> QED
  BY <1>1, <1>2, <1>3

\* Selection: a backend is looked at, none is left, or one is chosen, whose
\* number among those tried is the attempt's.
LEMMA SelectionKept ==
    ASSUME IInv, NEW r \in Requests,
           Scan(r) \/ PlaceFirst(r) \/ PlaceRetry(r) \/ NoBackend(r)
    PROVE  Kept(r)
<1> USE SoundNow DEF At
<1> DEFINE i == req[r].snap
<1>0. i \in Snapshots /\ req[r].tried \in SUBSET Pool(i) /\ req[r].fit \subseteq Pool(i) \ req[r].tried
  BY DEF Sound, TriesOthers
<1>1. CASE Scan(r)
  <2> DEFINE b == Configs[i].pool[req[r].next]
             asked == b \notin req[r].tried /\ health[b].healthy
             fit == asked /\ (BreakerEnabled(i) => Admits(circuits[i][b]))
  <2>1. /\ req' = [req EXCEPT ![r].next = @ + 1, ![r].fit = IF fit THEN @ \cup {b} ELSE @]
        /\ req[r].next <= Len(Configs[i].pool) /\ req[r].pc = "scan"
        /\ UNCHANGED <<requests, retries, active>>
    BY <1>1 DEF Scan
  <2>2. b \in Pool(i) /\ b \in Addrs
    <3>1. req[r].next \in Nat \ {0}
      BY DEF Records
    <3> QED BY <2>1, <3>1, <1>0, PoolOfAddrs
  <2>3. fit \in BOOLEAN /\ (fit => b \notin req[r].tried)
    OBVIOUS
  <2> HIDE DEF b, fit
  <2>4. /\ Changes(r, {"next", "fit"}) /\ req'[r].fit \subseteq Pool(i) \ req[r].tried
    <3>1. /\ Changes(r, {"next", "fit"})
          /\ req'[r].fit = IF fit THEN req[r].fit \cup {b} ELSE req[r].fit
      BY <2>1, <2>2, <2>3, SetFit
    <3> QED BY <3>1, <2>2, <2>3, <1>0
  <2>5. req'[r].pc = req[r].pc
    BY <2>4 DEF Changes, Fields
  <2>6. Balanced(r) /\ Transits(r)
    BY <2>1, <2>4, <2>5, Quiet
  <2>7. Sound(req'[r])
    BY <2>1, <2>4
    DEF Changes, Fields, Sound, SentOnce, RepliedOnce, ErrorOfThisAttempt, Placed,
        BlamesTheFaulty, StreamsBroken, Streamed, TriesOthers, Unsent, Failing, Placing,
        Serving
  <2> QED
    BY <2>4, <2>6, <2>7 DEF Kept, Changes
<1>2. ASSUME NEW stage \in {"dial", "asking"}, NEW b \in Candidates(r), Chooses(r, b, stage),
             Scanned(r), stage = "asking" => req[r].n > 0
      PROVE  /\ Moves(r, {"scan"}, stage, {"pc", "at", "tried", "next", "fit", "ticket"})
             /\ req'[r].at = b /\ b \in Addrs
             /\ req'[r].ticket = IF stage = "asking" THEN retries[i] + 1 ELSE 0
             /\ Sound(req'[r])
  <2>1. b \in Pool(i) \ req[r].tried /\ b \in Addrs
    BY <1>0, <1>2, PoolOfAddrs DEF Candidates
  <2>2. /\ Moves(r, {"scan"}, stage, {"pc", "at", "tried", "next", "fit", "ticket"})
        /\ req'[r].at = b
        /\ req'[r].tried = req[r].tried \cup {b} /\ req'[r].fit = {}
        /\ req'[r].ticket = IF stage = "asking" THEN retries[i] + 1 ELSE 0
    BY <1>2, <2>1, SetChosen DEF Scanned, Moves
  <2>3. /\ req'[r].tried \subseteq Pool(i)
        /\ Cardinality(req'[r].tried) = req[r].n + 1
    <3>1. Cardinality(req[r].tried) = req[r].n
      BY <1>2 DEF Scanned, Sound, TriesOthers
    <3> QED BY <3>1, <2>1, <2>2, <1>0, OneMoreTried
  <2>4. TriesOthers(req'[r])
    BY <2>2, <2>3 DEF Moves, Changes, Fields, Sound, TriesOthers, Placing, Serving
  <2>5. Placed(req'[r])
    BY <1>2, <2>1, <2>2 DEF Moves, Changes, Fields, Sound, Placed, Placing, Serving
  <2>6. SentOnce(req'[r]) /\ RepliedOnce(req'[r])
    BY <2>2 DEF Moves, Changes, Fields, Sound, SentOnce, RepliedOnce, Unsent, Failing
  <2>7. ErrorOfThisAttempt(req'[r]) /\ BlamesTheFaulty(req'[r])
    BY <2>2 DEF Moves, Changes, Fields, Sound, ErrorOfThisAttempt, BlamesTheFaulty, Failing
  <2> QED
    BY <2>1, <2>2, <2>4, <2>5, <2>6, <2>7 DEF Sound
<1>3. CASE PlaceFirst(r)
  <2>1. PICK b \in Candidates(r) : Chooses(r, b, "dial") /\ active' = [active EXCEPT ![b] = @ + 1]
    BY <1>3 DEF PlaceFirst
  <2>2. Scanned(r) /\ req[r].n = 0 /\ UNCHANGED <<requests, retries>>
    BY <1>3 DEF PlaceFirst
  <2>3. /\ Moves(r, {"scan"}, "dial", {"pc", "at", "tried", "next", "fit", "ticket"})
        /\ req'[r].at = b /\ b \in Addrs /\ req'[r].ticket = 0 /\ Sound(req'[r])
    BY <1>2, <2>1, <2>2
  <2>4. Balanced(r)
    BY <2>1, <2>2, <2>3, Counters
    DEF TypeOK, Moves, Changes, Fields, Balanced, Weight, InLoad, Retrying, AtBackend, Serving
  <2>5. Transits(r)
    BY <2>2, <2>3 DEF Sound, Placed, Moves, Changes, Fields, Transits, Use, Goes, TicketOf
  <2> QED
    BY <2>3, <2>4, <2>5 DEF Kept, Moves, Changes
<1>4. CASE PlaceRetry(r)
  <2>1. PICK b \in Candidates(r) : Chooses(r, b, "asking")
    BY <1>4 DEF PlaceRetry
  <2>2. /\ Scanned(r) /\ req[r].n > 0 /\ UNCHANGED <<requests, active>>
        /\ retries' = [retries EXCEPT ![i] = @ + 1]
    BY <1>4 DEF PlaceRetry
  <2>3. /\ Moves(r, {"scan"}, "asking", {"pc", "at", "tried", "next", "fit", "ticket"})
        /\ req'[r].ticket = retries[i] + 1 /\ Sound(req'[r])
    BY <1>2, <2>1, <2>2
  <2>4. Balanced(r)
    <3>1. /\ req[r].pc = "scan" /\ req'[r].pc = "asking" /\ req'[r].snap = req[r].snap
          /\ req[r].snap = i
      BY <2>3, <1>0 DEF Moves, Changes, Fields
    <3>2. /\ \A j \in Snapshots : InLoad(j, req'[r]) = InLoad(j, req[r])
          /\ \A j \in Snapshots : ~Retrying(j, req[r]) /\ (Retrying(j, req'[r]) <=> j = i)
          /\ \A a \in Addrs : ~AtBackend(a, req[r]) /\ ~AtBackend(a, req'[r])
      BY <3>1 DEF InLoad, Retrying, AtBackend, Serving
    <3>3. /\ requests' \in [Snapshots -> Int] /\ requests' = requests
          /\ active' \in [Addrs -> Int] /\ active' = active
          /\ retries' \in [Snapshots -> Int] /\ i \in Snapshots
          /\ \A j \in Snapshots : retries'[j] = IF j = i THEN retries[j] + 1 ELSE retries[j]
      BY <2>2, <1>0, Counters DEF TypeOK
    <3>4. /\ \A j \in Snapshots : requests[j] \in Int /\ retries[j] \in Int
          /\ \A a \in Addrs : active[a] \in Int
      BY Counters
    <3> QED
      BY <3>2, <3>3, <3>4 DEF Balanced, Weight
  <2>5. Transits(r)
    BY <2>2, <2>3 DEF Sound, Placed, Moves, Changes, Fields, Transits, Use, Goes, TicketOf
  <2> QED
    BY <2>3, <2>4, <2>5 DEF Kept, Moves, Changes
<1>5. CASE NoBackend(r)
  <2>1. /\ Moves(r, {"scan"}, "closing", {"pc", "at", "err", "verdict", "replies"})
        /\ req'[r].err = "none" /\ req'[r].replies = req[r].replies + 1
        /\ req'[r].verdict = "no_backend"
        /\ UNCHANGED <<requests, retries, active>> /\ Candidates(r) = {}
    <3>1. Closes(r, "no_backend", TRUE) /\ "no_backend" \in Verdicts
      BY <1>5 DEF NoBackend, Verdicts
    <3> QED BY <1>5, <3>1, SetClosing DEF NoBackend, Scanned, Moves
  <2>2. req[r].tried = Pool(i) /\ req[r].fit = {}
    BY <2>1, <1>0 DEF Candidates
  <2>3. Exhausts(req[r].tried, i)
    BY <2>1, <2>2, <1>0, AttemptsPositive, OneMoreTried DEF Moves, Sound, TriesOthers, Exhausts
  <2>4. Sound(req'[r])
    BY <2>1, <2>2, <2>3
    DEF Moves, Changes, Fields, Sound, SentOnce, RepliedOnce, ErrorOfThisAttempt, Placed,
        BlamesTheFaulty, StreamsBroken, Streamed, TriesOthers, Unsent, Failing, Placing,
        Serving
  <2>5. Balanced(r)
    BY <2>1, Counters
    DEF TypeOK, Moves, Changes, Fields, Balanced, Weight, InLoad, Retrying, AtBackend, Serving
  <2>6. Transits(r)
    BY <2>1 DEF Sound, Placed, Moves, Changes, Fields, Transits, Use, Goes, TicketOf
  <2> QED
    BY <2>1, <2>4, <2>5, <2>6 DEF Kept, Moves, Changes
<1> QED
  BY <1>1, <1>3, <1>4, <1>5

\* The retry budget: what was added is compared, kept or taken back.
LEMMA BudgetKept ==
    ASSUME IInv, NEW r \in Requests, GrantRetry(r) \/ RefuseRetry(r) \/ TakeBack(r)
    PROVE  Kept(r)
<1> USE SoundNow DEF At
<1>1. CASE GrantRetry(r)
  <2>1. /\ Moves(r, {"asking"}, "dial", {"pc", "ticket"}) /\ req'[r].ticket = 0
        /\ WithinBudget(r) /\ UNCHANGED <<requests, retries>>
    BY <1>1, SetTicket DEF GrantRetry, Moves, Stages
  <2>2. active' = [active EXCEPT ![req[r].at] = @ + 1]
    BY <1>1 DEF GrantRetry
  <2>3. req[r].at \in Addrs /\ req[r].n > 0
    BY <2>1 DEF Moves, Sound, Placed, Placing
  <2>4. Sound(req'[r])
    BY <2>1
    DEF Moves, Changes, Fields, Sound, SentOnce, RepliedOnce, ErrorOfThisAttempt, Placed,
        BlamesTheFaulty, StreamsBroken, Streamed, TriesOthers, Unsent, Failing, Placing,
        Serving
  <2>5. Balanced(r)
    BY <2>1, <2>2, <2>3, Counters
    DEF TypeOK, Moves, Changes, Fields, Balanced, Weight, InLoad, Retrying, AtBackend, Serving
  <2>6. Transits(r)
    BY <2>1, <2>3 DEF Moves, Changes, Fields, Transits, Use, Goes, TicketOf
  <2> QED
    BY <2>1, <2>4, <2>5, <2>6 DEF Kept, Moves, Changes
<1>2. CASE RefuseRetry(r)
  <2>1. /\ Moves(r, {"asking"}, "refused", {"pc", "ticket"}) /\ req'[r].ticket = 0
        /\ ~WithinBudget(r) /\ UNCHANGED <<requests, retries, active>>
    BY <1>2, SetTicket DEF RefuseRetry, Moves, Stages
  <2>2. Sound(req'[r])
    BY <2>1
    DEF Moves, Changes, Fields, Sound, SentOnce, RepliedOnce, ErrorOfThisAttempt, Placed,
        BlamesTheFaulty, StreamsBroken, Streamed, TriesOthers, Unsent, Failing, Placing,
        Serving
  <2>3. Balanced(r)
    BY <2>1, Counters
    DEF TypeOK, Moves, Changes, Fields, Balanced, Weight, InLoad, Retrying, AtBackend, Serving
  <2>4. Transits(r)
    BY <2>1 DEF Moves, Changes, Fields, Transits, Use, Goes, TicketOf
  <2> QED
    BY <2>1, <2>2, <2>3, <2>4 DEF Kept, Moves, Changes
<1>3. CASE TakeBack(r)
  <2>1. /\ Moves(r, {"refused"}, "closing", {"pc", "at", "err", "verdict", "replies"})
        /\ req'[r].err = "none" /\ req'[r].replies = req[r].replies + 1
        /\ req'[r].verdict = "spent" /\ UNCHANGED <<requests, active>>
    <3>1. Closes(r, "spent", TRUE) /\ "spent" \in Verdicts
      BY <1>3 DEF TakeBack, Verdicts
    <3> QED BY <1>3, <3>1, SetClosing DEF TakeBack, Moves
  <2>2. retries' = [retries EXCEPT ![req[r].snap] = @ - 1]
    BY <1>3 DEF TakeBack
  <2>3. Sound(req'[r])
    BY <2>1
    DEF Moves, Changes, Fields, Sound, SentOnce, RepliedOnce, ErrorOfThisAttempt, Placed,
        BlamesTheFaulty, StreamsBroken, Streamed, TriesOthers, Unsent, Failing, Placing,
        Serving
  <2>4. Balanced(r)
    BY <2>1, <2>2, Counters
    DEF TypeOK, Moves, Changes, Fields, Balanced, Weight, InLoad, Retrying, AtBackend, Serving
  <2>5. Transits(r)
    BY <2>1 DEF Sound, Placed, Moves, Changes, Fields, Transits, Use, Goes, TicketOf
  <2> QED
    BY <2>1, <2>3, <2>4, <2>5 DEF Kept, Moves, Changes
<1> QED
  BY <1>1, <1>2, <1>3

\* The exchange with the backend: only a faulty one fails, or the client hangs up
\* or breaks its body off.
LEMMA ExchangeKept ==
    ASSUME IInv, NEW r \in Requests,
           \/ DialFails(r) \/ Send(r) \/ LoseAnswer(r) \/ CancelAttempt(r) \/ BreakBody(r)
           \/ Answer(r) \/ Answer5xx(r) \/ CutOff(r) \/ LoseClient(r)
    PROVE  Kept(r)
<1> USE SoundNow DEF At
<1>1. ASSUME NEW F, Moves(r, Serving, req'[r].pc, F), req'[r].pc \in Serving, Sound(req'[r]),
             F \cap {"snap", "n", "at", "ticket"} = {}, UNCHANGED <<requests, retries, active>>
      PROVE  Kept(r)
  <2>1. Changes(r, F) /\ req[r].pc \in Serving
    BY <1>1 DEF Moves
  <2>2. Balanced(r) /\ Transits(r)
    BY <1>1, <2>1, Quiet
  <2> QED
    BY <1>1, <2>1, <2>2 DEF Kept, Changes
<1>2. ASSUME NEW err \in {"dial", "lost", "5xx", "cancelled", "cut_off"}, Fails(r, err),
             req[r].pc \in {"dial", "sent", "streaming"},
             err = "dial" => req[r].pc = "dial",
             req[r].pc = "streaming" => err = "cut_off",
             req[r].gone \/ req[r].at \in Faulty \/ StreamsBroken(req[r])
      PROVE  Kept(r)
  <2>1. /\ Moves(r, {"dial", "sent", "streaming"}, "failed", {"pc", "err"})
        /\ req'[r].err = err /\ UNCHANGED <<requests, retries, active>>
    BY <1>2, SetError DEF Fails, Moves, Stages, Errors
  <2>2. Sound(req'[r])
    BY <1>2, <2>1
    DEF Moves, Changes, Fields, Sound, SentOnce, RepliedOnce, ErrorOfThisAttempt, Placed,
        BlamesTheFaulty, StreamsBroken, Streamed, TriesOthers, Unsent, Failing, Placing,
        Serving
  <2> QED
    BY <1>1, <2>1, <2>2 DEF Moves, Serving
<1>3. ASSUME At(r, "sent"), Stream(r) PROVE Kept(r)
  <2>1. /\ Moves(r, {"sent"}, "streaming", {"pc", "replies"})
        /\ req'[r].replies = req[r].replies + 1 /\ UNCHANGED <<requests, retries, active>>
    BY <1>3, SetReplies DEF Stream, Moves
  <2>2. Sound(req'[r])
    BY <2>1
    DEF Moves, Changes, Fields, Sound, SentOnce, RepliedOnce, ErrorOfThisAttempt, Placed,
        BlamesTheFaulty, StreamsBroken, Streamed, TriesOthers, Unsent, Failing, Placing,
        Serving
  <2> QED
    BY <1>1, <2>1, <2>2 DEF Moves, Serving
<1>4. CASE Send(r)
  <2>1. req[r].pc = "dial" /\ req[r].at \in Addrs
    BY <1>4 DEF Send, Sound, Placed, Placing, Serving
  <2>2. /\ Moves(r, {"dial"}, "sent", {"pc", "seen"})
        /\ req'[r].seen = req[r].seen \cup {req[r].at} /\ UNCHANGED <<requests, retries, active>>
    BY <1>4, <2>1, SetSeen DEF Send, Moves
  <2>3. SentOnce(req'[r])
    BY <2>1, <2>2 DEF Moves, Changes, Fields, Sound, SentOnce, Unsent, Failing
  <2>4. RepliedOnce(req'[r]) /\ ErrorOfThisAttempt(req'[r]) /\ Placed(req'[r])
    BY <2>1, <2>2
    DEF Moves, Changes, Fields, Sound, RepliedOnce, ErrorOfThisAttempt, Placed, Unsent,
        Failing, Placing, Serving
  <2>5. BlamesTheFaulty(req'[r]) /\ TriesOthers(req'[r])
    BY <2>1, <2>2
    DEF Moves, Changes, Fields, Sound, BlamesTheFaulty, TriesOthers, Placing, Serving
  <2> QED
    BY <1>1, <2>2, <2>3, <2>4, <2>5 DEF Sound, Moves, Serving
<1>5. CASE LoseClient(r)
  <2>1. /\ Moves(r, {"streaming"}, "unwind", {"pc", "err"})
        /\ req'[r].err = "client_lost" /\ UNCHANGED <<requests, retries, active>>
    BY <1>5, SetError DEF LoseClient, Moves, Stages, Errors
  <2>2. Sound(req'[r])
    BY <2>1
    DEF Moves, Changes, Fields, Sound, SentOnce, RepliedOnce, ErrorOfThisAttempt, Placed,
        BlamesTheFaulty, StreamsBroken, Streamed, TriesOthers, Unsent, Failing, Placing,
        Serving
  <2> QED
    BY <1>1, <2>1, <2>2 DEF Moves, Serving
<1> QED
  BY <1>2, <1>3, <1>4, <1>5
  DEF DialFails, LoseAnswer, CancelAttempt, BreakBody, Answer, Answer5xx, CutOff

\* The ways out of an attempt: only one whose request nobody saw, or that is
\* idempotent, goes round again, and only while attempts are left.
LEMMA LeavingKept ==
    ASSUME IInv, NEW r \in Requests,
           LeaveAnswered(r) \/ LeaveGone(r) \/ LeaveUnretried(r) \/ TryAgain(r)
    PROVE  Kept(r)
<1> USE SoundNow DEF At
<1> DEFINE i == req[r].snap
<1>0. Release(r) /\ req[r].pc = "unwind"
  BY DEF LeaveAnswered, LeaveGone, LeaveUnretried, TryAgain, Release
<1>1. /\ req[r].at \in Addrs /\ i \in Snapshots /\ req[r].tried \in SUBSET Pool(i)
      /\ active' = [active EXCEPT ![req[r].at] = @ - 1]
      /\ retries' = IF req[r].n > 0 THEN [retries EXCEPT ![i] = @ - 1] ELSE retries
      /\ UNCHANGED requests
  BY <1>0 DEF Release, Sound, Placed, TriesOthers, Placing, Serving
<1>2. ASSUME NEW to \in {"scan", "closing"}, NEW F, Moves(r, {"unwind"}, to, F),
             F \cap {"snap", "ticket"} = {}, Sound(req'[r])
      PROVE  Kept(r)
  <2>1. /\ req[r].pc = "unwind" /\ req'[r].pc = to /\ req'[r].snap = i
        /\ req'[r].ticket = req[r].ticket
    BY <1>2 DEF Moves, Changes, Fields
  <2>2. Balanced(r)
    BY <1>1, <2>1, Counters
    DEF TypeOK, Balanced, Weight, InLoad, Retrying, AtBackend, Serving
  <2>3. Transits(r)
    BY <2>1 DEF Transits, Use, Goes, TicketOf
  <2> QED
    BY <1>2, <2>2, <2>3 DEF Kept, Moves, Changes
<1>3. ASSUME NEW verdict \in Verdicts, NEW page \in BOOLEAN, Closes(r, verdict, page),
             page => Unanswered(r), verdict = "no_backend" => ~MoreAttempts(r)
      PROVE  Kept(r)
  <2>1. /\ Moves(r, {"unwind"}, "closing", {"pc", "at", "err", "verdict", "replies"})
        /\ req'[r].err = "none" /\ req'[r].verdict = verdict
        /\ req'[r].replies = IF page THEN req[r].replies + 1 ELSE req[r].replies
    BY <1>0, <1>3, SetClosing DEF Moves
  <2>2. page => req[r].replies = 0
    BY <1>0, <1>3 DEF Unanswered, Sound, RepliedOnce, Failing
  <2>3. verdict = "no_backend" => Exhausts(req[r].tried, i)
    <3>1. Cardinality(req[r].tried) = req[r].n + 1 /\ req[r].n < Attempts(i)
      BY <1>0 DEF Sound, TriesOthers, Placing, Serving
    <3> QED BY <1>1, <1>3, <3>1, AttemptsPositive, OneMoreTried DEF MoreAttempts, Exhausts
  <2>4. SentOnce(req'[r]) /\ RepliedOnce(req'[r]) /\ ErrorOfThisAttempt(req'[r])
    BY <2>1, <2>2
    DEF Moves, Changes, Fields, Sound, SentOnce, RepliedOnce, ErrorOfThisAttempt, Unsent, Failing
  <2>5. Placed(req'[r]) /\ BlamesTheFaulty(req'[r])
    BY <2>1 DEF Moves, Changes, Fields, Sound, Placed, BlamesTheFaulty, Placing, Serving
  <2>6. TriesOthers(req'[r])
    BY <2>1, <2>3 DEF Moves, Changes, Fields, Sound, TriesOthers, Placing, Serving
  <2> QED
    BY <1>2, <2>1, <2>4, <2>5, <2>6 DEF Sound
<1>4. CASE TryAgain(r)
  <2>1. /\ Moves(r, {"unwind"}, "scan", {"pc", "n", "at", "err"})
        /\ req'[r].n = req[r].n + 1 /\ req'[r].err = "none" /\ req'[r].at = Nobody
    BY <1>0, <1>4, SetAttempt DEF TryAgain, Moves
  <2>2. req[r].replies = 0 /\ (~req[r].idempotent => req[r].seen = {})
    BY <1>0, <1>4
    DEF TryAgain, Unanswered, Retryable, Sound, SentOnce, RepliedOnce, Failing
  <2>3. SentOnce(req'[r]) /\ RepliedOnce(req'[r]) /\ ErrorOfThisAttempt(req'[r])
    BY <2>1, <2>2
    DEF Moves, Changes, Fields, Sound, SentOnce, RepliedOnce, ErrorOfThisAttempt, Unsent, Failing
  <2>4. Placed(req'[r]) /\ BlamesTheFaulty(req'[r])
    BY <2>1 DEF Moves, Changes, Fields, Sound, Placed, BlamesTheFaulty, Placing, Serving
  <2>5. TriesOthers(req'[r])
    BY <1>4, <2>1
    DEF TryAgain, MoreAttempts, Moves, Changes, Fields, Sound, TriesOthers, Placing, Serving
  <2> QED
    BY <1>2, <2>1, <2>3, <2>4, <2>5 DEF Sound
<1> QED
  BY <1>3, <1>4 DEF LeaveAnswered, LeaveGone, LeaveUnretried, Verdicts

\* The record of nobody is sound.
LEMMA FreshSound == Fresh \in Records /\ Sound(Fresh)
<1>1. Fresh \in Records
  BY ConfigTypes DEF Fresh, Records, Stages, BodyKinds, Errors, Verdicts
<1>2. TriesOthers(Fresh)
  BY ConfigTypes, AttemptsPositive, FS_EmptySet DEF Fresh, TriesOthers, Placing, Serving
<1>3. SentOnce(Fresh) /\ RepliedOnce(Fresh) /\ ErrorOfThisAttempt(Fresh)
  BY DEF Fresh, SentOnce, RepliedOnce, ErrorOfThisAttempt, Unsent, Failing
<1>4. Placed(Fresh) /\ BlamesTheFaulty(Fresh)
  BY DEF Fresh, Placed, BlamesTheFaulty, Placing, Serving
<1> QED
  BY <1>1, <1>2, <1>3, <1>4 DEF Sound

\* A place taken by a new request, or free again, and a client that hangs up.
LEMMA AroundKept ==
    ASSUME IInv, NEW r \in Requests, Arrive(r) \/ Leave(r) \/ HangUp(r)
    PROVE  Kept(r)
<1> USE SoundNow DEF At
<1>1. ASSUME NEW q \in Records, Sound(q), req' = [req EXCEPT ![r] = q],
             q.pc \in {"out", "body"}, req[r].pc \in {"out", "done"},
             UNCHANGED <<requests, retries, active>>
      PROVE  Kept(r)
  <2>1. Changes(r, Fields) /\ req'[r] = q
    BY <1>1, Rewritten
  <2>2. Balanced(r)
    BY <1>1, <2>1, Counters DEF Balanced, Weight, InLoad, Retrying, AtBackend, Serving
  <2>3. Transits(r)
    BY <1>1, <2>1 DEF Sound, Placed, Transits, Use, TicketOf
  <2> QED
    BY <1>1, <2>1, <2>2, <2>3 DEF Kept
<1>2. CASE Leave(r)
  <2> DEFINE f == Fresh
  <2>1. f \in Records /\ Sound(f) /\ f.pc = "out" /\ req' = [req EXCEPT ![r] = f]
    BY <1>2, FreshSound DEF Leave, Fresh
  <2> HIDE DEF f
  <2> QED
    BY <1>1, <1>2, <2>1 DEF Leave
<1>3. CASE Arrive(r)
  <2>1. PICK idempotent \in BOOLEAN, body \in Bodies :
            req' = [req EXCEPT ![r] = [Fresh EXCEPT
                       !.pc = "body", !.snap = current,
                       !.idempotent = idempotent, !.body = body]]
    BY <1>3 DEF Arrive
  <2> DEFINE f == Fresh
             q == [f EXCEPT !.pc = "body", !.snap = current,
                            !.idempotent = idempotent, !.body = body]
  <2>2. /\ f \in Records /\ f.seen = {} /\ f.replies = 0 /\ f.err = "none" /\ f.n = 0
        /\ f.tried = {} /\ f.fit = {} /\ f.ticket = 0 /\ f.verdict = "none" /\ f.at = Nobody
    BY FreshSound DEF Fresh
  <2>3. req' = [req EXCEPT ![r] = q] /\ current \in Snapshots
    BY <2>1 DEF TypeOK
  <2> HIDE DEF f
  <2>4. q \in Records
    <3>1. body \in BodyKinds /\ "body" \in Stages
      BY CoreAssumption DEF Stages
    <3> QED BY <2>2, <2>3, <3>1 DEF Records
  <2>5. /\ q.pc = "body" /\ q.snap = current
        /\ \A g \in Fields \ {"pc", "snap", "idempotent", "body"} : q[g] = f[g]
    BY <2>2 DEF Records, Fields
  <2> HIDE DEF q
  <2>6. TriesOthers(q)
    BY <2>2, <2>3, <2>5, AttemptsPositive, FS_EmptySet DEF Fields, TriesOthers, Placing, Serving
  <2>7. SentOnce(q) /\ RepliedOnce(q) /\ ErrorOfThisAttempt(q) /\ Placed(q) /\ BlamesTheFaulty(q)
    BY <2>2, <2>5
    DEF Fields, SentOnce, RepliedOnce, ErrorOfThisAttempt, Placed, BlamesTheFaulty, Unsent,
        Failing, Placing, Serving
  <2> QED
    BY <1>1, <1>3, <2>3, <2>4, <2>5, <2>6, <2>7 DEF Sound, Arrive
<1>4. CASE HangUp(r)
  <2>1. Changes(r, {"gone"}) /\ req'[r].gone = TRUE /\ UNCHANGED <<requests, retries, active>>
    BY <1>4, SetGone DEF HangUp
  <2>2. req'[r].pc = req[r].pc
    BY <2>1 DEF Changes, Fields
  <2>3. Balanced(r) /\ Transits(r)
    BY <2>1, <2>2, Quiet
  <2>4. Sound(req'[r])
    BY <2>1
    DEF Changes, Fields, Sound, SentOnce, RepliedOnce, ErrorOfThisAttempt, Placed,
        BlamesTheFaulty, StreamsBroken, Streamed, TriesOthers
  <2> QED
    BY <2>1, <2>3, <2>4 DEF Kept, Changes
<1> QED
  BY <1>2, <1>3, <1>4

\* Whatever a request does keeps it sound and the counters balanced.
LEMMA RequestStep ==
    ASSUME IInv, NEW r \in Requests, Arrive(r) \/ Serve(r) \/ HangUp(r)
    PROVE  Kept(r)
BY AlongKept, BoundaryKept, SelectionKept, BudgetKept, ExchangeKept, LeavingKept, AroundKept
   DEF Serve

-----------------------------------------------------------------------------
(* The counters count.                                                     *)

\* A step of r changes a set of requests by r at most, and its size with it.
LEMMA OneRequest ==
    ASSUME NEW S \in SUBSET Requests, NEW T \in SUBSET Requests, NEW r \in Requests,
           \A s \in Requests \ {r} : s \in S <=> s \in T
    PROVE  /\ Cardinality(S) \in Nat /\ Cardinality(T) \in Nat
           /\ Cardinality(T) = Cardinality(S) + Weight(r \in T) - Weight(r \in S)
<1>1. IsFiniteSet(S) /\ IsFiniteSet(T)
  BY CoreAssumption, FS_Subset
<1>2. Cardinality(S) \in Nat /\ Cardinality(T) \in Nat
  BY <1>1, FS_CardinalityType
<1>3. CASE r \in S <=> r \in T
  <2>1. S = T
    BY <1>3
  <2> QED BY <2>1, <1>2 DEF Weight
<1>4. CASE r \in T /\ r \notin S
  <2>1. T = S \cup {r}
    BY <1>4
  <2>2. Cardinality(T) = Cardinality(S) + 1
    BY <1>1, <1>4, <2>1, FS_AddElement
  <2> QED BY <2>2, <1>2, <1>4 DEF Weight
<1>5. CASE r \in S /\ r \notin T
  <2>1. T = S \ {r}
    BY <1>5
  <2>2. Cardinality(T) = Cardinality(S) - 1
    BY <1>1, <1>5, <2>1, FS_RemoveElement
  <2> QED BY <2>2, <1>2, <1>5 DEF Weight
<1> QED
  BY <1>2, <1>3, <1>4, <1>5

\* So each counter still counts, and none is driven below zero.
LEMMA ExactStep ==
    ASSUME IInv, NEW r \in Requests, Kept(r)
    PROVE  /\ Exact'
           /\ requests' \in [Snapshots -> Nat] /\ retries' \in [Snapshots -> Nat]
           /\ active' \in [Addrs -> Nat]
<1>0. \A s \in Requests \ {r} : req'[s] = req[s]
  BY DEF Kept, Changes
<1>1. ASSUME NEW i \in Snapshots
      PROVE  /\ requests'[i] = Cardinality({s \in Requests : InLoad(i, req'[s])})
             /\ requests'[i] \in Nat
  <2> DEFINE S == {s \in Requests : InLoad(i, req[s])}
             T == {s \in Requests : InLoad(i, req'[s])}
  <2>1. requests[i] = Cardinality(S)
    BY DEF IInv, Exact
  <2>2. /\ \A s \in Requests \ {r} : s \in S <=> s \in T
        /\ (r \in S <=> InLoad(i, req[r])) /\ (r \in T <=> InLoad(i, req'[r]))
    BY <1>0
  <2>3. requests'[i] = requests[i] + Weight(r \in T) - Weight(r \in S)
    BY <2>2 DEF Kept, Balanced, Weight
  <2>4. S \in SUBSET Requests /\ T \in SUBSET Requests
    OBVIOUS
  <2> HIDE DEF S, T
  <2>5. /\ Cardinality(T) = Cardinality(S) + Weight(r \in T) - Weight(r \in S)
        /\ Cardinality(T) \in Nat
    BY <2>2, <2>4, OneRequest
  <2> QED
    BY <2>1, <2>3, <2>5 DEF T
<1>2. ASSUME NEW i \in Snapshots
      PROVE  /\ retries'[i] = Cardinality({s \in Requests : Retrying(i, req'[s])})
             /\ retries'[i] \in Nat
  <2> DEFINE S == {s \in Requests : Retrying(i, req[s])}
             T == {s \in Requests : Retrying(i, req'[s])}
  <2>1. retries[i] = Cardinality(S)
    BY DEF IInv, Exact
  <2>2. /\ \A s \in Requests \ {r} : s \in S <=> s \in T
        /\ (r \in S <=> Retrying(i, req[r])) /\ (r \in T <=> Retrying(i, req'[r]))
    BY <1>0
  <2>3. retries'[i] = retries[i] + Weight(r \in T) - Weight(r \in S)
    BY <2>2 DEF Kept, Balanced, Weight
  <2>4. S \in SUBSET Requests /\ T \in SUBSET Requests
    OBVIOUS
  <2> HIDE DEF S, T
  <2>5. /\ Cardinality(T) = Cardinality(S) + Weight(r \in T) - Weight(r \in S)
        /\ Cardinality(T) \in Nat
    BY <2>2, <2>4, OneRequest
  <2> QED
    BY <2>1, <2>3, <2>5 DEF T
<1>3. ASSUME NEW b \in Addrs
      PROVE  /\ active'[b] = Cardinality({s \in Requests : AtBackend(b, req'[s])})
             /\ active'[b] \in Nat
  <2> DEFINE S == {s \in Requests : AtBackend(b, req[s])}
             T == {s \in Requests : AtBackend(b, req'[s])}
  <2>1. active[b] = Cardinality(S)
    BY DEF IInv, Exact
  <2>2. /\ \A s \in Requests \ {r} : s \in S <=> s \in T
        /\ (r \in S <=> AtBackend(b, req[r])) /\ (r \in T <=> AtBackend(b, req'[r]))
    BY <1>0
  <2>3. active'[b] = active[b] + Weight(r \in T) - Weight(r \in S)
    BY <2>2 DEF Kept, Balanced, Weight
  <2>4. S \in SUBSET Requests /\ T \in SUBSET Requests
    OBVIOUS
  <2> HIDE DEF S, T
  <2>5. /\ Cardinality(T) = Cardinality(S) + Weight(r \in T) - Weight(r \in S)
        /\ Cardinality(T) \in Nat
    BY <2>2, <2>4, OneRequest
  <2> QED
    BY <2>1, <2>3, <2>5 DEF T
<1>4. /\ requests' \in [Snapshots -> Nat] /\ retries' \in [Snapshots -> Nat]
      /\ active' \in [Addrs -> Nat]
  BY <1>1, <1>2, <1>3 DEF Kept, Balanced
<1> QED
  BY <1>1, <1>2, <1>3, <1>4 DEF Exact, InLoad, Retrying, AtBackend

-----------------------------------------------------------------------------
(* Health and circuits.                                                    *)

\* What the checker and a circuit record stays of its type; a success leaves no
\* failure counted, an admission and the clock leave the count alone.
LEMMA OutcomeTypes ==
    ASSUME NEW s \in HealthStates, NEW succeeded \in BOOLEAN
    PROVE  /\ NewState \in HealthStates /\ AfterOutcome(s, succeeded, Health) \in HealthStates
           /\ succeeded => AfterOutcome(s, succeeded, Health).failures = 0
<1>1. NewState \in HealthStates
  BY CapAssumption DEF NewState, HealthStates
<1>2. Health.healthy \in 1..CounterCap /\ Health.unhealthy \in 1..CounterCap
  BY CoreAssumption DEF HealthSettings
<1>3. Longer(s.successes) \in 0..CounterCap /\ Longer(s.failures) \in 0..CounterCap
  BY CapAssumption DEF HealthStates, Longer
<1>4. CASE succeeded
  BY <1>1, <1>2, <1>3, <1>4, CapAssumption DEF AfterOutcome, HealthStates
<1>5. CASE ~succeeded
  BY <1>1, <1>2, <1>3, <1>5, CapAssumption DEF AfterOutcome, HealthStates
<1> QED
  BY <1>4, <1>5

LEMMA CircuitTypes ==
    ASSUME NEW c \in CircuitStates
    PROVE  /\ Untracked \in CircuitStates /\ AfterSuccess(c) \in CircuitStates
           /\ AfterAllow(c) \in CircuitStates /\ AfterFailure(c) \in CircuitStates
           /\ AfterTick(c) \in CircuitStates
           /\ Untracked.failures = 0 /\ AfterSuccess(c).failures = 0
           /\ AfterAllow(c).failures = c.failures /\ AfterTick(c).failures = c.failures
<1> USE CircuitAssumption DEF CircuitStates, Closed
<1>1. Untracked \in CircuitStates /\ Untracked.failures = 0
  BY DEF Untracked
<1>2. AfterAllow(c) \in CircuitStates /\ AfterAllow(c).failures = c.failures
  BY DEF AfterAllow, Elapsed
<1>3. AfterFailure(c) \in CircuitStates
  BY DEF AfterFailure
<1>4. AfterTick(c) \in CircuitStates /\ AfterTick(c).failures = c.failures
  BY DEF AfterTick
<1> QED
  BY <1>1, <1>2, <1>3, <1>4 DEF AfterSuccess

\* The record of b changes by an outcome.
Judged(b, succeeded) == health' = [health EXCEPT ![b] = AfterOutcome(@, succeeded, Health)]

\* The circuit of b in snapshot i changes by an admission, a success, a failure.
Admitted(i, b) == circuits' = [circuits EXCEPT ![i][b] = AfterAllow(@)]
Cleared(i, b) == circuits' = [circuits EXCEPT ![i][b] = AfterSuccess(@)]
Charged(i, b) == circuits' = [circuits EXCEPT ![i][b] = AfterFailure(@)]

\* A request asks the breaker of its own snapshot, and reports on the backend of its
\* attempt to the checker and to that breaker; a failure only from where serve has
\* seen the client still there.
LEMMA Reports ==
    ASSUME IInv, NEW r \in Requests, Arrive(r) \/ Serve(r) \/ HangUp(r)
    PROVE  /\ current' = current
           /\ \/ health' = health
              \/ \E b \in Addrs : Judged(b, TRUE)
              \/ /\ At(r, "failed") /\ ~req[r].gone /\ req[r].at \in Addrs
                 /\ Judged(req[r].at, FALSE)
           /\ \/ circuits' = circuits
              \/ \E b \in Addrs : Admitted(req[r].snap, b) \/ Cleared(req[r].snap, b)
              \/ At(r, "blamed") /\ req[r].at \in Addrs /\ Charged(req[r].snap, req[r].at)
<1> USE SoundNow DEF At
<1>0. \A stage \in {"served", "credited", "failed", "blamed"} :
          req[r].pc = stage => req[r].at \in Addrs
  BY DEF Sound, Placed, Placing, Serving
<1>1. CASE Scan(r)
  <2> DEFINE b == Configs[req[r].snap].pool[req[r].next]
  <2>1. b \in Addrs
    <3>1. req[r].next \in Nat \ {0} /\ req[r].next <= Len(Configs[req[r].snap].pool)
      BY <1>1 DEF Records, Scan
    <3> QED BY <3>1, PoolOfAddrs
  <2> QED
    BY <1>1, <2>1 DEF Scan, Admitted
<1>2. CASE Credit(r)
  BY <1>0, <1>2 DEF Credit, Report, Judged
<1>3. CASE Blame(r)
  BY <1>0, <1>3 DEF Blame, Report, Judged
<1>4. CASE CloseCircuit(r)
  BY <1>0, <1>4 DEF CloseCircuit, Cleared
<1>5. CASE TripCircuit(r)
  BY <1>0, <1>5 DEF TripCircuit, Charged
<1>6. CASE \/ Arrive(r) \/ HangUp(r) \/ RefuseBody(r) \/ Start(r)
           \/ PlaceFirst(r) \/ PlaceRetry(r) \/ NoBackend(r)
           \/ GrantRetry(r) \/ RefuseRetry(r) \/ TakeBack(r)
  BY <1>6 DEF Arrive, HangUp, RefuseBody, Start, PlaceFirst, PlaceRetry, NoBackend,
              GrantRetry, RefuseRetry, TakeBack
<1>7. CASE \/ DialFails(r) \/ Send(r) \/ LoseAnswer(r) \/ CancelAttempt(r) \/ BreakBody(r)
           \/ Answer(r) \/ Answer5xx(r) \/ Complete(r) \/ CutOff(r) \/ LoseClient(r)
  BY <1>7 DEF DialFails, Send, LoseAnswer, CancelAttempt, BreakBody, Answer, Answer5xx,
              Complete, CutOff, LoseClient, Fails, Stream
<1>8. CASE \/ Excuse(r) \/ LeaveAnswered(r) \/ LeaveGone(r) \/ LeaveUnretried(r)
           \/ TryAgain(r) \/ Finish(r) \/ Leave(r)
  BY <1>8 DEF Excuse, LeaveAnswered, LeaveGone, LeaveUnretried, TryAgain, Release, Finish, Leave
<1> QED
  BY <1>1, <1>2, <1>3, <1>4, <1>5, <1>6, <1>7, <1>8 DEF Serve

\* The records of the checker stay typed, and only a failure of b is counted against
\* b.
LEMMA HealthStep ==
    ASSUME IInv, NEW b \in Addrs, NEW succeeded \in BOOLEAN, Judged(b, succeeded)
    PROVE  /\ health' \in [Addrs -> HealthStates]
           /\ \A a \in Addrs : ~(health'[a].failures > health[a].failures) \/ (a = b /\ ~succeeded)
<1>1. health \in [Addrs -> HealthStates] /\ \A a \in Addrs : health[a].failures \in 0..CounterCap
  BY DEF IInv, TypeOK, HealthStates
<1> DEFINE s == AfterOutcome(health[b], succeeded, Health)
<1>2. s \in HealthStates /\ (succeeded => s.failures = 0)
  BY <1>1, OutcomeTypes
<1>3. health' = [health EXCEPT ![b] = s]
  BY DEF Judged
<1> HIDE DEF s
<1>4. \A a \in Addrs : health'[a] = IF a = b THEN s ELSE health[a]
  BY <1>1, <1>3
<1>5. health' \in [Addrs -> HealthStates]
  BY <1>1, <1>2, <1>3
<1>6. ASSUME NEW a \in Addrs PROVE ~(health'[a].failures > health[a].failures) \/ (a = b /\ ~succeeded)
  BY <1>1, <1>2, <1>4, CapAssumption
<1> QED
  BY <1>5, <1>6

\* So do the circuits.
LEMMA CircuitStep ==
    ASSUME IInv, NEW i \in Snapshots, NEW b \in Addrs,
           Admitted(i, b) \/ Cleared(i, b) \/ Charged(i, b)
    PROVE  /\ circuits' \in [Snapshots -> [Addrs -> CircuitStates]]
           /\ \A j \in Snapshots, a \in Addrs :
                 \/ ~(circuits'[j][a].failures > circuits[j][a].failures)
                 \/ j = i /\ a = b /\ ~Admitted(i, b) /\ ~Cleared(i, b)
<1>1. circuits \in [Snapshots -> [Addrs -> CircuitStates]]
  BY DEF IInv, TypeOK
<1>2. PICK c \in CircuitStates :
          /\ circuits' = [circuits EXCEPT ![i][b] = c]
          /\ Admitted(i, b) \/ Cleared(i, b) =>
                c.failures = circuits[i][b].failures \/ c.failures = 0
  <2>1. CASE Admitted(i, b) \/ Cleared(i, b)
    BY <1>1, <2>1, CircuitTypes DEF Admitted, Cleared
  <2>2. CASE ~Admitted(i, b) /\ ~Cleared(i, b)
    BY <1>1, <2>2, CircuitTypes DEF Charged
  <2> QED
    BY <2>1, <2>2
<1>3. \A j \in Snapshots, a \in Addrs :
          circuits'[j][a] = IF j = i /\ a = b THEN c ELSE circuits[j][a]
  BY <1>1, <1>2
<1>4. circuits' \in [Snapshots -> [Addrs -> CircuitStates]]
  BY <1>1, <1>2
<1>5. ASSUME NEW j \in Snapshots, NEW a \in Addrs
      PROVE  \/ ~(circuits'[j][a].failures > circuits[j][a].failures)
             \/ j = i /\ a = b /\ ~Admitted(i, b) /\ ~Cleared(i, b)
  <2>1. circuits[j][a] \in CircuitStates
    BY <1>1
  <2>2. circuits[j][a].failures \in Nat
    BY <2>1, CircuitAssumption DEF CircuitStates
  <2> QED BY <1>2, <1>3, <2>2
<1> QED
  BY <1>4, <1>5

\* The clock leaves the counts alone.
LEMMA TickStep ==
    ASSUME IInv, Tick
    PROVE  /\ circuits' \in [Snapshots -> [Addrs -> CircuitStates]]
           /\ \A j \in Snapshots, a \in Addrs :
                 ~(circuits'[j][a].failures > circuits[j][a].failures)
<1>1. \A j \in Snapshots, a \in Addrs :
          /\ circuits'[j][a] \in CircuitStates
          /\ ~(circuits'[j][a].failures > circuits[j][a].failures)
  <2> SUFFICES ASSUME NEW j \in Snapshots, NEW a \in Addrs
               PROVE  /\ circuits'[j][a] \in CircuitStates
                      /\ ~(circuits'[j][a].failures > circuits[j][a].failures)
    OBVIOUS
  <2>1. circuits[j][a] \in CircuitStates
    BY DEF IInv, TypeOK
  <2>2. circuits'[j][a] = AfterTick(circuits[j][a])
    BY DEF Tick
  <2>3. circuits[j][a].failures \in Nat
    BY <2>1, CircuitAssumption DEF CircuitStates
  <2> QED
    BY <2>1, <2>2, <2>3, CircuitTypes
<1>2. circuits' \in [Snapshots -> [Addrs -> CircuitStates]]
  BY <1>1 DEF Tick
<1> QED
  BY <1>1, <1>2

-----------------------------------------------------------------------------
\* The core starts with nothing in flight.
LEMMA InitIInv == Init => IInv
<1> SUFFICES ASSUME Init PROVE IInv
  OBVIOUS
<1> DEFINE f == Fresh
<1>1. f \in Records /\ Sound(f) /\ f.pc = "out" /\ req = [r \in Requests |-> f]
  BY FreshSound DEF Init, Fresh
<1> HIDE DEF f
<1>2. req \in [Requests -> Records] /\ \A r \in Requests : Sound(req[r]) /\ req[r].pc = "out"
  BY <1>1
<1>3. /\ \A i \in Snapshots :
            /\ {r \in Requests : InLoad(i, req[r])} = {}
            /\ {r \in Requests : Retrying(i, req[r])} = {}
      /\ \A b \in Addrs : {r \in Requests : AtBackend(b, req[r])} = {}
  BY <1>2 DEF InLoad, Retrying, AtBackend, Serving
<1>4. Exact
  BY <1>3, FS_EmptySet DEF Exact, Init
<1>5. Untracked \in CircuitStates /\ NewState \in HealthStates
  BY CircuitAssumption, CapAssumption DEF Untracked, NewState, CircuitStates, HealthStates, Closed
<1>6. TypeOK
  BY <1>2, <1>5, ConfigTypes DEF TypeOK, Init
<1> QED
  BY <1>2, <1>4, <1>6 DEF IInv

\* A step of the system keeps the invariant.
LEMMA InvariantStep == IInv /\ [Next]_vars => IInv'
<1> SUFFICES ASSUME IInv, [Next]_vars PROVE IInv'
  OBVIOUS
<1>0. TypeOK
  BY DEF IInv
<1>1. ASSUME NEW r \in Requests, Arrive(r) \/ Serve(r) \/ HangUp(r) PROVE IInv'
  <2>1. Kept(r)
    BY <1>1, RequestStep
  <2>2. \A s \in Requests : Sound(req'[s])
    BY <2>1 DEF Kept, Changes, IInv
  <2>3. health' \in [Addrs -> HealthStates]
    BY <1>0, <1>1, Reports, HealthStep DEF TypeOK
  <2>4. circuits' \in [Snapshots -> [Addrs -> CircuitStates]]
    BY <1>0, <1>1, Reports, CircuitStep, SoundNow DEF TypeOK
  <2>5. current' = current
    BY <1>1, Reports
  <2>6. TypeOK'
    BY <1>0, <2>1, <2>3, <2>4, <2>5, ExactStep DEF TypeOK, Kept, Changes
  <2> QED
    BY <2>1, <2>2, <2>6, ExactStep DEF IInv
<1>2. ASSUME UNCHANGED <<req, requests, retries, active>>, current' \in Snapshots,
             health' \in [Addrs -> HealthStates],
             circuits' \in [Snapshots -> [Addrs -> CircuitStates]]
      PROVE  IInv'
  BY <1>2 DEF IInv, TypeOK, Exact
<1>3. ASSUME NEW b \in Addrs, Probe(b) PROVE IInv'
  <2>1. PICK succeeded \in BOOLEAN : Judged(b, succeeded)
    BY <1>3 DEF Probe, Judged
  <2> QED
    BY <1>0, <1>2, <1>3, <2>1, HealthStep DEF Probe, TypeOK
<1>4. CASE Reload
  BY <1>0, <1>2, <1>4 DEF Reload, Snapshots, TypeOK
<1>5. CASE Tick
  BY <1>0, <1>2, <1>5, TickStep DEF Tick, TypeOK
<1>6. CASE UNCHANGED vars
  BY <1>0, <1>2, <1>6 DEF vars, TypeOK
<1> QED
  BY <1>1, <1>3, <1>4, <1>5, <1>6 DEF Next

-----------------------------------------------------------------------------
\* The inductive invariant holds in every reachable state of the core.
THEOREM Invariance == Spec => []IInv
<1> QED
  BY InitIInv, InvariantStep, PTL DEF Spec

\* Every variable keeps its type; above all, no order of retries, refusals, panics
\* and reloads drives a counter below zero (retrybudget.go, Backend.Release).
THEOREM TypeCorrect == Spec => []TypeOK
<1>1. IInv => TypeOK
  BY DEF IInv
<1> QED
  BY <1>1, Invariance, PTL

\* A request that is not idempotent is never sent to a second backend, whatever
\* the policy, the number of attempts, the reloads and the failures (retryable,
\* Core.ServeHTTP).
THEOREM AtMostOnce == Spec => []AtMostOnceUnlessIdempotent
<1>1. IInv => AtMostOnceUnlessIdempotent
  BY DEF IInv, Sound, SentOnce, AtMostOnceUnlessIdempotent
<1> QED
  BY <1>1, Invariance, PTL

\* No client is sent the beginning of two responses (Core.serve).
THEOREM OneResponse == Spec => []AnsweredOnce
<1>1. IInv => AnsweredOnce
  BY DEF IInv, Sound, RepliedOnce, AnsweredOnce
<1> QED
  BY <1>1, Invariance, PTL

\* Whatever way attempts end, a backend's counter is the number of attempts at it
\* (backend.Acquire and the deferred Release in Core.serve).
THEOREM LoadCounted == Spec => []ActiveExact
<1>1. IInv => ActiveExact
  BY DEF IInv, Exact, AtBackend, ActiveExact
<1> QED
  BY <1>1, Invariance, PTL

\* Where no breaker is on, no client is told that no backend could serve it before as
\* many different ones were tried as the policy and the pool allow, whatever health
\* checking found of them (Core.available, Core.ServeHTTP).
THEOREM EveryBackendTried == Spec => []PoolExhausted
<1>1. IInv => PoolExhausted
  BY DEF IInv, Sound, TriesOthers, Exhausts, PoolExhausted
<1> QED
  BY <1>1, Invariance, PTL

\* A failure is counted against a backend that never fails, by the checker or by any
\* snapshot's breaker, only on account of a request whose own body broke off on the
\* way to it and whose client was seen to be there: hang-ups, probes and reloads
\* add none (Core.serve, the tests of r.Context().Err()).
THEOREM CleanRecord == Spec => OnlyTheFaultyAreBlamed
<1>1. IInv /\ [Next]_vars => [\A b \in Addrs \ Faulty : ChargedByBrokenBodies(b)]_vars
  <2> SUFFICES ASSUME IInv, Next, NEW b \in Addrs \ Faulty
               PROVE  ChargedByBrokenBodies(b)
    OBVIOUS
  <2>0. /\ health[b].failures \in Nat
        /\ \A i \in Snapshots : circuits[i][b].failures \in Nat
    <3>1. /\ health[b] \in HealthStates
          /\ \A i \in Snapshots : circuits[i][b] \in CircuitStates
      BY DEF IInv, TypeOK
    <3> QED
      BY <3>1, CircuitAssumption, CapAssumption DEF HealthStates, CircuitStates
  <2>1. ASSUME NEW r \in Requests, Arrive(r) \/ Serve(r) \/ HangUp(r)
        PROVE  ChargedByBrokenBodies(b)
    <3>1. ASSUME health'[b].failures > health[b].failures
          PROVE  \E s \in BrokeAt(b, "failed") : ~req[s].gone
      <4>1. /\ At(r, "failed") /\ ~req[r].gone /\ req[r].at \in Addrs
            /\ Judged(req[r].at, FALSE)
        <5>1. health' # health
          BY <2>0, <3>1
        <5>2. ASSUME NEW a \in Addrs, Judged(a, TRUE) PROVE FALSE
          BY <3>1, <5>2, HealthStep
        <5> QED
          BY <2>1, <5>1, <5>2, Reports
      <4>2. req[r].at = b
        BY <3>1, <4>1, HealthStep
      <4> QED
        BY <4>1, <4>2, SoundNow DEF At, BrokeAt, Sound, BlamesTheFaulty
    <3>2. ASSUME NEW i \in Snapshots, circuits'[i][b].failures > circuits[i][b].failures
          PROVE  \E s \in BrokeAt(b, "blamed") : req[s].snap = i
      <4>1. /\ At(r, "blamed") /\ req[r].at \in Addrs
            /\ Charged(req[r].snap, req[r].at)
        <5>1. circuits' # circuits
          BY <2>0, <3>2
        <5>2. ASSUME NEW a \in Addrs,
                     Admitted(req[r].snap, a) \/ Cleared(req[r].snap, a)
              PROVE  FALSE
          BY <3>2, <5>2, SoundNow, CircuitStep
        <5> QED
          BY <2>1, <5>1, <5>2, Reports
      <4>2. i = req[r].snap /\ req[r].at = b
        BY <3>2, <4>1, SoundNow, CircuitStep
      <4> QED
        BY <4>1, <4>2, SoundNow DEF At, BrokeAt, Sound, BlamesTheFaulty
    <3> QED
      BY <3>1, <3>2 DEF ChargedByBrokenBodies
  <2>2. ASSUME NEW a \in Addrs, Probe(a) PROVE ChargedByBrokenBodies(b)
    <3>1. PICK succeeded \in BOOLEAN : Judged(a, succeeded) /\ (succeeded \/ a \in Faulty)
      BY <2>2 DEF Probe, Judged
    <3>2. ~(health'[b].failures > health[b].failures)
      BY <3>1, HealthStep
    <3> QED
      BY <2>0, <2>2, <3>2 DEF Probe, ChargedByBrokenBodies
  <2>3. CASE Reload
    BY <2>0, <2>3 DEF Reload, ChargedByBrokenBodies
  <2>4. CASE Tick
    <3>1. health' = health
      BY <2>4 DEF Tick
    <3> QED
      BY <2>0, <2>4, <3>1, TickStep DEF ChargedByBrokenBodies
  <2> QED
    BY <2>1, <2>2, <2>3, <2>4 DEF Next
<1> QED
  BY <1>1, Invariance, PTL DEF Spec, OnlyTheFaultyAreBlamed

-----------------------------------------------------------------------------
(* The retry budgets and the breakers, as their own modules describe them. *)

\* With nothing in flight every snapshot's budget is as newRetryBudget makes it.
LEMMA BudgetInit == Init => \A i \in Snapshots : Budget(i)!Init
<1> SUFFICES ASSUME Init, NEW i \in Snapshots PROVE Budget(i)!Init
  OBVIOUS
<1>1. \A r \in Requests : req[r].pc = "out" /\ req[r].ticket = 0
  BY DEF Init, Fresh
<1> QED
  BY <1>1 DEF Use, TicketOf, Init, Budget!Init

\* What a step of r does to budget i, in the budget's own terms.
LEMMA BudgetMoves ==
    ASSUME IInv, NEW r \in Requests, Kept(r), NEW i \in Snapshots
    PROVE  /\ [s \in Requests |-> Use(i, req'[s])] =
                 [[s \in Requests |-> Use(i, req[s])] EXCEPT ![r] = Use(i, req'[r])]
           /\ [s \in Requests |-> TicketOf(i, req'[s])] =
                 [[s \in Requests |-> TicketOf(i, req[s])] EXCEPT ![r] = TicketOf(i, req'[r])]
           /\ requests'[i] = requests[i] + Weight(Use(i, req'[r]) # "out")
                                         - Weight(Use(i, req[r]) # "out")
           /\ retries'[i] = retries[i]
                 + Weight(Use(i, req'[r]) \in {"asking", "refused", "holding"})
                 - Weight(Use(i, req[r]) \in {"asking", "refused", "holding"})
           /\ requests[i] \in Nat /\ retries[i] \in Nat
<1>1. \A s \in Requests \ {r} : req'[s] = req[s]
  BY DEF Kept, Changes
<1>2. \A q \in Records :
          /\ InLoad(i, q) <=> Use(i, q) # "out"
          /\ Retrying(i, q) <=> Use(i, q) \in {"asking", "refused", "holding"}
  BY DEF InLoad, Retrying, Use, Records, Stages, Serving
<1>3. req[r] \in Records /\ req'[r] \in Records
  BY DEF IInv, TypeOK, Kept, Changes
<1>4. requests[i] \in Nat /\ retries[i] \in Nat
  BY DEF IInv, TypeOK
<1> QED
  BY <1>1, <1>2, <1>3, <1>4 DEF Kept, Balanced, Weight

\* A request's step is a step of its own snapshot's budget, or leaves it alone.
LEMMA BudgetStep ==
    ASSUME IInv, NEW r \in Requests, Kept(r), NEW i \in Snapshots
    PROVE  Budget(i)!Next \/ UNCHANGED Budget(i)!vars
<1> DEFINE stage == [s \in Requests |-> Use(i, req[s])]
           ticket == [s \in Requests |-> TicketOf(i, req[s])]
           from == Use(i, req[r])
           to == Use(i, req'[r])
           told == TicketOf(i, req'[r])
<1>1. /\ stage' = [stage EXCEPT ![r] = to] /\ ticket' = [ticket EXCEPT ![r] = told]
      /\ requests'[i] = requests[i] + Weight(to # "out") - Weight(from # "out")
      /\ retries'[i] = retries[i] + Weight(to \in {"asking", "refused", "holding"})
                                  - Weight(from \in {"asking", "refused", "holding"})
      /\ requests[i] \in Nat /\ retries[i] \in Nat
  BY BudgetMoves
<1>2. stage[r] = from /\ ticket[r] = TicketOf(i, req[r])
  OBVIOUS
<1>3. \/ to = from /\ told = ticket[r]
      \/ told = ticket[r] /\ from = "out" /\ to = "in"
      \/ told = ticket[r] /\ from = "in" /\ to = "out"
      \/ told = ticket[r] /\ from \in {"refused", "holding"} /\ to = "in"
      \/ from = "in" /\ to = "asking" /\ told = retries[i] + 1
      \/ told = 0 /\ i = req[r].snap /\ from = "asking" /\ to = "holding" /\ WithinBudget(r)
      \/ told = 0 /\ i = req[r].snap /\ from = "asking" /\ to = "refused" /\ ~WithinBudget(r)
  BY <1>2 DEF Kept, Transits, Goes
<1>4. i = req[r].snap =>
          /\ ticket[r] \in Nat /\ Budget(i)!Limit(requests[i]) \in Int
          /\ WithinBudget(r) <=> ticket[r] <= Budget(i)!Limit(requests[i])
  <2>1. req[r].ticket \in Nat
    BY SoundNow DEF Records
  <2>2. requests[i] \in Nat /\ Percent \in Nat /\ Minimum \in Nat
    BY <1>1, CoreAssumption
  <2>3. (Percent * requests[i]) \div 100 \in Int
    BY <2>2
  <2> QED
    BY <2>1, <2>2, <2>3 DEF TicketOf, WithinBudget, Budget!Limit
<1>5. /\ told = ticket[r] => ticket' = ticket
      /\ to = from => stage' = stage
  BY <1>1, <1>2
<1> HIDE DEF stage, ticket, from, to, told
<1>6. CASE to = from /\ told = ticket[r]
  <2>1. stage' = stage /\ ticket' = ticket /\ requests'[i] = requests[i] /\ retries'[i] = retries[i]
    BY <1>1, <1>5, <1>6 DEF Weight
  <2> QED BY <2>1 DEF Budget!vars, stage, ticket
<1>7. CASE told = ticket[r] /\ from = "out" /\ to = "in"
  <2>1. /\ stage[r] = "out" /\ stage' = [stage EXCEPT ![r] = "in"] /\ ticket' = ticket
        /\ requests'[i] = requests[i] + 1 /\ retries'[i] = retries[i]
    BY <1>1, <1>2, <1>5, <1>7 DEF Weight
  <2> QED BY <2>1 DEF Budget!RequestStarted, Budget!Next, Budget!Step, stage, ticket
<1>8. CASE told = ticket[r] /\ from = "in" /\ to = "out"
  <2>1. /\ stage[r] = "in" /\ stage' = [stage EXCEPT ![r] = "out"] /\ ticket' = ticket
        /\ requests'[i] = requests[i] - 1 /\ retries'[i] = retries[i]
    BY <1>1, <1>2, <1>5, <1>8 DEF Weight
  <2> QED BY <2>1 DEF Budget!RequestFinished, Budget!Next, Budget!Step, stage, ticket
<1>9. CASE told = ticket[r] /\ from \in {"refused", "holding"} /\ to = "in"
  <2>1. /\ stage[r] \in {"refused", "holding"} /\ stage' = [stage EXCEPT ![r] = "in"]
        /\ ticket' = ticket /\ requests'[i] = requests[i] /\ retries'[i] = retries[i] - 1
    BY <1>1, <1>2, <1>5, <1>9 DEF Weight
  <2> QED BY <2>1 DEF Budget!TakeBack, Budget!RetryFinished, Budget!Next, Budget!Step, stage, ticket
<1>10. CASE from = "in" /\ to = "asking" /\ told = retries[i] + 1
  <2>1. /\ stage[r] = "in" /\ stage' = [stage EXCEPT ![r] = "asking"]
        /\ ticket' = [ticket EXCEPT ![r] = retries[i] + 1]
        /\ requests'[i] = requests[i] /\ retries'[i] = retries[i] + 1
    BY <1>1, <1>2, <1>10 DEF Weight
  <2> QED BY <2>1 DEF Budget!AskRetry, Budget!Next, Budget!Step, stage, ticket
<1>11. CASE told = 0 /\ i = req[r].snap /\ from = "asking" /\ to = "holding" /\ WithinBudget(r)
  <2>1. /\ stage[r] = "asking" /\ stage' = [stage EXCEPT ![r] = "holding"]
        /\ ticket' = [ticket EXCEPT ![r] = 0] /\ ticket[r] <= Budget(i)!Limit(requests[i])
        /\ requests'[i] = requests[i] /\ retries'[i] = retries[i]
    BY <1>1, <1>2, <1>4, <1>11 DEF Weight
  <2> QED BY <2>1 DEF Budget!GrantRetry, Budget!Next, Budget!Step, stage, ticket
<1>12. CASE told = 0 /\ i = req[r].snap /\ from = "asking" /\ to = "refused" /\ ~WithinBudget(r)
  <2>1. /\ stage[r] = "asking" /\ stage' = [stage EXCEPT ![r] = "refused"]
        /\ ticket' = [ticket EXCEPT ![r] = 0] /\ ticket[r] > Budget(i)!Limit(requests[i])
        /\ requests'[i] = requests[i] /\ retries'[i] = retries[i]
    BY <1>1, <1>2, <1>4, <1>12 DEF Weight
  <2> QED BY <2>1 DEF Budget!RefuseRetry, Budget!Next, Budget!Step, stage, ticket
<1> QED
  BY <1>3, <1>6, <1>7, <1>8, <1>9, <1>10, <1>11, <1>12

\* A step takes every snapshot's budget through at most one of its own steps
\* (retrybudget.go, Core.ServeHTTP, Core.try).
THEOREM BudgetsUsedAsMeant == Spec => BudgetsRespected
<1>1. Init => \A i \in Snapshots : Budget(i)!Init
  BY BudgetInit
<1>2. IInv /\ [Next]_vars =>
          [\A i \in Snapshots : UNCHANGED Budget(i)!vars \/ Budget(i)!Next]_vars
  <2> SUFFICES ASSUME IInv, [Next]_vars, NEW i \in Snapshots
               PROVE  Budget(i)!Next \/ UNCHANGED Budget(i)!vars
    OBVIOUS
  <2>1. ASSUME NEW r \in Requests, Arrive(r) \/ Serve(r) \/ HangUp(r)
        PROVE  Budget(i)!Next \/ UNCHANGED Budget(i)!vars
    BY <2>1, RequestStep, BudgetStep
  <2>2. ASSUME UNCHANGED <<req, requests, retries>> PROVE UNCHANGED Budget(i)!vars
    BY <2>2 DEF Budget!vars
  <2> QED
    BY <2>1, <2>2 DEF Next, Probe, Reload, Tick, vars
<1> QED
  BY <1>1, <1>2, Invariance, PTL DEF Spec, BudgetsRespected

\* The breaker's module computes a circuit as the core does.
LEMMA SameCircuit ==
    ASSUME NEW i \in Snapshots, NEW c
    PROVE  /\ BreakerOf(i)!Untracked = Untracked
           /\ BreakerOf(i)!Admits(c) <=> Admits(c)
           /\ BreakerOf(i)!AfterAllow(c) = AfterAllow(c)
           /\ BreakerOf(i)!AfterSuccess(c) = AfterSuccess(c)
           /\ BreakerOf(i)!AfterFailure(c) = AfterFailure(c)
           /\ BreakerOf(i)!AfterTick(c) = AfterTick(c)
<1>1. BreakerOf(i)!Untracked = Untracked /\ BreakerOf(i)!AfterSuccess(c) = AfterSuccess(c)
  BY DEF BreakerOf!Untracked, Untracked, BreakerOf!Closed, Closed, BreakerOf!AfterSuccess,
         AfterSuccess
<1>2. /\ BreakerOf(i)!Admits(c) <=> Admits(c)
      /\ BreakerOf(i)!AfterAllow(c) = AfterAllow(c)
  BY DEF BreakerOf!Admits, Admits, BreakerOf!AfterAllow, AfterAllow, BreakerOf!Tripped,
         Tripped, BreakerOf!Elapsed, Elapsed, BreakerOf!Closed, Closed
<1>3. BreakerOf(i)!AfterFailure(c) = AfterFailure(c)
  BY DEF BreakerOf!AfterFailure, AfterFailure
<1>4. BreakerOf(i)!AfterTick(c) = AfterTick(c)
  BY DEF BreakerOf!AfterTick, AfterTick
<1> QED
  BY <1>1, <1>2, <1>3, <1>4

\* What a step of r does to its use of breaker i, in the breaker's own terms.
LEMMA UseMoves ==
    ASSUME IInv, NEW r \in Requests, Kept(r), NEW i \in Snapshots
    PROVE  /\ [s \in Requests |-> UseOf(i, req'[s])] =
                 [[s \in Requests |-> UseOf(i, req[s])] EXCEPT ![r] = UseOf(i, req'[r])]
           /\ [s \in Requests |-> PlaceOf(i, req'[s])] =
                 [[s \in Requests |-> PlaceOf(i, req[s])] EXCEPT ![r] = PlaceOf(i, req'[r])]
           /\ [s \in Requests |-> FitOf(i, req'[s])] =
                 [[s \in Requests |-> FitOf(i, req[s])] EXCEPT ![r] = FitOf(i, req'[r])]
           /\ [s \in Requests |-> GoneOf(i, req'[s])] =
                 [[s \in Requests |-> GoneOf(i, req[s])] EXCEPT ![r] = GoneOf(i, req'[r])]
<1>1. \A s \in Requests \ {r} : req'[s] = req[s]
  BY DEF Kept, Changes
<1> QED
  BY <1>1

\* Where each group of steps takes a request, as far as the breaker is concerned.
LEMMA FormsAround ==
    ASSUME IInv, NEW r \in Requests
    PROVE  /\ Arrive(r) => req[r].pc = "out" /\ req'[r].pc = "body" /\ circuits' = circuits
           /\ Leave(r) => req[r].pc = "done" /\ req'[r].pc = "out" /\ circuits' = circuits
           /\ RefuseBody(r) =>
                 Moves(r, {"body"}, "done", {"pc", "verdict", "replies"}) /\ circuits' = circuits
           /\ Finish(r) => Moves(r, {"closing"}, "done", {"pc"}) /\ circuits' = circuits
           /\ Start(r) => Moves(r, {"body"}, "scan", {"pc"}) /\ circuits' = circuits
           /\ HangUp(r) => Changes(r, {"gone"}) /\ req'[r].gone = TRUE /\ circuits' = circuits
<1> USE SoundNow DEF At
<1>1. ASSUME Arrive(r)
      PROVE  req[r].pc = "out" /\ req'[r].pc = "body" /\ circuits' = circuits
  <2>1. PICK idempotent \in BOOLEAN, body \in Bodies :
            req' = [req EXCEPT ![r] = [Fresh EXCEPT
                       !.pc = "body", !.snap = current,
                       !.idempotent = idempotent, !.body = body]]
    BY <1>1 DEF Arrive
  <2> DEFINE f == Fresh
             q == [f EXCEPT !.pc = "body", !.snap = current,
                            !.idempotent = idempotent, !.body = body]
  <2>2. f \in Records /\ req' = [req EXCEPT ![r] = q]
    BY <2>1, FreshSound
  <2> HIDE DEF f
  <2>3. q.pc = "body"
    BY <2>2 DEF Records
  <2> HIDE DEF q
  <2> QED
    BY <1>1, <2>2, <2>3 DEF Arrive, TypeOK
<1>2. ASSUME Leave(r)
      PROVE  req[r].pc = "done" /\ req'[r].pc = "out" /\ circuits' = circuits
  <2> DEFINE f == Fresh
  <2>1. f.pc = "out" /\ req' = [req EXCEPT ![r] = f]
    BY <1>2 DEF Leave, Fresh
  <2> HIDE DEF f
  <2> QED
    BY <1>2, <2>1 DEF Leave, TypeOK
<1>3. ASSUME RefuseBody(r)
      PROVE  Moves(r, {"body"}, "done", {"pc", "verdict", "replies"}) /\ circuits' = circuits
  BY <1>3, SetVerdict DEF RefuseBody, Moves
<1>4. ASSUME Finish(r) PROVE Moves(r, {"closing"}, "done", {"pc"}) /\ circuits' = circuits
  BY <1>4, SetStage DEF Finish, Moves, Stages
<1>5. ASSUME Start(r) PROVE Moves(r, {"body"}, "scan", {"pc"}) /\ circuits' = circuits
  BY <1>5, SetStage DEF Start, Moves, Stages
<1>6. ASSUME HangUp(r) PROVE Changes(r, {"gone"}) /\ req'[r].gone = TRUE /\ circuits' = circuits
  BY <1>6, SetGone DEF HangUp
<1> QED
  BY <1>1, <1>2, <1>3, <1>4, <1>5, <1>6

LEMMA FormsScan ==
    ASSUME IInv, NEW r \in Requests, Scan(r)
    PROVE  /\ req[r].pc = "scan" /\ Changes(r, {"next", "fit"})
           /\ \/ circuits' = circuits /\ req'[r].fit = req[r].fit
              \/ \E b \in Addrs :
                    LET c == circuits[req[r].snap][b]
                        fit == BreakerEnabled(req[r].snap) => Admits(c)
                    IN  /\ req'[r].fit = IF fit THEN req[r].fit \cup {b} ELSE req[r].fit
                        /\ circuits' = IF BreakerEnabled(req[r].snap)
                                       THEN [circuits EXCEPT ![req[r].snap][b] = AfterAllow(@)]
                                       ELSE circuits
<1> USE SoundNow DEF At
<1> DEFINE i == req[r].snap
           b == Configs[i].pool[req[r].next]
           asked == b \notin req[r].tried /\ health[b].healthy
           admits == BreakerEnabled(i) => Admits(circuits[i][b])
           fit == asked /\ admits
<1>1. /\ req' = [req EXCEPT ![r].next = @ + 1, ![r].fit = IF fit THEN @ \cup {b} ELSE @]
      /\ req[r].next <= Len(Configs[i].pool) /\ req[r].pc = "scan"
      /\ circuits' = IF asked /\ BreakerEnabled(i)
                     THEN [circuits EXCEPT ![i][b] = AfterAllow(@)]
                     ELSE circuits
  BY DEF Scan
<1>2. b \in Addrs
  <2>1. req[r].next \in Nat \ {0}
    BY DEF Records
  <2> QED BY <1>1, <2>1, PoolOfAddrs
<1>3. fit \in BOOLEAN
  OBVIOUS
<1>4. (asked => (fit <=> admits)) /\ (~asked => ~fit)
  OBVIOUS
<1> HIDE DEF b, asked, fit
<1>5. /\ Changes(r, {"next", "fit"})
      /\ req'[r].fit = IF fit THEN req[r].fit \cup {b} ELSE req[r].fit
  BY <1>1, <1>2, <1>3, SetFit
<1>6. CASE asked
  <2>1. /\ req'[r].fit = IF admits THEN req[r].fit \cup {b} ELSE req[r].fit
        /\ circuits' = IF BreakerEnabled(i)
                       THEN [circuits EXCEPT ![i][b] = AfterAllow(@)]
                       ELSE circuits
    BY <1>1, <1>4, <1>5, <1>6
  <2> QED
    BY <1>1, <1>2, <1>5, <2>1
<1>7. CASE ~asked
  BY <1>1, <1>4, <1>5, <1>7
<1> QED
  BY <1>6, <1>7

LEMMA FormsPlace ==
    ASSUME IInv, NEW r \in Requests, PlaceFirst(r) \/ PlaceRetry(r)
    PROVE  /\ circuits' = circuits
           /\ \E b \in Candidates(r) \cap Addrs, stage \in {"dial", "asking"} :
                 /\ Moves(r, {"scan"}, stage, {"pc", "at", "tried", "next", "fit", "ticket"})
                 /\ req'[r].at = b /\ req'[r].fit = {}
<1> USE SoundNow DEF At
<1>1. PICK b \in Candidates(r), stage \in {"dial", "asking"} : Chooses(r, b, stage)
  BY DEF PlaceFirst, PlaceRetry
<1>2. b \in Addrs
  BY PoolOfAddrs DEF Candidates, Sound, TriesOthers
<1>3. req[r].pc = "scan" /\ circuits' = circuits
  BY DEF PlaceFirst, PlaceRetry, Scanned
<1> QED
  BY <1>1, <1>2, <1>3, SetChosen DEF Moves

LEMMA FormsLeaving ==
    ASSUME IInv, NEW r \in Requests
    PROVE  /\ NoBackend(r) =>
                 /\ Moves(r, {"scan"}, "closing", {"pc", "at", "err", "verdict", "replies"})
                 /\ req'[r].at = Nobody /\ req[r].fit = {} /\ circuits' = circuits
           /\ TakeBack(r) =>
                 /\ Moves(r, {"refused"}, "closing", {"pc", "at", "err", "verdict", "replies"})
                 /\ req'[r].at = Nobody /\ circuits' = circuits
           /\ LeaveAnswered(r) \/ LeaveGone(r) \/ LeaveUnretried(r) =>
                 /\ Moves(r, {"unwind"}, "closing", {"pc", "at", "err", "verdict", "replies"})
                 /\ req'[r].at = Nobody /\ circuits' = circuits
           /\ TryAgain(r) =>
                 /\ Moves(r, {"unwind"}, "scan", {"pc", "n", "at", "err"})
                 /\ req'[r].at = Nobody /\ circuits' = circuits
           /\ GrantRetry(r) =>
                 Moves(r, {"asking"}, "dial", {"pc", "ticket"}) /\ circuits' = circuits
           /\ RefuseRetry(r) =>
                 Moves(r, {"asking"}, "refused", {"pc", "ticket"}) /\ circuits' = circuits
<1> USE SoundNow DEF At, Moves
<1>0. \A verdict \in {"no_backend", "spent", "answered", "aborted", "gone", "not_retryable"} :
          verdict \in Verdicts
  BY DEF Verdicts
<1>1. ASSUME NoBackend(r)
      PROVE  /\ Moves(r, {"scan"}, "closing", {"pc", "at", "err", "verdict", "replies"})
             /\ req'[r].at = Nobody /\ req[r].fit = {} /\ circuits' = circuits
  <2>1. Closes(r, "no_backend", TRUE) /\ req[r].pc = "scan" /\ circuits' = circuits
    BY <1>1 DEF NoBackend, Scanned
  <2>2. req[r].fit = {}
    BY <1>1 DEF NoBackend, Candidates
  <2> QED
    BY <1>0, <2>1, <2>2, SetClosing
<1>2. ASSUME TakeBack(r)
      PROVE  /\ Moves(r, {"refused"}, "closing", {"pc", "at", "err", "verdict", "replies"})
             /\ req'[r].at = Nobody /\ circuits' = circuits
  <2>1. Closes(r, "spent", TRUE) /\ req[r].pc = "refused" /\ circuits' = circuits
    BY <1>2 DEF TakeBack
  <2> QED
    BY <1>0, <2>1, SetClosing
<1>3. ASSUME LeaveAnswered(r) \/ LeaveGone(r) \/ LeaveUnretried(r)
      PROVE  /\ Moves(r, {"unwind"}, "closing", {"pc", "at", "err", "verdict", "replies"})
             /\ req'[r].at = Nobody /\ circuits' = circuits
  <2>1. PICK verdict \in {"answered", "aborted", "gone", "not_retryable", "no_backend"},
             page \in BOOLEAN : Closes(r, verdict, page)
    BY <1>3 DEF LeaveAnswered, LeaveGone, LeaveUnretried
  <2>2. req[r].pc = "unwind" /\ circuits' = circuits
    BY <1>3 DEF LeaveAnswered, LeaveGone, LeaveUnretried, Release
  <2> QED
    BY <1>0, <2>1, <2>2, SetClosing
<1>4. ASSUME TryAgain(r)
      PROVE  /\ Moves(r, {"unwind"}, "scan", {"pc", "n", "at", "err"})
             /\ req'[r].at = Nobody /\ circuits' = circuits
  BY <1>4, SetAttempt DEF TryAgain, Release
<1>5. ASSUME GrantRetry(r)
      PROVE  Moves(r, {"asking"}, "dial", {"pc", "ticket"}) /\ circuits' = circuits
  BY <1>5, SetTicket DEF GrantRetry, Stages
<1>6. ASSUME RefuseRetry(r)
      PROVE  Moves(r, {"asking"}, "refused", {"pc", "ticket"}) /\ circuits' = circuits
  BY <1>6, SetTicket DEF RefuseRetry, Stages
<1> QED
  BY <1>1, <1>2, <1>3, <1>4, <1>5, <1>6

\* The steps of an exchange, and what may change in them.
ExchangeSteps(r) ==
    \/ DialFails(r) \/ Send(r) \/ LoseAnswer(r) \/ CancelAttempt(r) \/ BreakBody(r)
    \/ Answer(r) \/ Answer5xx(r) \/ Complete(r) \/ CutOff(r) \/ LoseClient(r)

LEMMA FormsExchange ==
    ASSUME IInv, NEW r \in Requests, ExchangeSteps(r)
    PROVE  /\ circuits' = circuits
           /\ \E to \in {"sent", "streaming", "served", "failed", "unwind"} :
                 Moves(r, {"dial", "sent", "streaming"}, to, {"pc", "err", "replies", "seen"})
<1> USE SoundNow DEF At
<1>1. ASSUME NEW err \in {"dial", "lost", "5xx", "cancelled", "cut_off"}, Fails(r, err),
             req[r].pc \in {"dial", "sent", "streaming"}
      PROVE  /\ circuits' = circuits
             /\ Moves(r, {"dial", "sent", "streaming"}, "failed", {"pc", "err", "replies", "seen"})
  <2>1. /\ Changes(r, {"pc", "err"}) /\ req'[r].pc = "failed" /\ circuits' = circuits
    BY <1>1, SetError DEF Fails, Stages, Errors
  <2> QED
    BY <1>1, <2>1 DEF Moves, Changes
<1>2. ASSUME At(r, "sent"), Stream(r)
      PROVE  /\ circuits' = circuits
             /\ Moves(r, {"dial", "sent", "streaming"}, "streaming",
                      {"pc", "err", "replies", "seen"})
  BY <1>2, SetReplies DEF Stream, Moves, Changes
<1>3. ASSUME Send(r)
      PROVE  /\ circuits' = circuits
             /\ Moves(r, {"dial", "sent", "streaming"}, "sent", {"pc", "err", "replies", "seen"})
  <2>1. req[r].pc = "dial" /\ req[r].at \in Addrs
    BY <1>3 DEF Send, Sound, Placed, Placing, Serving
  <2> QED
    BY <1>3, <2>1, SetSeen DEF Send, Moves, Changes
<1>4. ASSUME Complete(r)
      PROVE  /\ circuits' = circuits
             /\ Moves(r, {"dial", "sent", "streaming"}, "served", {"pc", "err", "replies", "seen"})
  BY <1>4, SetStage DEF Complete, Moves, Changes, Stages
<1>5. ASSUME LoseClient(r)
      PROVE  /\ circuits' = circuits
             /\ Moves(r, {"dial", "sent", "streaming"}, "unwind", {"pc", "err", "replies", "seen"})
  <2>1. /\ Changes(r, {"pc", "err"}) /\ req[r].pc = "streaming" /\ req'[r].pc = "unwind"
        /\ circuits' = circuits
    BY <1>5, SetError DEF LoseClient, Stages, Errors
  <2> QED
    BY <2>1 DEF Moves, Changes
<1>6. CASE DialFails(r) \/ LoseAnswer(r) \/ CancelAttempt(r) \/ BreakBody(r) \/ CutOff(r)
  <2>1. PICK err \in {"dial", "lost", "5xx", "cancelled", "cut_off"} : Fails(r, err)
    BY <1>6 DEF DialFails, LoseAnswer, CancelAttempt, BreakBody, CutOff
  <2>2. req[r].pc \in {"dial", "sent", "streaming"}
    BY <1>6 DEF DialFails, LoseAnswer, CancelAttempt, BreakBody, CutOff
  <2> QED
    BY <1>1, <2>1, <2>2
<1>7. CASE Answer(r) \/ Answer5xx(r)
  <2>1. At(r, "sent") /\ (Stream(r) \/ Fails(r, "5xx"))
    BY <1>7 DEF Answer, Answer5xx
  <2> QED
    BY <1>1, <1>2, <2>1
<1> QED
  BY <1>3, <1>4, <1>5, <1>6, <1>7 DEF ExchangeSteps

LEMMA FormsReport ==
    ASSUME IInv, NEW r \in Requests
    PROVE  /\ Credit(r) => Moves(r, {"served"}, "credited", {"pc"}) /\ circuits' = circuits
           /\ Blame(r) => Moves(r, {"failed"}, "blamed", {"pc"}) /\ circuits' = circuits
           /\ Excuse(r) =>
                 Moves(r, {"failed"}, "unwind", {"pc"}) /\ req[r].gone /\ circuits' = circuits
           /\ CloseCircuit(r) => Moves(r, {"credited"}, "unwind", {"pc"})
           /\ TripCircuit(r) => Moves(r, {"blamed"}, "unwind", {"pc"})
<1> USE SoundNow, SetStage DEF At, Moves, Stages
<1>1. ASSUME Credit(r) PROVE Moves(r, {"served"}, "credited", {"pc"}) /\ circuits' = circuits
  BY <1>1 DEF Credit
<1>2. ASSUME Blame(r) PROVE Moves(r, {"failed"}, "blamed", {"pc"}) /\ circuits' = circuits
  BY <1>2 DEF Blame
<1>3. ASSUME Excuse(r)
      PROVE  Moves(r, {"failed"}, "unwind", {"pc"}) /\ req[r].gone /\ circuits' = circuits
  BY <1>3 DEF Excuse
<1>4. ASSUME CloseCircuit(r) PROVE Moves(r, {"credited"}, "unwind", {"pc"})
  BY <1>4 DEF CloseCircuit
<1>5. ASSUME TripCircuit(r) PROVE Moves(r, {"blamed"}, "unwind", {"pc"})
  BY <1>5 DEF TripCircuit
<1> QED
  BY <1>1, <1>2, <1>3, <1>4, <1>5

\* A request does nothing to the breaker of another snapshot than its own: it takes
\* a snapshot up when it arrives, before it uses anything of it.
LEMMA UseElsewhere ==
    ASSUME IInv, NEW r \in Requests, Arrive(r) \/ Serve(r) \/ HangUp(r), Kept(r),
           NEW i \in Snapshots, i # req[r].snap
    PROVE  UNCHANGED BreakerOf(i)!useVars
<1> USE SoundNow
<1>1. req'[r].snap = req[r].snap \/ req'[r].pc \in {"out", "body"}
  <2> USE DEF Moves, Changes, Fields
  <2>1. CASE Arrive(r) \/ Leave(r) \/ RefuseBody(r) \/ Finish(r) \/ Start(r) \/ HangUp(r)
    BY <2>1, FormsAround
  <2>2. CASE Scan(r)
    BY <2>2, FormsScan
  <2>3. CASE PlaceFirst(r) \/ PlaceRetry(r)
    BY <2>3, FormsPlace
  <2>4. CASE \/ NoBackend(r) \/ TakeBack(r) \/ LeaveAnswered(r) \/ LeaveGone(r)
             \/ LeaveUnretried(r) \/ TryAgain(r) \/ GrantRetry(r) \/ RefuseRetry(r)
    BY <2>4, FormsLeaving
  <2>5. CASE ExchangeSteps(r)
    BY <2>5, FormsExchange
  <2>6. CASE Credit(r) \/ CloseCircuit(r) \/ Blame(r) \/ Excuse(r) \/ TripCircuit(r)
    BY <2>6, FormsReport
  <2> QED
    BY <2>1, <2>2, <2>3, <2>4, <2>5, <2>6 DEF Serve, ExchangeSteps
<1>2. ~Uses(i, req[r]) /\ ~Uses(i, req'[r])
  BY <1>1 DEF Uses
<1>3. circuits'[i] = circuits[i]
  BY Reports DEF Admitted, Cleared, Charged, TypeOK
<1> DEFINE stage == [s \in Requests |-> UseOf(i, req[s])]
           at == [s \in Requests |-> PlaceOf(i, req[s])]
           admitted == [s \in Requests |-> FitOf(i, req[s])]
           gone == [s \in Requests |-> GoneOf(i, req[s])]
<1>4. /\ \A q \in {req[r], req'[r]} : /\ UseOf(i, q) = "out" /\ PlaceOf(i, q) = Nobody
                                      /\ FitOf(i, q) = {} /\ GoneOf(i, q) = FALSE
      /\ \A s \in Requests \ {r} : req'[s] = req[s]
  BY <1>2 DEF UseOf, PlaceOf, FitOf, GoneOf, Kept, Changes
<1>5. stage' = stage /\ at' = at /\ admitted' = admitted /\ gone' = gone
  BY <1>4
<1> QED
  BY <1>3, <1>5 DEF BreakerOf!useVars

\* In its own snapshot a request takes one step of the use of the breaker, or none.
LEMMA UseStep ==
    ASSUME IInv, NEW r \in Requests, Arrive(r) \/ Serve(r) \/ HangUp(r), Kept(r),
           NEW i \in Snapshots, i = req[r].snap
    PROVE  BreakerOf(i)!UseNext \/ UNCHANGED BreakerOf(i)!useVars
<1> USE SoundNow
<1> DEFINE stage == [s \in Requests |-> UseOf(i, req[s])]
           at == [s \in Requests |-> PlaceOf(i, req[s])]
           admitted == [s \in Requests |-> FitOf(i, req[s])]
           gone == [s \in Requests |-> GoneOf(i, req[s])]
           Goal == BreakerOf(i)!UseNext \/ UNCHANGED BreakerOf(i)!useVars
<1>1. /\ stage' = [stage EXCEPT ![r] = UseOf(i, req'[r])]
      /\ at' = [at EXCEPT ![r] = PlaceOf(i, req'[r])]
      /\ admitted' = [admitted EXCEPT ![r] = FitOf(i, req'[r])]
      /\ gone' = [gone EXCEPT ![r] = GoneOf(i, req'[r])]
  BY UseMoves
<1>2. /\ stage[r] = UseOf(i, req[r]) /\ at[r] = PlaceOf(i, req[r])
      /\ admitted[r] = FitOf(i, req[r]) /\ gone[r] = GoneOf(i, req[r])
  OBVIOUS
<1>3. /\ UseOf(i, req'[r]) = UseOf(i, req[r]) => stage' = stage
      /\ PlaceOf(i, req'[r]) = PlaceOf(i, req[r]) => at' = at
      /\ FitOf(i, req'[r]) = FitOf(i, req[r]) => admitted' = admitted
      /\ GoneOf(i, req'[r]) = GoneOf(i, req[r]) => gone' = gone
  BY <1>1, <1>2
<1> HIDE DEF stage, at, admitted, gone
\* A stage that uses the breaker, and one that does not.
<1>4. /\ req[r].pc \notin {"out", "body", "closing", "done"} =>
            /\ PlaceOf(i, req[r]) = req[r].at /\ FitOf(i, req[r]) = req[r].fit
            /\ GoneOf(i, req[r]) = req[r].gone
      /\ req[r].pc \in {"out", "body", "closing", "done"} =>
            /\ UseOf(i, req[r]) = "out" /\ PlaceOf(i, req[r]) = Nobody
            /\ FitOf(i, req[r]) = {} /\ GoneOf(i, req[r]) = FALSE
  BY DEF Uses, UseOf, PlaceOf, FitOf, GoneOf
<1>5. /\ req'[r].snap = i /\ req'[r].pc \notin {"out", "body", "closing", "done"} =>
            /\ PlaceOf(i, req'[r]) = req'[r].at /\ FitOf(i, req'[r]) = req'[r].fit
            /\ GoneOf(i, req'[r]) = req'[r].gone
      /\ req'[r].pc \in {"out", "body", "closing", "done"} =>
            /\ UseOf(i, req'[r]) = "out" /\ PlaceOf(i, req'[r]) = Nobody
            /\ FitOf(i, req'[r]) = {} /\ GoneOf(i, req'[r]) = FALSE
  BY DEF Uses, UseOf, PlaceOf, FitOf, GoneOf
<1>6. ASSUME stage' = stage, at' = at, admitted' = admitted, gone' = gone, circuits' = circuits
      PROVE  Goal
  BY <1>6 DEF BreakerOf!useVars, stage, at, admitted, gone
\* Arrival, the body, and the ends.
<1>7. CASE \/ Arrive(r) \/ Leave(r) \/ RefuseBody(r) \/ Finish(r)
  <2>1. /\ req[r].pc \in {"out", "body", "closing", "done"} /\ circuits' = circuits
        /\ req'[r].pc \in {"out", "body", "closing", "done"}
    BY <1>7, FormsAround DEF Moves
  <2> QED
    BY <1>3, <1>4, <1>5, <1>6, <2>1
<1>8. CASE Start(r)
  <2>1. /\ req[r].pc = "body" /\ req'[r].pc = "scan" /\ req'[r].snap = i
        /\ req'[r].at = Nobody /\ req'[r].fit = {} /\ circuits' = circuits
        /\ req'[r].gone \in BOOLEAN
    BY <1>8, FormsAround DEF Moves, Changes, Fields, Sound, Placed, Records
  <2>2. UseOf(i, req'[r]) = "choosing"
    BY <2>1 DEF Uses, UseOf
  <2>3. /\ stage[r] = "out" /\ stage' = [stage EXCEPT ![r] = "choosing"]
        /\ at' = at /\ admitted' = admitted /\ gone' = [gone EXCEPT ![r] = req'[r].gone]
    BY <1>1, <1>2, <1>3, <1>4, <1>5, <2>1, <2>2
  <2>4. BreakerOf(i)!Enter(r)
    BY <2>1, <2>3 DEF BreakerOf!Enter, BreakerOf!Goes, stage, at, admitted, gone
  <2> QED
    BY <2>4 DEF BreakerOf!UseNext
<1>9. CASE HangUp(r)
  <2>1. /\ Changes(r, {"gone"}) /\ req'[r].gone = TRUE /\ circuits' = circuits
        /\ req'[r].pc = req[r].pc /\ req'[r].snap = i /\ req'[r].at = req[r].at
        /\ req'[r].fit = req[r].fit
    BY <1>9, FormsAround DEF Changes, Fields
  <2>2. /\ UseOf(i, req'[r]) = UseOf(i, req[r]) /\ PlaceOf(i, req'[r]) = PlaceOf(i, req[r])
        /\ FitOf(i, req'[r]) = FitOf(i, req[r])
    BY <2>1 DEF Uses, UseOf, PlaceOf, FitOf
  <2>3. CASE req[r].pc \in {"out", "body", "closing", "done"}
    BY <1>3, <1>4, <1>5, <1>6, <2>1, <2>2, <2>3
  <2>4. CASE req[r].pc \notin {"out", "body", "closing", "done"}
    <3>1. stage[r] # "out"
      BY <1>2, <2>4 DEF Uses, UseOf
    <3>2. /\ stage' = stage /\ at' = at /\ admitted' = admitted
          /\ gone' = [gone EXCEPT ![r] = TRUE]
      BY <1>1, <1>3, <1>5, <2>1, <2>2, <2>4
    <3>3. BreakerOf(i)!HangUp(r)
      BY <2>1, <3>1, <3>2 DEF BreakerOf!HangUp, stage, at, admitted, gone
    <3> QED
      BY <3>3 DEF BreakerOf!UseNext
  <2> QED
    BY <2>3, <2>4
\* Selection.
<1>10. CASE Scan(r)
  <2>1. /\ req[r].pc = "scan" /\ req'[r].pc = "scan" /\ req'[r].snap = i
        /\ req'[r].at = req[r].at /\ req'[r].gone = req[r].gone
    BY <1>10, FormsScan DEF Changes, Fields
  <2>2. UseOf(i, req[r]) = "choosing" /\ UseOf(i, req'[r]) = "choosing"
    BY <2>1 DEF Uses, UseOf
  <2>3. /\ stage[r] = "choosing" /\ stage' = stage /\ at' = at /\ gone' = gone
        /\ admitted[r] = req[r].fit /\ admitted' = [admitted EXCEPT ![r] = req'[r].fit]
    BY <1>1, <1>2, <1>3, <1>4, <1>5, <2>1, <2>2
  <2>4. CASE circuits' = circuits /\ req'[r].fit = req[r].fit
    BY <1>3, <1>4, <1>5, <1>6, <2>1, <2>3, <2>4
  <2>5. ASSUME NEW b \in Addrs,
               req'[r].fit = IF BreakerEnabled(i) => Admits(circuits[i][b])
                             THEN req[r].fit \cup {b} ELSE req[r].fit,
               circuits' = IF BreakerEnabled(i)
                           THEN [circuits EXCEPT ![i][b] = AfterAllow(@)] ELSE circuits
        PROVE  Goal
    <3> DEFINE c == circuits[i][b]
    <3>1. c \in CircuitStates /\ circuits \in [Snapshots -> [Addrs -> CircuitStates]]
      BY DEF TypeOK
    <3>2. CASE BreakerEnabled(i) => Admits(c)
      <4>1. circuits'[i] = IF BreakerEnabled(i)
                           THEN [circuits[i] EXCEPT ![b] = AfterAllow(c)] ELSE circuits[i]
        BY <2>5, <3>1
      <4>2. BreakerOf(i)!Allow(b)
        BY <3>2, <4>1, SameCircuit DEF BreakerOf!Allow
      <4>3. admitted' = [admitted EXCEPT ![r] = @ \cup {b}]
        BY <2>3, <2>5, <3>2
      <4>4. BreakerOf(i)!Ask(r, b)
        BY <2>3, <4>2, <4>3 DEF BreakerOf!Ask, stage, at, admitted, gone
      <4> QED
        BY <4>4 DEF BreakerOf!UseNext
    <3>3. CASE BreakerEnabled(i) /\ ~Admits(c)
      <4>1. AfterAllow(c) = c
        BY <3>1, <3>3 DEF Admits, AfterAllow, CircuitStates, Elapsed, Tripped, Closed
      <4>2. circuits' = circuits
        BY <2>5, <3>1, <3>3, <4>1
      <4>3. req'[r].fit = req[r].fit
        BY <2>5, <3>3
      <4> QED
        BY <2>4, <4>2, <4>3
    <3> QED
      BY <3>2, <3>3
  <2> QED
    BY <1>10, <2>4, <2>5, FormsScan
<1>11. CASE PlaceFirst(r) \/ PlaceRetry(r)
  <2>1. PICK b \in Candidates(r) \cap Addrs, to \in {"dial", "asking"} :
            /\ Moves(r, {"scan"}, to, {"pc", "at", "tried", "next", "fit", "ticket"})
            /\ req'[r].at = b /\ req'[r].fit = {}
    BY <1>11, FormsPlace
  <2>2. /\ req[r].pc = "scan" /\ req'[r].pc = to /\ req'[r].snap = i
        /\ req'[r].gone = req[r].gone /\ circuits' = circuits
    BY <1>11, <2>1, FormsPlace DEF Moves, Changes, Fields
  <2>3. b \in req[r].fit \/ req[r].fit = {}
    BY <2>1 DEF Candidates
  <2>4. /\ UseOf(i, req[r]) = "choosing"
        /\ UseOf(i, req'[r]) = IF to = "asking" THEN "chosen" ELSE "trying"
    BY <2>2 DEF Uses, UseOf
  <2>5. /\ stage[r] = "choosing" /\ admitted[r] = req[r].fit
        /\ \/ stage' = [stage EXCEPT ![r] = "chosen"]
           \/ stage' = [stage EXCEPT ![r] = "trying"]
        /\ at' = [at EXCEPT ![r] = b] /\ admitted' = [admitted EXCEPT ![r] = {}] /\ gone' = gone
    BY <1>1, <1>2, <1>3, <1>4, <1>5, <2>1, <2>2, <2>4
  <2>6. BreakerOf(i)!Choose(r, b)
    BY <2>2, <2>3, <2>5 DEF BreakerOf!Choose, BreakerOf!Goes, stage, at, admitted, gone
  <2> QED
    BY <2>1, <2>6 DEF BreakerOf!UseNext
<1>12. CASE GrantRetry(r)
  <2>1. /\ req[r].pc = "asking" /\ req'[r].pc = "dial" /\ req'[r].snap = i
        /\ req'[r].at = req[r].at /\ req'[r].fit = req[r].fit /\ req'[r].gone = req[r].gone
        /\ circuits' = circuits
    BY <1>12, FormsLeaving DEF Moves, Changes, Fields
  <2>2. UseOf(i, req[r]) = "chosen" /\ UseOf(i, req'[r]) = "trying"
    BY <2>1 DEF Uses, UseOf
  <2>3. /\ stage[r] = "chosen" /\ stage' = [stage EXCEPT ![r] = "trying"]
        /\ at' = at /\ admitted' = admitted /\ gone' = gone
    BY <1>1, <1>2, <1>3, <1>4, <1>5, <2>1, <2>2
  <2>4. BreakerOf(i)!Try(r)
    BY <2>1, <2>3 DEF BreakerOf!Try, BreakerOf!Goes, stage, at, admitted, gone
  <2> QED
    BY <2>4 DEF BreakerOf!UseNext
\* Stages of the code that are one stage of the use.
<1>13. CASE RefuseRetry(r) \/ Credit(r) \/ Blame(r)
  <2>1. /\ \/ req[r].pc = "asking" /\ req'[r].pc = "refused"
           \/ req[r].pc = "served" /\ req'[r].pc = "credited"
           \/ req[r].pc = "failed" /\ req'[r].pc = "blamed"
        /\ req'[r].snap = i /\ req'[r].at = req[r].at /\ req'[r].fit = req[r].fit
        /\ req'[r].gone = req[r].gone /\ circuits' = circuits
    BY <1>13, FormsLeaving, FormsReport DEF Moves, Changes, Fields
  <2>2. /\ UseOf(i, req'[r]) = UseOf(i, req[r]) /\ PlaceOf(i, req'[r]) = PlaceOf(i, req[r])
        /\ FitOf(i, req'[r]) = FitOf(i, req[r]) /\ GoneOf(i, req'[r]) = GoneOf(i, req[r])
    BY <2>1 DEF Uses, UseOf, PlaceOf, FitOf, GoneOf
  <2> QED
    BY <1>3, <1>6, <2>1, <2>2
\* The exchange.
<1>14. CASE ExchangeSteps(r)
  <2>1. PICK to \in {"sent", "streaming", "served", "failed", "unwind"} :
            Moves(r, {"dial", "sent", "streaming"}, to, {"pc", "err", "replies", "seen"})
    BY <1>14, FormsExchange
  <2>2. /\ req[r].pc \in {"dial", "sent", "streaming"} /\ req'[r].pc = to /\ req'[r].snap = i
        /\ req'[r].at = req[r].at /\ req'[r].fit = req[r].fit /\ req'[r].gone = req[r].gone
        /\ circuits' = circuits
    BY <1>14, <2>1, FormsExchange DEF Moves, Changes, Fields
  <2>3. /\ UseOf(i, req[r]) = "trying"
        /\ \/ UseOf(i, req'[r]) = "trying"
           \/ UseOf(i, req'[r]) \in {"served", "failed", "over"}
    BY <2>2 DEF Uses, UseOf
  <2>4. at' = at /\ admitted' = admitted /\ gone' = gone
    BY <1>3, <1>4, <1>5, <2>2
  <2>5. CASE UseOf(i, req'[r]) = "trying"
    BY <1>3, <1>6, <2>2, <2>3, <2>4, <2>5
  <2>6. CASE UseOf(i, req'[r]) \in {"served", "failed", "over"}
    <3>1. BreakerOf(i)!EndAttempt(r)
      BY <1>1, <1>2, <2>2, <2>3, <2>4, <2>6
      DEF BreakerOf!EndAttempt, BreakerOf!Goes, stage, at, admitted, gone
    <3> QED
      BY <3>1 DEF BreakerOf!UseNext
  <2> QED
    BY <2>3, <2>5, <2>6
\* Reports.
<1>15. ASSUME NEW from \in {"credited", "blamed", "failed"}, Moves(r, {from}, "unwind", {"pc"})
       PROVE  /\ stage[r] = (IF from = "credited" THEN "served" ELSE "failed")
              /\ stage' = [stage EXCEPT ![r] = "over"] /\ at[r] = req[r].at /\ req[r].at \in Addrs
              /\ gone[r] = req[r].gone /\ at' = at /\ admitted' = admitted /\ gone' = gone
  <2>1. /\ req[r].pc = from /\ req'[r].pc = "unwind" /\ req'[r].snap = i
        /\ req'[r].at = req[r].at /\ req'[r].fit = req[r].fit /\ req'[r].gone = req[r].gone
    BY <1>15 DEF Moves, Changes, Fields
  <2>2. /\ UseOf(i, req[r]) = (IF from = "credited" THEN "served" ELSE "failed")
        /\ UseOf(i, req'[r]) = "over"
    BY <2>1 DEF Uses, UseOf
  <2>3. req[r].at \in Addrs
    BY <2>1 DEF Sound, Placed, Placing, Serving
  <2> QED
    BY <1>1, <1>2, <1>3, <1>4, <1>5, <2>1, <2>2, <2>3
<1>16. CASE CloseCircuit(r)
  <2>1. circuits'[i] = IF BreakerEnabled(i)
                       THEN [circuits[i] EXCEPT ![req[r].at] = AfterSuccess(@)]
                       ELSE circuits[i]
    BY <1>16 DEF CloseCircuit, TypeOK
  <2>2. BreakerOf(i)!RecordSuccess(req[r].at)
    BY <2>1, SameCircuit DEF BreakerOf!RecordSuccess
  <2>3. BreakerOf(i)!ReportSuccess(r)
    BY <1>15, <1>16, <2>2, FormsReport
    DEF BreakerOf!ReportSuccess, BreakerOf!Goes, stage, at, admitted, gone
  <2> QED
    BY <2>3 DEF BreakerOf!UseNext
<1>17. CASE TripCircuit(r)
  <2>1. circuits'[i] = IF BreakerEnabled(i)
                       THEN [circuits[i] EXCEPT ![req[r].at] = AfterFailure(@)]
                       ELSE circuits[i]
    BY <1>17 DEF TripCircuit, TypeOK
  <2>2. BreakerOf(i)!RecordFailure(req[r].at)
    BY <2>1, SameCircuit DEF BreakerOf!RecordFailure
  <2>3. BreakerOf(i)!ReportFailure(r)
    BY <1>15, <1>17, <2>2, FormsReport
    DEF BreakerOf!ReportFailure, BreakerOf!Goes, stage, at, admitted, gone
  <2> QED
    BY <2>3 DEF BreakerOf!UseNext
<1>18. CASE Excuse(r)
  <2>1. BreakerOf(i)!Excuse(r)
    BY <1>15, <1>18, FormsReport
    DEF BreakerOf!Excuse, BreakerOf!Goes, stage, at, admitted, gone
  <2> QED
    BY <2>1 DEF BreakerOf!UseNext
\* The ways out.
<1>19. CASE TryAgain(r)
  <2>1. /\ req[r].pc = "unwind" /\ req'[r].pc = "scan" /\ req'[r].snap = i
        /\ req'[r].at = Nobody /\ req'[r].fit = req[r].fit /\ req'[r].gone = req[r].gone
        /\ circuits' = circuits
    BY <1>19, FormsLeaving DEF Moves, Changes, Fields
  <2>2. UseOf(i, req[r]) = "over" /\ UseOf(i, req'[r]) = "choosing"
    BY <2>1 DEF Uses, UseOf
  <2>3. /\ stage[r] = "over" /\ stage' = [stage EXCEPT ![r] = "choosing"]
        /\ at' = [at EXCEPT ![r] = Nobody] /\ admitted' = admitted /\ gone' = gone
    BY <1>1, <1>2, <1>3, <1>4, <1>5, <2>1, <2>2
  <2>4. BreakerOf(i)!Again(r)
    BY <2>1, <2>3 DEF BreakerOf!Again, BreakerOf!Goes, stage, at, admitted, gone
  <2> QED
    BY <2>4 DEF BreakerOf!UseNext
<1>20. CASE \/ NoBackend(r) \/ TakeBack(r) \/ LeaveAnswered(r) \/ LeaveGone(r)
            \/ LeaveUnretried(r)
  <2>1. /\ req[r].pc \in {"scan", "refused", "unwind"} /\ req'[r].pc = "closing"
        /\ req[r].fit = {} /\ circuits' = circuits
    BY <1>20, FormsLeaving DEF Moves, Sound, Placed
  <2>2. UseOf(i, req[r]) \in {"over", "chosen", "choosing"}
    BY <2>1 DEF Uses, UseOf
  <2>3. /\ stage[r] \in {"over", "chosen", "choosing"} /\ stage' = [stage EXCEPT ![r] = "out"]
        /\ admitted[r] = {} /\ admitted' = admitted
        /\ at' = [at EXCEPT ![r] = Nobody] /\ gone' = [gone EXCEPT ![r] = FALSE]
    BY <1>1, <1>2, <1>3, <1>4, <1>5, <2>1, <2>2
  <2>4. BreakerOf(i)!Exit(r)
    BY <2>1, <2>3 DEF BreakerOf!Exit, BreakerOf!Goes, stage, at, admitted, gone
  <2> QED
    BY <2>4 DEF BreakerOf!UseNext
<1> QED
  BY <1>7, <1>8, <1>9, <1>10, <1>11, <1>12, <1>13, <1>14, <1>16, <1>17, <1>18, <1>19, <1>20
  DEF Serve, ExchangeSteps

\* Across every reload, the requests of a snapshot ask its breaker before they choose
\* and tell it what came of each attempt, once, for the backend of that attempt; no
\* other request and nothing else but the clock touches it (breaker.go, Core.serve).
THEOREM BreakersUsedAsMeant == Spec => BreakersRespected
<1>1. Init => \A i \in Snapshots : BreakerOf(i)!UseInit
  <2> SUFFICES ASSUME Init, NEW i \in Snapshots PROVE BreakerOf(i)!UseInit
    OBVIOUS
  <2>1. \A r \in Requests : req[r].pc = "out"
    BY DEF Init, Fresh
  <2>2. \A r \in Requests : /\ UseOf(i, req[r]) = "out" /\ PlaceOf(i, req[r]) = Nobody
                            /\ FitOf(i, req[r]) = {} /\ GoneOf(i, req[r]) = FALSE
    BY <2>1 DEF Uses, UseOf, PlaceOf, FitOf, GoneOf
  <2>3. BreakerOf(i)!BreakerInit
    BY SameCircuit DEF Init, BreakerOf!BreakerInit
  <2> QED
    BY <2>2, <2>3 DEF BreakerOf!UseInit
<1>2. IInv /\ [Next]_vars =>
          [\A i \in Snapshots : UNCHANGED BreakerOf(i)!useVars \/ BreakerOf(i)!UseNext]_vars
  <2> SUFFICES ASSUME IInv, [Next]_vars, NEW i \in Snapshots
               PROVE  BreakerOf(i)!UseNext \/ UNCHANGED BreakerOf(i)!useVars
    OBVIOUS
  <2>1. ASSUME NEW r \in Requests, Arrive(r) \/ Serve(r) \/ HangUp(r)
        PROVE  BreakerOf(i)!UseNext \/ UNCHANGED BreakerOf(i)!useVars
    BY <2>1, RequestStep, UseStep, UseElsewhere
  <2>2. CASE Tick
    <3>1. circuits'[i] = [b \in Addrs |-> AfterTick(circuits[i][b])] /\ req' = req
      BY <2>2 DEF Tick
    <3>2. BreakerOf(i)!Tick
      BY <3>1, SameCircuit DEF BreakerOf!Tick
    <3> QED BY <3>1, <3>2 DEF BreakerOf!UseNext
  <2>3. ASSUME UNCHANGED <<req, circuits>> PROVE UNCHANGED BreakerOf(i)!useVars
    BY <2>3 DEF BreakerOf!useVars
  <2> QED
    BY <2>1, <2>2, <2>3 DEF Next, Probe, Reload, vars
<1> QED
  BY <1>1, <1>2, Invariance, PTL DEF Spec, BreakersRespected

\* On every way through ServeHTTP the two counters of the request's own snapshot
\* are exact: what CountsExact says of a budget on its own holds of every budget in
\* use, whatever panics, cancellations and reloads interleave (retrybudget.go).
THEOREM BudgetsCounted == Spec => [](\A i \in Snapshots : Budget(i)!CountsExact)
<1>1. IInv => \A i \in Snapshots : Budget(i)!CountsExact
  <2> SUFFICES ASSUME IInv, NEW i \in Snapshots PROVE Budget(i)!CountsExact
    OBVIOUS
  <2>1. \A r \in Requests :
            /\ InLoad(i, req[r]) <=> Use(i, req[r]) # "out"
            /\ Retrying(i, req[r]) <=> Use(i, req[r]) \in {"asking", "refused", "holding"}
    BY SoundNow DEF InLoad, Retrying, Use, Records, Stages, Serving
  <2>2. /\ {r \in Requests : InLoad(i, req[r])} = Budget(i)!InFlight
        /\ {r \in Requests : Retrying(i, req[r])} = Budget(i)!Counted
    BY <2>1 DEF Budget!InFlight, Budget!Counted
  <2>3. /\ requests[i] = Cardinality({r \in Requests : InLoad(i, req[r])})
        /\ retries[i] = Cardinality({r \in Requests : Retrying(i, req[r])})
    BY DEF IInv, Exact
  <2>4. requests[i] = Cardinality(Budget(i)!InFlight) /\ retries[i] = Cardinality(Budget(i)!Counted)
    BY <2>2, <2>3
  <2> QED
    BY <2>4 DEF Budget!CountsExact, Budget!Cardinality, Cardinality
<1> QED
  BY <1>1, Invariance, PTL
=============================================================================
