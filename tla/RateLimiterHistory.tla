------------------------- MODULE RateLimiterHistory -------------------------
(***************************************************************************)
(* The rate limiter beside two references kept as history variables: an    *)
(* allowance every admission is paid from, which states the rate over all  *)
(* windows of time at once, and a limiter that never sweeps.               *)
(***************************************************************************)
EXTENDS RateLimiter

VARIABLES
    allowance,   \* what each client may still be admitted by the clock itself
    unswept      \* the buckets of a limiter that keeps every one

varsL == <<limiterVars, allowance, unswept>>

\* A burst, and what a late reading may refill ahead of the clock.
Allowed(rate) == rate * (TicksPerSecond + MaxDelay)

TokensAt(known, c, delay) ==
    IF c \in DOMAIN known THEN Refilled(known[c], delay).tokens ELSE Burst(perSecond)

\* allow, in the limiter that never sweeps.
Asked(c, delay) ==
    LET tokens == TokensAt(unswept, c, delay)
    IN  unswept' = [d \in DOMAIN unswept \cup {c} |->
                       IF d = c
                       THEN [tokens |-> IF tokens >= Cost THEN tokens - Cost ELSE tokens,
                             age |-> delay]
                       ELSE unswept[d]]

TypeOKL ==
    /\ LimiterTypeOK
    /\ allowance \in [Clients -> Int]
    /\ DOMAIN unswept \subseteq Clients

InitL ==
    /\ LimiterInit
    /\ allowance = [c \in Clients |-> Allowed(perSecond)]
    /\ unswept = <<>>

AdmitL(c, delay) ==
    /\ Admit(c, delay)
    /\ allowance' = [allowance EXCEPT ![c] = @ - Cost]
    /\ Asked(c, delay)

RefuseL(c, delay) ==
    /\ Refuse(c, delay)
    /\ Asked(c, delay)
    /\ UNCHANGED allowance

PassL(c) == Pass(c) /\ UNCHANGED <<allowance, unswept>>

\* A new rate is a new allowance.
SetRateL ==
    /\ SetRate
    /\ allowance' = [c \in Clients |-> Allowed(Rates[reload + 1])]
    /\ UNCHANGED unswept

TickL ==
    /\ LimiterTick
    /\ allowance' = [c \in Clients |->
                        Capped(allowance[c] + perSecond, Allowed(perSecond))]
    /\ unswept' = [c \in DOMAIN unswept |->
                      [unswept[c] EXCEPT !.age = Capped(@ + 1, AgeCap)]]

NextL ==
    \/ TickL
    \/ SetRateL
    \/ \E c \in Clients :
          \/ PassL(c)
          \/ \E delay \in 0..MaxDelay : AdmitL(c, delay) \/ RefuseL(c, delay)

SpecL == InitL /\ [][NextL]_varsL

-----------------------------------------------------------------------------
\* Under a rate that stays, a client is admitted no more, in any stretch of
\* time, than the burst and what the stretch and the delay of the readings
\* refill: no order of late readings, refusals and sweeps lets it spend a
\* refill twice (rateLimiter.allow).
WithinTheRate == \A c \in Clients : allowance[c] >= 0

\* "The sweep drops the buckets of clients that have been quiet long enough to
\* have refilled anyway" (rateLimiter.sweep): every client has as many tokens,
\* at every reading, as if nothing were ever swept, whatever the rate was when
\* its bucket was last touched.
SweepUnseen ==
    perSecond > 0 =>
        \A c \in Clients, delay \in 0..MaxDelay :
            TokensAt(buckets, c, delay) = TokensAt(unswept, c, delay)

=============================================================================
