----------------------------- MODULE RateLimiter -----------------------------
(* internal/api/middleware/ratelimit.go: a bucket of requestsPerMin tokens   *)
(* for each client address, filled at one token per unit of time (a minute   *)
(* is Burst units), and a clean-up every five minutes that forgets clients   *)
(* not seen for ten.                                                         *)
(*                                                                           *)
(* Times are kept as ages, which need not be told apart beyond the limits    *)
(* they are compared with.                                                   *)
EXTENDS Naturals

CONSTANTS
    Clients,        \* addresses
    Burst           \* requestsPerMin

ASSUME LimiterAssumption == Burst \in Nat \ {0}

VARIABLES
    bucket,         \* the clients with a record, and their tokens
    age,            \* time since lastRefill of each client, up to Idle
    cleaned,        \* time since lastCleanup, up to Interval
    full            \* what a limiter that forgets nobody would hold

limiterVars == <<bucket, age, cleaned, full>>

Interval == 5 * Burst
Idle == 10 * Burst
Least(a, b) == IF a < b THEN a ELSE b

LimiterInit ==
    /\ bucket = [c \in {} |-> 0]
    /\ age = [c \in Clients |-> 0]
    /\ cleaned = Interval
    /\ full = [c \in Clients |-> Burst]

(* A unit of time.  In the limiter without memory limits every bucket fills. *)
LimiterTick ==
    /\ age' = [c \in Clients |-> Least(age[c] + 1, Idle)]
    /\ cleaned' = Least(cleaned + 1, Interval)
    /\ full' = [c \in Clients |-> Least(full[c] + 1, Burst)]
    /\ UNCHANGED bucket

(* Mutant of Forgotten: a clean-up forgets every client, idle or not.        *)
ForgottenSoon == {c \in DOMAIN bucket : age[c] >= 0}

Forgotten == {c \in DOMAIN bucket : age[c] >= Idle}

Cleaned == [c \in DOMAIN bucket \ Forgotten |-> bucket[c]]

(* The tokens a request of c finds.                                          *)
Refilled(clients, c) ==
    IF c \in DOMAIN clients THEN Least(clients[c] + age[c], Burst) ELSE Burst

Taken(tokens) == IF tokens = 0 THEN 0 ELSE tokens - 1

(* One request, under the mutex; a request that finds no token is refused.   *)
Request(c) ==
    LET due == cleaned >= Interval
        clients == IF due THEN Cleaned ELSE bucket
        tokens == Refilled(clients, c)
    IN  /\ bucket' = [d \in DOMAIN clients \cup {c} |->
                         IF d # c THEN clients[d] ELSE Taken(tokens)]
        /\ age' = [age EXCEPT ![c] = 0]
        /\ cleaned' = IF due THEN 0 ELSE cleaned
        /\ full' = [full EXCEPT ![c] = Taken(@)]

LimiterNext == LimiterTick \/ \E c \in Clients : Request(c)

LimiterSpec == LimiterInit /\ [][LimiterNext]_limiterVars

LimiterTypeOK ==
    /\ DOMAIN bucket \subseteq Clients
    /\ \A c \in DOMAIN bucket : bucket[c] \in 0..Burst
    /\ age \in [Clients -> 0..Idle]
    /\ cleaned \in 0..Interval
    /\ full \in [Clients -> 0..Burst]

(* Forgetting idle clients gives nobody an extra request and takes none      *)
(* away: the limiter decides as one that forgets nobody and fills every      *)
(* bucket all the time.                                                      *)
CleanupIsInvisible == \A c \in Clients : Refilled(bucket, c) = full[c]
=============================================================================
