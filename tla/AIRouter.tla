------------------------------ MODULE AIRouter ------------------------------
(* internal/ai/router with the retrying client it calls: a chat asks the     *)
(* primary backend and then each fallback, leaving out those that failed     *)
(* less than the cooldown ago.  Looking at a backend's record, calling it    *)
(* and writing its record are three steps, and chats overlap.                *)
EXTENDS Naturals, Sequences

CONSTANTS
    Chats,          \* concurrent callers
    Backends,       \* the primary, then the fallbacks
    Cooldown,       \* cooldownTime
    MaxRetries,     \* of the retrying client around a backend
    MaxFlips        \* bound: backends that go down or come up, callers that give up

ASSUME RouterAssumption ==
    /\ Backends \in Seq(STRING) /\ Len(Backends) > 0
    /\ Cooldown \in Nat
    /\ MaxRetries \in Nat
    /\ MaxFlips \in Nat
    /\ \A i \in DOMAIN Backends : Backends[i] \notin {"none", "error"}

Names == {Backends[i] : i \in DOMAIN Backends}

VARIABLES
    healthy,        \* IsHealthy of each backend
    since,          \* ticks since LastErrorTime, up to Cooldown + 1
    up,             \* backends that answer
    chat,           \* each caller: the backend it is at, the attempt, whether its
                    \* context is cancelled, backends that failed or were passed over
    flips

routerVars == <<healthy, since, up, chat, flips>>

Asleep == [at |-> 0, attempt |-> 0, gone |-> FALSE, tried |-> {}, passed |-> {}, answer |-> "none"]
Calling(c) == chat[c].attempt > 0
Current(c) == Backends[chat[c].at]

RouterInit ==
    /\ healthy = [b \in Names |-> TRUE]
    /\ since = [b \in Names |-> Cooldown + 1]
    /\ up \in SUBSET Names
    /\ chat = [c \in Chats |-> Asleep]
    /\ flips = 0

(* The clock; `since` need not tell times beyond the cooldown apart.         *)
RouterTick ==
    /\ since' = [b \in Names |-> IF since[b] > Cooldown THEN since[b] ELSE since[b] + 1]
    /\ since' # since
    /\ UNCHANGED <<healthy, up, chat, flips>>

Flip(b) ==
    /\ flips < MaxFlips
    /\ flips' = flips + 1
    /\ up' = IF b \in up THEN up \ {b} ELSE up \cup {b}
    /\ UNCHANGED <<healthy, since, chat>>

(* The caller's context ends: its request was dropped or timed out.          *)
GiveUp(c) ==
    /\ chat[c].at > 0 /\ ~chat[c].gone
    /\ flips < MaxFlips
    /\ flips' = flips + 1
    /\ chat' = [chat EXCEPT ![c].gone = TRUE]
    /\ UNCHANGED <<healthy, since, up>>

(* Chat is called; what the caller was told before no longer matters.        *)
Ask(c) ==
    /\ chat[c].at = 0
    /\ chat' = [chat EXCEPT ![c] = [Asleep EXCEPT !.at = 1]]
    /\ UNCHANGED <<healthy, since, up, flips>>

(* Mutant of Available: a backend that failed is not asked again.            *)
AvailableHealthy(b) == healthy[b]

Available(b) == healthy[b] \/ since[b] > Cooldown

(* Past the last backend the chat fails.                                     *)
Answered(c, answer) ==
    chat' = [chat EXCEPT ![c].at = 0, ![c].attempt = 0, ![c].answer = answer]

(* Mutant of NextBackend: a failure ends the chat.                           *)
NextBackendNone(c, x) == chat' = [chat EXCEPT ![c] = [x EXCEPT !.at = 0, !.answer = "error"]]

NextBackend(c, x) ==
    chat' = [chat EXCEPT ![c] =
        IF x.at < Len(Backends)
        THEN [x EXCEPT !.at = @ + 1, !.attempt = 0]
        ELSE [x EXCEPT !.at = 0, !.attempt = 0, !.answer = "error"]]

(* isClientAvailable, and the start of the call or the next backend.         *)
Check(c) ==
    /\ chat[c].at > 0 /\ ~Calling(c)
    /\ IF Available(Current(c))
       THEN chat' = [chat EXCEPT ![c].attempt = 1]
       ELSE NextBackend(c, [chat[c] EXCEPT !.passed = @ \cup {Current(c)}])
    /\ UNCHANGED <<healthy, since, up, flips>>

(* The backend answers, and recordSuccess takes it for healthy.              *)
Succeed(c) ==
    /\ Calling(c)
    /\ Current(c) \in up
    /\ healthy' = [healthy EXCEPT ![Current(c)] = TRUE]
    /\ Answered(c, Current(c))
    /\ UNCHANGED <<since, up, flips>>

(* An attempt fails and there are more.                                      *)
Retry(c) ==
    /\ Calling(c)
    /\ Current(c) \notin up /\ ~chat[c].gone
    /\ chat[c].attempt <= MaxRetries
    /\ chat' = [chat EXCEPT ![c].attempt = @ + 1]
    /\ UNCHANGED <<healthy, since, up, flips>>

GivesUp(c) ==
    /\ Calling(c)
    /\ chat[c].gone \/ (Current(c) \notin up /\ chat[c].attempt > MaxRetries)

(* The last attempt fails, or the caller's context is done, which counts as  *)
(* a failure of the backend too: recordFailure starts the cooldown anew.     *)
Fail(c) ==
    /\ GivesUp(c)
    /\ healthy' = [healthy EXCEPT ![Current(c)] = FALSE]
    /\ since' = [since EXCEPT ![Current(c)] = 0]
    /\ NextBackend(c, [chat[c] EXCEPT !.tried = @ \cup {Current(c)}])
    /\ UNCHANGED <<up, flips>>

ChatStep(c) == Check(c) \/ Succeed(c) \/ Retry(c) \/ Fail(c)

RouterNext ==
    \/ RouterTick
    \/ \E b \in Names : Flip(b)
    \/ \E c \in Chats : Ask(c) \/ GiveUp(c) \/ ChatStep(c)

RouterSpec == RouterInit /\ [][RouterNext]_routerVars

-----------------------------------------------------------------------------

(* A chat fails only when every backend failed in this very chat or was      *)
(* found in its cooldown, and is answered by the first that did neither:     *)
(* whatever other chats do to the records in between.                        *)
AnswersAreFirst ==
    \A c \in Chats :
        LET x == chat[c]
            out == x.tried \cup x.passed
        IN  /\ x.answer = "error" => out = Names
            /\ x.answer \in Names =>
                   \E i \in DOMAIN Backends :
                       /\ Backends[i] = x.answer
                       /\ out = {Backends[j] : j \in 1..(i - 1)}

(* A backend that answers from some time on is taken for healthy in the end, *)
(* however late failures from before arrive, as long as there are chats.     *)
PrimaryComesBack ==
    (<>[](Backends[1] \in up) /\ []<>(\E c \in Chats : chat[c].at = 1)) =>
        <>[]healthy[Backends[1]]
=============================================================================
