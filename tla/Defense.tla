------------------------------ MODULE Defense ------------------------------
(***************************************************************************)
(* cmd/r3trive/defend.go with internal/response/engine.go and its          *)
(* playbooks: a third process on the incident tables.  It polls the open   *)
(* incidents, runs the matching playbooks and the direct response of each, *)
(* and writes the outcome into the status.                                 *)
(*                                                                         *)
(* Polling reads the rows once; agent and analyst go on writing them while *)
(* the actions run.                                                        *)
(***************************************************************************)
EXTENDS Incidents, SequencesExt

CONSTANTS
    Threshold,       \* --threshold
    Playbooks,       \* records [id, type, score, severity, tags, steps], the
                     \* steps records [action, arg, onFailure]
    MaxStops         \* bound: restarts of the defender

Direct == "direct"   \* in place of a playbook's ID

ASSUME DefenseAssumption ==
    /\ Threshold \in Nat
    /\ 0 \notin Paths
    /\ IsFiniteSet(Playbooks)
    /\ \A b \in Playbooks :
           /\ b.score \in Nat /\ b.severity \in Severity
           /\ b.steps \in Seq(Range(b.steps))
           /\ b.id # Direct

VARIABLES
    todo,         \* incidents of the poll that are still to be processed
    work,         \* the incident being processed, or NoWork
    isolated,     \* whether the host is cut off
    quarantined,  \* files moved away
    killed,       \* processes killed
    blocked,      \* addresses blocked
    passive,      \* --mode passive: engine and playbooks run dry
    stops         \* history: restarts of the defender

effects == <<isolated, quarantined, killed, blocked>>
process == <<passive, stops>>
defVars == <<todo, work, effects, process>>
allVars == <<vars, defVars>>

NoWork == [id |-> 0]

(* An alert as QueryIncidents returns it: with the ID of its event, and    *)
(* without the event's data and host.                                      *)
Loaded(n) == [rule |-> alerts[n].kind.rule, data |-> << >>, tags |-> {}]

Snapshot(id) ==
    [id |-> id, severity |-> rows[id].severity, score |-> rows[id].score,
     title |-> alerts[id].kind.rule, paths |-> rows[id].paths,
     alerts |-> [n \in alertRows \cap Members(id) |-> Loaded(n)]]

Live == {"open", "investigating"}

(* Playbook.Matches: the type in the title or in a rule name, the score,   *)
(* the severity and the host tags of the loaded alerts.                    *)
Matches(book, inc) ==
    /\ \/ book.type = Empty
       \/ book.type = inc.title
       \/ \E i \in DOMAIN inc.alerts : book.type = inc.alerts[i].rule
    /\ inc.score >= book.score
    /\ Weight[inc.severity] >= Weight[book.severity]
    /\ book.tags \subseteq UNION {inc.alerts[i].tags : i \in DOMAIN inc.alerts}

(* The actions that the data of the loaded alerts lead to, in order. *)
FromAlerts(inc) ==
    LET data[n \in 0 .. Len(alerts)] ==
            CASE n = 0 -> << >>
              [] n > 0 /\ n \in DOMAIN inc.alerts -> data[n - 1] \o inc.alerts[n].data
              [] OTHER -> data[n - 1]
    IN  data[Len(alerts)]

(* getPrimaryPID and getPrimaryIP: the first in the alerts. *)
Primary(inc, action, none) ==
    LET of == {i \in DOMAIN FromAlerts(inc) : FromAlerts(inc)[i].action = action}
    IN  IF of = {} THEN none ELSE FromAlerts(inc)[Min(of)].arg

(* evaluateValue. *)
Resolved(arg, inc) ==
    CASE arg = "primary_pid"  -> Primary(inc, "kill_process", 0)
      [] arg = "primary_ip"   -> Primary(inc, "block_ip", Empty)
      [] arg = "primary_path" -> IF inc.paths # << >>
                                 THEN inc.paths[1]
                                 ELSE Primary(inc, "quarantine_file", Empty)
      [] OTHER -> arg

(* The steps of a playbook with their parameters. *)
BookSteps(book, inc) ==
    [i \in DOMAIN book.steps |->
        [action |-> book.steps[i].action, arg |-> Resolved(book.steps[i].arg, inc),
         onFailure |-> book.steps[i].onFailure, book |-> book.id]]

DirectStep(action, arg) ==
    [action |-> action, arg |-> arg, onFailure |-> "continue", book |-> Direct]

(* RespondToIncident: isolation for critical severity, then what the       *)
(* alerts' events tell, then the artifact paths.                           *)
DirectSteps(inc) ==
    (IF inc.severity = "critical" THEN <<DirectStep("isolate_host", Empty)>> ELSE << >>)
    \o [i \in DOMAIN FromAlerts(inc) |->
            DirectStep(FromAlerts(inc)[i].action, FromAlerts(inc)[i].arg)]
    \o [i \in DOMAIN inc.paths |-> DirectStep("quarantine_file", inc.paths[i])]

(* The matching playbooks, in the order of a Go map, then the direct       *)
(* response.                                                               *)
Plans(inc) ==
    {FlattenSeq([i \in DOMAIN order |-> BookSteps(order[i], inc)]) \o DirectSteps(inc) :
        order \in SetToSeqs({b \in Playbooks : Matches(b, inc)})}

(* validateParams: no process below 2, no address that does not parse. *)
Valid(s) ==
    /\ s.action = "kill_process" => s.arg > 1
    /\ s.action = "block_ip" => s.arg # Empty

InitDefense ==
    /\ Init
    /\ todo = {} /\ work = NoWork
    /\ isolated = FALSE /\ quarantined = {} /\ killed = {} /\ blocked = {}
    /\ passive \in BOOLEAN
    /\ stops = 0

(* Mutant of Polled: investigating incidents are left to the analyst. *)
PolledOpen(id) == rows[id].status = "open"

Polled(id) == rows[id].status \in Live

(* The ticker fires and the last round is over. *)
Poll ==
    /\ work = NoWork /\ todo = {}
    /\ todo' = {Snapshot(id) : id \in {i \in DOMAIN rows : Polled(i)}}
    /\ UNCHANGED <<vars, work, effects, process>>

(* Mutant of Due: the threshold is ignored. *)
DueAlways(inc) == TRUE

Due(inc) == inc.score >= Threshold

(* The incidents of a poll are taken by their creation time, ascending in  *)
(* one store and descending in the other: in any order here.               *)
Skip(inc) ==
    /\ work = NoWork
    /\ ~Due(inc)
    /\ todo' = todo \ {inc}
    /\ UNCHANGED <<vars, work, effects, process>>

Begin(inc) ==
    /\ work = NoWork
    /\ Due(inc)
    /\ todo' = todo \ {inc}
    /\ \E plan \in Plans(inc) :
           work' = [id |-> inc.id, inc |-> inc, plan |-> plan,
                    acted |-> FALSE, clean |-> TRUE, tried |-> {}, failed |-> FALSE]
    /\ UNCHANGED <<vars, effects, process>>

(* Mutant of Simulated: the dry run is not passed on to the engine. *)
SimulatedNever == FALSE

(* Execute only simulates a valid action. *)
Simulated == passive

(* What an action does to the host when it succeeds.  Isolation reports    *)
(* success whatever becomes of its commands.                               *)
Applied(s) ==
    /\ IF s.action = "isolate_host"
       THEN isolated' \in {isolated, TRUE}
       ELSE UNCHANGED isolated
    /\ quarantined' = quarantined \cup
           (IF s.action = "quarantine_file" THEN {s.arg} ELSE {})
    /\ killed' = killed \cup (IF s.action = "kill_process" THEN {s.arg} ELSE {})
    /\ blocked' = blocked \cup (IF s.action = "block_ip" THEN {s.arg} ELSE {})

(* A file that was moved away cannot be moved again. *)
Possible(s) ==
    s.action = "quarantine_file" => s.arg \in Paths \ quarantined

CanSucceed(s) == Valid(s) /\ (Simulated \/ Possible(s))

CanFail(s) == ~Valid(s) \/ (~Simulated /\ s.action # "isolate_host")

(* Mutant of Remaining: an aborted playbook ends the whole response. *)
RemainingNone(s, ok) ==
    IF ~ok /\ s.onFailure = "abort" THEN << >> ELSE Tail(work.plan)

(* A failed step that aborts takes the rest of its playbook along. *)
Remaining(s, ok) ==
    LET others == {i \in DOMAIN work.plan : work.plan[i].book # s.book}
    IN  IF ok \/ s.onFailure # "abort" THEN Tail(work.plan)
        ELSE IF others = {} THEN << >>
        ELSE SubSeq(work.plan, Min(others), Len(work.plan))

(* Every step of a playbook has a result; the direct response keeps only   *)
(* the results of actions that returned no error.                          *)
Recorded(s, ok) ==
    work' = [work EXCEPT
        !.plan = Remaining(s, ok),
        !.acted = @ \/ ok \/ s.book # Direct,
        !.clean = @ /\ (ok \/ s.book = Direct),
        !.tried = @ \cup {<<s.action, s.arg>>},
        !.failed = @ \/ ~ok]

Succeeds ==
    /\ work # NoWork /\ work.plan # << >>
    /\ LET s == Head(work.plan)
       IN  /\ CanSucceed(s)
           /\ IF Simulated THEN UNCHANGED effects ELSE Applied(s)
           /\ Recorded(s, TRUE)
    /\ UNCHANGED <<vars, todo, process>>

Fails ==
    /\ work # NoWork /\ work.plan # << >>
    /\ CanFail(Head(work.plan))
    /\ Recorded(Head(work.plan), FALSE)
    /\ UNCHANGED <<vars, effects, todo, process>>

(* In a dry run, and when nothing was done, the status stays. *)
Writes == work.acted /\ ~passive

Verdict == IF work.clean THEN "contained" ELSE "investigating"

(* The end of one incident; UpdateIncidentStatus may fail. *)
Finish ==
    /\ work # NoWork /\ work.plan = << >>
    /\ work' = NoWork
    /\ \/ Writes /\ rows' = [rows EXCEPT ![work.id].status = Verdict]
       \/ UNCHANGED rows
    /\ ~Writes => UNCHANGED rows
    /\ UNCHANGED <<now, agentVars, eventRows, alertRows, saved,
                   todo, effects, process>>

(* The defender stops, at any point, and is started again. *)
StopDefender ==
    /\ stops < MaxStops
    /\ stops' = stops + 1
    /\ todo' = {} /\ work' = NoWork
    /\ UNCHANGED <<vars, effects, passive>>

Defender ==
    \/ Poll
    \/ \E inc \in todo : Skip(inc) \/ Begin(inc)
    \/ Succeeds
    \/ Fails
    \/ Finish

NextDefense ==
    \/ Next /\ UNCHANGED defVars
    \/ Defender
    \/ StopDefender

SpecDefense == InitDefense /\ [][NextDefense]_allVars

(* defend --daemon polls every five seconds and bounds no action but those *)
(* of the operating system, which return: every step of it is taken.       *)
LiveDefense == SpecDefense /\ WF_allVars(Defender)

-----------------------------------------------------------------------------
(* Properties. *)

(* The snapshots are of incidents that are stored and weigh no more than   *)
(* the row does now; files that were moved away existed.                   *)
DefenseTypeOK ==
    /\ TypeOK
    /\ \A inc \in todo \cup (IF work = NoWork THEN {} ELSE {work.inc}) :
           /\ inc.id \in DOMAIN rows
           /\ inc.score <= rows[inc.id].score
           /\ Weight[inc.severity] <= Weight[rows[inc.id].severity]
    /\ work # NoWork => work.inc.id = work.id
    /\ isolated \in BOOLEAN
    /\ quarantined \subseteq Paths
    /\ passive \in BOOLEAN

(* The steps of the playbooks that match an incident as it is stored. *)
Ordered(id) ==
    UNION {Range(b.steps) : b \in {c \in Playbooks : Matches(c, Snapshot(id))}}

(* The host is touched only for cause: every file moved away belongs to a  *)
(* stored incident at or over the threshold, or a playbook for it names    *)
(* the file, and the host is cut off only for such an incident that is     *)
(* critical or has what a playbook that isolates asks for, though it was   *)
(* read long before and goes on changing.                                  *)
ActionsAreJustified ==
    /\ \A p \in quarantined : \E id \in DOMAIN rows :
           /\ rows[id].score >= Threshold
           /\ \/ p \in Range(rows[id].paths)
              \/ \E s \in Ordered(id) : s.action = "quarantine_file" /\ s.arg = p
    /\ isolated => \E id \in DOMAIN rows :
           /\ rows[id].score >= Threshold
           /\ \/ rows[id].severity = "critical"
              \/ \E s \in Ordered(id) : s.action = "isolate_host"

(* A playbook that aborts does not stop the direct response: when the      *)
(* processing of an incident ends with a status, isolation was tried for a *)
(* critical incident, and quarantine for each path it had when it was read.*)
ResponseIsComplete ==
    [][work # NoWork /\ work' = NoWork /\ rows' # rows =>
           /\ work.inc.severity = "critical" =>
                  <<"isolate_host", Empty>> \in work.tried
           /\ \A p \in ToSet(work.inc.paths) :
                  <<"quarantine_file", p>> \in work.tried]_allVars

(* Dry run: passive mode does nothing to the host, and every status is the *)
(* agent's or the analyst's.                                               *)
PassiveIsHarmless ==
    passive =>
        /\ ~isolated /\ quarantined = {} /\ killed = {} /\ blocked = {}
        /\ \A id \in DOMAIN rows :
               rows[id].status \in Statuses \cup {"open"}

Waiting(id) ==
    IF id \in DOMAIN rows
    THEN rows[id].status \in Live /\ rows[id].score >= Threshold
    ELSE FALSE

(* An open incident at or over the threshold is responded to, each time it *)
(* is opened, unless its status changes first, though agent and analyst go *)
(* on and the defender may be restarted.                                   *)
ResponseIsBegun ==
    \A id \in 1 .. MaxAlerts : Waiting(id) ~> (work.id = id \/ ~Waiting(id))

(* defend.go:160 warns of a "partial failure during containment, marking   *)
(* as investigating": an incident with a failed action is not marked       *)
(* contained.                                                              *)
FailureIsNoticed ==
    [][work # NoWork /\ work' = NoWork /\ rows' # rows /\ work.failed =>
           rows'[work.id].status # "contained"]_allVars

(* defend.go:30 promises "process termination" among the containment       *)
(* actions: a contained incident whose alerts name a process, all of them  *)
(* loaded, had a termination tried.                                        *)
ProcessesAreKilled ==
    [][work # NoWork /\ work' = NoWork /\ rows' # rows
       /\ rows'[work.id].status = "contained" =>
           \A n \in 1 .. Len(alerts) :
               /\ alerts[n].incident = work.id
               /\ n \in DOMAIN work.inc.alerts
               => \A i \in DOMAIN alerts[n].kind.data :
                      alerts[n].kind.data[i].action = "kill_process" =>
                          <<"kill_process", alerts[n].kind.data[i].arg>> \in work.tried]_allVars

=============================================================================
