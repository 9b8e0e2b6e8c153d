----------------------------- MODULE HostActions -----------------------------
(* internal/response on a POSIX host with the playbooks' rollback: what the  *)
(* actions leave on the machine, when they fail half way, are repeated, or   *)
(* are executed by two callers at once (the defender's loop, the API).       *)
(*                                                                           *)
(* iptables keeps a list per chain, of which only the number of equal rules  *)
(* matters; a file is moved to and from the quarantine by copying it.  Of a  *)
(* file, its content is modelled: the copy that comes back is the agent's    *)
(* and has the mode 0640, whatever owner and mode the file had.              *)
EXTENDS Naturals, Sequences, FiniteSets

CONSTANTS
    Runs,           \* executions of a playbook
    Plans,          \* the playbooks: sequences of [action, arg, onFailure]
    Blocked,
    Loopback,       \* the address validateParams refuses to block
    Files,          \* paths
    BaseOf,         \* the base name of a path
    NamesUnder,     \* a base name -> those that are it or go on with a dot
    Active,         \* executions at a time: 1 for the defender alone
    MaxFaults       \* bound: commands and copies that fail

Part == "part"      \* what a copy that is not complete holds

ASSUME HostAssumption ==
    /\ Part \notin Files
    /\ \A f \in Files : BaseOf[f] \in NamesUnder[BaseOf[f]]
    /\ \A plan \in Plans :
         /\ Len(plan) \in Nat /\ plan = [i \in 1 .. Len(plan) |-> plan[i]]
         /\ \A i \in DOMAIN plan :
              plan[i] = [action |-> plan[i].action, arg |-> plan[i].arg, onFailure |-> plan[i].onFailure]
    /\ Active \in Nat \ {0}
    /\ MaxFaults \in Nat

VARIABLES
    input, output,  \* DROP rules for each address
    jumps,          \* jumps into R3TRIVE_ISO from INPUT and from OUTPUT
    chain,          \* R3TRIVE_ISO: "none", "open" (no DROP) or "filtering"
    disk,           \* path -> the content of the file
    vault,          \* the quarantine: [base, content, id] with a random id
    audit,          \* auditLog, as the set of actions and arguments recorded
    run,            \* each execution
    faults          \* commands that have failed

hostVars == <<input, output, jumps, chain, disk, vault, audit, run, faults>>
rules == <<input, output>>
isolation == <<jumps, chain>>

NoMove == [stage |-> "none"]
Machine == [input |-> input, output |-> output, jumps |-> jumps, chain |-> chain,
            disk |-> disk, kept |-> {[base |-> q.base, content |-> q.content] : q \in vault}]

HostInit ==
    /\ input = [a \in Blocked |-> 0]
    /\ output = [a \in Blocked |-> 0]
    /\ jumps = [in |-> 0, out |-> 0]
    /\ chain = "none"
    /\ disk = [f \in Files |-> f]
    /\ vault = {}
    /\ audit = {}
    /\ run = [r \in Runs |-> [phase |-> "idle", plan |-> <<>>, undo |-> <<>>,
                              book |-> <<>>, move |-> NoMove, before |-> <<>>, clean |-> TRUE]]
    /\ faults = 0

Fault == faults < MaxFaults /\ faults' = faults + 1

-----------------------------------------------------------------------------
(* Playbook execution.                                                       *)

Begin(r) ==
    /\ run[r].phase = "idle"
    /\ Cardinality({s \in Runs : run[s].phase \notin {"idle", "done"}}) < Active
    /\ \E plan \in Plans :
           run' = [run EXCEPT ![r].phase = "acting", ![r].plan = plan,
                              ![r].book = plan, ![r].before = <<Machine>>]
    /\ UNCHANGED <<rules, isolation, disk, vault, audit, faults>>

Doing(r, action) ==
    /\ run[r].phase \in {"acting", "undoing"}
    /\ run[r].plan # <<>>
    /\ run[r].move = NoMove
    /\ Head(run[r].plan).action = action

Arg(r) == Head(run[r].plan).arg

Compensation(step) ==
    CASE step.action = "block_ip"        -> <<[step EXCEPT !.action = "unblock_ip"]>>
      [] step.action = "quarantine_file" -> <<[step EXCEPT !.action = "unquarantine_file"]>>
      [] step.action = "isolate_host"    -> <<[step EXCEPT !.action = "unisolate_host"]>>
      [] OTHER                           -> <<>>

(* Mutant: only the last action is taken back.                               *)
UndoLast(x, step) == Compensation(step)

(* A step that succeeded puts its inverse in front: ExecuteRollback goes     *)
(* backwards.                                                                *)
Undo(x, step) == Compensation(step) \o x.undo

(* Mutant: an action that failed is not recorded.                            *)
FinishedUnrecorded(r, ok) ==
    /\ run' = [run EXCEPT ![r].plan = Tail(@), ![r].move = NoMove, ![r].clean = @ /\ ok]
    /\ audit' = IF ok THEN audit \cup {<<Head(run[r].plan).action, Head(run[r].plan).arg>>}
                ELSE audit

(* The engine records every action it tried; a failed step ends its playbook *)
(* unless it says to continue, and a failed inverse ends the rollback.       *)
Finished(r, ok) ==
    LET x == run[r]
        step == Head(x.plan)
        rest == IF ok \/ (x.phase = "acting" /\ step.onFailure = "continue")
                THEN Tail(x.plan) ELSE <<>>
    IN  /\ run' = [run EXCEPT ![r] =
               [x EXCEPT !.plan = rest, !.move = NoMove,
                         !.undo = IF ok /\ x.phase = "acting" THEN Undo(x, step) ELSE @,
                         !.clean = @ /\ ok]]
        /\ audit' = audit \cup {<<step.action, step.arg>>}

(* validateParams refuses: nothing is recorded.                              *)
Refused(r) ==
    /\ Doing(r, "block_ip")
    /\ Arg(r) = Loopback
    /\ run' = [run EXCEPT ![r].plan =
                   IF Head(@).onFailure = "continue" THEN Tail(@) ELSE <<>>]
    /\ UNCHANGED <<rules, isolation, disk, vault, audit, faults>>

(* The playbook is over; its compensation steps are run, or kept.            *)
RollBack(r) ==
    /\ run[r].phase = "acting"
    /\ run[r].plan = <<>>
    /\ run' = [run EXCEPT ![r].phase = "undoing", ![r].plan = run[r].undo, ![r].undo = <<>>]
    /\ UNCHANGED <<rules, isolation, disk, vault, audit, faults>>

Close(r) ==
    /\ run[r].phase \in {"acting", "undoing"}
    /\ run[r].plan = <<>>
    /\ run' = [run EXCEPT ![r].phase = "done"]
    /\ UNCHANGED <<rules, isolation, disk, vault, audit, faults>>

-----------------------------------------------------------------------------
(* block_ip: two commands; the first stays when the second fails.            *)
BlockIP(r) ==
    /\ Doing(r, "block_ip")
    /\ Arg(r) # Loopback
    /\ \/ /\ input' = [input EXCEPT ![Arg(r)] = @ + 1]
          /\ output' = [output EXCEPT ![Arg(r)] = @ + 1]
          /\ Finished(r, TRUE)
          /\ UNCHANGED faults
       \/ /\ Fault
          /\ input' \in {input, [input EXCEPT ![Arg(r)] = @ + 1]}
          /\ Finished(r, FALSE)
          /\ UNCHANGED output
    /\ UNCHANGED <<isolation, disk, vault>>

Fewer(n) == IF n > 0 THEN n - 1 ELSE 0

(* unblock_ip: each deletion may fail, and success is reported.              *)
UnblockIP(r) ==
    /\ Doing(r, "unblock_ip")
    /\ \/ /\ input' = [input EXCEPT ![Arg(r)] = Fewer(@)]
          /\ output' = [output EXCEPT ![Arg(r)] = Fewer(@)]
          /\ UNCHANGED faults
       \/ /\ Fault
          /\ input' \in {input, [input EXCEPT ![Arg(r)] = Fewer(@)]}
          /\ output' \in {output, [output EXCEPT ![Arg(r)] = Fewer(@)]}
    /\ Finished(r, TRUE)
    /\ UNCHANGED <<isolation, disk, vault>>

(* isolate_host: create, flush and fill the chain, then jump to it from both *)
(* sides; no error is looked at.                                             *)
IsolateHost(r) ==
    /\ Doing(r, "isolate_host")
    /\ \/ /\ chain' = "filtering"
          /\ jumps' = [in |-> jumps.in + 1, out |-> jumps.out + 1]
          /\ UNCHANGED faults
       \/ /\ Fault
          /\ chain' \in {chain, "open", "filtering"}
          /\ \E i, o \in (IF chain' = "none" THEN {0} ELSE {0, 1}) :
                 jumps' = [in |-> jumps.in + i, out |-> jumps.out + o]
    /\ Finished(r, TRUE)
    /\ UNCHANGED <<rules, disk, vault>>

(* unisolate_host: one jump of each side, then the whole chain, which cannot *)
(* be deleted while a jump is left.                                          *)
UnisolateHost(r) ==
    /\ Doing(r, "unisolate_host")
    /\ \/ /\ jumps' = [in |-> Fewer(jumps.in), out |-> Fewer(jumps.out)]
          /\ UNCHANGED faults
       \/ /\ Fault
          /\ \E i \in {jumps.in, Fewer(jumps.in)}, o \in {jumps.out, Fewer(jumps.out)} :
                 jumps' = [in |-> i, out |-> o]
    /\ chain' = IF chain # "none" /\ jumps' # [in |-> 0, out |-> 0] THEN "open" ELSE "none"
    /\ Finished(r, TRUE)
    /\ UNCHANGED <<rules, disk, vault>>

-----------------------------------------------------------------------------
(* moveFileByCopy: open the source, create the destination, copy, remove the *)
(* source.  Files are opened by name and written by handle.                  *)

Used == {q.id : q \in vault} \cup
        {run[r].move.id : r \in {s \in Runs : run[s].move # NoMove}}

FreshId == CHOOSE i \in 1..(Cardinality(Used) + 1) : i \notin Used

InVault(id) == {q \in vault : q.id = id}

Moving(r, stage, id, content) ==
    run' = [run EXCEPT ![r].move = [stage |-> stage, id |-> id, content |-> content]]

(* quarantine_file: a new name in the quarantine for a file that is there.   *)
QuarantineOpen(r) ==
    /\ Doing(r, "quarantine_file")
    /\ IF Arg(r) \in DOMAIN disk
       THEN /\ Moving(r, "copy in", FreshId, disk[Arg(r)])
            /\ vault' = vault \cup {[base |-> BaseOf[Arg(r)], content |-> Part, id |-> FreshId]}
            /\ UNCHANGED audit
       ELSE Finished(r, FALSE) /\ UNCHANGED vault
    /\ UNCHANGED <<rules, isolation, disk, faults>>

(* Mutant: the source is removed although the copy failed.                   *)
QuarantineCopyCareless(r) ==
    /\ run[r].move.stage = "copy in"
    /\ LET m == run[r].move IN
       \/ /\ vault' = {IF q.id = m.id THEN [q EXCEPT !.content = m.content] ELSE q : q \in vault}
          /\ Moving(r, "remove source", m.id, m.content)
          /\ UNCHANGED <<audit, faults>>
       \/ /\ Fault
          /\ Moving(r, "remove source", m.id, m.content)
          /\ UNCHANGED <<vault, audit>>
    /\ UNCHANGED <<rules, isolation, disk>>

(* The copy is written to wherever the handle points, a removed file too.    *)
(* A copy that fails leaves its part behind.                                 *)
QuarantineCopy(r) ==
    /\ run[r].move.stage = "copy in"
    /\ LET m == run[r].move IN
       \/ /\ vault' = {IF q.id = m.id THEN [q EXCEPT !.content = m.content] ELSE q : q \in vault}
          /\ Moving(r, "remove source", m.id, m.content)
          /\ UNCHANGED <<audit, faults>>
       \/ /\ Fault
          /\ Finished(r, FALSE)
          /\ UNCHANGED vault
    /\ UNCHANGED <<rules, isolation, disk>>

Without(f) == [g \in DOMAIN disk \ {f} |-> disk[g]]

\* A source that cannot be removed stays, and so does its copy.
QuarantineRemove(r) ==
    /\ run[r].move.stage = "remove source"
    /\ \/ /\ Finished(r, Arg(r) \in DOMAIN disk)
          /\ disk' = Without(Arg(r))
          /\ UNCHANGED faults
       \/ /\ Fault
          /\ Finished(r, FALSE)
          /\ UNCHANGED disk
    /\ UNCHANGED <<rules, isolation, vault>>

(* unquarantine_file: the first entry whose name begins with the base name   *)
(* and a dot, whichever of them the random names put first; an existing file *)
(* is not overwritten.                                                       *)
RestoreOpen(r) ==
    /\ Doing(r, "unquarantine_file")
    /\ LET found == {q \in vault : q.base \in NamesUnder[BaseOf[Arg(r)]]} IN
       IF found = {} \/ Arg(r) \in DOMAIN disk
       THEN Finished(r, FALSE) /\ UNCHANGED disk
       ELSE \E q \in found :
                /\ Moving(r, "copy out", q.id, q.content)
                /\ disk' = [g \in DOMAIN disk \cup {Arg(r)} |->
                               IF g = Arg(r) THEN Part ELSE disk[g]]
                /\ UNCHANGED audit
    /\ UNCHANGED <<rules, isolation, vault, faults>>

RestoreCopy(r) ==
    /\ run[r].move.stage = "copy out"
    /\ LET m == run[r].move
           read == IF InVault(m.id) = {} THEN m.content
                   ELSE (CHOOSE q \in InVault(m.id) : TRUE).content
       IN
       \/ /\ disk' = IF Arg(r) \in DOMAIN disk
                     THEN [disk EXCEPT ![Arg(r)] = read] ELSE disk
          /\ Moving(r, "remove entry", m.id, read)
          /\ UNCHANGED <<audit, faults>>
       \/ /\ Fault
          /\ Finished(r, FALSE)
          /\ UNCHANGED disk
    /\ UNCHANGED <<rules, isolation, vault>>

RestoreRemove(r) ==
    /\ run[r].move.stage = "remove entry"
    /\ \/ /\ vault' = vault \ InVault(run[r].move.id)
          /\ Finished(r, InVault(run[r].move.id) # {})
          /\ UNCHANGED faults
       \/ /\ Fault
          /\ Finished(r, FALSE)
          /\ UNCHANGED vault
    /\ UNCHANGED <<rules, isolation, disk>>

HostNext ==
    \E r \in Runs :
        \/ Begin(r) \/ RollBack(r) \/ Close(r) \/ Refused(r)
        \/ BlockIP(r) \/ UnblockIP(r) \/ IsolateHost(r) \/ UnisolateHost(r)
        \/ QuarantineOpen(r) \/ QuarantineCopy(r) \/ QuarantineRemove(r)
        \/ RestoreOpen(r) \/ RestoreCopy(r) \/ RestoreRemove(r)

HostSpec == HostInit /\ [][HostNext]_hostVars

-----------------------------------------------------------------------------
Contents == {disk[f] : f \in DOMAIN disk} \cup {q.content : q \in vault}

(* No file's content is lost by moving it to the quarantine and back, also   *)
(* when copies fail: it is whole on disk or in the quarantine.               *)
FilesSurvive == Files \subseteq Contents

(* The quarantine was empty, and no file of the playbook can be taken there  *)
(* for another.                                                              *)
Distinct(r) ==
    LET m == run[r].before[1]
        taken == {step.arg : step \in {run[r].book[i] : i \in DOMAIN run[r].book}} \cap Files
    IN  /\ m.chain = "none"
        /\ m.kept = {}
        /\ \A f, g \in taken : BaseOf[g] \in NamesUnder[BaseOf[f]] => f = g

RolledBack(r) == run[r].phase = "undoing" /\ run[r].plan = <<>> /\ run[r].clean

(* Rolling back an execution leaves the machine as it was before, when       *)
(* nothing failed, the host was not isolated already, nothing was in the     *)
(* quarantine and no two of its files share a base name or have one that     *)
(* goes on with a dot where the other ends: repeated blocks and isolations   *)
(* are all taken back.  Contents, not owners and modes, are compared.        *)
RollbackRestores ==
    \A r \in Runs :
        RolledBack(r) /\ Distinct(r) /\ faults = 0 => Machine = run[r].before[1]

(* Every rule and every quarantined file has its action in the audit log,    *)
(* those of actions that failed half way included.                           *)
EffectsAreAudited ==
    /\ \A a \in Blocked : input[a] + output[a] > 0 => <<"block_ip", a>> \in audit
    /\ jumps # [in |-> 0, out |-> 0] => \E x \in audit : x[1] = "isolate_host"
    /\ \A f \in Files \ DOMAIN disk : <<"quarantine_file", f>> \in audit
=============================================================================
