----------------------------- MODULE PluginHost -----------------------------
(* internal/plugins: the manager passes an event through the enrichment      *)
(* plugins in the order of their ids, each in a sandbox that stops waiting   *)
(* after a timeout, but cannot stop the plugin's goroutine.                  *)
(*                                                                           *)
(* A plugin is given a copy of the event and returns one: the fields of a    *)
(* copy are the sequence of the plugins that have enriched them.  Every copy *)
(* has the same map of enrichments and points at the same details, and what  *)
(* a plugin writes there, in place, is in every copy at once.                *)
EXTENDS Naturals, FiniteSets, Sequences

CONSTANTS
    Plugins,        \* ids, in their order
    MaxLate         \* bound: goroutines nobody waits for that still do something

ASSUME PluginAssumption ==
    /\ Plugins \subseteq Nat \ {0}
    /\ MaxLate \in Nat

VARIABLES
    registered,     \* Manager.plugins
    active,         \* the plugins still to be called, while executionMu is held
    processing,     \* executionMu is held by ProcessEvent
    currentEvt,     \* the fields of the event as it goes from plugin to plugin
    written,        \* the plugins that wrote in place into this event
    ours,           \* the serials of the goroutines of this call of ProcessEvent
    jobs,           \* the goroutines of Execute: [plugin, serial, input, output]
    waiting,        \* the serial of the goroutine Execute waits for, or 0
    succeeded       \* history: the plugins whose Execute returned no error

pluginVars == <<registered, active, processing, currentEvt, written, ours, jobs, waiting, succeeded>>

Unread == <<0>>     \* the goroutine has not read currentEvt yet
Awaited == {j \in jobs : j.serial = waiting}
Late == {j \in jobs : j.serial # waiting}

PluginInit ==
    /\ registered = {}
    /\ active = <<>> /\ processing = FALSE
    /\ currentEvt = <<>> /\ written = {} /\ succeeded = <<>>
    /\ ours = {} /\ jobs = {} /\ waiting = 0

-----------------------------------------------------------------------------
RegisterPlugin(p) ==
    /\ ~processing
    /\ p \notin registered
    /\ registered' = registered \cup {p}
    /\ UNCHANGED <<active, processing, currentEvt, written, ours, jobs, waiting, succeeded>>

\* Close is called on an instance that late goroutines may still be using
UnregisterPlugin(p) ==
    /\ ~processing
    /\ p \in registered
    /\ registered' = registered \ {p}
    /\ UNCHANGED <<active, processing, currentEvt, written, ours, jobs, waiting, succeeded>>

(* The plugins in the order of their ids.                                    *)
Ordered(plugins) ==
    {list \in [1 .. Cardinality(plugins) -> plugins] :
        \A i, k \in 1 .. Cardinality(plugins) : i < k => list[i] < list[k]}

\* currentEvt is a local of each call: a goroutine of an earlier one reads that
\* call's, which changes no more.
Outlived(j) == [j EXCEPT !.input = IF @ = Unread THEN currentEvt ELSE @]

(* ProcessEvent: the lock, the sorted list and another event.                *)
ProcessEvent ==
    /\ ~processing
    /\ processing' = TRUE
    /\ active' \in Ordered(registered)
    /\ currentEvt' = <<>> /\ written' = {} /\ succeeded' = <<>>
    /\ ours' = {} /\ jobs' = {Outlived(j) : j \in jobs}
    /\ UNCHANGED <<registered, waiting>>

FreshSerial == CHOOSE n \in 1 .. MaxLate + 1 : \A j \in jobs : j.serial # n

(* Execute: the goroutine is started.                                        *)
Execute ==
    /\ processing /\ waiting = 0 /\ active # <<>>
    /\ waiting' = FreshSerial /\ ours' = ours \cup {FreshSerial}
    /\ jobs' = jobs \cup {[plugin |-> Head(active), serial |-> FreshSerial, input |-> Unread, output |-> Unread]}
    /\ active' = Tail(active)
    /\ UNCHANGED <<registered, processing, currentEvt, written, succeeded>>

\* The closure reads the variable when it runs, which may be after the timeout.
ReadEvent(j) ==
    /\ j.input = Unread
    /\ jobs' = (jobs \ {j}) \cup {[j EXCEPT !.input = currentEvt]}
    /\ UNCHANGED <<registered, active, processing, currentEvt, written, ours, waiting, succeeded>>

(* Before it ends, a plugin may write into what its copy shares, whether or  *)
(* not Execute still waits for it, and ProcessEvent may have returned.       *)
WriteInPlace(j) ==
    /\ j.serial \in ours
    /\ j.input # Unread /\ j.output = Unread
    /\ written' = written \cup {j.plugin}
    /\ UNCHANGED <<registered, active, processing, currentEvt, ours, jobs, waiting, succeeded>>

(* Mutant of Enrich: the closure assigns currentEvt itself.                  *)
EnrichCurrent(j) ==
    /\ j.input # Unread /\ j.output = Unread
    /\ jobs' = (jobs \ {j}) \cup {[j EXCEPT !.output = Append(j.input, j.plugin)]}
    /\ currentEvt' = IF j.serial \in ours THEN Append(j.input, j.plugin) ELSE currentEvt
    /\ UNCHANGED <<registered, active, processing, written, ours, waiting, succeeded>>

\* OnEvent returns an event: enrichedEvt belongs to the iteration that made the
\* closure, and errCh has room, so that a late goroutine ends.
Enrich(j) ==
    /\ j.input # Unread /\ j.output = Unread
    /\ jobs' = IF j.serial = waiting
               THEN (jobs \ {j}) \cup {[j EXCEPT !.output = Append(j.input, j.plugin)]}
               ELSE jobs \ {j}
    /\ UNCHANGED <<registered, active, processing, currentEvt, written, ours, waiting, succeeded>>

\* OnEvent returns an error or panics.
FailJob(j) ==
    /\ j.input # Unread /\ j.output = Unread
    /\ jobs' = jobs \ {j}
    /\ waiting' = IF j.serial = waiting THEN 0 ELSE waiting
    /\ UNCHANGED <<registered, active, processing, currentEvt, written, ours, succeeded>>

\* Execute receives nil from errCh.
Accept(j) ==
    /\ j.serial = waiting /\ j.output # Unread
    /\ currentEvt' = j.output
    /\ succeeded' = Append(succeeded, j.plugin)
    /\ jobs' = jobs \ {j}
    /\ waiting' = 0
    /\ UNCHANGED <<registered, active, processing, written, ours>>

\* The timeout passes or the caller's context ends; a result that is there
\* already may be passed over as well.  A goroutine that hangs for ever need
\* not be kept.
Timeout ==
    /\ waiting # 0
    /\ waiting' = 0
    /\ \/ jobs' = Late
       \/ /\ \A j \in Awaited : j.output = Unread
          /\ Cardinality(Late) < MaxLate
          /\ jobs' = jobs
    /\ UNCHANGED <<registered, active, processing, currentEvt, written, ours, succeeded>>

\* ProcessEvent returns the event.
Return ==
    /\ processing /\ waiting = 0 /\ active = <<>>
    /\ processing' = FALSE
    /\ UNCHANGED <<registered, active, currentEvt, written, ours, jobs, waiting, succeeded>>

ManagerStep == Execute \/ Timeout \/ Return

PluginNext ==
    \/ \E p \in Plugins : RegisterPlugin(p) \/ UnregisterPlugin(p)
    \/ ProcessEvent
    \/ ManagerStep
    \/ \E j \in jobs : ReadEvent(j) \/ WriteInPlace(j) \/ Enrich(j) \/ FailJob(j) \/ Accept(j)

PluginSpec == PluginInit /\ [][PluginNext]_pluginVars

-----------------------------------------------------------------------------

(* Manager.ProcessEvent: of what the plugins return, the event carries       *)
(* exactly what came in time without an error, once each and in the order of *)
(* their ids.  A copy returned too late is dropped, whatever its goroutine   *)
(* still does.  Of what plugins write in place (written) it says nothing:    *)
(* there a plugin that failed or timed out may have left something, and may  *)
(* go on doing so when the event has been returned.                          *)
LateReturnsAreDropped ==
    /\ currentEvt = succeeded
    /\ \A i, k \in DOMAIN currentEvt : i < k => currentEvt[i] < currentEvt[k]

=============================================================================
