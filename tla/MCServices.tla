----------------------------- MODULE MCServices -----------------------------
(* The services behind the agent and its API that several callers share, one *)
(* at a time: the ring buffer of recent events, the rate limiter, the router *)
(* of AI backends, the plugin manager, the indicator engine and the response *)
(* actions.  The variables of the others stay where they began.              *)
EXTENDS RingBuffer, RateLimiter, AIRouter, PluginHost, IOCEngine, HostActions, TLC

CONSTANTS ip1, lo, ax, bx

VARIABLE service

others(name) ==
    /\ name # "ring" => UNCHANGED vars
    /\ name # "limiter" => UNCHANGED limiterVars
    /\ name # "router" => UNCHANGED routerVars
    /\ name # "plugins" => UNCHANGED pluginVars
    /\ name # "iocs" => UNCHANGED iocVars
    /\ name # "host" => UNCHANGED hostVars

servicesVars == <<service, vars, limiterVars, routerVars, pluginVars, iocVars, hostVars>>

-----------------------------------------------------------------------------
(* Instances.                                                                *)
mcBackends == <<"primary", "fallback">>

step(action, arg, onFailure) == [action |-> action, arg |-> arg, onFailure |-> onFailure]
mcPlans == {
    <<step("block_ip", ip1, "abort"), step("isolate_host", "-", "abort"), step("quarantine_file", ax, "abort")>>,
    <<step("block_ip", ip1, "continue"), step("block_ip", ip1, "abort"),
      step("isolate_host", "-", "abort"), step("isolate_host", "-", "abort")>>,
    <<step("block_ip", lo, "continue"), step("quarantine_file", bx, "continue"), step("quarantine_file", ax, "abort")>>}
mcBaseOf == (ax :> "x") @@ (bx :> "x.log")
mcNamesUnder == ("x" :> {"x", "x.log"}) @@ ("x.log" :> {"x.log"})

(* A hash or domain in three spellings; two subnets, one within the other.   *)
mcLower == [v \in Values |-> CASE v = "X" -> "x" [] OTHER -> v]
mcTrim == [v \in Values |-> CASE v = " x" -> "x" [] OTHER -> v]
mcBits == [v \in Values |-> CASE v = "x" -> {1, 2} [] v = "y" -> {2, 3} [] OTHER -> {1, 3}]
mcMembers == ("net1" :> {"a", "b"}) @@ ("net2" :> {"a"})

-----------------------------------------------------------------------------
ServicesInit ==
    /\ service \in {"ring", "limiter", "router", "plugins", "iocs", "host"}
    /\ Init /\ LimiterInit /\ PluginInit /\ IOCInit /\ HostInit
    /\ RouterInit /\ (service # "router" => up = Names)

ServicesNext ==
    /\ service' = service
    /\ others(service)
    /\ \/ service = "ring" /\ Next
       \/ service = "limiter" /\ LimiterNext
       \/ service = "router" /\ RouterNext
       \/ service = "plugins" /\ PluginNext
       \/ service = "iocs" /\ IOCNext
       \/ service = "host" /\ HostNext

(* Time passes, and a chat goes on: its requests end by their timeouts.      *)
Fairness ==
    /\ WF_servicesVars(service = "router" /\ RouterTick /\ others("router") /\ UNCHANGED service)
    /\ \A c \in Chats :
           WF_servicesVars(service = "router" /\ ChatStep(c) /\ others("router") /\ UNCHANGED service)

ServicesSpec == ServicesInit /\ [][ServicesNext]_servicesVars /\ Fairness

=============================================================================
