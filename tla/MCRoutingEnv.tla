---------------------------- MODULE MCRoutingEnv ----------------------------
(* A small board for RoutingEnv: every net is bare, has a stub that        *)
(* connects nothing, is connected, or is connected by a detour that        *)
(* violates a design rule.                                                 *)
EXTENDS RoutingEnv

CONSTANTS n1, n2

MCNet == {n1, n2}

Copper == {"bare", "stub", "done", "detour"}
MCBoard == [MCNet -> Copper]
Open(c) == c \in {"bare", "stub"}

MCRatsnest == [b \in MCBoard |-> {n \in MCNet : Open(b[n])}]
MCUnrouted == [b \in MCBoard |-> [T \in SUBSET MCNet |-> Cardinality(T \cap MCRatsnest[b])]]
MCStrip == [b \in MCBoard |-> [K \in SUBSET MCNet |->
              [n \in MCNet |-> IF n \in K THEN b[n] ELSE "bare"]]]

\* Routing net n extends it; a shove may disturb a finished neighbour.
Extends(c, d) == <<c, d>> \in {<<"bare", "stub">>, <<"bare", "done">>, <<"stub", "done">>,
                               <<"stub", "detour">>, <<"done", "detour">>,
                               <<"stub", "stub">>, <<"done", "done">>}
Shoves(c, d) == c = d \/ <<c, d>> \in {<<"done", "detour">>, <<"done", "stub">>}

MCCommit == [b \in MCBoard |-> [n \in MCNet |->
               {c \in MCBoard : /\ Extends(b[n], c[n])
                                /\ \A m \in MCNet \ {n} : Shoves(b[m], c[m])}]]

\* Open edges and copper cost; DRC adds the open edges and the detours.
NetCost(c, drc) == CASE c = "bare" -> IF drc THEN 3 ELSE 2
                     [] c = "stub" -> IF drc THEN 4 ELSE 3
                     [] c = "done" -> 0
                     [] c = "detour" -> IF drc THEN 5 ELSE 1
Potential(b, drc) == -(NetCost(b[n1], drc) + NetCost(b[n2], drc))
MCPhi == [b \in MCBoard |-> Potential(b, TRUE)]
MCPhiBlind == [b \in MCBoard |-> Potential(b, FALSE)]

BareFile == [n \in MCNet |-> "bare"]
HalfFile == [n \in MCNet |-> IF n = n1 THEN "done" ELSE "stub"]

MCAction == {"net_select", "start_route", "net_end", "make_line", "make_via", "finish"}

(* configs/masking/pcbworld_masking.yaml: net_end on any net, no finish.   *)
ShippedRule ==
    [a \in MCAction |->
       CASE a = "net_select" -> [has_net |-> FALSE, is_routing |-> FALSE]
         [] a = "start_route" -> [has_net |-> TRUE, is_routing |-> FALSE,
                                  net_fully_connected |-> FALSE]
         [] a = "net_end" -> [has_net |-> TRUE, is_routing |-> FALSE]
         [] OTHER -> [is_routing |-> TRUE]]

NoSizes == {}
SomeSize == {0, 1}
NoTargets == {}
OneTarget == {{n1}, {n1, n2}}
=============================================================================
