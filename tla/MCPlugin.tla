------------------------------ MODULE MCPlugin ------------------------------
(* Command lines and labels for TLC.  Two labels end in the same name. *)
EXTENDS Plugin

CONSTANTS hostname, zone, otherZone

MCLabels == {hostname, zone, otherZone}
MCLabelValue == [l \in MCLabels |-> l]
MCDomain == [l \in MCLabels |-> IF l = hostname THEN "hostname" ELSE "zone"]

Base == [name |-> TRUE, nodeID |-> TRUE, version |-> TRUE, prefixFits |-> TRUE,
         IsControllerServer |-> FALSE, IsNodeServer |-> FALSE, Ephemeral |-> FALSE,
         DomainLabels |-> <<hostname>>, scheme |-> "unix"]

MCConfigs ==
    {[Base EXCEPT !.IsControllerServer = c, !.IsNodeServer = n, !.Ephemeral = e,
                  !.DomainLabels = labels, !.scheme = s] :
        c \in BOOLEAN, n \in BOOLEAN, e \in BOOLEAN,
        labels \in {<<>>, <<hostname, zone>>, <<zone, otherZone>>, <<zone, zone>>},
        s \in {"unix", "tcp"}}
    \cup {[Base EXCEPT !.scheme = s] : s \in {"UNIX", "invalid"}}
    \cup {[Base EXCEPT ![f] = FALSE] : f \in {"name", "nodeID", "version", "prefixFits"}}
=============================================================================
