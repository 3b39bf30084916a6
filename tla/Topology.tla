------------------------------ MODULE Topology ------------------------------
(***************************************************************************)
(* The two uses of topology labels in pkg/common/topology.go: which        *)
(* topology CreateVolume answers with, and which one a node reports.  A    *)
(* topology is a function from labels to values; a Go map has no order, so *)
(* where two entries end up under one key, either may win.                 *)
(***************************************************************************)
EXTENDS Sequences, Naturals

CONSTANT NoTopology  \* a nil map

\* Mutant: the last topology as it is, with the labels nobody asked for.
getTopologyUnfiltered(labels, topologies) ==
    IF topologies = <<>> THEN NoTopology
    ELSE topologies[Len(topologies)]

\* getTopology: the labels that some topology of the list has, each with its
\* value in the last one that has it.
getTopology(labels, topologies) ==
    LET Having(l) == {i \in DOMAIN topologies : l \in DOMAIN topologies[i]}
        Last(l) == CHOOSE i \in Having(l) : \A j \in Having(l) : j <= i
        found == {l \in labels : Having(l) # {}}
    IN  IF found = {} THEN NoTopology
        ELSE [l \in found |-> topologies[Last(l)][l]]

\* GetTopologyFromParams for the labels of the parameter domainLabels; a
\* request without the parameter has no labels.  A request without
\* accessibility requirements has two empty lists.
GetTopologyFromParams(labels, requirement) ==
    LET preferred == getTopology(labels, requirement.preferred)
    IN  IF preferred # NoTopology THEN preferred
        ELSE getTopology(labels, requirement.requisite)

-----------------------------------------------------------------------------

\* Mutant: labels the node lacks are passed over.
GetTopologyFromLabelsFound(nodeLabels, labelsToRead, prefixFits, Domain) ==
    LET labels == {labelsToRead[i] : i \in DOMAIN labelsToRead} \cap DOMAIN nodeLabels
    IN  {[d \in {Domain[l] : l \in labels} |->
            nodeLabels[CHOOSE l \in labels : Domain[l] = d]]}

\* GetTopologyFromDomainLabels: the topologies a node may report, none when
\* the call fails.  labelsToRead are the configured labels, nodeLabels those
\* of the node object, Domain[l] is the part of a label after its slash, and
\* prefixFits says that the driver name leaves the prefix within 63 bytes.
GetTopologyFromDomainLabels(nodeLabels, labelsToRead, prefixFits, Domain) ==
    LET labels == {labelsToRead[i] : i \in DOMAIN labelsToRead}
        domains == {Domain[l] : l \in labels}
        Values(d) == {nodeLabels[l] : l \in {k \in labels : Domain[k] = d}}
        duplicate == \E i, j \in DOMAIN labelsToRead :
                        i # j /\ labelsToRead[i] = labelsToRead[j]
    IN  IF labelsToRead = <<>> THEN {NoTopology}
        ELSE IF ~prefixFits \/ duplicate \/ ~(labels \subseteq DOMAIN nodeLabels)
        THEN {}
        ELSE {t \in [domains -> UNION {Values(d) : d \in domains}] :
                 \A d \in domains : t[d] \in Values(d)}
=============================================================================
