------------------------ MODULE MCCorrelationEngine ------------------------
EXTENDS CorrelationEngine

Unlabelled == [k \in {"app"} |-> ""]
Pay == [k \in {"app"} |-> "pay"]

Delivery(kind, namespace, labels) ==
    [kind |-> kind, namespace |-> namespace, labels |-> labels, systemName |-> FALSE,
     significant |-> TRUE, crash |-> kind = "Event"]

OwnDeployment == Delivery("Deployment", "own", Pay)
OwnCrash == Delivery("Event", "own", Unlabelled)

\* The SLO's own Deployment, a ConfigMap elsewhere, a crash, and for each of the three
\* kinds what its handler passes over.
MCDeliveries ==
    {OwnDeployment, Delivery("ConfigMap", "shop", Pay), OwnCrash,
     Delivery("Deployment", "kube-system", Pay),
     [Delivery("ConfigMap", "own", Pay) EXCEPT !.systemName = TRUE],
     [OwnCrash EXCEPT !.significant = FALSE]}

MCSelectors ==
    {NoSelector,
     [namespaces |-> {}, labels |-> Pay],
     [namespaces |-> {"own", "shop"}, labels |-> <<>>]}
=============================================================================
