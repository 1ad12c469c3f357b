------------------------------ MODULE MCOpsBot ------------------------------
(* Model values and small data for the TLC run of OpsBot. *)
EXTENDS OpsBot, TLC

CONSTANTS ann, ops, lab, team, th, t1, t2, t3

\* The namespace open, and closed.
MCPolicies == {[operators |-> {ann}, channels |-> {ops}, namespaces |-> {lab}, namespaces_denied |-> denied] :
                 denied \in {{}, {lab}}}

\* Three deliveries of one mention in one thread: the same for the bot as three
\* mentions.
Said == [kind |-> "event", bot |-> FALSE, empty |-> FALSE, team |-> team, user |-> ann, place |-> ops]
MCMention == [t \in {t1, t2, t3} |-> Said]
MCSymmetry == Permutations(Turns)
MCRequests == {Said, [kind |-> "namespace", namespace |-> lab]}
=============================================================================
