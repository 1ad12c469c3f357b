------------------------------- MODULE MCGate -------------------------------
(* Model values and small data for TLC runs of Gate. *)
EXTENDS Gate

CONSTANTS ann, bob, ops, lab, team

MCUsers == {ann, bob}
MCOneUser == {ann}
MCChannels == {ops}
MCNamespaces == {lab}

\* Everyone in; bob out and the namespace closed.
MCOpen == [operators |-> {ann, bob} \cap Users, channels |-> {ops},
           namespaces |-> {lab}, namespaces_denied |-> {}]
MCClosed == [operators |-> {ann}, channels |-> {},
             namespaces |-> {lab}, namespaces_denied |-> {lab}]
MCPolicies == {MCOpen, MCClosed}
MCOnePolicy == {MCOpen}

Said(user, place) ==
  [kind |-> "event", bot |-> FALSE, empty |-> FALSE, team |-> team, user |-> user, place |-> place]

MCRequests ==
  {Said(ann, ops), Said(bob, ops), Said(ann, "dm"),
   [Said(ann, ops) EXCEPT !.bot = TRUE], [Said(ann, ops) EXCEPT !.empty = TRUE],
   [Said(ann, ops) EXCEPT !.team = "other"],
   [kind |-> "namespace", namespace |-> lab]}
MCAnnOnly == {Said(ann, ops)}
=============================================================================
