-------------------------- MODULE MCNamespaceQuota --------------------------
(* Finite instances of NamespaceQuota for TLC. *)
EXTENDS NamespaceQuota

CONSTANTS w1, w2, w3

\* Three workflows that may run, one of which never ends.
MCThree ==
  [created |-> {w1, w2, w3}, rejected |-> {}, stuck |-> {w2}, timed |-> {},
   reopenable |-> {}, deletable |-> {}]

MCMixes ==
  {MCThree,
   [MCThree EXCEPT !.rejected = {w3}, !.deletable = {w3}],
   [MCThree EXCEPT !.created = {w1, w2}, !.timed = {w2}, !.reopenable = {w1}]}
=============================================================================
