------------------------------- MODULE SlotPool -------------------------------
(***************************************************************************)
(* What the provider slots promise: at most Capacity clients are inside a   *)
(* provider at once, whoever they are and in whatever order they come.      *)
(* ProviderSlots implements this specification.                             *)
(***************************************************************************)
EXTENDS Naturals, FiniteSets

CONSTANTS Clients,   \* who may hold a slot
          Capacity   \* how many may at once

VARIABLE held        \* the clients that hold a slot

Init == held = {}

Take(c) == /\ c \notin held
           /\ Cardinality(held) < Capacity
           /\ held' = held \cup {c}

Give(c) == /\ c \in held
           /\ held' = held \ {c}

Next == \E c \in Clients : Take(c) \/ Give(c)

Spec == Init /\ [][Next]_held
=============================================================================
