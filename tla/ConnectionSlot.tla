---------------------------- MODULE ConnectionSlot ----------------------------
(***************************************************************************)
(* What the gateway promises of the app servers it starts: each slot, a    *)
(* workflow or a configured session group, has at most one connection at   *)
(* any time, a connection that was lost does not come back, and a slot     *)
(* that was ended for good stays empty.                                    *)
(***************************************************************************)
EXTENDS FiniteSets

CONSTANTS Slots, Connections

VARIABLES
  up,      \* slot -> its open connections
  used,    \* connections that were ever opened
  ended    \* whether the gateway has stopped starting app servers

slotVars == <<up, used, ended>>

SlotInit == /\ up = [s \in Slots |-> {}]
            /\ used = {}
            /\ ended = FALSE

Open(s, n) == /\ ~ended
              /\ up[s] = {}
              /\ n \notin used
              /\ up' = [up EXCEPT ![s] = {n}]
              /\ used' = used \cup {n}
              /\ UNCHANGED ended

Lose(s, n) == /\ n \in up[s]
              /\ up' = [up EXCEPT ![s] = @ \ {n}]
              /\ UNCHANGED <<used, ended>>

End == /\ \A s \in Slots : up[s] = {}
       /\ ended' = TRUE
       /\ UNCHANGED <<up, used>>

SlotNext == \/ \E s \in Slots, n \in Connections : Open(s, n) \/ Lose(s, n)
            \/ End

SlotSpec == SlotInit /\ [][SlotNext]_slotVars
=============================================================================
