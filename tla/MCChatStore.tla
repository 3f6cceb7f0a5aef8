---------------------------- MODULE MCChatStore ----------------------------
(***************************************************************************)
(* ChatStore for TLC.  The store's maps hardly touch each other, so the    *)
(* product of all their states says no more than five slices of it do: in  *)
(* each behaviour the clients call only the operations of one slice.  A    *)
(* slice keeps the operations its maps share with another one (pending     *)
(* requests with the active runs, subscribers with the runs they follow).  *)
(***************************************************************************)
EXTENDS ChatStore

CONSTANTS c1, c2, r1, r2, p1, p2, p3, o1, o2, k1, k2, i1, i2, status

VARIABLE slice

mcVars == <<vars, slice>>

MCChats == {c1, c2}
MCRuns  == {r1, r2}
MCPendingIds    == {p1, p2, p3}
MCOperations    == {o1, o2}
MCKeys          == {k1, k2}
MCSubscriberIds == {i1, i2}
MCEventKinds    == {status}
MCEventSizes    == {1, 2}

Slices == {"runs", "replay", "subscribers", "pending", "idempotency"}

\* Two chats for the events (their ids interleave), one run for the requests.
EventScopes   == {<<c1, r1>>, <<c2, r2>>}
PendingScopes == {<<c1, r1>>}
RunKeys == [op : {o1}, chat : Chats \cup {Null}, key : {k1}]
OneChat == [op : Operations, chat : {c1}, key : Keys]

MCInit == Init /\ slice \in Slices

MCNext ==
  /\ slice' = slice
  /\ \/ slice = "runs" /\ RunOperation(RunScopes, RunKeys)
     \/ slice = "replay" /\ (EventOperation(EventScopes) \/ Tick)
     \/ /\ slice = "subscribers"
        /\ \/ EventOperation(EventScopes)
           \/ SubscriberOperation(EventScopes)
           \/ \E s \in EventScopes : StartRun(s) \/ CompleteRun(s, "completed")
     \/ /\ slice = "pending"
        /\ \/ PendingOperation(PendingScopes)
           \/ \E s \in PendingScopes :
                StartRun(s) \/ RestoreRunStateAfterPending(s) \/ CompleteRun(s, "failed")
           \/ Refused
           \/ Tick
     \/ slice = "idempotency" /\ (IdempotencyOperation(OneChat) \/ Refused \/ Tick)

MCSpec == MCInit /\ [][MCNext]_mcVars
=============================================================================
