---------------------------- MODULE WriteService ----------------------------
(***************************************************************************)
(* What the static channel API promises a plugin about its writes        *)
(* (VirtualChannelWrite[Ex] and the CHANNEL_EVENT_WRITE_COMPLETE /        *)
(* CHANNEL_EVENT_WRITE_CANCELLED events of client.c): a write is either   *)
(* refused with an error code, or accepted; an accepted write is answered *)
(* by exactly one of the two events, eventually; nothing else happens to  *)
(* it.  Several accepted writes may be answered at once, as when a queue  *)
(* is cleared.                                                             *)
(***************************************************************************)
CONSTANT Writes

VARIABLE ws

States == {"idle", "refused", "accepted", "complete", "cancelled"}

Init == ws = [w \in Writes |-> "idle"]

Refuse(w) ==
  /\ ws[w] = "idle"
  /\ ws' = [ws EXCEPT ![w] = "refused"]

Accept(w) ==
  /\ ws[w] = "idle"
  /\ ws' = [ws EXCEPT ![w] = "accepted"]

(* The writes in S, all accepted, get the event ev.                        *)
Answer(S, ev) ==
  /\ S # {}
  /\ \A w \in S : ws[w] = "accepted"
  /\ ws' = [w \in Writes |-> IF w \in S THEN ev ELSE ws[w]]

AnswerSome(w) ==
  \E S \in SUBSET Writes, ev \in {"complete", "cancelled"} :
     w \in S /\ Answer(S, ev)

Next ==
  \/ \E w \in Writes : Refuse(w) \/ Accept(w)
  \/ \E S \in SUBSET Writes, ev \in {"complete", "cancelled"} : Answer(S, ev)

Spec == Init /\ [][Next]_ws /\ \A w \in Writes : WF_ws(AnswerSome(w))

TypeOK == ws \in [Writes -> States]

=============================================================================
