--------------------------- MODULE ConversationStore ---------------------------
(***************************************************************************)
(* What the conversation service promises of the conversations it has      *)
(* answered for: each is there with the last title it was given until it   *)
(* is deleted, and is not there again after that.  Crashes and restarts    *)
(* do not show.                                                            *)
(***************************************************************************)
CONSTANTS Ids, Titles, NoTitle

VARIABLE store  \* "none", a title, or "gone"

Init == store = [id \in Ids |-> "none"]

Create(id) == store[id] = "none" /\ store' = [store EXCEPT ![id] = NoTitle]
Retitle(id, title) == /\ store[id] \in Titles \cup {NoTitle}
                      /\ store' = [store EXCEPT ![id] = title]
Remove(id) == /\ store[id] \in Titles \cup {NoTitle}
              /\ store' = [store EXCEPT ![id] = "gone"]

Next == \E id \in Ids : \/ Create(id) \/ Remove(id)
                        \/ \E title \in Titles : Retitle(id, title)

Spec == Init /\ [][Next]_store
================================================================================
