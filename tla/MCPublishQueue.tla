--------------------------- MODULE MCPublishQueue ---------------------------
(* Small instances of PublishQueue for TLC. *)
EXTENDS PublishQueue

\* Ids are interchangeable, so messages are admitted in the order of their ids.
InIdOrder == \A m \in Range(admitted') : 1..m \subseteq Range(admitted')

MCSpec == Init /\ [][Next /\ InIdOrder]_vars /\ Fairness
=============================================================================
