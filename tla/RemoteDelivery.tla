----------------------------- MODULE RemoteDelivery ----------------------------
(***************************************************************************)
(* What remote retrieval promises, whatever the connections do: an answer  *)
(* is the whole payload of a run that sent it, and no run answers twice.   *)
(***************************************************************************)
CONSTANTS
    Runs,        \* runs of the indexer host
    Payload      \* what each run sends: its timestamp and its indices

VARIABLES
    finished,    \* runs that sent their whole payload
    used,        \* runs whose payload was an answer
    answer       \* the last answer

vars == <<finished, used, answer>>

Nothing == <<>>

Init == finished = {} /\ used = {} /\ answer = Nothing

Finish(r) ==
    /\ r \notin finished
    /\ finished' = finished \cup {r}
    /\ UNCHANGED <<used, answer>>

Answer(r) ==
    /\ r \in finished \ used
    /\ used' = used \cup {r} /\ answer' = Payload[r]
    /\ UNCHANGED finished

Next == \E r \in Runs : Finish(r) \/ Answer(r)

Spec == Init /\ [][Next]_vars
================================================================================
