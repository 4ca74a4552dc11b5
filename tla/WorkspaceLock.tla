---------------------------- MODULE WorkspaceLock -----------------------------
(***************************************************************************)
(* What withWorkspaceLock promises its callers: those who ask get in one   *)
(* at a time or are refused, and one who was refused never got in.         *)
(***************************************************************************)
CONSTANTS Callers

VARIABLES status        \* caller -> "out", "asking", "in", "refused"

Statuses == {"out", "asking", "in", "refused"}

Free == \A c \in Callers : status[c] # "in"

Init == status = [c \in Callers |-> "out"]

\* A caller asks; it may be let in on the spot.
Ask(c) ==
    /\ status[c] = "out"
    /\ \/ status' = [status EXCEPT ![c] = "asking"]
       \/ Free /\ status' = [status EXCEPT ![c] = "in"]

Refuse(c) ==
    /\ status[c] = "asking"
    /\ status' = [status EXCEPT ![c] = "refused"]

Return(c) ==
    /\ status[c] = "refused"
    /\ status' = [status EXCEPT ![c] = "out"]

\* Leaving lets nobody in only if nobody is asking.
Leave(c) ==
    /\ status[c] = "in"
    /\ \/ \E d \in Callers :
             /\ status[d] = "asking"
             /\ status' = [status EXCEPT ![c] = "out", ![d] = "in"]
       \/ /\ \A d \in Callers : status[d] # "asking"
          /\ status' = [status EXCEPT ![c] = "out"]

Next == \E c \in Callers : Ask(c) \/ Refuse(c) \/ Return(c) \/ Leave(c)

Spec == Init /\ [][Next]_status

\* One caller at a time.
MutualExclusion ==
    \A c, d \in Callers : status[c] = "in" /\ status[d] = "in" => c = d

=============================================================================
