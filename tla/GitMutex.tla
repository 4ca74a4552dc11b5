------------------------------- MODULE GitMutex --------------------------------
(***************************************************************************)
(* The per-workspace mutex of git/mutex.ts: the queue, the hand-off and    *)
(* the wait timeouts behind withWorkspaceLock, for one workspace.  The     *)
(* engine's worktree operations, its auto-commits and the Git Manager's    *)
(* RPCs all go through it.                                                 *)
(*                                                                         *)
(* The lock's entry in the map is dropped only when it is free and has no  *)
(* waiter, so an absent entry is a free lock.  A caller is one call at a   *)
(* time; a call made inside another one counts as another caller.          *)
(***************************************************************************)
EXTENDS Integers, Sequences

CONSTANTS Callers       \* activities that use the workspace, one call at a time each

VARIABLES
    held,       \* LockState.held
    waiters,    \* LockState.waiters
    done,       \* waiters marked done: granted or timed out
    armed,      \* waiters whose timer is set
    pc          \* where each caller's withWorkspaceLock is

vars == <<held, waiters, done, armed, pc>>

First(S) == CHOOSE i \in S : \A j \in S : i <= j

Pcs == {"out", "waiting", "granted", "inside", "busy"}

TypeOK ==
    /\ held \in BOOLEAN
    /\ waiters \in Seq(Callers)
    /\ done \subseteq Callers /\ armed \subseteq Callers
    /\ pc \in [Callers -> Pcs]

Init ==
    /\ held = FALSE /\ waiters = <<>> /\ done = {} /\ armed = {}
    /\ pc = [c \in Callers |-> "out"]

\* acquire: an uncontended lock is claimed before the function returns.
Acquire(c) ==
    /\ pc[c] = "out"
    /\ IF ~held
       THEN /\ held' = TRUE
            /\ pc' = [pc EXCEPT ![c] = "granted"]
            /\ UNCHANGED <<waiters, done, armed>>
       ELSE /\ waiters' = Append(waiters, c)
            /\ done' = done \ {c} /\ armed' = armed \cup {c}
            /\ pc' = [pc EXCEPT ![c] = "waiting"]
            /\ UNCHANGED held

\* The await of acquire returns and fn runs.
Enter(c) ==
    /\ pc[c] = "granted"
    /\ pc' = [pc EXCEPT ![c] = "inside"]
    /\ UNCHANGED <<held, waiters, done, armed>>

\* waiters.splice(indexOf(c), 1), which removes nothing if c is not there.
Without(s, c) ==
    IF \E i \in 1..Len(s) : s[i] = c
    THEN LET k == First({i \in 1..Len(s) : s[i] = c}) IN
         [i \in 1..(Len(s) - 1) |-> IF i < k THEN s[i] ELSE s[i + 1]]
    ELSE s

\* The timer of a waiter fires; it does nothing if the waiter is done.
Timeout(c) ==
    /\ c \in armed
    /\ armed' = armed \ {c}
    /\ IF c \in done
       THEN UNCHANGED <<waiters, done, pc>>
       ELSE /\ done' = done \cup {c}
            /\ waiters' = Without(waiters, c)
            /\ pc' = [pc EXCEPT ![c] = "busy"]
    /\ UNCHANGED held

\* The caller gets the BUSY error.
Reject(c) ==
    /\ pc[c] = "busy"
    /\ pc' = [pc EXCEPT ![c] = "out"]
    /\ UNCHANGED <<held, waiters, done, armed>>

\* The waiters that release shifts off: the done ones, then the one to grant.
Live == {i \in 1..Len(waiters) : waiters[i] \notin done}

\* Fault: waiters are popped, not shifted.
HandOffToLast(c, i) ==
    /\ waiters' = SubSeq(waiters, 1, Len(waiters) - 1)
    /\ done' = done \cup {waiters[Len(waiters)]}
    /\ armed' = armed \ {waiters[Len(waiters)]}
    /\ pc' = [pc EXCEPT ![c] = "out", ![waiters[Len(waiters)]] = "granted"]
    /\ UNCHANGED held

\* The lock passes to the first live waiter without ever becoming free.
HandOff(c, i) ==
    /\ waiters' = SubSeq(waiters, i + 1, Len(waiters))
    /\ done' = done \cup {waiters[i]}
    /\ armed' = armed \ {waiters[i]}
    /\ pc' = [pc EXCEPT ![c] = "out", ![waiters[i]] = "granted"]
    /\ UNCHANGED held

\* Fault: release frees the lock and leaves the waiters to their timers.
ReleaseOnly(c) ==
    /\ pc[c] = "inside"
    /\ held' = FALSE
    /\ pc' = [pc EXCEPT ![c] = "out"]
    /\ UNCHANGED <<waiters, done, armed>>

\* fn has returned or thrown: release, in the finally.
Release(c) ==
    /\ pc[c] = "inside"
    /\ IF Live # {}
       THEN HandOff(c, First(Live))
       ELSE /\ held' = FALSE
            /\ waiters' = <<>>
            /\ pc' = [pc EXCEPT ![c] = "out"]
            /\ UNCHANGED <<done, armed>>

Next ==
    \E c \in Callers : Acquire(c) \/ Enter(c) \/ Timeout(c) \/ Reject(c) \/ Release(c)

Spec == Init /\ [][Next]_vars

\* The event loop resumes a caller that was granted the lock, and fn ends: it
\* runs git commands that carry timeouts.  Nothing is assumed of the timers.
FairSpec == Spec /\ \A c \in Callers : WF_vars(Enter(c)) /\ WF_vars(Release(c))

-----------------------------------------------------------------------------

Owner(c) == pc[c] \in {"granted", "inside"}

\* One owner at most.
MutualExclusion == \A c, d \in Callers : Owner(c) /\ Owner(d) => c = d

\* The lock is held by somebody, the queue is exactly the waiting callers,
\* each once with its timer running, and nobody waits for a free lock: no
\* hand-off is ever lost and no timed-out waiter is ever handed the lock.
LockInv ==
    /\ TypeOK
    /\ MutualExclusion
    /\ held <=> \E c \in Callers : Owner(c)
    /\ \A c \in Callers : pc[c] = "waiting" => \E i \in 1..Len(waiters) : waiters[i] = c
    /\ \A i \in 1..Len(waiters) : pc[waiters[i]] = "waiting" /\ waiters[i] \notin done
    /\ \A i, j \in 1..Len(waiters) : waiters[i] = waiters[j] => i = j
    /\ \A c \in armed : pc[c] = "waiting"
    /\ waiters # <<>> => held

\* The lock goes to the caller that has waited longest.
HandOffFifo ==
    [][\A i, j \in 1..Len(waiters) :
         pc'[waiters[j]] = "granted" /\ pc[waiters[j]] = "waiting" => j <= i]_vars

\* A waiter gets in unless its timeout comes first.
Served == \A c \in Callers : pc[c] = "waiting" ~> pc[c] \in {"inside", "busy"}

\* The mutex implements the lock its callers rely on.
StatusOf(p) ==
    CASE p = "waiting" -> "asking"
      [] p \in {"granted", "inside"} -> "in"
      [] p = "busy" -> "refused"
      [] OTHER -> "out"

lockStatus == [c \in Callers |-> StatusOf(pc[c])]

Lock == INSTANCE WorkspaceLock WITH status <- lockStatus

LockSpec == Lock!Spec

=============================================================================
