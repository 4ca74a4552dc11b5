----------------------------- MODULE SessionTurns ------------------------------
(***************************************************************************)
(* Who drives one session: turns (methods/sessions.send-message.ts),       *)
(* compactions (sessions.compact.ts) and an interactive CLI                *)
(* (sessions.open-cli.ts, sessions/cli-registry.ts).  They share the lock  *)
(* of sessions/runner.ts, its registry of aborters, and the cards that ask *)
(* the user something (sessions/permissions.ts, sessions/questions.ts).    *)
(*                                                                         *)
(* Each action is the code between two awaits.  The model runtimes are     *)
(* external: a stream makes calls and ends, with any outcome.  The lock is *)
(* the chain of promises that the code builds: line holds one entry per    *)
(* call of withSessionLock, with the entry it was chained to.              *)
(***************************************************************************)
EXTENDS Integers, Sequences, FiniteSets

CONSTANTS
    Turns,          \* calls of sessions.sendMessage
    Compactions,    \* calls of sessions.compact
    Opens,          \* calls of sessions.openCli
    Detached,       \* turns whose runtime may end before its calls are answered
    Calls,          \* tool calls that pass the permission gate, or ask a question
    By,             \* call -> the turn that makes it
    None,           \* no CLI
    MayOverflow     \* bound: turns whose stream may fail for its context

Senders == Turns \cup Compactions

ASSUME Apart ==
    Turns \cap Compactions = {} /\ Senders \cap Opens = {} /\ None \notin Opens
ASSUME Kinds ==
    Detached \cup MayOverflow \subseteq Turns /\ By \in [Calls -> Turns]

VARIABLES
    pc,         \* caller -> where its call is
    try,        \* turn -> its first stream, its recovery, or the retry
    active,     \* ACTIVE_ABORTERS: the senders registered there
    aborted,    \* the senders whose controller has been aborted
    line,       \* for each entry of the lock so far, the one it was chained to
    spot,       \* sender -> its entry while it waits or streams, 0 otherwise
    tail,       \* PER_SESSION_LOCKS: the entry to chain to, 0 if none
    settled,    \* entries whose promise has settled
    call,       \* call -> what has become of it
    link        \* links: the CLI that counts as attached

lockVars == <<line, spot, tail, settled>>
turnVars == <<try, active, aborted, call>>
vars == <<pc, turnVars, lockVars, link>>

SenderPcs == {"idle", "checked", "ready", "waiting", "streaming", "saving", "over"}
OpenPcs == {"idle", "checked", "spawning", "attached", "over"}
\* A card is late if it is parked when its turn is over or has been stopped.
CallStates == {"none", "gate", "parked", "late", "over"}

TypeOK ==
    /\ pc \in [Senders \cup Opens -> SenderPcs \cup OpenPcs]
    /\ try \in [Turns -> {"turn", "recovery", "retry"}]
    /\ active \subseteq Senders /\ aborted \subseteq Senders
    /\ line \in Seq(Nat)
    /\ spot \in [Senders -> Nat] /\ tail \in Nat /\ settled \subseteq Nat
    /\ call \in [Calls -> CallStates]
    /\ link \in Opens \cup {None}

Init ==
    /\ pc = [c \in Senders \cup Opens |-> "idle"] /\ try = [t \in Turns |-> "turn"]
    /\ active = {} /\ aborted = {}
    /\ line = <<>> /\ spot = [c \in Senders |-> 0] /\ tail = 0 /\ settled = {}
    /\ call = [r \in Calls |-> "none"]
    /\ link = None

Move(c, from, to) == pc[c] = from /\ pc' = [pc EXCEPT ![c] = to]

-----------------------------------------------------------------------------
\* withSessionLock.

\* Chain to the entry in the map and take its place there.
Enter(c) ==
    /\ line' = Append(line, tail)
    /\ tail' = Len(line) + 1 /\ spot' = [spot EXCEPT ![c] = Len(line) + 1]
    /\ UNCHANGED settled

\* Fault: the map forgets the session whoever holds its entry.
LeaveAnyway(c) ==
    /\ settled' = settled \cup {spot[c]} /\ tail' = 0
    /\ spot' = [spot EXCEPT ![c] = 0] /\ UNCHANGED line

\* The promise settles, fulfilled or rejected, and its caller's finally takes
\* it out of the map unless another has chained to it.
Leave(c) ==
    /\ settled' = settled \cup {spot[c]}
    /\ tail' = IF tail = spot[c] THEN 0 ELSE tail
    /\ spot' = [spot EXCEPT ![c] = 0] /\ UNCHANGED line

\* prev.then(fn, fn) runs the stream.
Stream(c) ==
    /\ Move(c, "waiting", "streaming")
    /\ line[spot[c]] \in settled \cup {0}
    /\ UNCHANGED <<turnVars, lockVars, link>>

Queue(c) ==
    /\ Move(c, "ready", "waiting") /\ Enter(c)
    /\ UNCHANGED <<turnVars, link>>

\* runStream throws before it takes a place: a native command on a runtime that
\* has none.
NoStream(c) ==
    /\ Move(c, "ready", "saving")
    /\ UNCHANGED <<turnVars, lockVars, link>>

-----------------------------------------------------------------------------
\* A turn.

\* The first thing a turn and, once the session is loaded, a compaction asks.
Begin(c) ==
    /\ Move(c, "idle", IF link = None THEN "checked" ELSE "over")
    /\ UNCHANGED <<turnVars, lockVars, link>>

\* Refused later: the session is busy elsewhere, its budget is spent, or there
\* is nothing to compact.
Refuse(c) ==
    /\ Move(c, "checked", "over")
    /\ UNCHANGED <<turnVars, lockVars, link>>

\* Fault: the attached CLI is not looked for again.
RegisterUnchecked(t) ==
    /\ Move(t, "checked", "ready") /\ active' = active \cup {t}
    /\ UNCHANGED <<try, aborted, call, lockVars, link>>

\* registerAborter, and the second look at the link in the same stretch, which
\* takes the registration back.
Register(t) ==
    /\ Move(t, "checked", IF link = None THEN "ready" ELSE "over")
    /\ active' = IF link = None THEN active \cup {t} ELSE active
    /\ UNCHANGED <<try, aborted, call, lockVars, link>>

\* The model calls a tool and the gate (runtime/permission.ts) looks up rules.
\* A stream whose signal is aborted calls none.
CallTool(r) ==
    /\ pc[By[r]] = "streaming" /\ try[By[r]] # "recovery" /\ By[r] \notin aborted
    /\ call[r] = "none" /\ call' = [call EXCEPT ![r] = "gate"]
    /\ UNCHANGED <<pc, try, active, aborted, lockVars, link>>

\* The gate has its answer: it needs none of the user, or parks a card without
\* looking at the signal.
Gate(r) ==
    /\ call[r] = "gate"
    /\ \E to \in {"over", IF By[r] \in active \ aborted THEN "parked" ELSE "late"} :
           call' = [call EXCEPT ![r] = to]
    /\ UNCHANGED <<pc, try, active, aborted, lockVars, link>>

\* sessions.permission and sessions.answerQuestion: an answer to a card that is
\* gone is refused.
Answer(r) ==
    /\ call[r] \in {"parked", "late"} /\ call' = [call EXCEPT ![r] = "over"]
    /\ UNCHANGED <<pc, try, active, aborted, lockVars, link>>

\* onAbort: the cards of the turns ts that are parked now are answered.
Withdrawn(ts) ==
    [r \in Calls |-> IF By[r] \in ts /\ call[r] = "parked" THEN "over" ELSE call[r]]

\* sessions.cancel and the abort of sessions.delete.  The listeners run once.
Stop ==
    /\ aborted' = aborted \cup active
    /\ call' = Withdrawn(active \ aborted)
    /\ UNCHANGED <<pc, try, active, lockVars, link>>

\* Pi ends a stream when its calls have returned; the others may end it with
\* their process.
CanEnd(t) ==
    /\ pc[t] = "streaming"
    /\ t \in Detached \/ \A r \in Calls : By[r] = t => call[r] \in {"none", "over"}

\* Fault: the recovery is started before the failed stream has left the lock.
OverflowInside(t) ==
    /\ CanEnd(t) /\ t \in MayOverflow /\ try[t] = "turn" /\ link = None
    /\ Move(t, "streaming", "ready") /\ try' = [try EXCEPT ![t] = "recovery"]
    /\ UNCHANGED <<active, aborted, call, lockVars, link>>

\* The first stream fails for its context: a compaction of its own, which no
\* Stop reaches, takes a new place in the lock.
Overflow(t) ==
    /\ CanEnd(t) /\ t \in MayOverflow /\ try[t] = "turn" /\ link = None
    /\ Move(t, "streaming", "ready") /\ Leave(t)
    /\ try' = [try EXCEPT ![t] = "recovery"]
    /\ UNCHANGED <<active, aborted, call, link>>

\* The recovery succeeds: once more, in a third place.
Recovered(t) ==
    /\ try[t] = "recovery"
    /\ Move(t, "streaming", "ready") /\ Leave(t)
    /\ try' = [try EXCEPT ![t] = "retry"]
    /\ UNCHANGED <<active, aborted, call, link>>

\* The stream ends and the message is saved.
EndStream(t) ==
    /\ CanEnd(t) /\ Move(t, "streaming", "saving") /\ Leave(t)
    /\ UNCHANGED <<turnVars, link>>

\* Fault: cards are left to the abort listener.
FinishOnly(t) ==
    /\ Move(t, "saving", "over") /\ active' = active \ {t}
    /\ UNCHANGED <<try, aborted, call, lockVars, link>>

\* The finally of the handler: the cards still parked are answered and the
\* turn is taken out of the registry.
Finish(t) ==
    /\ Move(t, "saving", "over") /\ active' = active \ {t}
    /\ call' = Withdrawn({t})
    /\ UNCHANGED <<try, aborted, lockVars, link>>

-----------------------------------------------------------------------------
\* A compaction registers after one more await and looks at no link again.

RegisterCompaction(c) ==
    /\ Move(c, "checked", "ready") /\ active' = active \cup {c}
    /\ UNCHANGED <<try, aborted, call, lockVars, link>>

EndCompaction(c) ==
    /\ Move(c, "streaming", "saving") /\ Leave(c)
    /\ UNCHANGED <<turnVars, link>>

FinishCompaction(c) ==
    /\ Move(c, "saving", "over") /\ active' = active \ {c}
    /\ UNCHANGED <<try, aborted, call, lockVars, link>>

-----------------------------------------------------------------------------
\* The CLI.

OpenCheck(o) ==
    /\ Move(o, "idle", IF active = {} THEN "checked" ELSE "over")
    /\ UNCHANGED <<turnVars, lockVars, link>>

\* An open CLI is returned, or refused if it is of another kind.
FindLink(o) ==
    /\ Move(o, "checked", IF link = None THEN "spawning" ELSE "over")
    /\ UNCHANGED <<turnVars, lockVars, link>>

\* The CLI cannot be started.
SpawnFails(o) ==
    /\ Move(o, "spawning", "over")
    /\ UNCHANGED <<turnVars, lockVars, link>>

\* The process is there; with a turn in flight it is killed.
Attach(o) ==
    /\ Move(o, "spawning", IF active = {} THEN "attached" ELSE "over")
    /\ link' = IF active = {} THEN o ELSE link
    /\ UNCHANGED <<turnVars, lockVars>>

\* onExit compares identities.
Exit(o) ==
    /\ Move(o, "attached", "over")
    /\ link' = IF link = o THEN None ELSE link
    /\ UNCHANGED <<turnVars, lockVars>>

-----------------------------------------------------------------------------
TurnStep(t) ==
    \/ Refuse(t) \/ Register(t) \/ Queue(t) \/ NoStream(t) \/ Stream(t)
    \/ Overflow(t) \/ Recovered(t) \/ EndStream(t) \/ Finish(t)

CompactionStep(c) ==
    \/ Refuse(c) \/ RegisterCompaction(c) \/ Queue(c) \/ NoStream(c)
    \/ Stream(c) \/ EndCompaction(c) \/ FinishCompaction(c)

OpenStep(o) == FindLink(o) \/ SpawnFails(o) \/ Attach(o)

SystemStep ==
    \/ \E t \in Turns : TurnStep(t)
    \/ \E r \in Calls : CallTool(r) \/ Gate(r)
    \/ \E c \in Compactions : CompactionStep(c)
    \/ \E o \in Opens : OpenStep(o)

Next ==
    \/ SystemStep
    \/ \E c \in Senders : Begin(c)
    \/ \E r \in Calls : Answer(r)
    \/ Stop
    \/ \E o \in Opens : OpenCheck(o) \/ Exit(o)

Spec == Init /\ [][Next]_vars

\* The event loop runs what is ready, file operations and streams end.  The
\* user need not answer, stop or close anything.
FairSpec == Spec /\ WF_vars(SystemStep)

-----------------------------------------------------------------------------
(***************************************************************************)
(* A turn and the CLI never drive the session together, and a session that *)
(* counts as attached has a CLI: the guard at the top of sendMessage, its  *)
(* second look after registerAborter and the two looks of openCli close    *)
(* every gap between them.                                                 *)
(***************************************************************************)
OneDriver == link # None => pc[link] = "attached" /\ active \cap Turns = {}

(***************************************************************************)
(* Streams of one session run one at a time and in the order in which they *)
(* asked for the lock, recoveries and retries included (withSessionLock).  *)
(***************************************************************************)
RunsInOrder ==
    \A c \in Senders : pc[c] = "streaming" => 1 .. (spot[c] - 1) \subseteq settled

(***************************************************************************)
(* A card the user was shown in time is withdrawn when its turn is stopped *)
(* or ends, so no card asks for a turn that is gone.                       *)
(***************************************************************************)
CardsWithdrawn ==
    \A r \in Calls : call[r] = "parked" => By[r] \in active \ aborted

(***************************************************************************)
(* Every turn and compaction leaves the registry, so nothing keeps the     *)
(* session busy: unless a card waits for the user.                         *)
(***************************************************************************)
NothingHangs ==
    \A c \in Senders : []<>(\/ c \notin active
                            \/ \E r \in Calls : call[r] \in {"parked", "late"})

=============================================================================
