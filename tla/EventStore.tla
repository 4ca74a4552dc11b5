------------------------------ MODULE EventStore -------------------------------
(***************************************************************************)
(* The event log of one task and its snapshot cache (tasks/store.ts): the  *)
(* per-task lock under which events are appended, the fold that rebuilds a *)
(* task from the log, and loadTask, which folds without the lock.  The     *)
(* store's maps are keyed by task and no operation relates two tasks.      *)
(*                                                                         *)
(* An event is one call of appendTaskEvent.  The log is what a fold makes  *)
(* of its complete lines: a line is never changed once it is ended, parses *)
(* when it holds one whole event, and is skipped by every fold when it     *)
(* holds the bytes of several.  What applyEvent makes of an event is left  *)
(* to TaskEngine: here a task is the sequence of the events applied to it. *)
(* task.json is left out: the store writes it and never reads it.          *)
(***************************************************************************)
EXTENDS Integers, Sequences, SequencesExt

CONSTANTS
    Events,         \* calls of appendTaskEvent
    Loaders,        \* calls of loadTask that may be open at once
    None,           \* no value
    MaxFaults,      \* bound: appends and folds under the lock that fail
    MaxCrashes      \* bound: deaths of the sidecar

ASSUME BoundsAreNat == MaxFaults \in Nat /\ MaxCrashes \in Nat
ASSUME NoneIsNoTask == None \notin Seq(Events)

VARIABLES
    log,        \* events.log up to its last newline: the lines that parse
    tail,       \* what follows the last newline: the events with bytes there
    whole,      \* the tail is one whole event: it parses
    cache,      \* SNAPSHOTS: the task in memory
    chain,      \* TASK_LOCKS: the calls, in the order they asked
    step,       \* where the first of the chain is
    folded,     \* what the fold under the lock has read
    pc,         \* loader -> where it is
    read,       \* loader -> what its fold has read
    faults, crashes,
    called,     \* events in the order of their calls
    acked,      \* events whose call has returned
    torn,       \* appends that left a part of their line
    overtaken   \* a load has set the cache beside an append

logVars == <<log, tail, whole, torn>>
lockVars == <<chain, step, folded>>
loadVars == <<pc, read>>
vars == <<logVars, cache, lockVars, loadVars, faults, crashes, called, acked, overtaken>>

\* foldFromDisk: the events a fold applies, in order.
Fold == IF whole THEN log \o tail ELSE log

Steps == {"append", "written", "folding"}
Tasks == Seq(Events)

TypeOK ==
    /\ log \in Tasks /\ tail \in Tasks /\ whole \in BOOLEAN
    /\ whole => Len(tail) = 1
    /\ cache \in Tasks \cup {None}
    /\ chain \in Tasks /\ step \in Steps /\ folded \in Tasks \cup {None}
    /\ pc \in [Loaders -> {"out", "reading", "read"}] /\ read \in [Loaders -> Tasks]
    /\ faults \in 0..MaxFaults /\ crashes \in 0..MaxCrashes
    /\ called \in Tasks /\ acked \subseteq ToSet(called)
    /\ torn \in Nat /\ overtaken \in BOOLEAN

Init ==
    /\ log = <<>> /\ tail = <<>> /\ whole = FALSE /\ torn = 0
    /\ cache = None
    /\ chain = <<>> /\ step = "append" /\ folded = None
    /\ pc = [l \in Loaders |-> "out"] /\ read = [l \in Loaders |-> <<>>]
    /\ faults = 0 /\ crashes = 0 /\ called = <<>> /\ acked = {} /\ overtaken = FALSE

-----------------------------------------------------------------------------
\* appendTaskEvent.

\* Fault: a call does not wait for its turn.
EnterFirst(e) == chain' = <<e>> \o chain

\* withLock: the call is chained after the calls before it.
Enter(e) == chain' = Append(chain, e)

Call(e) ==
    /\ e \notin ToSet(called)
    /\ called' = Append(called, e)
    /\ Enter(e)
    /\ UNCHANGED <<logVars, cache, step, folded, loadVars, faults, crashes, acked, overtaken>>

Caller == Head(chain)

\* appendFile adds the event and a newline to whatever the file ends in; a line
\* that held something before does not parse.
WriteLine ==
    /\ log' = IF tail = <<>> THEN Append(log, Caller) ELSE log
    /\ tail' = <<>> /\ whole' = FALSE

\* A part of the line reaches the file, all of it but its newline at most.
Tear ==
    /\ log' = log
    /\ tail' = tail \o <<Caller>>
    /\ whole' \in {FALSE, tail = <<>>}
    /\ torn' = torn + 1

AppendFile ==
    /\ chain # <<>> /\ step = "append"
    /\ WriteLine
    /\ step' = "written"
    /\ UNCHANGED <<torn, cache, chain, folded, loadVars, faults, crashes, called, acked,
                   overtaken>>

\* Fault: the error is swallowed and the call returns.
AppendFailsQuietly ==
    /\ chain # <<>> /\ step = "append"
    /\ faults < MaxFaults /\ faults' = faults + 1
    /\ Tear \/ UNCHANGED logVars
    /\ chain' = Tail(chain)
    /\ acked' = acked \cup {Caller}
    /\ UNCHANGED <<cache, step, folded, loadVars, crashes, called, overtaken>>

\* appendFile rejects, and so does the call; the next one runs all the same.
AppendFails ==
    /\ chain # <<>> /\ step = "append"
    /\ faults < MaxFaults /\ faults' = faults + 1
    /\ Tear \/ UNCHANGED logVars
    /\ chain' = Tail(chain)
    /\ UNCHANGED <<cache, step, folded, loadVars, crashes, called, acked, overtaken>>

Return ==
    /\ chain' = Tail(chain)
    /\ step' = "append" /\ folded' = None
    /\ acked' = acked \cup {Caller}

\* Fault: a task that is not cached starts from nothing.
ApplyToNothing ==
    /\ chain # <<>> /\ step = "written"
    /\ cache' = Append(IF cache = None THEN <<>> ELSE cache, Caller)
    /\ Return
    /\ UNCHANGED <<logVars, loadVars, faults, crashes, called, overtaken>>

\* Fault: only a cached task is updated.
ApplyIfCached ==
    /\ chain # <<>> /\ step = "written" /\ cache # None
    /\ cache' = Append(cache, Caller)
    /\ Return
    /\ UNCHANGED <<logVars, loadVars, faults, crashes, called, overtaken>>

\* The line is in the file; a cached task takes the event, another is folded.
Apply ==
    /\ chain # <<>> /\ step = "written"
    /\ IF cache = None
       THEN step' = "folding" /\ UNCHANGED <<cache, chain, folded, acked>>
       ELSE cache' = Append(cache, Caller) /\ Return
    /\ UNCHANGED <<logVars, loadVars, faults, crashes, called, overtaken>>

ReadUnderLock ==
    /\ step = "folding" /\ folded = None
    /\ folded' = Fold
    /\ UNCHANGED <<logVars, cache, chain, step, loadVars, faults, crashes, called, acked,
                   overtaken>>

\* The read throws: the call rejects although its line is in the file, and the
\* task stays uncached.
FoldFails ==
    /\ step = "folding" /\ folded = None
    /\ faults < MaxFaults /\ faults' = faults + 1
    /\ chain' = Tail(chain) /\ step' = "append"
    /\ UNCHANGED <<logVars, cache, folded, loadVars, crashes, called, acked, overtaken>>

CacheFold ==
    /\ step = "folding" /\ folded # None
    /\ cache' = folded
    /\ Return
    /\ UNCHANGED <<logVars, loadVars, faults, crashes, called, overtaken>>

-----------------------------------------------------------------------------
\* loadTask of a task that is not cached; of a cached one it changes nothing.

Load(l) ==
    /\ pc[l] = "out" /\ cache = None
    /\ pc' = [pc EXCEPT ![l] = "reading"]
    /\ UNCHANGED <<logVars, cache, lockVars, read, faults, crashes, called, acked, overtaken>>

LoadRead(l) ==
    /\ pc[l] = "reading"
    /\ read' = [read EXCEPT ![l] = Fold]
    /\ pc' = [pc EXCEPT ![l] = "read"]
    /\ UNCHANGED <<logVars, cache, lockVars, faults, crashes, called, acked, overtaken>>

\* The cache takes what was read, whatever it holds by now.
LoadSet(l) ==
    /\ pc[l] = "read"
    /\ cache' = read[l]
    /\ pc' = [pc EXCEPT ![l] = "out"] /\ read' = [read EXCEPT ![l] = <<>>]
    /\ overtaken' = (overtaken \/ chain # <<>> \/ read[l] # Fold)
    /\ UNCHANGED <<logVars, lockVars, faults, crashes, called, acked>>

\* The sidecar dies, in the middle of a write or not.
Crash ==
    /\ crashes < MaxCrashes /\ crashes' = crashes + 1
    /\ \/ UNCHANGED logVars
       \/ chain # <<>> /\ step = "append" /\ Tear
    /\ cache' = None /\ chain' = <<>> /\ step' = "append" /\ folded' = None
    /\ pc' = [l \in Loaders |-> "out"] /\ read' = [l \in Loaders |-> <<>>]
    /\ overtaken' = FALSE
    /\ UNCHANGED <<faults, called, acked>>

Locked == AppendFile \/ AppendFails \/ Apply \/ ReadUnderLock \/ FoldFails \/ CacheFold

Next ==
    \/ \E e \in Events : Call(e)
    \/ Locked
    \/ \E l \in Loaders : Load(l) \/ LoadRead(l) \/ LoadSet(l)
    \/ Crash

Spec == Init /\ [][Next]_vars

\* File operations end, well or badly.
FairSpec == Spec /\ WF_vars(Locked)

-----------------------------------------------------------------------------

\* A write that is cut short costs one acknowledged event at most: the one whose
\* line is glued to what the write left.
OneLossPerTear == Cardinality(acked \ ToSet(Fold)) <= torn

\* Whatever is cut short, a fold applies events in the order of their calls,
\* each once.
FoldInOrder ==
    \A i, j \in 1..Len(Fold) :
        i < j => \E k \in 1..Len(called) : \E n \in (k + 1)..Len(called) :
                   called[k] = Fold[i] /\ called[n] = Fold[j]

\* Between two calls the task in memory is what a restart would fold, unless a
\* write was cut short or a load has set the cache beside an append.
CacheCurrent ==
    cache # None /\ step = "append" /\ torn = 0 /\ ~overtaken => cache = Fold

\* Every call returns or rejects.
Answered == \A e \in Events : e \in ToSet(chain) ~> e \notin ToSet(chain)

=============================================================================
