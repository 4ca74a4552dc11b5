------------------------------- MODULE Schedules -------------------------------
(***************************************************************************)
(* One repeating schedule (schedules/runner.ts, store.ts and the handlers  *)
(* in methods/schedules): the scan the host asks for every 30 seconds, the *)
(* run it fires, the run the user asks for, the work that goes on detached *)
(* from both, the user's edits, and the file all of them read, change and  *)
(* write back without a lock.  No operation relates two schedules but the  *)
(* order of one scan, so one schedule stands for all.                      *)
(*                                                                         *)
(* Time is counted in periods of the schedule: computeNextRun is the next  *)
(* period.  A row of the history keeps its id, its status and whether it   *)
(* names the task or session it made.  lastRunAt, lastStatus, updatedAt,   *)
(* messages, run logs and the approval of commands are left out, and       *)
(* wake-ups, which the same scan delivers, keep no state here.             *)
(***************************************************************************)
EXTENDS Integers, Sequences, FiniteSets

CONSTANTS
    Kinds,          \* kinds of job: some of "session", "command", "task"
    Timer,          \* tickSchedules
    Manual,         \* calls of runScheduleNow that may be open at once
    Editors,        \* calls of setEnabled and upsert that may be open at once
    Runs,           \* ids of runs; one that nothing names is used again
    None,           \* no value
    MaxHistory,     \* MAX_RUN_HISTORY
    MaxTime,        \* bound: periods that pass
    MaxRequests, MaxFaults, MaxCrashes \* bounds: requests of the user, file
                    \* calls that fail or collide, deaths of the sidecar

ASSUME HistoryIsKept == MaxHistory \in Nat \ {0}
ASSUME CallersApart ==
    /\ Timer \notin Manual \cup Editors \cup Runs
    /\ Manual \cap (Editors \cup Runs) = {} /\ Editors \cap Runs = {}
ASSUME KindsExist == Kinds \subseteq {"session", "command", "task"}
ASSUME BoundsAreNat ==
    MaxTime \in Nat /\ MaxRequests \in Nat /\ MaxFaults \in Nat /\ MaxCrashes \in Nat

VARIABLES
    kind,       \* job.kind
    disk,       \* the schedule's file, or None
    now,        \* the period the clock is in
    firing,     \* the schedule is in the set `firing`
    at,         \* caller or detached work -> where it is
    ctx,        \* caller or detached work -> what it holds
    live,       \* runs whose session turn, process or task is going on
    answered,   \* marks for which the timer has fired or skipped
    collided,   \* a write has replaced a file its writer had not read,
                \* shared its .tmp file, or brought a deleted one back
    requests, faults, crashes

vars == <<kind, disk, now, firing, at, ctx, live, answered, collided, requests, faults, crashes>>
bounds == <<requests, faults, crashes>>

Callers == {Timer} \cup Manual \cup Editors \cup Runs
Never == 0          \* nextRunAt is null
Marks == 0..(MaxTime + 1)
Row == [id : Runs \cup {None}, status : {"running", "ok", "error", "skipped"},
        made : BOOLEAN]
Places == {"idle", "list", "reconcile", "due", "load", "save", "current", "ask",
           "busy", "asking", "creating", "turn", "turning"}
Ops == {"none", "patch", "status", "anchor", "skip", "begin", "link", "finish",
        "enable", "disable", "keep", "retime"}

\* What withFreshSchedule's caller holds: the schedule it works on, the write
\* it is about to make, the row that goes into it, and the file it has read.
Blank == [sched |-> None, op |-> "none", row |-> None, snap |-> None,
          when |-> 0, mark |-> Never, stale |-> FALSE, taken |-> FALSE]

IsFile(d) ==
    /\ DOMAIN d = {"enabled", "next", "runs"}
    /\ d.enabled \in BOOLEAN /\ d.next \in Marks
    /\ d.runs \in Seq(Row) /\ Len(d.runs) <= MaxHistory

TypeOK ==
    /\ kind \in Kinds
    /\ disk = None \/ IsFile(disk)
    /\ now \in 0..MaxTime /\ firing \in BOOLEAN /\ collided \in BOOLEAN
    /\ at \in [Callers -> Places]
    /\ \A p \in Callers :
        /\ ctx[p].sched = None \/ IsFile(ctx[p].sched)
        /\ ctx[p].snap = None \/ IsFile(ctx[p].snap)
        /\ ctx[p].op \in Ops /\ ctx[p].row \in Row \cup {None}
    /\ live \subseteq Runs /\ answered \subseteq Marks
    /\ requests \in 0..MaxRequests /\ faults \in 0..MaxFaults /\ crashes \in 0..MaxCrashes

Init ==
    /\ kind \in Kinds
    /\ disk = [enabled |-> TRUE, next |-> 1, runs |-> <<>>]
    /\ now = 0 /\ firing = FALSE
    /\ at = [p \in Callers |-> "idle"] /\ ctx = [p \in Callers |-> Blank]
    /\ live = {} /\ answered = {} /\ collided = FALSE
    /\ requests = 0 /\ faults = 0 /\ crashes = 0

\*** The writes ****************************************************************

\* Fault: the mark that has just come is the next one again.
NextMarkInclusive(t) == t

\* computeNextRun: always later than the moment it counts from.
NextMark(t) == t + 1

Kept(rows) == SubSeq(rows, 1, IF Len(rows) < MaxHistory THEN Len(rows) ELSE MaxHistory)

Named(s, id) == {i \in 1..Len(s.runs) : s.runs[i].id = id}
Prepended(s, row) == [s EXCEPT !.runs = Kept(<<row>> \o @)]
Patched(s, row) ==
    [s EXCEPT !.runs = [i \in 1..Len(@) |-> IF @[i].id = row.id THEN row ELSE @[i]]]

\* The file a caller writes, from the one it has read: the mutations handed to
\* withFreshSchedule, then those of setEnabled and upsert.
Mutated(c) ==
    LET s == c.snap
        \* upsert keeps the mark of an unchanged trigger
        Upserted(keep) ==
            [enabled |-> TRUE, runs |-> IF s = None THEN <<>> ELSE s.runs,
             next |-> IF s # None /\ keep /\ s.enabled THEN s.next ELSE NextMark(c.when)]
    IN CASE c.op = "patch"   -> Patched(s, c.row)
         [] c.op = "link"    -> Patched(s, c.row)
         [] c.op = "status"  -> s
         [] c.op = "anchor"  -> [s EXCEPT !.next = NextMark(c.when)]
         [] c.op = "skip"    -> Prepended(s, c.row)
         [] c.op = "begin"   -> Prepended(s, c.row)
         [] c.op = "finish"  -> IF Named(s, c.row.id) = {} THEN Prepended(s, c.row)
                                ELSE Patched(s, c.row)
         [] c.op = "enable"  -> [s EXCEPT !.enabled = TRUE, !.next = NextMark(c.when)]
         [] c.op = "disable" -> [s EXCEPT !.enabled = FALSE, !.next = Never]
         [] c.op = "keep"    -> Upserted(TRUE)
         [] c.op = "retime"  -> Upserted(FALSE)

\* Whoever has read the file and not written it yet now holds an old one.
Outdated(C) == [p \in Callers |-> IF at[p] = "save" THEN [C[p] EXCEPT !.stale = TRUE] ELSE C[p]]

\* The .tmp file q is writing is renamed by another.
Taken(C, q) == [p \in Callers |-> IF p = q THEN [C[p] EXCEPT !.taken = TRUE] ELSE C[p]]

\* A caller starts a write; the row it is about goes along.
Writing(c, op, row) == [c EXCEPT !.op = op, !.row = row, !.snap = None, !.stale = FALSE,
                                     !.taken = FALSE]

Goes(p, place, c, C) == at' = [at EXCEPT ![p] = place] /\ ctx' = [C EXCEPT ![p] = c]

\* The write is done, or there is no file to write: what the caller does next.
\* finishRun is followed by firing.delete; fire hands the row to detached work.
Continue(p, C) ==
    LET c == [C[p] EXCEPT !.snap = None, !.stale = FALSE, !.taken = FALSE, !.when = 0] IN
    /\ \/ c.op = "patch" /\ Goes(p, "load", Writing(c, "status", None), C)
       \/ c.op = "status" /\ Goes(p, "due", c, C)
       \/ c.op = "anchor" /\ Goes(p, "current", c, C)
       \/ c.op = "link" /\ kind = "session" /\ Goes(p, "turn", c, C)
       \/ c.op = "link" /\ kind = "task" /\
          Goes(p, "load", Writing(c, "finish", [c.row EXCEPT !.status = "ok"]), C)
       \/ c.op = "begin"
          /\ at' = [at EXCEPT ![p] = "idle", ![c.row.id] = "creating"]
          /\ ctx' = [C EXCEPT ![p] = Blank, ![c.row.id] = [Blank EXCEPT !.row = c.row]]
       \/ c.op \in {"skip", "finish", "enable", "disable", "keep", "retime"}
          /\ Goes(p, "idle", Blank, C)
    /\ firing' = (firing /\ c.op # "finish")

\* Fault: the flag stays set when the last write of a run fails.
ThrowHolding(p, C) ==
    LET c == C[p] IN
    /\ IF c.op = "link" /\ at[p] \in {"load", "save"}
       THEN Goes(p, "load", Writing(c, "finish", [c.row EXCEPT !.status = "error"]), C)
       ELSE Goes(p, "idle", Blank, C)
    /\ firing' = (firing /\ ~(c.op = "begin" /\ at[p] \in {"load", "save"}))

\* A file call throws: the tick and the handlers give up, fire takes its flag
\* back, work that cannot record its id ends as an error.
Throw(p, C) ==
    LET c == C[p] IN
    /\ IF c.op = "link" /\ at[p] \in {"load", "save"}
       THEN Goes(p, "load", Writing(c, "finish", [c.row EXCEPT !.status = "error"]), C)
       ELSE Goes(p, "idle", Blank, C)
    /\ firing' = (firing /\ ~(c.op \in {"begin", "finish"} /\ at[p] \in {"load", "save"}))

\* Without the file only upsert writes; setEnabled writes nothing that is so
\* already.
NothingToWrite(op) ==
    IF disk = None THEN op \notin {"keep", "retime"}
    ELSE op = (IF disk.enabled THEN "enable" ELSE "disable")

\* loadSchedule
Load(p) ==
    /\ at[p] = "load"
    /\ LET c == ctx[p]
           edit == c.op \in {"enable", "disable", "keep", "retime"} IN
       IF NothingToWrite(c.op)
       THEN Continue(p, ctx)
       ELSE /\ Goes(p, "save", [c EXCEPT !.snap = disk, !.stale = FALSE,
                                         !.when = IF edit THEN now ELSE @], ctx)
            /\ UNCHANGED firing
    /\ UNCHANGED <<kind, disk, now, live, answered, collided, bounds>>

\* A writer whose file has been changed or deleted since it was read.
Collides(c) == c.stale \/ disk = None

\* saveSchedule: the .tmp file is written, and a rename puts it in place.
Save(p) ==
    /\ at[p] = "save" /\ ~ctx[p].taken
    /\ disk' = Mutated(ctx[p])
    /\ collided' = (collided \/ Collides(ctx[p]))
    /\ Continue(p, Outdated(ctx))
    /\ UNCHANGED <<kind, now, live, answered, bounds>>

\* The .tmp file has the name of the process, so two writers of one schedule share
\* it: p renames what either has written, or a mixture of both that does not parse
\* and counts as no file.
Clash(p) ==
    /\ at[p] = "save" /\ faults < MaxFaults
    /\ \E q \in Callers \ {p} :
         /\ at[q] = "save" /\ ~ctx[q].taken
         /\ disk' = Mutated(ctx[p]) \/ disk' = Mutated(ctx[q]) \/ disk' = None
         /\ Continue(p, Taken(Outdated(ctx), q))
    /\ collided' = TRUE /\ faults' = faults + 1
    /\ UNCHANGED <<kind, now, live, answered, requests, crashes>>

\* The other one has gone on writing to what is the schedule's file by then, and
\* finds no .tmp file to rename.
Overtaken(p) ==
    /\ at[p] = "save" /\ ctx[p].taken
    /\ disk' = disk \/ disk' = Mutated(ctx[p]) \/ disk' = None
    /\ Throw(p, Outdated(ctx))
    /\ collided' = TRUE
    /\ UNCHANGED <<kind, now, live, answered, bounds>>

\* A list, a read or a write fails; a write may have replaced the file first.
FileFails(p) ==
    /\ at[p] \in {"list", "load", "save"} /\ faults < MaxFaults
    /\ faults' = faults + 1
    /\ \/ Throw(p, ctx) /\ UNCHANGED <<disk, collided>>
       \/ /\ at[p] = "save"
          /\ disk' = Mutated(ctx[p]) /\ collided' = (collided \/ Collides(ctx[p]))
          /\ Throw(p, Outdated(ctx))
    /\ UNCHANGED <<kind, now, live, answered, requests, crashes>>

\*** tickSchedules *************************************************************

still == <<kind, disk, now, live, collided, bounds>>

\* One scan at a time: tickInFlight.
Tick ==
    /\ at[Timer] = "idle"
    /\ Goes(Timer, "list", Blank, ctx)
    /\ UNCHANGED <<still, firing, answered>>

List ==
    /\ at[Timer] = "list"
    /\ IF disk = None THEN Goes(Timer, "idle", Blank, ctx)
       ELSE Goes(Timer, "reconcile", [Blank EXCEPT !.sched = disk], ctx)
    /\ UNCHANGED <<still, firing, answered>>


\* The newest row says running and nobody here or at the executor knows of it.
Interrupted(s) ==
    /\ s.runs # <<>> /\ s.runs[1].status = "running"
    /\ ~firing
    /\ ~(s.runs[1].made /\ s.runs[1].id \in live)

IsDue(s) == s.enabled /\ s.next # Never /\ now >= s.next

\* enabled and nextRunAt are those of the list; the new mark counts from now.
GoesOn(c) ==
    IF IsDue(c.sched)
    THEN Goes(Timer, "load", [Writing(c, "anchor", None) EXCEPT
                                 !.when = now, !.mark = c.sched.next], ctx)
    ELSE Goes(Timer, "idle", Blank, ctx)

\* reconcileInterrupted.  The question to the task store is part of the step: a
\* task only goes from unfinished to finished.
Reconcile ==
    /\ at[Timer] = "reconcile"
    /\ LET c == ctx[Timer]
           row == [c.sched.runs[1] EXCEPT !.status = "error"] IN
       IF Interrupted(c.sched)
       THEN Goes(Timer, "load",
                 [Writing(c, "patch", row) EXCEPT !.sched.runs[1] = row], ctx)
       ELSE GoesOn(c)
    /\ UNCHANGED <<still, firing, answered>>

Due ==
    /\ at[Timer] = "due"
    /\ GoesOn(ctx[Timer])
    /\ UNCHANGED <<still, firing, answered>>

\* (await loadSchedule(schedule.id)) ?? schedule
Current ==
    /\ at[Timer] = "current"
    /\ Goes(Timer, "busy", [ctx[Timer] EXCEPT !.sched = IF disk = None THEN @ ELSE disk], ctx)
    /\ UNCHANGED <<still, firing, answered>>

\*** runScheduleNow ************************************************************

RunNow(m) ==
    /\ at[m] = "idle" /\ requests < MaxRequests
    /\ requests' = requests + 1
    /\ Goes(m, "ask", Blank, ctx)
    /\ UNCHANGED <<kind, disk, now, live, collided, faults, crashes, firing, answered>>

Ask(m) ==
    /\ at[m] = "ask"
    /\ IF disk = None THEN Goes(m, "idle", Blank, ctx)
       ELSE Goes(m, "busy", [Blank EXCEPT !.sched = disk], ctx)
    /\ UNCHANGED <<still, firing, answered>>

\*** busyReason and fire *******************************************************

Answers(p) == answered' = IF p = Timer THEN answered \cup {ctx[p].mark} ELSE answered

\* recordSkipped
Skip(p) ==
    /\ Goes(p, "load", Writing(Blank, "skip",
                               [id |-> None, status |-> "skipped", made |-> FALSE]), ctx)
    /\ Answers(p)
    /\ UNCHANGED firing

RowIds(s) == IF s = None THEN {} ELSE {s.runs[i].id : i \in 1..Len(s.runs)}

\* Ids nothing names.
Fresh ==
    {r \in Runs :
        /\ at[r] = "idle" /\ r \notin live \cup RowIds(disk)
        /\ \A p \in Callers :
            /\ r \notin RowIds(ctx[p].sched) \cup RowIds(ctx[p].snap)
            /\ ctx[p].row # None => ctx[p].row.id # r}

NewRow(r) == [id |-> r, status |-> "running", made |-> FALSE]

\* beginRun; a bound of the instance: with no id left there is no run.
Begins(p) ==
    IF Fresh = {} THEN Goes(p, "idle", Blank, ctx)
    ELSE Goes(p, "load", Writing(Blank, "begin", NewRow(CHOOSE r \in Fresh : TRUE)), ctx)

\* Fault: the flag is set only once the row is written, in beginRun.
FireUnflagged(p) ==
    /\ Begins(p)
    /\ Answers(p)
    /\ UNCHANGED firing

\* fire: the flag is set before the first await.
Fire(p) ==
    /\ Begins(p)
    /\ Answers(p)
    /\ firing' = (firing \/ Fresh # {})

\* The newest row that names a task or a session.
LastMade(s) ==
    LET made == {i \in 1..Len(s.runs) : s.runs[i].made} IN
    IF made = {} THEN None
    ELSE s.runs[CHOOSE i \in made : \A j \in made : i <= j].id

\* busyReason: the flag, then the executor.  A session is looked up at once, a
\* task is loaded from its log; nothing looks at the flag again after that.
Busy(p) ==
    /\ at[p] = "busy"
    /\ LET last == LastMade(ctx[p].sched) IN
       \/ firing /\ Skip(p)
       \/ ~firing /\ kind = "session" /\ last \in live /\ Skip(p)
       \/ ~firing /\ kind = "task" /\ last # None
          /\ Goes(p, "asking", ctx[p], ctx) /\ UNCHANGED <<answered, firing>>
       \/ ~firing /\ ~(kind = "session" /\ last \in live)
          /\ ~(kind = "task" /\ last # None) /\ Fire(p)
    /\ UNCHANGED still

Asking(p) ==
    /\ at[p] = "asking"
    /\ IF LastMade(ctx[p].sched) \in live THEN Skip(p) ELSE Fire(p)
    /\ UNCHANGED still

\*** The detached work *********************************************************

Ends(r, status) ==
    Goes(r, "load", Writing(ctx[r], "finish", [ctx[r].row EXCEPT !.status = status]), ctx)

\* sessions.upsert or tasks.create, or the start of the approved program; each
\* may be refused.
Create(r) ==
    /\ at[r] = "creating"
    /\ \/ Ends(r, "error") /\ UNCHANGED live
       \/ /\ kind = "command"
          /\ Goes(r, "turning", ctx[r], ctx)
          /\ live' = live \cup {r}
       \/ /\ kind # "command"
          /\ Goes(r, "load", Writing(ctx[r], "link", [ctx[r].row EXCEPT !.made = TRUE]), ctx)
          /\ live' = IF kind = "task" THEN live \cup {r} ELSE live
    /\ UNCHANGED <<kind, disk, now, firing, answered, collided, bounds>>

\* sessions.sendMessage: the turn of the run's session.
StartTurn(r) ==
    /\ at[r] = "turn"
    /\ Goes(r, "turning", ctx[r], ctx)
    /\ live' = live \cup {r}
    /\ UNCHANGED <<kind, disk, now, firing, answered, collided, bounds>>

\* The turn or the program ends, well or not; the program at the latest when its
\* group is killed at the time limit.
EndTurn(r) ==
    /\ at[r] = "turning"
    /\ \E status \in {"ok", "error"} : Ends(r, status)
    /\ live' = live \ {r}
    /\ UNCHANGED <<kind, disk, now, firing, answered, collided, bounds>>

\* A task goes on after the work that created it has finished; so does a
\* session in which the user has started a turn.
OutlivesWork(r) ==
    /\ at[r] # "turning" /\ r \in live
    /\ live' = live \ {r}
    /\ UNCHANGED <<kind, disk, now, firing, at, ctx, answered, collided, bounds>>

\* The user goes on in the session a run has opened.
UserTurn(r) ==
    /\ kind = "session" /\ at[r] = "idle" /\ r \in RowIds(disk) \ live
    /\ live' = live \cup {r}
    /\ UNCHANGED <<kind, disk, now, firing, at, ctx, answered, collided, bounds>>

\*** The user's edits, the clock, the death of the sidecar *********************

\* schedules.setEnabled and schedules.upsert (the latter saves an enabled
\* schedule, with the same trigger or another).
Edit(e, op) ==
    /\ at[e] = "idle" /\ requests < MaxRequests
    /\ requests' = requests + 1
    /\ Goes(e, "load", [Blank EXCEPT !.op = op], ctx)
    /\ UNCHANGED <<kind, disk, now, live, collided, faults, crashes, firing, answered>>

\* schedules.delete
Delete ==
    /\ disk # None /\ requests < MaxRequests
    /\ requests' = requests + 1
    /\ disk' = None
    /\ ctx' = Outdated(ctx)
    /\ UNCHANGED <<kind, now, firing, at, live, answered, collided, faults, crashes>>

Clock ==
    /\ now < MaxTime
    /\ now' = now + 1
    /\ UNCHANGED <<kind, disk, firing, at, ctx, live, answered, collided, bounds>>

\* Sessions die with the sidecar, a program may outlive it, tasks are kept.
Crash ==
    /\ crashes < MaxCrashes
    /\ crashes' = crashes + 1
    /\ at' = [p \in Callers |-> "idle"] /\ ctx' = [p \in Callers |-> Blank]
    /\ firing' = FALSE
    /\ \/ kind = "task" /\ UNCHANGED live
       \/ kind = "command" /\ live' \in SUBSET live
       \/ kind = "session" /\ live' = {}
    /\ UNCHANGED <<kind, disk, now, answered, collided, requests, faults>>

\*** The whole *****************************************************************

Scan == List \/ Reconcile \/ Due \/ Current
Work(r) == Create(r) \/ StartTurn(r) \/ EndTurn(r)
Proceeds(p) == Load(p) \/ Save(p) \/ Overtaken(p) \/ Busy(p) \/ Asking(p)

Next ==
    \/ Tick \/ Scan \/ Clock \/ Crash \/ Delete
    \/ \E m \in Manual : RunNow(m) \/ Ask(m)
    \/ \E r \in Runs : Work(r) \/ OutlivesWork(r) \/ UserTurn(r)
    \/ \E e \in Editors, op \in {"enable", "disable", "keep", "retime"} : Edit(e, op)
    \/ \E p \in Callers : Proceeds(p) \/ Clash(p) \/ FileFails(p)

Spec == Init /\ [][Next]_vars

\* The host's timer goes on, file calls and creations are answered, and a program
\* ends, for runProcess kills it at its time limit.  Nothing ends a turn: a stalled
\* stream or a card nobody answers may keep it for ever.
FairSpec ==
    /\ Spec
    /\ WF_vars(Tick) /\ WF_vars(Scan)
    /\ \A p \in Callers : WF_vars(Proceeds(p))
    /\ \A m \in Manual : WF_vars(Ask(m))
    /\ \A r \in Runs :
        /\ WF_vars(Create(r)) /\ WF_vars(StartTurn(r))
        /\ WF_vars(kind = "command" /\ EndTurn(r))

\*** Properties ****************************************************************

Working == {r \in Runs : at[r] # "idle"}

\* This process never has two runs of a session prompt or a command at work for
\* one schedule, however the timer, the user's "run now" and failed file calls
\* fall (runner.ts D6).  A program that outlived an earlier sidecar is not counted
\* (NoOverlapAfterRestart), and tasks are out: see README.
NoOverlap == kind \in {"session", "command"} => Cardinality(Working) <= 1

\* What runner.ts says of the question whether the last run still goes on: the
\* answer holds across a restart of the sidecar.
NoOverlapAfterRestart == kind = "command" => Cardinality(live) <= 1

\* Work that goes on is known to this process: the flag covers it from before
\* its row is written to after its result is.
FlagCoversWork ==
    /\ kind \in {"session", "command"}
    /\ Working # {} \/ \E p \in Callers : ctx[p].op = "begin"
    => firing

\* The timer answers a mark once, by a run or by a skipped row, unless one of
\* the unlocked writes has put an old mark back (runner.ts:494-495).
Answering == ctx[Timer].mark # Never /\ ctx'[Timer].op \in {"skip", "begin"}
MarkAnsweredOnce ==
    [][Answering /\ ~collided => ctx[Timer].mark \notin answered]_vars

\* A schedule that is due is answered: its mark moves on, or it is disabled or
\* deleted.
Overdue == disk # None /\ IsDue(disk)
DueIsAnswered == Overdue ~> ~Overdue

\* The flag of a fired run is released, whatever fails, unless the turn of a
\* session goes on.
FlagReleased ==
    firing ~> (~firing \/ (kind = "session" /\ \E r \in Runs : at[r] = "turning"))

\* The newest row of the history, when it says running and nothing runs for it,
\* does not stay so: the next scans close it, or another row goes on top
\* (runner.ts:362-365: it would say running forever).
Dangling(r) ==
    /\ disk # None /\ disk.runs # <<>>
    /\ disk.runs[1].id = r /\ disk.runs[1].status = "running"
    /\ at[r] = "idle" /\ r \notin live
================================================================================
