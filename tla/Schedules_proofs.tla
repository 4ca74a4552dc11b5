---------------------------- MODULE Schedules_proofs -----------------------------
(***************************************************************************)
(* Proofs about schedules, for any number of callers, runs, edits, failed  *)
(* file calls, collisions of the .tmp file and crashes.                    *)
(*                                                                         *)
(* TypeInv: whatever is written to the file of a schedule is a schedule;   *)
(* whoever writes has read one, has a row where the write is about one,    *)
(* and cuts the history to its limit.                                      *)
(*                                                                         *)
(* FireInv: one process never has two runs of a session prompt or of a     *)
(* command at work; the flag is owned by one caller or one run from the    *)
(* moment it is set to the moment it is released.                          *)
(*                                                                         *)
(* MarkInv: the file is past every mark the timer has answered, and so is  *)
(* whatever is about to be written from a fresh copy of it.                *)
(***************************************************************************)
EXTENDS Schedules, SequenceTheorems, FiniteSetTheorems, TLAPS

Fields == {"sched", "op", "row", "snap", "when", "mark", "stale", "taken"}
FileOrNone(d) == d = None \/ IsFile(d)

\* What a caller holds is well typed.
Typed(c) ==
    /\ DOMAIN c = Fields
    /\ FileOrNone(c.sched) /\ FileOrNone(c.snap)
    /\ c.op \in Ops /\ c.row \in Row \cup {None}
    /\ c.when \in 0..MaxTime /\ c.mark \in Marks

\* What a caller holds suffices for where it is.
Sound(place, c) ==
    /\ place \in Places /\ Typed(c)
    /\ place \in {"load", "save"} => c.op # "none"
    /\ place = "save" /\ c.op \notin {"keep", "retime"} => IsFile(c.snap)
    /\ place \in {"creating", "turn", "turning"} => c.row \in Row
    /\ c.op \in {"patch", "link", "skip", "begin", "finish"} => c.row \in Row
    /\ place \in {"reconcile", "due", "current", "busy", "asking"} => IsFile(c.sched)
    /\ c.op \in {"patch", "status", "anchor"} => IsFile(c.sched)

HandInv ==
    /\ at \in [Callers -> Places]
    /\ ctx = [p \in Callers |-> ctx[p]]
    /\ \A p \in Callers : Sound(at[p], ctx[p])

RestInv ==
    /\ kind \in Kinds /\ FileOrNone(disk)
    /\ now \in 0..MaxTime /\ firing \in BOOLEAN /\ collided \in BOOLEAN
    /\ live \subseteq Runs /\ answered \subseteq Marks
    /\ requests \in 0..MaxRequests /\ faults \in 0..MaxFaults /\ crashes \in 0..MaxCrashes

TypeInv == HandInv /\ RestInv

-----------------------------------------------------------------------------
\* The writes.

LEMMA KeptRows ==
    ASSUME NEW rows \in Seq(Row)
    PROVE  Kept(rows) \in Seq(Row) /\ Len(Kept(rows)) <= MaxHistory
<1> DEFINE n == IF Len(rows) < MaxHistory THEN Len(rows) ELSE MaxHistory
<1>1. n \in Nat /\ n <= Len(rows) /\ n <= MaxHistory /\ MaxHistory \in Nat
    BY HistoryIsKept
<1>2. \A i \in 1..n : rows[i] \in Row
    BY <1>1
<1> HIDE DEF n
<1>3. SubSeq(rows, 1, n) \in Seq(Row) /\ Len(SubSeq(rows, 1, n)) = IF 1 <= n THEN n - 1 + 1 ELSE 0
    BY <1>1, <1>2, SubSeqProperties
<1>4. Kept(rows) = SubSeq(rows, 1, n)
    BY DEF Kept, n
<1> QED
    BY <1>1, <1>3, <1>4

LEMMA PrependedFile ==
    ASSUME NEW s, IsFile(s), NEW row \in Row
    PROVE  IsFile(Prepended(s, row))
<1>1. s.runs \in Seq(Row) /\ <<row>> \in Seq(Row)
    BY DEF IsFile
<1>2. <<row>> \o s.runs \in Seq(Row)
    BY <1>1, ConcatProperties
<1>3. Kept(<<row>> \o s.runs) \in Seq(Row) /\ Len(Kept(<<row>> \o s.runs)) <= MaxHistory
    BY <1>2, KeptRows
<1> QED
    BY <1>3 DEF Prepended, IsFile

LEMMA PatchedFile ==
    ASSUME NEW s, IsFile(s), NEW row \in Row
    PROVE  IsFile(Patched(s, row))
<1> DEFINE rows == [i \in 1..Len(s.runs) |-> IF s.runs[i].id = row.id THEN row ELSE s.runs[i]]
<1>1. s.runs \in Seq(Row) /\ Len(s.runs) <= MaxHistory /\ Len(s.runs) \in Nat
    BY DEF IsFile
<1>2. rows \in Seq(Row) /\ Len(rows) = Len(s.runs)
    BY <1>1
<1> HIDE DEF rows
<1>3. Patched(s, row) = [s EXCEPT !.runs = rows]
    BY DEF Patched, rows
<1> QED
    BY <1>1, <1>2, <1>3 DEF IsFile

LEMMA NextMarkIsMark == \A t \in 0..MaxTime : NextMark(t) \in Marks
BY BoundsAreNat DEF NextMark, Marks

\* What a caller at its write writes is a schedule.
LEMMA MutatedFile ==
    ASSUME NEW c, Sound("save", c)
    PROVE  IsFile(Mutated(c))
<1> DEFINE s == c.snap
<1>1. Typed(c) /\ c.op \in Ops /\ c.op # "none" /\ (s = None \/ IsFile(s))
    BY DEF Sound, Typed, FileOrNone
<1>2. NextMark(c.when) \in Marks /\ Never \in Marks
    BY <1>1, NextMarkIsMark, BoundsAreNat DEF Typed, Never, Marks
<1>3. c.op \notin {"keep", "retime"} => IsFile(s)
    BY <1>1 DEF Sound
<1>4. c.op \in {"patch", "link", "skip", "begin", "finish"} => c.row \in Row
    BY <1>1 DEF Sound, Typed
<1> DEFINE U(keep) ==
        [enabled |-> TRUE, runs |-> IF s = None THEN <<>> ELSE s.runs,
         next |-> IF s # None /\ keep /\ s.enabled THEN s.next ELSE NextMark(c.when)]
<1>5. ASSUME NEW keep \in BOOLEAN
      PROVE  IsFile(U(keep))
    <2>1. (IF s = None THEN <<>> ELSE s.runs) \in Seq(Row)
          /\ Len(IF s = None THEN <<>> ELSE s.runs) <= MaxHistory
        BY <1>1, HistoryIsKept DEF IsFile
    <2>2. (IF s # None /\ keep /\ s.enabled THEN s.next ELSE NextMark(c.when)) \in Marks
        BY <1>1, <1>2 DEF IsFile
    <2> QED
        BY <2>1, <2>2 DEF IsFile
<1>6. CASE c.op \in {"patch", "link"}
    <2>1. Mutated(c) = Patched(s, c.row)
        BY <1>6 DEF Mutated
    <2> QED
        BY <1>3, <1>4, <1>6, <2>1, PatchedFile
<1>7. CASE c.op \in {"skip", "begin"}
    <2>1. Mutated(c) = Prepended(s, c.row)
        BY <1>7 DEF Mutated
    <2> QED
        BY <1>3, <1>4, <1>7, <2>1, PrependedFile
<1>8. CASE c.op = "finish"
    <2>1. Mutated(c) = Prepended(s, c.row) \/ Mutated(c) = Patched(s, c.row)
        BY <1>8 DEF Mutated
    <2> QED
        BY <1>3, <1>4, <1>8, <2>1, PatchedFile, PrependedFile
<1>9. CASE c.op = "status"
    <2>1. Mutated(c) = s
        BY <1>9 DEF Mutated
    <2> QED
        BY <1>3, <1>9, <2>1
<1>10. CASE c.op = "anchor"
    <2>1. Mutated(c) = [s EXCEPT !.next = NextMark(c.when)]
        BY <1>10 DEF Mutated
    <2> QED
        BY <1>2, <1>3, <1>10, <2>1 DEF IsFile
<1>11. CASE c.op = "enable"
    <2>1. Mutated(c) = [s EXCEPT !.enabled = TRUE, !.next = NextMark(c.when)]
        BY <1>11 DEF Mutated
    <2> QED
        BY <1>2, <1>3, <1>11, <2>1 DEF IsFile
<1>12. CASE c.op = "disable"
    <2>1. Mutated(c) = [s EXCEPT !.enabled = FALSE, !.next = Never]
        BY <1>12 DEF Mutated
    <2> QED
        BY <1>2, <1>3, <1>12, <2>1 DEF IsFile
<1>13. CASE c.op = "keep"
    <2>1. Mutated(c) = U(TRUE)
        BY <1>13 DEF Mutated
    <2> QED
        BY <1>5, <2>1
<1>14. CASE c.op = "retime"
    <2>1. Mutated(c) = U(FALSE)
        BY <1>14 DEF Mutated
    <2> QED
        BY <1>5, <2>1
<1> QED
    BY <1>1, <1>6, <1>7, <1>8, <1>9, <1>10, <1>11, <1>12, <1>13, <1>14 DEF Ops

-----------------------------------------------------------------------------
\* The moves.

\* What the callers hold when the write of one of them has made some stale.
Hands(C) ==
    /\ C = [p \in Callers |-> C[p]]
    /\ \A p \in Callers : Sound(at[p], C[p])

LEMMA HandsNow == HandInv => Hands(ctx)
BY DEF HandInv, Hands

LEMMA HandsOutdated == HandInv => Hands(Outdated(ctx))
<1> SUFFICES ASSUME HandInv
             PROVE  Hands(Outdated(ctx))
    OBVIOUS
<1>1. ASSUME NEW p \in Callers
      PROVE  Sound(at[p], Outdated(ctx)[p])
    <2> DEFINE c == ctx[p]
    <2>1. Sound(at[p], c)
        BY DEF HandInv
    <2> DEFINE d == [c EXCEPT !.stale = TRUE]
    <2>2. Outdated(ctx)[p] = c \/ Outdated(ctx)[p] = d
        BY DEF Outdated
    <2> HIDE DEF c
    <2>3. Sound(at[p], d)
        BY <2>1 DEF Sound, Typed, Fields
    <2> QED
        BY <2>1, <2>2, <2>3
<1>2. Outdated(ctx) = [p \in Callers |-> Outdated(ctx)[p]]
    BY DEF Outdated
<1> QED
    BY <1>1, <1>2 DEF Hands

LEMMA HandsTaken ==
    ASSUME NEW C, Hands(C), NEW q
    PROVE  Hands(Taken(C, q))
<1>1. ASSUME NEW p \in Callers
      PROVE  Sound(at[p], Taken(C, q)[p])
    <2> DEFINE c == C[p]
               d == [c EXCEPT !.taken = TRUE]
    <2>1. Sound(at[p], c)
        BY DEF Hands
    <2>2. Taken(C, q)[p] = c \/ Taken(C, q)[p] = d
        BY DEF Taken
    <2> HIDE DEF c
    <2>3. Sound(at[p], d)
        BY <2>1 DEF Sound, Typed, Fields
    <2> QED
        BY <2>1, <2>2, <2>3
<1>2. Taken(C, q) = [p \in Callers |-> Taken(C, q)[p]]
    BY DEF Taken
<1> QED
    BY <1>1, <1>2 DEF Hands

\* One caller goes elsewhere with what suffices there.
LEMMA Moves ==
    ASSUME HandInv, NEW p \in Callers, NEW place, NEW c, NEW C, Hands(C),
           Goes(p, place, c, C), Sound(place, c)
    PROVE  HandInv'
<1>1. at \in [Callers -> Places]
    BY DEF HandInv
<1>2. at' = [at EXCEPT ![p] = place] /\ ctx' = [C EXCEPT ![p] = c] /\ place \in Places
    BY DEF Goes, Sound
<1>3. at' \in [Callers -> Places]
    BY <1>1, <1>2
<1>4. ctx' = [q \in Callers |-> ctx'[q]]
    BY <1>2 DEF Hands
<1>5. \A q \in Callers : Sound(at'[q], ctx'[q])
    BY <1>1, <1>2 DEF Hands
<1> QED
    BY <1>3, <1>4, <1>5 DEF HandInv, Sound, Typed

LEMMA BlankTyped == Typed(Blank)
BY BoundsAreNat DEF Blank, Typed, Fields, FileOrNone, Ops, Never, Marks

LEMMA IdleBlank == Sound("idle", Blank)
<1>1. Blank.op = "none"
    BY DEF Blank
<1> QED
    BY <1>1, BlankTyped DEF Sound, Places

\* The start of a write.
LEMMA WritingTyped ==
    ASSUME NEW c, Typed(c), NEW op \in Ops, NEW row \in Row \cup {None}
    PROVE  /\ Typed(Writing(c, op, row))
           /\ Writing(c, op, row).op = op /\ Writing(c, op, row).row = row
           /\ Writing(c, op, row).sched = c.sched
BY DEF Typed, Writing, FileOrNone, Fields

LEMMA Starts ==
    ASSUME NEW c, Typed(c), NEW op \in Ops \ {"none"}, NEW row \in Row \cup {None},
           op \in {"patch", "link", "skip", "begin", "finish"} => row \in Row,
           op \in {"patch", "status", "anchor"} => IsFile(c.sched)
    PROVE  Sound("load", Writing(c, op, row))
BY WritingTyped DEF Sound, Places

LEMMA Restatused ==
    ASSUME NEW row \in Row, NEW status \in {"running", "ok", "error", "skipped"}
    PROVE  [row EXCEPT !.status = status] \in Row /\ [row EXCEPT !.made = TRUE] \in Row
BY DEF Row

LEMMA ContinueSound ==
    ASSUME HandInv, NEW p \in Callers, at[p] \in {"load", "save"}, NEW C, Hands(C), Continue(p, C)
    PROVE  HandInv'
<1> DEFINE c == [C[p] EXCEPT !.snap = None, !.stale = FALSE, !.taken = FALSE, !.when = 0]
<1>1. Sound(at[p], C[p])
    BY DEF Hands
<1> DEFINE d == C[p]
<1>2. /\ Typed(c) /\ c.op = d.op /\ c.row = d.row /\ c.sched = d.sched
    <2> HIDE DEF d
    <2>1. Typed(d)
        BY <1>1 DEF Sound, d
    <2>2. c = [d EXCEPT !.snap = None, !.stale = FALSE, !.taken = FALSE, !.when = 0]
        BY DEF d
    <2> HIDE DEF c
    <2> QED
        BY <2>1, <2>2, BoundsAreNat DEF Typed, Fields, FileOrNone
<1>3. /\ c.op \in Ops /\ c.op # "none"
      /\ c.op \in {"patch", "link", "skip", "begin", "finish"} => c.row \in Row
      /\ c.op \in {"patch", "status", "anchor"} => IsFile(c.sched)
    BY <1>1, <1>2 DEF Sound, Typed
<1> HIDE DEF c, d
<1>4. CASE c.op = "patch" /\ Goes(p, "load", Writing(c, "status", None), C)
    BY <1>2, <1>3, <1>4, Starts, Moves DEF Ops
<1>5. CASE c.op = "status" /\ Goes(p, "due", c, C)
    <2>1. Sound("due", c)
        BY <1>2, <1>3, <1>5 DEF Sound, Places
    <2> QED
        BY <1>5, <2>1, Moves
<1>6. CASE c.op = "anchor" /\ Goes(p, "current", c, C)
    <2>1. Sound("current", c)
        BY <1>2, <1>3, <1>6 DEF Sound, Places
    <2> QED
        BY <1>6, <2>1, Moves
<1>7. CASE c.op = "link" /\ Goes(p, "turn", c, C)
    <2>1. Sound("turn", c)
        BY <1>2, <1>3, <1>7 DEF Sound, Places
    <2> QED
        BY <1>7, <2>1, Moves
<1>8. CASE c.op = "link" /\ Goes(p, "load", Writing(c, "finish", [c.row EXCEPT !.status = "ok"]), C)
    <2>1. [c.row EXCEPT !.status = "ok"] \in Row
        BY <1>3, <1>8, Restatused
    <2>2. Sound("load", Writing(c, "finish", [c.row EXCEPT !.status = "ok"]))
        BY <1>2, <2>1, Starts DEF Ops
    <2> QED
        BY <1>8, <2>2, Moves
<1>9. CASE /\ c.op = "begin"
           /\ at' = [at EXCEPT ![p] = "idle", ![c.row.id] = "creating"]
           /\ ctx' = [C EXCEPT ![p] = Blank, ![c.row.id] = [Blank EXCEPT !.row = c.row]]
    <2> DEFINE b == [Blank EXCEPT !.row = c.row]
               r == c.row.id
    <2>1. Sound("creating", b)
        <3>1. Typed(b) /\ b.row = c.row /\ b.op = "none"
            BY <1>3, <1>9, BoundsAreNat DEF Blank, Typed, Fields, FileOrNone, Ops, Never, Marks
        <3> HIDE DEF b
        <3> QED
            BY <1>3, <1>9, <3>1 DEF Sound, Places
    <2> HIDE DEF b, r
    <2>2. at' = [at EXCEPT ![p] = "idle", ![r] = "creating"] /\ ctx' = [C EXCEPT ![p] = Blank, ![r] = b]
        BY <1>9 DEF b, r
    <2>3. at \in [Callers -> Places] /\ {"idle", "creating"} \subseteq Places
        BY DEF HandInv, Places
    <2>4. at' \in [Callers -> Places]
        BY <2>2, <2>3
    <2>5. ctx' = [q \in Callers |-> ctx'[q]]
        BY <2>2 DEF Hands
    <2>6. ASSUME NEW q \in Callers
          PROVE  Sound(at'[q], ctx'[q])
        <3>1. CASE q = r
            <4>1. at'[q] = "creating" /\ ctx'[q] = b
                BY <2>2, <2>3, <3>1 DEF Hands
            <4> QED
                BY <2>1, <4>1
        <3>2. CASE q # r /\ q = p
            <4>1. at'[q] = "idle" /\ ctx'[q] = Blank
                BY <2>2, <2>3, <3>2 DEF Hands
            <4> QED
                BY <4>1, IdleBlank
        <3>3. CASE q # r /\ q # p
            <4>1. at'[q] = at[q] /\ ctx'[q] = C[q]
                BY <2>2, <2>3, <3>3 DEF Hands
            <4> QED
                BY <4>1 DEF Hands
        <3> QED
            BY <3>1, <3>2, <3>3
    <2> QED
        BY <2>4, <2>5, <2>6 DEF HandInv
<1>10. CASE Goes(p, "idle", Blank, C)
    BY <1>10, IdleBlank, Moves
<1> QED
    BY <1>4, <1>5, <1>6, <1>7, <1>8, <1>9, <1>10 DEF Continue, c

LEMMA ThrowSound ==
    ASSUME HandInv, NEW p \in Callers, NEW C, Hands(C), Throw(p, C)
    PROVE  HandInv'
<1> DEFINE c == C[p]
<1>1. Sound(at[p], c)
    BY DEF Hands
<1>2. Typed(c) /\ (c.op = "link" => c.row \in Row)
    BY <1>1 DEF Sound
<1> HIDE DEF c
<1>3. CASE c.op = "link" /\ Goes(p, "load", Writing(c, "finish", [c.row EXCEPT !.status = "error"]), C)
    <2>1. [c.row EXCEPT !.status = "error"] \in Row
        BY <1>2, <1>3, Restatused
    <2>2. Sound("load", Writing(c, "finish", [c.row EXCEPT !.status = "error"]))
        BY <1>2, <2>1, Starts DEF Ops
    <2> QED
        BY <1>3, <2>2, Moves
<1>4. CASE Goes(p, "idle", Blank, C)
    BY <1>4, IdleBlank, Moves
<1> QED
    BY <1>3, <1>4 DEF Throw, c

\* recordSkipped and fire.
LEMMA SkipSound ==
    ASSUME HandInv, NEW p \in Callers, Skip(p)
    PROVE  HandInv'
<1> DEFINE row == [id |-> None, status |-> "skipped", made |-> FALSE]
<1>1. row \in Row
    BY DEF Row
<1>2. Goes(p, "load", Writing(Blank, "skip", row), ctx)
    BY DEF Skip
<1> HIDE DEF row
<1>3. Sound("load", Writing(Blank, "skip", row))
    BY <1>1, BlankTyped, Starts DEF Ops
<1> QED
    BY <1>2, <1>3, HandsNow, Moves

LEMMA FireSound ==
    ASSUME HandInv, NEW p \in Callers, Fire(p)
    PROVE  HandInv'
<1>1. CASE Goes(p, "idle", Blank, ctx)
    BY <1>1, IdleBlank, HandsNow, Moves
<1>2. ASSUME NEW r \in Fresh, Goes(p, "load", Writing(Blank, "begin", NewRow(r)), ctx)
      PROVE  HandInv'
    <2>1. NewRow(r) \in Row
        BY DEF NewRow, Fresh, Row
    <2>2. Sound("load", Writing(Blank, "begin", NewRow(r)))
        BY <2>1, BlankTyped, Starts DEF Ops
    <2> QED
        BY <1>2, <2>2, HandsNow, Moves
<1> QED
    BY <1>1, <1>2 DEF Fire, Begins

\* The scan.
LEMMA GoesOnSound ==
    ASSUME TypeInv, NEW c, Typed(c), IsFile(c.sched), GoesOn(c)
    PROVE  HandInv'
<1>1. Timer \in Callers /\ HandInv /\ now \in 0..MaxTime
    BY DEF Callers, TypeInv, RestInv
<1>2. CASE Goes(Timer, "idle", Blank, ctx)
    BY <1>1, <1>2, IdleBlank, HandsNow, Moves
<1>3. CASE IsDue(c.sched)
    <2> DEFINE w == Writing(c, "anchor", None)
               d == [w EXCEPT !.when = now, !.mark = c.sched.next]
    <2>1. Goes(Timer, "load", d, ctx)
        BY <1>3 DEF GoesOn
    <2>2. Typed(w) /\ w.op = "anchor" /\ w.sched = c.sched
        BY WritingTyped DEF Ops
    <2>3. c.sched.next \in Marks
        BY DEF IsFile
    <2> HIDE DEF w
    <2>4. Typed(d) /\ d.op = "anchor" /\ d.sched = c.sched
        BY <1>1, <2>2, <2>3 DEF Typed, Fields, FileOrNone
    <2> HIDE DEF d
    <2>5. Sound("load", d)
        BY <2>4 DEF Sound, Places
    <2> QED
        BY <1>1, <2>1, <2>5, HandsNow, Moves
<1> QED
    BY <1>2, <1>3 DEF GoesOn

\* A caller that has just read the file for a run or a scan.
LEMMA ReadSound ==
    ASSUME NEW place \in {"reconcile", "busy"}, IsFile(disk)
    PROVE  Sound(place, [Blank EXCEPT !.sched = disk])
<1> DEFINE b == [Blank EXCEPT !.sched = disk]
<1>1. Typed(b) /\ b.sched = disk /\ b.op = "none"
    BY BoundsAreNat DEF Blank, Typed, Fields, FileOrNone, Ops, Never, Marks
<1> HIDE DEF b
<1>2. Sound(place, b)
    BY <1>1 DEF Sound, Places
<1> QED
    BY <1>2 DEF b

LEMMA ReconcileSound ==
    ASSUME TypeInv, Reconcile
    PROVE  HandInv'
<1> DEFINE c == ctx[Timer]
           s == c.sched
           row == [s.runs[1] EXCEPT !.status = "error"]
           w == Writing(c, "patch", row)
           d == [w EXCEPT !.sched.runs[1] = row]
<1>1. Timer \in Callers /\ HandInv /\ at[Timer] = "reconcile"
    BY DEF Callers, TypeInv, Reconcile
<1>2. Sound("reconcile", c)
    BY <1>1 DEF HandInv
<1>3. Typed(c) /\ IsFile(s)
    BY <1>2 DEF Sound
<1>4. CASE GoesOn(c)
    BY <1>3, <1>4, GoesOnSound
<1>5. CASE Interrupted(s) /\ Goes(Timer, "load", d, ctx)
    <2>1. s.runs \in Seq(Row) /\ s.runs # <<>> /\ Len(s.runs) <= MaxHistory
        BY <1>3, <1>5 DEF IsFile, Interrupted
    <2>2. s.runs[1] \in Row /\ 1 \in 1..Len(s.runs)
        BY <2>1
    <2>3. row \in Row
        BY <2>2, Restatused
    <2>0. s = c.sched
        OBVIOUS
    <2> HIDE DEF row, s, c
    <2>4. Typed(w) /\ w.op = "patch" /\ w.row = row /\ w.sched = s
        BY <1>3, <2>3, <2>0, WritingTyped DEF Ops
    <2> DEFINE e == [s EXCEPT !.runs[1] = row]
    <2>5. IsFile(e)
        <3>1. [s.runs EXCEPT ![1] = row] \in Seq(Row) /\ Len([s.runs EXCEPT ![1] = row]) = Len(s.runs)
            BY <2>1, <2>2, <2>3, ExceptSeq
        <3> DEFINE rows == [s.runs EXCEPT ![1] = row]
        <3>2. e = [s EXCEPT !.runs = rows]
            OBVIOUS
        <3> HIDE DEF rows, e
        <3>3. rows \in Seq(Row) /\ Len(rows) <= MaxHistory
            BY <2>1, <3>1 DEF rows
        <3> QED
            BY <1>3, <3>2, <3>3 DEF IsFile
    <2> HIDE DEF w, e
    <2>6. d = [w EXCEPT !.sched = e]
        BY <2>4 DEF e
    <2> HIDE DEF d
    <2>7. Typed(d) /\ d.op = "patch" /\ d.row = row /\ d.sched = e
        BY <2>4, <2>5, <2>6 DEF Typed, Fields, FileOrNone
    <2>8. Sound("load", d)
        BY <2>3, <2>5, <2>7 DEF Sound, Places
    <2> QED
        BY <1>1, <1>5, <2>8, HandsNow, Moves
<1> QED
    BY <1>4, <1>5 DEF Reconcile

LEMMA ScanSound ==
    ASSUME TypeInv, Tick \/ Scan
    PROVE  HandInv'
<1>1. Timer \in Callers /\ HandInv /\ Hands(ctx) /\ FileOrNone(disk)
    BY HandsNow DEF Callers, TypeInv, RestInv
<1>2. CASE Tick
    <2>1. Goes(Timer, "list", Blank, ctx) /\ Sound("list", Blank)
        BY <1>2, BlankTyped DEF Tick, Sound, Places, Blank
    <2> QED
        BY <1>1, <2>1, Moves
<1>3. CASE List
    BY <1>1, <1>3, ReadSound, IdleBlank, Moves DEF List, FileOrNone
<1>4. CASE Reconcile
    BY <1>4, ReconcileSound
<1>5. CASE Due
    <2>1. Sound("due", ctx[Timer])
        BY <1>1, <1>5 DEF Due, HandInv
    <2> QED
        BY <1>5, <2>1, GoesOnSound DEF Due, Sound
<1>6. CASE Current
    <2> DEFINE c == ctx[Timer]
               s == IF disk = None THEN c.sched ELSE disk
               d == [c EXCEPT !.sched = s]
    <2>1. Sound("current", c) /\ Goes(Timer, "busy", d, ctx)
        BY <1>1, <1>6 DEF Current, HandInv
    <2>2. Typed(c) /\ IsFile(s)
        BY <1>1, <2>1 DEF Sound, FileOrNone
    <2> HIDE DEF c, s
    <2>3. Typed(d) /\ d.op = c.op /\ d.row = c.row /\ d.sched = s
        BY <2>2 DEF Typed, Fields, FileOrNone
    <2> HIDE DEF d
    <2>4. Sound("busy", d)
        BY <2>1, <2>2, <2>3 DEF Sound, Places
    <2> QED
        BY <1>1, <2>1, <2>4, Moves
<1> QED
    BY <1>2, <1>3, <1>4, <1>5, <1>6 DEF Scan

\* Reads and writes of the file.
LEMMA LoadSound ==
    ASSUME TypeInv, NEW p \in Callers, Load(p)
    PROVE  HandInv'
<1> DEFINE c == ctx[p]
<1>1. HandInv /\ Hands(ctx) /\ at[p] = "load" /\ Sound("load", c) /\ FileOrNone(disk) /\ now \in 0..MaxTime
    BY HandsNow DEF TypeInv, RestInv, HandInv, Load
<1>2. CASE Continue(p, ctx)
    BY <1>1, <1>2, ContinueSound
<1>3. ASSUME ~NothingToWrite(c.op), NEW t \in {now, c.when},
             Goes(p, "save", [c EXCEPT !.snap = disk, !.stale = FALSE, !.when = t], ctx)
      PROVE  HandInv'
    <2> DEFINE d == [c EXCEPT !.snap = disk, !.stale = FALSE, !.when = t]
    <2>1. c.op \notin {"keep", "retime"} => IsFile(disk)
        BY <1>1, <1>3 DEF NothingToWrite, FileOrNone
    <2>2. Typed(c) /\ c.op \in Ops
        BY <1>1 DEF Sound, Typed
    <2> HIDE DEF c
    <2>3. /\ Typed(d) /\ d.op = c.op /\ d.row = c.row /\ d.sched = c.sched /\ d.snap = disk
        BY <1>1, <1>3, <2>2 DEF Typed, Fields, FileOrNone
    <2> HIDE DEF d
    <2>4. Sound("save", d)
        BY <1>1, <2>1, <2>3 DEF Sound, Places
    <2> QED
        BY <1>1, <1>3, <2>4, Moves DEF d
<1> QED
    BY <1>2, <1>3 DEF Load

LEMMA SaveSound ==
    ASSUME TypeInv, NEW p \in Callers, Save(p)
    PROVE  HandInv' /\ IsFile(disk')
<1>1. HandInv /\ Hands(Outdated(ctx)) /\ at[p] = "save" /\ Sound("save", ctx[p])
    BY HandsOutdated DEF TypeInv, HandInv, Save
<1> QED
    BY <1>1, ContinueSound, MutatedFile DEF Save

LEMMA CollisionSound ==
    ASSUME TypeInv, NEW p \in Callers, Clash(p) \/ Overtaken(p)
    PROVE  HandInv' /\ FileOrNone(disk')
<1>1. HandInv /\ Hands(Outdated(ctx)) /\ FileOrNone(disk)
    BY HandsOutdated DEF TypeInv, RestInv
<1>2. \A q \in Callers : at[q] = "save" => FileOrNone(Mutated(ctx[q]))
    BY <1>1, MutatedFile DEF HandInv, FileOrNone
<1>3. ASSUME NEW q \in Callers, at[q] = "save", at[p] = "save",
             disk' = Mutated(ctx[p]) \/ disk' = Mutated(ctx[q]) \/ disk' = None,
             Continue(p, Taken(Outdated(ctx), q))
      PROVE  HandInv' /\ FileOrNone(disk')
    <2>1. Hands(Taken(Outdated(ctx), q))
        BY <1>1, HandsTaken
    <2>2. HandInv'
        BY <1>1, <1>3, <2>1, ContinueSound
    <2>3. FileOrNone(disk')
        BY <1>2, <1>3 DEF FileOrNone
    <2> QED
        BY <2>2, <2>3
<1>4. CASE Overtaken(p)
    <2>1. at[p] = "save" /\ Throw(p, Outdated(ctx))
          /\ (disk' = disk \/ disk' = Mutated(ctx[p]) \/ disk' = None)
        BY <1>4 DEF Overtaken
    <2>2. HandInv'
        BY <1>1, <2>1, ThrowSound
    <2>3. FileOrNone(disk')
        BY <1>1, <1>2, <2>1 DEF FileOrNone
    <2> QED
        BY <2>2, <2>3
<1> QED
    BY <1>3, <1>4 DEF Clash

LEMMA FileFailsSound ==
    ASSUME TypeInv, NEW p \in Callers, FileFails(p)
    PROVE  HandInv' /\ FileOrNone(disk')
<1>1. HandInv /\ Hands(ctx) /\ Hands(Outdated(ctx)) /\ Sound(at[p], ctx[p]) /\ FileOrNone(disk)
    BY HandsNow, HandsOutdated DEF TypeInv, RestInv, HandInv
<1>2. CASE Throw(p, ctx) /\ UNCHANGED disk
    BY <1>1, <1>2, ThrowSound
<1>3. CASE at[p] = "save" /\ disk' = Mutated(ctx[p]) /\ Throw(p, Outdated(ctx))
    BY <1>1, <1>3, ThrowSound, MutatedFile DEF FileOrNone
<1> QED
    BY <1>2, <1>3 DEF FileFails

LEMMA BusySound ==
    ASSUME TypeInv, NEW p \in Callers, Busy(p) \/ Asking(p)
    PROVE  HandInv'
<1>1. HandInv /\ Hands(ctx) /\ Sound(at[p], ctx[p])
    BY HandsNow DEF TypeInv, HandInv
<1>2. CASE Skip(p)
    BY <1>1, <1>2, SkipSound
<1>3. CASE Fire(p)
    BY <1>1, <1>3, FireSound
<1>4. CASE at[p] = "busy" /\ Goes(p, "asking", ctx[p], ctx)
    <2>1. Sound("asking", ctx[p])
        BY <1>1, <1>4 DEF Sound, Places
    <2> QED
        BY <1>1, <1>4, <2>1, Moves
<1> QED
    BY <1>2, <1>3, <1>4 DEF Busy, Asking

\* The user's requests.
LEMMA RequestSound ==
    ASSUME TypeInv, NEW p \in Callers,
           \/ RunNow(p) \/ Ask(p)
           \/ \E op \in {"enable", "disable", "keep", "retime"} : Edit(p, op)
    PROVE  HandInv'
<1>1. HandInv /\ Hands(ctx) /\ FileOrNone(disk)
    BY HandsNow DEF TypeInv, RestInv
<1>2. CASE RunNow(p)
    <2>1. Goes(p, "ask", Blank, ctx) /\ Sound("ask", Blank)
        BY <1>2, BlankTyped DEF RunNow, Sound, Places, Blank
    <2> QED
        BY <1>1, <2>1, Moves
<1>3. CASE Ask(p)
    BY <1>1, <1>3, ReadSound, IdleBlank, Moves DEF Ask, FileOrNone
<1>4. ASSUME NEW op \in {"enable", "disable", "keep", "retime"}, Edit(p, op)
      PROVE  HandInv'
    <2> DEFINE d == [Blank EXCEPT !.op = op]
    <2>1. Typed(d) /\ d.op = op
        BY BoundsAreNat DEF Blank, Typed, Fields, FileOrNone, Ops, Never, Marks
    <2>2. Goes(p, "load", d, ctx)
        BY <1>4 DEF Edit
    <2> HIDE DEF d
    <2>3. Sound("load", d)
        BY <2>1 DEF Sound, Places
    <2> QED
        BY <1>1, <2>2, <2>3, Moves
<1> QED
    BY <1>2, <1>3, <1>4

\* The detached work.
LEMMA EndsSound ==
    ASSUME TypeInv, NEW r \in Callers, ctx[r].row \in Row, NEW status \in {"ok", "error"}, Ends(r, status)
    PROVE  HandInv'
<1> DEFINE row == [ctx[r].row EXCEPT !.status = status]
<1>1. HandInv /\ Hands(ctx) /\ Typed(ctx[r])
    BY HandsNow DEF TypeInv, HandInv, Sound
<1>2. row \in Row
    BY Restatused
<1>3. Goes(r, "load", Writing(ctx[r], "finish", row), ctx)
    BY DEF Ends
<1> HIDE DEF row
<1>4. Sound("load", Writing(ctx[r], "finish", row))
    BY <1>1, <1>2, Starts DEF Ops
<1> QED
    BY <1>1, <1>3, <1>4, Moves

LEMMA WorkSound ==
    ASSUME TypeInv, NEW r \in Runs, Work(r)
    PROVE  HandInv'
<1> DEFINE c == ctx[r]
<1>1. r \in Callers /\ HandInv /\ Hands(ctx)
    BY HandsNow DEF Callers, TypeInv
<1>2. Sound(at[r], c)
    BY <1>1 DEF HandInv
<1>3. c.row \in Row /\ Typed(c) /\ (Goes(r, "turning", c, ctx) => HandInv')
    <2>1. at[r] \in {"creating", "turn", "turning"}
        BY DEF Work, Create, StartTurn, EndTurn
    <2>2. c.row \in Row /\ Sound("turning", c)
        BY <1>2, <2>1 DEF Sound, Places
    <2> QED
        BY <1>1, <2>2, Moves DEF Sound
<1>4. ASSUME NEW status \in {"ok", "error"}, Ends(r, status)
      PROVE  HandInv'
    BY <1>1, <1>3, <1>4, EndsSound
<1>5. Goes(r, "load", Writing(c, "link", [c.row EXCEPT !.made = TRUE]), ctx) => HandInv'
    <2>1. [c.row EXCEPT !.made = TRUE] \in Row
        BY <1>3, Restatused
    <2>2. Sound("load", Writing(c, "link", [c.row EXCEPT !.made = TRUE]))
        BY <1>3, <2>1, Starts DEF Ops
    <2> QED
        BY <1>1, <2>2, Moves
<1>6. CASE Create(r)
    BY <1>3, <1>4, <1>5, <1>6 DEF Create
<1>7. CASE StartTurn(r)
    BY <1>3, <1>7 DEF StartTurn
<1>8. CASE EndTurn(r)
    BY <1>4, <1>8 DEF EndTurn
<1> QED
    BY <1>6, <1>7, <1>8 DEF Work

\* A step that moves nobody; one that stops everybody.
LEMMA NobodyMoves ==
    ASSUME TypeInv, UNCHANGED <<at, ctx>> \/ (UNCHANGED at /\ ctx' = Outdated(ctx))
    PROVE  HandInv'
<1>1. HandInv /\ Hands(ctx) /\ Hands(Outdated(ctx))
    BY HandsNow, HandsOutdated DEF TypeInv
<1> QED
    BY <1>1 DEF Hands, HandInv

LEMMA CrashSound ==
    ASSUME at' = [p \in Callers |-> "idle"], ctx' = [p \in Callers |-> Blank]
    PROVE  HandInv'
BY IdleBlank DEF HandInv, Places

-----------------------------------------------------------------------------
\* What else changes.

LEMMA RestKept ==
    ASSUME TypeInv, Next
    PROVE  RestInv'
<1>1. RestInv /\ BoundsAreNat
    BY BoundsAreNat DEF TypeInv
<1>2. ASSUME NEW p \in Callers, Proceeds(p)
      PROVE  RestInv'
    <2>1. CASE Load(p)
        <3>1. firing' \in BOOLEAN
            BY <1>1, <2>1 DEF Load, Continue, RestInv
        <3> QED
            BY <1>1, <2>1, <3>1 DEF Load, RestInv, bounds
    <2>2. CASE Save(p)
        <3>1. firing' \in BOOLEAN /\ IsFile(disk')
            BY <1>1, <2>2, SaveSound DEF Save, Continue, RestInv
        <3>2. collided' \in BOOLEAN
            BY <1>1, <2>2 DEF Save, RestInv
        <3> QED
            BY <1>1, <2>2, <3>1, <3>2 DEF Save, RestInv, bounds, FileOrNone
    <2>3. CASE Busy(p) \/ Asking(p)
        <3>1. Skip(p) \/ Fire(p) \/ UNCHANGED <<answered, firing>>
            BY <2>3 DEF Busy, Asking
        <3>2. ctx[Timer].mark \in Marks
            BY DEF TypeInv, HandInv, Sound, Typed, Callers
        <3>3. answered' \subseteq Marks /\ firing' \in BOOLEAN
            BY <1>1, <3>1, <3>2 DEF Skip, Fire, Answers, RestInv
        <3>4. UNCHANGED <<kind, disk, now, live, collided, bounds>>
            BY <2>3 DEF Busy, Asking, still
        <3> QED
            BY <1>1, <3>3, <3>4 DEF RestInv, bounds
    <2>4. CASE Overtaken(p)
        <3>1. FileOrNone(disk') /\ firing' \in BOOLEAN
            BY <1>1, <2>4, CollisionSound DEF Overtaken, Throw, RestInv
        <3> QED
            BY <1>1, <2>4, <3>1 DEF Overtaken, RestInv, bounds
    <2> QED
        BY <1>2, <2>1, <2>2, <2>3, <2>4 DEF Proceeds
<1>11. ASSUME NEW p \in Callers, Clash(p)
       PROVE  RestInv'
    <2>1. FileOrNone(disk')
        BY <1>11, CollisionSound
    <2>2. /\ faults < MaxFaults /\ faults' = faults + 1 /\ collided' = TRUE
          /\ UNCHANGED <<kind, now, live, answered, requests, crashes>>
        BY <1>11 DEF Clash
    <2>3. firing' \in BOOLEAN
        BY <1>1, <1>11 DEF Clash, Continue, RestInv
    <2>4. faults' \in 0..MaxFaults
        BY <1>1, <2>2 DEF RestInv
    <2> QED
        BY <1>1, <2>1, <2>2, <2>3, <2>4 DEF RestInv
<1>3. ASSUME NEW p \in Callers, FileFails(p)
      PROVE  RestInv'
    <2>1. FileOrNone(disk')
        BY <1>3, FileFailsSound
    <2>2. firing' \in BOOLEAN
        BY <1>1, <1>3 DEF FileFails, Throw, RestInv
    <2>3. collided' \in BOOLEAN
        BY <1>1, <1>3 DEF FileFails, RestInv
    <2> QED
        BY <1>1, <1>3, <2>1, <2>2, <2>3 DEF FileFails, RestInv
<1>4. CASE Tick \/ Scan
    BY <1>1, <1>4 DEF Tick, Scan, List, Reconcile, Due, Current, RestInv, still, bounds
<1>5. CASE Clock
    BY <1>1, <1>5 DEF Clock, RestInv, bounds
<1>6. CASE Crash
    <2>1. live' \subseteq live
        BY <1>6 DEF Crash
    <2>2. crashes < MaxCrashes /\ crashes' = crashes + 1 /\ firing' = FALSE
        BY <1>6 DEF Crash
    <2>4. crashes' \in 0..MaxCrashes
        BY <1>1, <2>2 DEF RestInv
    <2>3. UNCHANGED <<kind, disk, now, answered, collided, requests, faults>>
        BY <1>6 DEF Crash
    <2> QED
        BY <1>1, <2>1, <2>2, <2>3, <2>4 DEF RestInv
<1>7. CASE Delete
    BY <1>1, <1>7 DEF Delete, RestInv, FileOrNone
<1>8. ASSUME NEW m \in Manual, RunNow(m) \/ Ask(m)
      PROVE  RestInv'
    BY <1>1, <1>8 DEF RunNow, Ask, RestInv, still, bounds
<1>9. ASSUME NEW r \in Runs, Work(r) \/ OutlivesWork(r) \/ UserTurn(r)
      PROVE  RestInv'
    BY <1>1, <1>9 DEF Work, Create, StartTurn, EndTurn, OutlivesWork, UserTurn, RestInv, bounds
<1>10. ASSUME NEW e \in Editors, NEW op \in {"enable", "disable", "keep", "retime"}, Edit(e, op)
       PROVE  RestInv'
    BY <1>1, <1>10 DEF Edit, RestInv
<1> QED
    BY <1>2, <1>3, <1>4, <1>5, <1>6, <1>7, <1>8, <1>9, <1>10, <1>11 DEF Next

LEMMA HandsKept ==
    ASSUME TypeInv, Next
    PROVE  HandInv'
<1>1. ASSUME NEW p \in Callers, Proceeds(p) \/ Clash(p) \/ FileFails(p)
      PROVE  HandInv'
    BY <1>1, LoadSound, SaveSound, BusySound, CollisionSound, FileFailsSound DEF Proceeds
<1>2. CASE Tick \/ Scan
    BY <1>2, ScanSound
<1>3. CASE Clock
    BY <1>3, NobodyMoves DEF Clock
<1>4. CASE Crash
    BY <1>4, CrashSound DEF Crash
<1>5. CASE Delete
    BY <1>5, NobodyMoves DEF Delete
<1>6. ASSUME NEW m \in Manual, RunNow(m) \/ Ask(m)
      PROVE  HandInv'
    BY <1>6, RequestSound DEF Callers
<1>7. ASSUME NEW r \in Runs, Work(r)
      PROVE  HandInv'
    BY <1>7, WorkSound
<1>8. ASSUME NEW r \in Runs, OutlivesWork(r) \/ UserTurn(r)
      PROVE  HandInv'
    BY <1>8, NobodyMoves DEF OutlivesWork, UserTurn
<1>9. ASSUME NEW e \in Editors, NEW op \in {"enable", "disable", "keep", "retime"}, Edit(e, op)
      PROVE  HandInv'
    BY <1>9, RequestSound DEF Callers
<1> QED
    BY <1>1, <1>2, <1>3, <1>4, <1>5, <1>6, <1>7, <1>8, <1>9 DEF Next

-----------------------------------------------------------------------------

LEMMA TypeStart == Init => TypeInv
<1> SUFFICES ASSUME Init
             PROVE  TypeInv
    OBVIOUS
<1>1. <<>> \in Seq(Row) /\ Len(<<>>) = 0
    OBVIOUS
<1>2. IsFile(disk)
    BY <1>1, HistoryIsKept, BoundsAreNat DEF Init, IsFile, Marks
<1>3. HandInv
    BY IdleBlank DEF Init, HandInv, Places
<1>4. RestInv
    <2>1. now = 0 /\ requests = 0 /\ faults = 0 /\ crashes = 0
        BY DEF Init
    <2>2. now \in 0..MaxTime /\ requests \in 0..MaxRequests /\ faults \in 0..MaxFaults /\ crashes \in 0..MaxCrashes
        BY <2>1, BoundsAreNat
    <2>3. kind \in Kinds /\ firing \in BOOLEAN /\ collided \in BOOLEAN /\ live = {} /\ answered = {}
        BY DEF Init
    <2> QED
        BY <1>2, <2>2, <2>3 DEF RestInv, FileOrNone
<1> QED
    BY <1>3, <1>4 DEF TypeInv

LEMMA TypeKept == TypeInv /\ [Next]_vars => TypeInv'
<1>1. ASSUME TypeInv, UNCHANGED vars
      PROVE  TypeInv'
    BY <1>1 DEF TypeInv, HandInv, RestInv, vars
<1> QED
    BY <1>1, HandsKept, RestKept DEF TypeInv

LEMMA TypesFollow == TypeInv => TypeOK
BY DEF TypeInv, HandInv, RestInv, Sound, Typed, FileOrNone, TypeOK

\* The file of a schedule is a schedule with a history within its limit after
\* every write, whoever writes it and from whatever it has read (withFreshSchedule,
\* pushRun, updateRun), and so is all that the scan, a run and an edit hold.
THEOREM ScheduleTypeCorrect == Spec => []TypeOK
<1>1. TypeInv /\ [Next]_vars => TypeInv'
    BY TypeKept
<1>2. Spec => []TypeInv
    BY TypeStart, <1>1, PTL DEF Spec
<1> QED
    BY <1>2, TypesFollow, PTL

-----------------------------------------------------------------------------
\* The flag.

\* What each caller holds, as far as the flag goes: a run links its task or
\* session and finishes, nobody else does; who begins has a row for a run; only
\* tasks are asked for.
ShapeInv ==
    /\ at \in [Callers -> Places]
    /\ ctx = [p \in Callers |-> ctx[p]] /\ \A p \in Callers : DOMAIN ctx[p] = Fields
    /\ \A r \in Runs :
         /\ at[r] \notin {"busy", "asking"} /\ ctx[r].op # "begin"
         /\ at[r] \in {"load", "save"} => ctx[r].op \in {"link", "finish"}
    /\ \A p \in Callers \ Runs : ctx[p].op \notin {"link", "finish"}
    /\ \A p \in Callers : ctx[p].op = "begin" => ctx[p].row.id \in Runs
    /\ \A p \in Callers : at[p] = "asking" => kind = "task"

\* Who has set the flag or has taken it over.
Holders == {p \in Callers : ctx[p].op = "begin"} \cup Working

\* One of them at most, and the flag is set for it.
FlagInv ==
    kind # "task" => (\A p, q \in Holders : p = q) /\ (Holders # {} => firing)

FireInv == ShapeInv /\ FlagInv

-----------------------------------------------------------------------------

\* The fields that a start of a write and the list of stale readers leave.
LEMMA WritingFields ==
    ASSUME NEW c, DOMAIN c = Fields, NEW op, NEW row
    PROVE  /\ DOMAIN Writing(c, op, row) = Fields
           /\ Writing(c, op, row).op = op /\ Writing(c, op, row).row = row
BY DEF Writing, Fields

LEMMA BlankFields == DOMAIN Blank = Fields /\ Blank.op = "none"
BY DEF Blank, Fields

\* C says of every caller what ctx says.
Agrees(C) ==
    /\ C = [p \in Callers |-> C[p]]
    /\ \A p \in Callers : DOMAIN C[p] = Fields /\ C[p].op = ctx[p].op /\ C[p].row = ctx[p].row

LEMMA OutdatedAgrees ==
    ASSUME ShapeInv
    PROVE  Agrees(Outdated(ctx)) /\ Agrees(ctx)
<1>1. ASSUME NEW p \in Callers
      PROVE  /\ DOMAIN Outdated(ctx)[p] = Fields
             /\ Outdated(ctx)[p].op = ctx[p].op /\ Outdated(ctx)[p].row = ctx[p].row
    <2>1. DOMAIN ctx[p] = Fields
        BY DEF ShapeInv
    <2> QED
        BY <2>1 DEF Outdated, Fields
<1>2. Outdated(ctx) = [p \in Callers |-> Outdated(ctx)[p]]
    BY DEF Outdated
<1> QED
    BY <1>1, <1>2 DEF Agrees, ShapeInv

LEMMA TakenAgrees ==
    ASSUME NEW C, Agrees(C), NEW q
    PROVE  Agrees(Taken(C, q))
<1>1. ASSUME NEW p \in Callers
      PROVE  /\ DOMAIN Taken(C, q)[p] = Fields
             /\ Taken(C, q)[p].op = ctx[p].op /\ Taken(C, q)[p].row = ctx[p].row
    <2>1. DOMAIN C[p] = Fields /\ C[p].op = ctx[p].op /\ C[p].row = ctx[p].row
        BY DEF Agrees
    <2> QED
        BY <2>1 DEF Taken, Fields
<1>2. Taken(C, q) = [p \in Callers |-> Taken(C, q)[p]]
    BY DEF Taken
<1> QED
    BY <1>1, <1>2 DEF Agrees

\* A caller goes elsewhere with something else in its hands.
LEMMA GoesFields ==
    ASSUME NEW p \in Callers, NEW place, NEW c, NEW C, Goes(p, place, c, C),
           at \in [Callers -> Places], Agrees(C)
    PROVE  /\ at'[p] = place /\ \A q \in Callers \ {p} : at'[q] = at[q]
           /\ ctx' = [q \in Callers |-> ctx'[q]] /\ ctx'[p] = c
           /\ \A q \in Callers \ {p} :
                DOMAIN ctx'[q] = Fields /\ ctx'[q].op = ctx[q].op /\ ctx'[q].row = ctx[q].row
BY DEF Goes, Agrees

\* A place and a state that ShapeInv allows a caller.
Fits(p, place, c) ==
    /\ place \in Places /\ DOMAIN c = Fields
    /\ p \in Runs =>
         /\ place \notin {"busy", "asking"} /\ c.op # "begin"
         /\ place \in {"load", "save"} => c.op \in {"link", "finish"}
    /\ p \notin Runs => c.op \notin {"link", "finish"}
    /\ c.op = "begin" => c.row.id \in Runs
    /\ place = "asking" => kind = "task"

\* A move of one caller changes what the flag is about at that caller only.
LEMMA FlagMoves ==
    ASSUME ShapeInv, NEW p \in Callers, NEW place, NEW c, NEW C, Agrees(C), Goes(p, place, c, C),
           Fits(p, place, c), kind' = kind
    PROVE  /\ ShapeInv'
           /\ Holders' \subseteq Holders \cup {p}
           /\ p \in Holders' => c.op = "begin" \/ (p \in Runs /\ place # "idle")
<1>1. at \in [Callers -> Places]
    BY DEF ShapeInv
<1>2. /\ at'[p] = place /\ \A q \in Callers \ {p} : at'[q] = at[q]
      /\ ctx' = [q \in Callers |-> ctx'[q]] /\ ctx'[p] = c
      /\ \A q \in Callers \ {p} :
           DOMAIN ctx'[q] = Fields /\ ctx'[q].op = ctx[q].op /\ ctx'[q].row = ctx[q].row
    BY <1>1, GoesFields
<1>3. at' \in [Callers -> Places]
    BY <1>1 DEF Goes, Fits
<1>4. \A q \in Callers : DOMAIN ctx'[q] = Fields
    BY <1>2 DEF Fits
<1>5. \A r \in Runs :
        /\ at'[r] \notin {"busy", "asking"} /\ ctx'[r].op # "begin"
        /\ at'[r] \in {"load", "save"} => ctx'[r].op \in {"link", "finish"}
    BY <1>2 DEF ShapeInv, Fits, Callers
<1>6. \A q \in Callers \ Runs : ctx'[q].op \notin {"link", "finish"}
    BY <1>2 DEF ShapeInv, Fits
<1>7. \A q \in Callers : ctx'[q].op = "begin" => ctx'[q].row.id \in Runs
    BY <1>2 DEF ShapeInv, Fits
<1>8. \A q \in Callers : at'[q] = "asking" => kind' = "task"
    BY <1>2 DEF ShapeInv, Fits
<1>9. ShapeInv'
    BY <1>2, <1>3, <1>4, <1>5, <1>6, <1>7, <1>8 DEF ShapeInv
<1>10. Holders' \subseteq Holders \cup {p}
    BY <1>2 DEF Holders, Working, Callers
<1>11. p \in Holders' => c.op = "begin" \/ (p \in Runs /\ place # "idle")
    BY <1>2 DEF Holders, Working
<1> QED
    BY <1>9, <1>10, <1>11

LEMMA FlagKept ==
    ASSUME FlagInv, kind' = kind, Holders' \subseteq Holders, Holders' # {} => (firing => firing')
    PROVE  FlagInv'
BY DEF FlagInv

LEMMA FlagGivenUp ==
    ASSUME FlagInv, kind' = kind, NEW p \in Holders, Holders' \subseteq Holders \ {p}
    PROVE  FlagInv'
BY DEF FlagInv

\* A caller who holds the flag neither before nor after the move, or both.
LEMMA PlainMove ==
    ASSUME FireInv, NEW p \in Callers, NEW place, NEW c, NEW C, Agrees(C), Goes(p, place, c, C),
           Fits(p, place, c), kind' = kind, firing => firing',
           c.op = "begin" \/ (p \in Runs /\ place # "idle") => p \in Holders
    PROVE  FireInv'
<1>1. ShapeInv /\ FlagInv
    BY DEF FireInv
<1>2. ShapeInv' /\ Holders' \subseteq Holders
    BY <1>1, FlagMoves
<1>3. FlagInv'
    BY <1>1, <1>2, FlagKept
<1> QED
    BY <1>2, <1>3 DEF FireInv

\* The end of a write.
LEMMA ContinueKeeps ==
    ASSUME FireInv, NEW p \in Callers, at[p] \in {"load", "save"}, NEW C, Agrees(C),
           Continue(p, C), kind' = kind
    PROVE  FireInv'
<1> DEFINE c == [C[p] EXCEPT !.snap = None, !.stale = FALSE, !.taken = FALSE, !.when = 0]
<1>1. ShapeInv /\ FlagInv
    BY DEF FireInv
<1>2. DOMAIN c = Fields /\ c.op = ctx[p].op /\ c.row = ctx[p].row
    BY DEF Agrees, Fields
<1>3. p \in Runs => c.op \in {"link", "finish"} /\ p \in Holders
    BY <1>1, <1>2 DEF ShapeInv, Holders, Working
<1>4. p \notin Runs => c.op \notin {"link", "finish"}
    BY <1>1, <1>2 DEF ShapeInv
<1>5. firing' = (firing /\ c.op # "finish")
    BY DEF Continue
<1>13. firing /\ c.op # "finish" => firing'
    BY <1>5
<1> HIDE DEF c
<1>6. CASE c.op = "patch" /\ Goes(p, "load", Writing(c, "status", None), C)
    <2>1. Fits(p, "load", Writing(c, "status", None)) /\ Writing(c, "status", None).op = "status"
        BY <1>2, <1>3, <1>6, WritingFields DEF Fits, Places
    <2> QED
        BY <1>3, <1>13, <1>6, <2>1, PlainMove
<1>7. CASE c.op = "status" /\ Goes(p, "due", c, C)
    <2>1. Fits(p, "due", c)
        BY <1>2, <1>3, <1>7 DEF Fits, Places
    <2> QED
        BY <1>3, <1>13, <1>7, <2>1, PlainMove
<1>8. CASE c.op = "anchor" /\ Goes(p, "current", c, C)
    <2>1. Fits(p, "current", c)
        BY <1>2, <1>3, <1>8 DEF Fits, Places
    <2> QED
        BY <1>3, <1>13, <1>8, <2>1, PlainMove
<1>9. CASE c.op = "link" /\ Goes(p, "turn", c, C)
    <2>1. p \in Runs /\ Fits(p, "turn", c)
        BY <1>2, <1>4, <1>9 DEF Fits, Places
    <2> QED
        BY <1>3, <1>13, <1>9, <2>1, PlainMove
<1>10. ASSUME c.op = "link", NEW row, Goes(p, "load", Writing(c, "finish", row), C)
       PROVE  FireInv'
    <2>1. p \in Runs /\ Fits(p, "load", Writing(c, "finish", row))
        BY <1>2, <1>4, <1>10, WritingFields DEF Fits, Places
    <2> QED
        BY <1>3, <1>13, <1>10, <2>1, PlainMove
<1>11. CASE /\ c.op = "begin"
            /\ at' = [at EXCEPT ![p] = "idle", ![c.row.id] = "creating"]
            /\ ctx' = [C EXCEPT ![p] = Blank, ![c.row.id] = [Blank EXCEPT !.row = c.row]]
    <2> DEFINE r == c.row.id
    <2>1. r \in Runs /\ p \notin Runs /\ p \in Holders /\ r \in Callers /\ r # p
        BY <1>1, <1>2, <1>3, <1>11 DEF ShapeInv, Holders, Callers
    <2> DEFINE b == [Blank EXCEPT !.row = c.row]
    <2>2. DOMAIN b = Fields /\ b.op = "none"
        BY BlankFields DEF Fields
    <2> HIDE DEF b, r
    <2>3. at' = [at EXCEPT ![p] = "idle", ![r] = "creating"] /\ ctx' = [C EXCEPT ![p] = Blank, ![r] = b]
        BY <1>11 DEF b, r
    <2>4. at \in [Callers -> Places]
        BY <1>1 DEF ShapeInv
    <2>5. /\ at' \in [Callers -> Places] /\ at'[p] = "idle" /\ at'[r] = "creating"
          /\ \A q \in Callers \ {p, r} : at'[q] = at[q]
        BY <2>1, <2>3, <2>4 DEF Places
    <2>6. /\ ctx' = [q \in Callers |-> ctx'[q]] /\ ctx'[p] = Blank /\ ctx'[r] = b
          /\ \A q \in Callers \ {p, r} :
               DOMAIN ctx'[q] = Fields /\ ctx'[q].op = ctx[q].op /\ ctx'[q].row = ctx[q].row
        BY <2>1, <2>3 DEF Agrees
    <2>7. ShapeInv'
        <3>1. \A q \in Callers : DOMAIN ctx'[q] = Fields
            BY <2>2, <2>6, BlankFields
        <3>2. \A q \in Callers : ctx'[q].op \in {"none", ctx[q].op}
            BY <2>2, <2>6, BlankFields
        <3>3. \A q \in Runs :
                /\ at'[q] \notin {"busy", "asking"} /\ ctx'[q].op # "begin"
                /\ at'[q] \in {"load", "save"} => ctx'[q].op \in {"link", "finish"}
            BY <1>1, <2>1, <2>2, <2>5, <2>6 DEF ShapeInv, Callers
        <3>4. \A q \in Callers \ Runs : ctx'[q].op \notin {"link", "finish"}
            BY <1>1, <3>2 DEF ShapeInv
        <3>5. \A q \in Callers : ctx'[q].op = "begin" => ctx'[q].row.id \in Runs
            BY <1>1, <2>2, <2>6, BlankFields DEF ShapeInv
        <3>6. \A q \in Callers : at'[q] = "asking" => kind' = "task"
            BY <1>1, <2>5 DEF ShapeInv
        <3> QED
            BY <2>5, <2>6, <3>1, <3>3, <3>4, <3>5, <3>6 DEF ShapeInv
    <2>8. Holders' \subseteq (Holders \ {p}) \cup {r}
        BY <2>1, <2>2, <2>5, <2>6, BlankFields DEF Holders, Working, Callers
    <2>9. FlagInv'
        BY <1>1, <1>13, <1>11, <2>1, <2>8 DEF FlagInv
    <2> QED
        BY <2>7, <2>9 DEF FireInv
<1>12. CASE /\ c.op \in {"skip", "finish", "enable", "disable", "keep", "retime"}
            /\ Goes(p, "idle", Blank, C)
    <2>1. Fits(p, "idle", Blank)
        BY BlankFields DEF Fits, Places
    <2>2. ShapeInv' /\ Holders' \subseteq Holders \ {p}
        BY <1>1, <1>12, <2>1, BlankFields, FlagMoves
    <2>3. CASE c.op = "finish"
        BY <1>1, <1>3, <1>4, <2>2, <2>3, FlagGivenUp DEF FireInv
    <2>4. CASE c.op # "finish"
        BY <1>1, <1>13, <2>2, <2>4, FlagKept DEF FireInv
    <2> QED
        BY <2>3, <2>4
<1> QED
    BY <1>6, <1>7, <1>8, <1>9, <1>10, <1>11, <1>12 DEF Continue, c

\* A file call throws.
LEMMA ThrowKeeps ==
    ASSUME FireInv, NEW p \in Callers, NEW C, Agrees(C), Throw(p, C), kind' = kind
    PROVE  FireInv'
<1> DEFINE c == C[p]
<1> DEFINE holding == at[p] \in {"load", "save"}
<1>1. ShapeInv /\ FlagInv
    BY DEF FireInv
<1>2. DOMAIN c = Fields /\ c.op = ctx[p].op
    BY DEF Agrees
<1>3. c.op \in {"begin", "finish"} /\ holding => p \in Holders
    BY <1>1, <1>2 DEF ShapeInv, Holders, Working
<1>4. firing /\ ~(c.op \in {"begin", "finish"} /\ holding) => firing'
    BY DEF Throw
<1> HIDE DEF c, holding
<1>5. ASSUME c.op = "link", holding, NEW row, Goes(p, "load", Writing(c, "finish", row), C)
      PROVE  FireInv'
    <2>1. p \in Runs /\ p \in Holders
        BY <1>1, <1>2, <1>5 DEF ShapeInv, Holders, Working, holding
    <2>2. Fits(p, "load", Writing(c, "finish", row))
        BY <1>2, <2>1, WritingFields DEF Fits, Places
    <2> QED
        BY <1>4, <1>5, <2>1, <2>2, PlainMove
<1>6. CASE Goes(p, "idle", Blank, C)
    <2>1. Fits(p, "idle", Blank)
        BY BlankFields DEF Fits, Places
    <2>2. ShapeInv' /\ Holders' \subseteq Holders \ {p}
        BY <1>1, <1>6, <2>1, BlankFields, FlagMoves
    <2>3. CASE p \in Holders
        BY <1>1, <2>2, <2>3, FlagGivenUp DEF FireInv
    <2>4. CASE p \notin Holders
        BY <1>1, <1>3, <1>4, <2>2, <2>4, FlagKept DEF FireInv
    <2> QED
        BY <2>3, <2>4
<1> QED
    BY <1>5, <1>6 DEF Throw, c, holding

\* The flag is set for a caller when it is free, or for a task.
LEMMA FireKeeps ==
    ASSUME FireInv, NEW p \in Callers, p \notin Runs, kind = "task" \/ ~firing, Fire(p), kind' = kind
    PROVE  FireInv'
<1>1. ShapeInv /\ FlagInv /\ Agrees(ctx)
    BY OutdatedAgrees DEF FireInv
<1>2. CASE Fresh = {}
    <2>1. Goes(p, "idle", Blank, ctx) /\ (firing => firing')
        BY <1>2 DEF Fire, Begins
    <2>2. Fits(p, "idle", Blank)
        BY BlankFields DEF Fits, Places
    <2> QED
        BY <1>1, <2>1, <2>2, BlankFields, PlainMove
<1>3. CASE Fresh # {}
    <2>1. PICK r \in Fresh : Goes(p, "load", Writing(Blank, "begin", NewRow(r)), ctx)
        BY <1>3 DEF Fire, Begins
    <2> DEFINE c == Writing(Blank, "begin", NewRow(r))
    <2>2. r \in Runs /\ NewRow(r).id = r
        BY DEF Fresh, NewRow
    <2>3. Fits(p, "load", c)
        BY <2>2, BlankFields, WritingFields DEF Fits, Places
    <2>4. ShapeInv' /\ Holders' \subseteq Holders \cup {p}
        BY <1>1, <2>1, <2>3, FlagMoves
    <2>5. firing'
        BY <1>3 DEF Fire
    <2>6. FlagInv'
        BY <1>1, <2>4, <2>5 DEF FlagInv
    <2> QED
        BY <2>4, <2>6 DEF FireInv
<1> QED
    BY <1>2, <1>3

LEMMA SkipKeeps ==
    ASSUME FireInv, NEW p \in Callers, p \notin Runs, Skip(p), kind' = kind
    PROVE  FireInv'
<1> DEFINE row == [id |-> None, status |-> "skipped", made |-> FALSE]
<1>1. Agrees(ctx) /\ Goes(p, "load", Writing(Blank, "skip", row), ctx) /\ (firing => firing')
    BY OutdatedAgrees DEF FireInv, Skip
<1>2. Fits(p, "load", Writing(Blank, "skip", row)) /\ Writing(Blank, "skip", row).op = "skip"
    BY BlankFields, WritingFields DEF Fits, Places
<1> QED
    BY <1>1, <1>2, PlainMove

\* A scan that goes on to the mark, or ends.
LEMMA GoesOnKeeps ==
    ASSUME FireInv, NEW c, DOMAIN c = Fields, GoesOn(c), kind' = kind, firing' = firing
    PROVE  FireInv'
<1>1. Agrees(ctx) /\ Timer \in Callers /\ Timer \notin Runs
    BY OutdatedAgrees, CallersApart DEF FireInv, Callers
<1>2. CASE Goes(Timer, "idle", Blank, ctx)
    <2>1. Fits(Timer, "idle", Blank)
        BY BlankFields DEF Fits, Places
    <2> QED
        BY <1>1, <1>2, <2>1, BlankFields, PlainMove
<1>3. CASE IsDue(c.sched)
    <2> DEFINE w == Writing(c, "anchor", None)
    <2> DEFINE d == [w EXCEPT !.when = now, !.mark = c.sched.next]
    <2>1. DOMAIN w = Fields /\ w.op = "anchor"
        BY WritingFields
    <2> HIDE DEF w
    <2>2. DOMAIN d = Fields /\ d.op = "anchor"
        BY <2>1 DEF Fields
    <2>3. Goes(Timer, "load", d, ctx)
        BY <1>3 DEF GoesOn, w
    <2> HIDE DEF d
    <2>4. Fits(Timer, "load", d)
        BY <1>1, <2>2 DEF Fits, Places
    <2> QED
        BY <1>1, <2>2, <2>3, <2>4, PlainMove
<1> QED
    BY <1>2, <1>3 DEF GoesOn
-----------------------------------------------------------------------------
\* Every step keeps the invariant.

LEMMA LoadKeeps ==
    ASSUME FireInv, NEW p \in Callers, Load(p)
    PROVE  FireInv'
<1>1. ShapeInv /\ Agrees(ctx) /\ kind' = kind /\ at[p] = "load"
    BY OutdatedAgrees DEF FireInv, Load
<1>2. CASE Continue(p, ctx)
    BY <1>1, <1>2, ContinueKeeps
<1>3. ASSUME NEW t, Goes(p, "save", [ctx[p] EXCEPT !.snap = disk, !.stale = FALSE, !.when = t], ctx),
             firing' = firing
      PROVE  FireInv'
    <2> DEFINE c == [ctx[p] EXCEPT !.snap = disk, !.stale = FALSE, !.when = t]
    <2>1. DOMAIN c = Fields /\ c.op = ctx[p].op /\ c.row = ctx[p].row
        BY <1>1 DEF ShapeInv, Fields
    <2> HIDE DEF c
    <2>2. Fits(p, "save", c)
        BY <1>1, <2>1 DEF Fits, ShapeInv, Places
    <2>3. c.op = "begin" \/ p \in Runs => p \in Holders
        BY <1>1, <2>1 DEF Holders, Working
    <2> QED
        BY <1>1, <1>3, <2>2, <2>3, PlainMove DEF c
<1> QED
    BY <1>2, <1>3 DEF Load

LEMMA SaveKeeps ==
    ASSUME FireInv, NEW p \in Callers, Save(p)
    PROVE  FireInv'
BY OutdatedAgrees, ContinueKeeps DEF Save, FireInv

LEMMA CollisionKeeps ==
    ASSUME FireInv, NEW p \in Callers, Clash(p) \/ Overtaken(p)
    PROVE  FireInv'
<1>1. Agrees(Outdated(ctx)) /\ kind' = kind /\ at[p] = "save"
    BY OutdatedAgrees DEF FireInv, Clash, Overtaken
<1>2. ASSUME NEW q, Continue(p, Taken(Outdated(ctx), q))
      PROVE  FireInv'
    BY <1>1, <1>2, TakenAgrees, ContinueKeeps
<1>3. CASE Throw(p, Outdated(ctx))
    BY <1>1, <1>3, ThrowKeeps
<1> QED
    BY <1>2, <1>3 DEF Clash, Overtaken

LEMMA FileFailsKeeps ==
    ASSUME FireInv, NEW p \in Callers, FileFails(p)
    PROVE  FireInv'
BY OutdatedAgrees, ThrowKeeps DEF FileFails, FireInv

LEMMA BusyKeeps ==
    ASSUME FireInv, NEW p \in Callers, Busy(p) \/ Asking(p)
    PROVE  FireInv'
<1>1. ShapeInv /\ Agrees(ctx) /\ kind' = kind /\ p \notin Runs
    BY OutdatedAgrees DEF FireInv, ShapeInv, Busy, Asking, still
<1>2. CASE Skip(p)
    BY <1>1, <1>2, SkipKeeps
<1>3. CASE Fire(p) /\ (kind = "task" \/ ~firing)
    BY <1>1, <1>3, FireKeeps
<1>4. CASE kind = "task" /\ Goes(p, "asking", ctx[p], ctx) /\ UNCHANGED firing
    <2>1. Fits(p, "asking", ctx[p])
        BY <1>1, <1>4 DEF Fits, ShapeInv, Places
    <2>2. ctx[p].op = "begin" => p \in Holders
        BY DEF Holders
    <2> QED
        BY <1>1, <1>4, <2>1, <2>2, PlainMove
<1>5. CASE Busy(p)
    BY <1>2, <1>3, <1>4, <1>5 DEF Busy
<1>6. CASE Asking(p)
    <2>1. kind = "task"
        BY <1>1, <1>6 DEF Asking, ShapeInv
    <2> QED
        BY <1>2, <1>3, <1>6, <2>1 DEF Asking
<1> QED
    BY <1>5, <1>6

LEMMA ScanKeeps ==
    ASSUME FireInv, Tick \/ Scan
    PROVE  FireInv'
<1>1. ShapeInv /\ Agrees(ctx) /\ Timer \in Callers /\ Timer \notin Runs
    BY OutdatedAgrees, CallersApart DEF FireInv, Callers
<1>2. kind' = kind /\ firing' = firing
    BY DEF Tick, Scan, List, Reconcile, Due, Current, still
<1>3. ASSUME NEW place \in {"idle", "list"}, Goes(Timer, place, Blank, ctx)
      PROVE  FireInv'
    <2>1. Fits(Timer, place, Blank)
        BY <1>1, BlankFields DEF Fits, Places
    <2> QED
        BY <1>1, <1>2, <1>3, <2>1, BlankFields, PlainMove
<1>4. CASE Tick
    BY <1>3, <1>4 DEF Tick
<1>5. CASE List
    <2> DEFINE c == [Blank EXCEPT !.sched = disk]
    <2>1. DOMAIN c = Fields /\ c.op = "none"
        BY BlankFields DEF Fields
    <2>2. CASE Goes(Timer, "reconcile", c, ctx)
        <3> HIDE DEF c
        <3>1. Fits(Timer, "reconcile", c)
            BY <1>1, <2>1 DEF Fits, Places
        <3> QED
            BY <1>1, <1>2, <2>1, <2>2, <3>1, PlainMove
    <2> QED
        BY <1>3, <1>5, <2>2 DEF List
<1>6. CASE Reconcile
    <2> DEFINE row == [ctx[Timer].sched.runs[1] EXCEPT !.status = "error"]
    <2> DEFINE w == Writing(ctx[Timer], "patch", row)
    <2> DEFINE c == [w EXCEPT !.sched.runs[1] = row]
    <2>1. DOMAIN w = Fields /\ w.op = "patch" /\ DOMAIN ctx[Timer] = Fields
        BY <1>1, WritingFields DEF ShapeInv
    <2>2. CASE Goes(Timer, "load", c, ctx)
        <3> HIDE DEF w, row
        <3>1. DOMAIN c = Fields /\ c.op = "patch"
            BY <2>1 DEF Fields
        <3> HIDE DEF c
        <3>2. Fits(Timer, "load", c)
            BY <1>1, <3>1 DEF Fits, Places
        <3> QED
            BY <1>1, <1>2, <2>2, <3>1, <3>2, PlainMove
    <2> QED
        BY <1>2, <1>6, <2>1, <2>2, GoesOnKeeps DEF Reconcile
<1>7. CASE Due
    BY <1>1, <1>2, <1>7, GoesOnKeeps DEF Due, ShapeInv
<1>8. CASE Current
    <2> DEFINE c == [ctx[Timer] EXCEPT !.sched = IF disk = None THEN @ ELSE disk]
    <2>1. DOMAIN c = Fields /\ c.op = ctx[Timer].op /\ c.row = ctx[Timer].row
        BY <1>1 DEF ShapeInv, Fields
    <2>2. Goes(Timer, "busy", c, ctx)
        BY <1>8 DEF Current
    <2> HIDE DEF c
    <2>3. Fits(Timer, "busy", c)
        BY <1>1, <2>1 DEF Fits, ShapeInv, Places
    <2>4. c.op = "begin" => Timer \in Holders
        BY <1>1, <2>1 DEF Holders
    <2> QED
        BY <1>1, <1>2, <2>2, <2>3, <2>4, PlainMove
<1> QED
    BY <1>4, <1>5, <1>6, <1>7, <1>8 DEF Scan

LEMMA RequestKeeps ==
    ASSUME FireInv,
           \/ \E m \in Manual : RunNow(m) \/ Ask(m)
           \/ \E e \in Editors, op \in {"enable", "disable", "keep", "retime"} : Edit(e, op)
    PROVE  FireInv'
<1>1. ShapeInv /\ Agrees(ctx)
    BY OutdatedAgrees DEF FireInv
<1>2. \A p \in Manual \cup Editors : p \in Callers /\ p \notin Runs
    BY CallersApart DEF Callers
<1>3. ASSUME NEW p \in Manual \cup Editors, NEW place \in {"idle", "ask", "busy", "load"}, NEW c,
             DOMAIN c = Fields, c.op \in {"none", "enable", "disable", "keep", "retime"},
             Goes(p, place, c, ctx), kind' = kind, firing' = firing
      PROVE  FireInv'
    <2>1. Fits(p, place, c)
        BY <1>2, <1>3 DEF Fits, Places
    <2> QED
        BY <1>1, <1>2, <1>3, <2>1, PlainMove
<1>4. ASSUME NEW m \in Manual, RunNow(m) \/ Ask(m)
      PROVE  FireInv'
    <2> DEFINE c == [Blank EXCEPT !.sched = disk]
    <2>1. DOMAIN c = Fields /\ c.op = "none"
        BY BlankFields DEF Fields
    <2>2. kind' = kind /\ firing' = firing
        BY <1>4 DEF RunNow, Ask, still
    <2>3. \/ Goes(m, "ask", Blank, ctx) \/ Goes(m, "idle", Blank, ctx) \/ Goes(m, "busy", c, ctx)
        BY <1>4 DEF RunNow, Ask
    <2> HIDE DEF c
    <2> QED
        BY <1>3, <2>1, <2>2, <2>3, BlankFields
<1>5. ASSUME NEW e \in Editors, NEW op \in {"enable", "disable", "keep", "retime"}, Edit(e, op)
      PROVE  FireInv'
    <2> DEFINE c == [Blank EXCEPT !.op = op]
    <2>1. DOMAIN c = Fields /\ c.op = op
        BY BlankFields DEF Fields
    <2>2. kind' = kind /\ firing' = firing /\ Goes(e, "load", c, ctx)
        BY <1>5 DEF Edit
    <2> HIDE DEF c
    <2> QED
        BY <1>3, <2>1, <2>2
<1> QED
    BY <1>4, <1>5

\* A run that is going on stays the holder until it is idle.
LEMMA WorkKeeps ==
    ASSUME FireInv, NEW r \in Runs, Work(r)
    PROVE  FireInv'
<1>1. ShapeInv /\ Agrees(ctx) /\ r \in Callers /\ DOMAIN ctx[r] = Fields /\ ctx[r].op # "begin"
    BY OutdatedAgrees DEF FireInv, Callers, ShapeInv
<1>2. kind' = kind /\ firing' = firing /\ r \in Holders
    BY DEF Work, Create, StartTurn, EndTurn, Holders, Working
<1>3. ASSUME NEW op \in {"link", "finish"}, NEW row, Goes(r, "load", Writing(ctx[r], op, row), ctx)
      PROVE  FireInv'
    <2>1. Fits(r, "load", Writing(ctx[r], op, row))
        BY <1>1, WritingFields DEF Fits, Places
    <2> QED
        BY <1>1, <1>2, <1>3, <2>1, PlainMove
<1>4. CASE Goes(r, "turning", ctx[r], ctx)
    <2>1. Fits(r, "turning", ctx[r])
        BY <1>1 DEF Fits, Places
    <2> QED
        BY <1>1, <1>2, <1>4, <2>1, PlainMove
<1>5. CASE Create(r)
    BY <1>3, <1>4, <1>5 DEF Create, Ends
<1>6. CASE StartTurn(r)
    BY <1>4, <1>6 DEF StartTurn
<1>7. CASE EndTurn(r)
    BY <1>3, <1>7 DEF EndTurn, Ends
<1> QED
    BY <1>5, <1>6, <1>7 DEF Work

\* Steps that move nobody.
LEMMA StillKeeps ==
    ASSUME FireInv, UNCHANGED <<kind, firing, at>>, ctx' = ctx \/ ctx' = Outdated(ctx)
    PROVE  FireInv'
<1>1. ShapeInv /\ FlagInv
    BY DEF FireInv
<1>2. PICK D : Agrees(D) /\ ctx' = D
    BY OutdatedAgrees DEF FireInv
<1>3. /\ ctx' = [p \in Callers |-> ctx'[p]]
      /\ \A p \in Callers :
           DOMAIN ctx'[p] = Fields /\ ctx'[p].op = ctx[p].op /\ ctx'[p].row = ctx[p].row
    BY <1>2 DEF Agrees
<1>4. ShapeInv'
    BY <1>1, <1>3 DEF ShapeInv, Callers
<1>5. Holders' = Holders
    BY <1>3 DEF Holders, Working
<1> QED
    BY <1>1, <1>4, <1>5 DEF FireInv, FlagInv

LEMMA CrashKeeps ==
    ASSUME FireInv, Crash
    PROVE  FireInv'
<1>1. /\ at' = [p \in Callers |-> "idle"] /\ ctx' = [p \in Callers |-> Blank]
      /\ kind' = kind
    BY DEF Crash
<1>2. \A p \in Callers : at'[p] = "idle" /\ DOMAIN ctx'[p] = Fields /\ ctx'[p].op = "none"
    BY <1>1, BlankFields
<1>3. Runs \subseteq Callers
    BY DEF Callers
<1>4. ShapeInv'
    BY <1>1, <1>2, <1>3 DEF ShapeInv, Places
<1>5. Holders' = {}
    BY <1>2, <1>3 DEF Holders, Working
<1> QED
    BY <1>4, <1>5 DEF FireInv, FlagInv

LEMMA FireInvInit == Init => FireInv
<1> SUFFICES ASSUME Init PROVE FireInv
    OBVIOUS
<1>1. at = [p \in Callers |-> "idle"] /\ ctx = [p \in Callers |-> Blank]
    BY DEF Init
<1>2. \A p \in Callers : at[p] = "idle" /\ DOMAIN ctx[p] = Fields /\ ctx[p].op = "none"
    BY <1>1, BlankFields
<1>3. Runs \subseteq Callers
    BY DEF Callers
<1>4. ShapeInv
    BY <1>1, <1>2, <1>3 DEF ShapeInv, Places
<1>5. Holders = {}
    BY <1>2, <1>3 DEF Holders, Working
<1> QED
    BY <1>4, <1>5 DEF FireInv, FlagInv

LEMMA FireInvStep == FireInv /\ [Next]_vars => FireInv'
<1> SUFFICES ASSUME FireInv, [Next]_vars
             PROVE  FireInv'
    OBVIOUS
<1>1. CASE Tick \/ Scan
    BY <1>1, ScanKeeps
<1>2. CASE Clock
    BY <1>2, StillKeeps DEF Clock
<1>3. CASE Crash
    BY <1>3, CrashKeeps
<1>4. CASE Delete
    BY <1>4, StillKeeps DEF Delete
<1>5. CASE \/ \E m \in Manual : RunNow(m) \/ Ask(m)
           \/ \E e \in Editors, op \in {"enable", "disable", "keep", "retime"} : Edit(e, op)
    BY <1>5, RequestKeeps
<1>6. ASSUME NEW r \in Runs, Work(r)
      PROVE  FireInv'
    BY <1>6, WorkKeeps
<1>7. ASSUME NEW r \in Runs, OutlivesWork(r) \/ UserTurn(r)
      PROVE  FireInv'
    BY <1>7, StillKeeps DEF OutlivesWork, UserTurn
<1>8. ASSUME NEW p \in Callers, Proceeds(p) \/ Clash(p) \/ FileFails(p)
      PROVE  FireInv'
    BY <1>8, LoadKeeps, SaveKeeps, BusyKeeps, CollisionKeeps, FileFailsKeeps DEF Proceeds
<1>9. CASE UNCHANGED vars
    BY <1>9, StillKeeps DEF vars
<1> QED
    BY <1>1, <1>2, <1>3, <1>4, <1>5, <1>6, <1>7, <1>8, <1>9 DEF Next

LEMMA FireInvHolds == Spec => []FireInv
BY FireInvInit, FireInvStep, PTL DEF Spec

\* While a session prompt or a command of the schedule goes on, or its row is
\* being written, the flag that keeps others out is set.
THEOREM FlagCorrect == Spec => []FlagCoversWork
<1>1. ASSUME FireInv
      PROVE  FlagCoversWork
    <2>1. FlagInv
        BY <1>1 DEF FireInv
    <2>2. (Working # {} \/ \E p \in Callers : ctx[p].op = "begin") => Holders # {}
        BY DEF Holders
    <2> QED
        BY <2>1, <2>2 DEF FlagInv, FlagCoversWork
<1> QED
    BY <1>1, FireInvHolds, PTL

\* One process never has two runs of a session prompt or of a command at work for
\* one schedule, however the timer, the calls of runScheduleNow and failures fall.
\* A program that has outlived an earlier sidecar is not counted.
THEOREM NeverOverlaps == Spec => []NoOverlap
<1>1. ASSUME FireInv
      PROVE  NoOverlap
    <2> SUFFICES ASSUME kind \in {"session", "command"}
                 PROVE  Cardinality(Working) <= 1
        BY DEF NoOverlap
    <2>1. \A p, q \in Working : p = q
        BY <1>1 DEF FireInv, FlagInv, Holders
    <2>2. CASE Working = {}
        BY <2>2, FS_EmptySet
    <2>3. CASE Working # {}
        <3>1. PICK r \in Working : TRUE
            BY <2>3
        <3>2. Working = {r}
            BY <2>1, <3>1
        <3> QED
            BY <3>2, FS_Singleton
    <2> QED
        BY <2>2, <2>3
<1> QED
    BY <1>1, FireInvHolds, PTL

-----------------------------------------------------------------------------
\* The marks.

Past(n) == \A m \in answered : m < n
Ahead(n) == n = Never \/ Past(n)

EditOps == {"enable", "disable", "keep", "retime"}

\* Who is about to write what it has read, and nothing has been written since.
FreshCopy(p) == at[p] = "save" /\ ~ctx[p].stale

\* Where the scan is: it has the mark of the list but has not looked at it, it is
\* moving the mark on, or it has moved it on and not answered it yet.
Heading ==
    \/ at[Timer] \in {"reconcile", "due"}
    \/ at[Timer] \in {"load", "save"} /\ ctx[Timer].op \in {"patch", "status"}
Anchoring == at[Timer] \in {"load", "save"} /\ ctx[Timer].op = "anchor"
Anchored == at[Timer] \notin {"load", "save"} /\ ctx[Timer].op = "anchor"

\* Only the scan moves a mark on, and only then it has one to answer; answered
\* marks have come; a fresh copy is the file.
OwnInv ==
    /\ \A p \in Callers : ctx[p].op = "anchor" => p = Timer
    /\ ctx[Timer].op \notin EditOps
    /\ ctx[Timer].mark # Never => ctx[Timer].op = "anchor"
    /\ ctx[Timer].op = "anchor" => ctx[Timer].mark \in 1..now
    /\ at[Timer] \in {"current", "busy", "asking"} => ctx[Timer].op = "anchor"
    /\ Heading => ctx[Timer].op # "anchor"
    /\ answered \subseteq 1..now
    /\ \A p \in Callers : FreshCopy(p) => ctx[p].snap = disk

\* The file is past every answered mark, and stays past them when a fresh copy
\* of it is written back with the time at which it was read.
AheadInv ==
    /\ disk # None => Ahead(disk.next)
    /\ Heading => Ahead(ctx[Timer].sched.next)
    /\ ctx[Timer].op = "anchor" => Past(ctx[Timer].mark)
    /\ Anchoring => ctx[Timer].when \in ctx[Timer].mark..now
    /\ Anchored /\ disk # None => disk.next = Never \/ ctx[Timer].mark < disk.next
    /\ \A p \in Callers : FreshCopy(p) /\ ctx[p].op \in EditOps /\ disk # None =>
         /\ \A m \in answered : m <= ctx[p].when
         /\ Anchored => ctx[Timer].mark <= ctx[p].when

MarkInv == OwnInv /\ (collided \/ AheadInv)

\* What both are about is numbers.
LEMMA MarkTypes ==
    ASSUME TypeInv
    PROVE  /\ Timer \in Callers /\ now \in Nat /\ answered \subseteq Nat
           /\ disk # None => disk.next \in Nat
           /\ \A p \in Callers : ctx[p].when \in Nat /\ ctx[p].mark \in Nat
           /\ collided \in BOOLEAN
<1>1. \A m \in Marks : m \in Nat
    BY BoundsAreNat DEF Marks
<1>2. \A p \in Callers : Typed(ctx[p])
    BY DEF TypeInv, HandInv, Sound
<1> QED
    BY <1>1, <1>2, BoundsAreNat DEF TypeInv, RestInv, FileOrNone, IsFile, Typed, Callers

\* The scan has no mark to answer after the step, and heads for the one of the
\* same list, if any.
Unmarked ==
    /\ ctx'[Timer].op # "anchor" /\ ctx'[Timer].op \notin EditOps /\ ctx'[Timer].mark = Never
    /\ at'[Timer] \notin {"current", "busy", "asking"}

Onward ==
    /\ Unmarked
    /\ Heading' => Heading /\ ctx'[Timer].sched.next = ctx[Timer].sched.next

\* The mark has been moved on and is the one to answer.
Carries ==
    /\ ctx[Timer].op = "anchor" /\ ctx'[Timer].op = "anchor"
    /\ ctx'[Timer].mark = ctx[Timer].mark
    /\ at'[Timer] \notin {"load", "save", "reconcile", "due"}

\* Only the callers of S move, none of them to the write of a file.
Moving(S, C) ==
    /\ S \subseteq Callers
    /\ \A q \in Callers \ S : at'[q] = at[q] /\ ctx'[q] = C[q]
    /\ \A q \in S : at'[q] # "save" /\ (ctx'[q].op = "anchor" => q = Timer)

LEMMA GoesTo ==
    ASSUME TypeInv, NEW p \in Callers, NEW place, NEW c, NEW C, C = [q \in Callers |-> C[q]],
           Goes(p, place, c, C)
    PROVE  /\ at'[p] = place /\ ctx'[p] = c
           /\ \A q \in Callers \ {p} : at'[q] = at[q] /\ ctx'[q] = C[q]
BY DEF Goes, TypeInv, HandInv

\* Nothing is written or answered, and the scan does not move.
LEMMA OthersMove ==
    ASSUME TypeInv, MarkInv, UNCHANGED <<disk, now, answered, collided>>,
           NEW S, Moving(S, ctx), Timer \notin S
    PROVE  MarkInv'
<1>1. at'[Timer] = at[Timer] /\ ctx'[Timer] = ctx[Timer]
    BY MarkTypes DEF Moving
<1>2. \A q \in Callers : FreshCopy(q)' => FreshCopy(q) /\ ctx'[q] = ctx[q]
    BY DEF Moving, FreshCopy
<1>3. OwnInv'
    BY <1>1, <1>2 DEF MarkInv, OwnInv, Moving, Heading
<1>4. ~collided => AheadInv'
    BY <1>1, <1>2 DEF MarkInv, AheadInv, Ahead, Past, Heading, Anchoring, Anchored
<1> QED
    BY <1>3, <1>4 DEF MarkInv

\* Nothing is written or answered, and the scan ends, starts or heads on.
LEMMA TimerMoves ==
    ASSUME TypeInv, MarkInv, UNCHANGED <<disk, now, answered, collided>>,
           NEW S, Moving(S, ctx), Timer \in S, Unmarked,
           Heading' => collided \/ Ahead(ctx'[Timer].sched.next)
    PROVE  MarkInv'
<1>1. \A q \in Callers : FreshCopy(q)' => FreshCopy(q) /\ ctx'[q] = ctx[q]
    BY DEF Moving, FreshCopy
<1>2. OwnInv'
    BY <1>1 DEF MarkInv, OwnInv, Moving, Unmarked
<1>3. ~collided => AheadInv'
    BY <1>1 DEF MarkInv, AheadInv, Ahead, Past, Anchoring, Anchored, Unmarked
<1> QED
    BY <1>2, <1>3 DEF MarkInv

\* The scan has moved the mark on, or there is no file to move it on in.
LEMMA TimerCarries ==
    ASSUME TypeInv, MarkInv, UNCHANGED <<disk, now, answered, collided>>,
           Moving({Timer}, ctx), Carries, Anchored \/ disk = None
    PROVE  MarkInv'
<1>1. \A q \in Callers : FreshCopy(q)' => FreshCopy(q) /\ ctx'[q] = ctx[q]
    BY DEF Moving, FreshCopy
<1>2. OwnInv'
    BY <1>1 DEF MarkInv, OwnInv, Moving, Carries, EditOps, Heading
<1>3. ~collided => AheadInv'
    BY <1>1 DEF MarkInv, AheadInv, Ahead, Past, Heading, Anchoring, Anchored, Carries
<1> QED
    BY <1>2, <1>3 DEF MarkInv

\* A write starts: the file that is read is the file.
LEMMA LoadMoves ==
    ASSUME TypeInv, MarkInv, UNCHANGED <<disk, now, answered, collided>>,
           NEW p \in Callers, at[p] = "load", NEW t,
           t = IF ctx[p].op \in EditOps THEN now ELSE ctx[p].when,
           Goes(p, "save", [ctx[p] EXCEPT !.snap = disk, !.stale = FALSE, !.when = t], ctx)
    PROVE  MarkInv'
<1> DEFINE c == ctx[p]
           d == [c EXCEPT !.snap = disk, !.stale = FALSE, !.when = t]
<1>1. DOMAIN c = Fields /\ ctx = [q \in Callers |-> ctx[q]]
    BY DEF TypeInv, HandInv, Sound, Typed
<1>2. /\ d.snap = disk /\ d.when = t /\ d.op = c.op /\ d.mark = c.mark /\ d.sched = c.sched
    BY <1>1 DEF Fields
<1>3. at'[p] = "save" /\ ctx'[p] = d /\ \A q \in Callers \ {p} : at'[q] = at[q] /\ ctx'[q] = ctx[q]
    BY <1>1, GoesTo
<1> HIDE DEF d
<1>4. \A q \in Callers :
        /\ ctx'[q].op = ctx[q].op /\ ctx'[q].mark = ctx[q].mark /\ ctx'[q].sched = ctx[q].sched
        /\ at'[q] = at[q] \/ (q = p /\ at'[q] = "save")
        /\ FreshCopy(q)' => ctx'[q].snap = disk /\ (q # p => FreshCopy(q) /\ ctx'[q] = ctx[q])
        /\ ctx'[q].op \notin EditOps => ctx'[q].when = ctx[q].when
    <2>1. FreshCopy(p)' => ctx'[p].snap = disk
        BY <1>2, <1>3
    <2>2. ctx'[p].op \notin EditOps => ctx'[p].when = ctx[p].when
        BY <1>2, <1>3
    <2>3. \A q \in Callers \ {p} : FreshCopy(q)' => FreshCopy(q) /\ ctx[q].snap = disk
        BY <1>3 DEF FreshCopy, MarkInv, OwnInv
    <2>4. \A q \in Callers : q = p \/ (at'[q] = at[q] /\ ctx'[q] = ctx[q])
        BY <1>3
    <2>5. ctx'[p].op = ctx[p].op /\ ctx'[p].mark = ctx[p].mark /\ ctx'[p].sched = ctx[p].sched
        BY <1>2, <1>3
    <2> QED
        BY <1>3, <2>1, <2>2, <2>3, <2>4, <2>5
<1>5. /\ Heading' = Heading /\ Anchoring' = Anchoring /\ Anchored' = Anchored
      /\ at'[Timer] \in {"current", "busy", "asking"} => at'[Timer] = at[Timer]
    BY <1>4, MarkTypes DEF Heading, Anchoring, Anchored
<1>6. OwnInv'
    BY <1>4, <1>5, MarkTypes DEF MarkInv, OwnInv
<1>7. ASSUME ~collided
      PROVE  AheadInv'
    <2>1. OwnInv /\ AheadInv
        BY <1>7 DEF MarkInv
    <2>2. ASSUME NEW q \in Callers, FreshCopy(q)', ctx'[q].op \in EditOps, disk # None
          PROVE  /\ \A m \in answered : m <= ctx'[q].when
                 /\ Anchored => ctx[Timer].mark <= ctx'[q].when
        <3>1. CASE q = p
            BY <1>2, <1>3, <2>1, <2>2, <3>1, MarkTypes DEF OwnInv, Anchored
        <3>2. CASE q # p
            BY <1>4, <2>1, <2>2, <3>2 DEF AheadInv
        <3> QED
            BY <3>1, <3>2
    <2>3. Anchoring => ctx'[Timer].when = ctx[Timer].when
        BY <1>4, MarkTypes DEF Anchoring, EditOps
    <2> QED
        BY <1>4, <1>5, <2>1, <2>2, <2>3, MarkTypes DEF AheadInv, Ahead, Past
<1> QED
    BY <1>6, <1>7 DEF MarkInv

\* What a fresh copy is written back with: its mark, a later one or none.
LEMMA MutatedMark ==
    ASSUME NEW c, Typed(c), c.op # "none", IsFile(c.snap)
    PROVE  /\ Mutated(c).next = Never \/ Mutated(c).next = c.snap.next \/ Mutated(c).next = c.when + 1
           /\ c.op = "anchor" => Mutated(c).next = c.when + 1
           /\ c.op \notin EditOps \cup {"anchor"} => Mutated(c).next = c.snap.next
<1> DEFINE s == c.snap
           U(keep) ==
             [enabled |-> TRUE, runs |-> IF s = None THEN <<>> ELSE s.runs,
              next |-> IF s # None /\ keep /\ s.enabled THEN s.next ELSE NextMark(c.when)]
           f == Mutated(c)
<1>1. DOMAIN s = {"enabled", "next", "runs"} /\ c.op \in Ops
    BY DEF IsFile, Typed
<1>2. NextMark(c.when) = c.when + 1
    BY DEF NextMark
<1>3. CASE c.op \in {"patch", "link"}
    <2>1. f = Patched(s, c.row)
        BY <1>3 DEF Mutated
    <2> QED
        BY <1>1, <1>3, <2>1 DEF Patched, EditOps
<1>4. CASE c.op \in {"skip", "begin"}
    <2>1. f = Prepended(s, c.row)
        BY <1>4 DEF Mutated
    <2> QED
        BY <1>1, <1>4, <2>1 DEF Prepended, EditOps
<1>5. CASE c.op = "finish"
    <2>1. f = Prepended(s, c.row) \/ f = Patched(s, c.row)
        BY <1>5 DEF Mutated
    <2> QED
        BY <1>1, <1>5, <2>1 DEF Patched, Prepended, EditOps
<1>6. CASE c.op = "status"
    <2>1. f = s
        BY <1>6 DEF Mutated
    <2> QED
        BY <1>6, <2>1 DEF EditOps
<1>7. CASE c.op = "anchor"
    <2>1. f = [s EXCEPT !.next = NextMark(c.when)]
        BY <1>7 DEF Mutated
    <2> QED
        BY <1>1, <1>2, <1>7, <2>1
<1>8. CASE c.op = "enable"
    <2>1. f = [s EXCEPT !.enabled = TRUE, !.next = NextMark(c.when)]
        BY <1>8 DEF Mutated
    <2> QED
        BY <1>1, <1>2, <1>8, <2>1 DEF EditOps
<1>9. CASE c.op = "disable"
    <2>1. f = [s EXCEPT !.enabled = FALSE, !.next = Never]
        BY <1>9 DEF Mutated
    <2> QED
        BY <1>1, <1>9, <2>1 DEF EditOps
<1>10. CASE c.op = "keep"
    <2>1. f = U(TRUE)
        BY <1>10 DEF Mutated
    <2>2. f.next = s.next \/ f.next = NextMark(c.when)
        BY <2>1
    <2> QED
        BY <1>2, <1>10, <2>2 DEF EditOps
<1>11. CASE c.op = "retime"
    <2>1. f = U(FALSE)
        BY <1>11 DEF Mutated
    <2>2. f.next = NextMark(c.when)
        BY <2>1
    <2> QED
        BY <1>2, <1>11, <2>2 DEF EditOps
<1> QED
    BY <1>1, <1>3, <1>4, <1>5, <1>6, <1>7, <1>8, <1>9, <1>10, <1>11 DEF Ops

\* A write that collides with no other leaves the file past every answered mark.
LEMMA WrittenAhead ==
    ASSUME TypeInv, OwnInv, AheadInv, NEW p \in Callers, at[p] = "save", ~Collides(ctx[p])
    PROVE  /\ Ahead(Mutated(ctx[p]).next)
           /\ Anchored => \/ Mutated(ctx[p]).next = Never
                          \/ ctx[Timer].mark < Mutated(ctx[p]).next
           /\ ctx[p].op = "anchor" => ctx[Timer].mark < Mutated(ctx[p]).next
<1> DEFINE c == ctx[p]
           n == Mutated(c).next
<1>1. FreshCopy(p) /\ disk # None /\ c.snap = disk
    BY DEF Collides, FreshCopy, OwnInv
<1>2. IsFile(disk) /\ Typed(c) /\ c.op # "none"
    BY <1>1 DEF TypeInv, HandInv, RestInv, FileOrNone, Sound
<1>3. /\ n = Never \/ n = disk.next \/ n = c.when + 1
      /\ c.op = "anchor" => n = c.when + 1
      /\ c.op \notin EditOps \cup {"anchor"} => n = disk.next
    BY <1>1, <1>2, MutatedMark
<1> HIDE DEF n
<1>4. Ahead(disk.next) /\ (Anchored => disk.next = Never \/ ctx[Timer].mark < disk.next)
    BY <1>1 DEF AheadInv
<1>5. CASE c.op \in EditOps
    <2>1. (\A m \in answered : m <= c.when) /\ (Anchored => ctx[Timer].mark <= c.when)
        BY <1>1, <1>5 DEF AheadInv
    <2>2. \A m \in answered : m < c.when + 1
        BY <2>1, MarkTypes
    <2>3. Anchored => ctx[Timer].mark < c.when + 1
        BY <2>1, MarkTypes
    <2> QED
        BY <1>3, <1>4, <1>5, <2>2, <2>3 DEF Ahead, Past, EditOps, n
<1>6. CASE c.op = "anchor"
    <2>1. p = Timer /\ Anchoring /\ ~Anchored
        BY <1>6 DEF OwnInv, Anchoring, Anchored
    <2>2. c.when >= ctx[Timer].mark /\ \A m \in answered : m < ctx[Timer].mark
        BY <1>6, <2>1, MarkTypes DEF AheadInv, Past
    <2>3. ctx[Timer].mark < n /\ \A m \in answered : m < n
        BY <1>3, <1>6, <2>2, MarkTypes
    <2> QED
        BY <2>1, <2>3 DEF Ahead, Past, n
<1>7. CASE c.op \notin EditOps \cup {"anchor"}
    BY <1>3, <1>4, <1>7 DEF n
<1> QED
    BY <1>5, <1>6, <1>7

LEMMA OutdatedFields ==
    ASSUME TypeInv, NEW q \in Callers
    PROVE  LET d == Outdated(ctx)[q] IN
           /\ d.op = ctx[q].op /\ d.mark = ctx[q].mark /\ d.sched = ctx[q].sched
           /\ d.when = ctx[q].when /\ d.row = ctx[q].row
           /\ at[q] = "save" => d.stale
<1>1. DOMAIN ctx[q] = Fields
    BY DEF TypeInv, HandInv, Sound, Typed
<1> QED
    BY <1>1 DEF Outdated, Fields

LEMMA TakenFields ==
    ASSUME TypeInv, NEW q \in Callers, NEW r
    PROVE  LET c == Outdated(ctx)[q]
               d == Taken(Outdated(ctx), r)[q] IN
           /\ d.op = c.op /\ d.mark = c.mark /\ d.sched = c.sched
           /\ d.when = c.when /\ d.row = c.row /\ d.stale = c.stale
<1>1. DOMAIN Outdated(ctx)[q] = Fields
    BY HandsOutdated DEF TypeInv, Hands, Sound, Typed
<1> QED
    BY <1>1 DEF Taken, Fields

\* A file is written, the answered marks stay.
LEMMA SaveMoves ==
    ASSUME TypeInv, MarkInv, NEW p \in Callers, at[p] = "save",
           disk' = Mutated(ctx[p]), collided' = (collided \/ Collides(ctx[p])),
           UNCHANGED <<now, answered>>,
           NEW S, Moving(S, Outdated(ctx)), Timer \in S => p = Timer /\ (Onward \/ Carries)
    PROVE  MarkInv'
<1>1. \A q \in Callers : ~FreshCopy(q)'
    BY OutdatedFields DEF Moving, FreshCopy
<1>2. \/ p = Timer /\ Timer \in S /\ (Onward \/ Carries)
      \/ /\ Timer \notin S /\ at'[Timer] = at[Timer] /\ ctx'[Timer].op = ctx[Timer].op
         /\ ctx'[Timer].mark = ctx[Timer].mark /\ ctx'[Timer].sched = ctx[Timer].sched
         /\ ctx'[Timer].when = ctx[Timer].when
    BY MarkTypes, OutdatedFields DEF Moving
<1>3. \A q \in Callers : ctx'[q].op = "anchor" => q = Timer
    BY OutdatedFields DEF Moving, MarkInv, OwnInv
<1>4. OwnInv'
    BY <1>1, <1>2, <1>3 DEF MarkInv, OwnInv, Onward, Unmarked, Carries, EditOps, Heading
<1>5. ASSUME ~collided, ~Collides(ctx[p])
      PROVE  AheadInv'
    <2>1. OwnInv /\ AheadInv
        BY <1>5 DEF MarkInv
    <2>2. /\ Ahead(disk'.next)
          /\ Anchored => disk'.next = Never \/ ctx[Timer].mark < disk'.next
          /\ ctx[p].op = "anchor" => ctx[Timer].mark < disk'.next
        BY <1>5, <2>1, WrittenAhead
    <2>3. CASE Timer \notin S
        BY <1>1, <1>2, <2>1, <2>2, <2>3 DEF AheadInv, Ahead, Past, Heading, Anchoring, Anchored
    <2>4. CASE p = Timer /\ Onward
        BY <1>1, <2>1, <2>2, <2>4 DEF AheadInv, Ahead, Past, Anchoring, Anchored, Onward, Unmarked
    <2>5. CASE p = Timer /\ Carries
        BY <1>1, <2>1, <2>2, <2>5 DEF AheadInv, Ahead, Past, Heading, Anchoring, Anchored, Carries
    <2> QED
        BY <1>2, <2>3, <2>4, <2>5
<1>6. collided' \/ (~collided /\ ~Collides(ctx[p]))
    BY MarkTypes
<1> QED
    BY <1>4, <1>5, <1>6 DEF MarkInv

\* The end of a write, and a file call that throws: who moves, and how the scan
\* goes on.
LEMMA GoesMoves ==
    ASSUME TypeInv, NEW p \in Callers, NEW place \in Places \ {"save"}, NEW c, NEW C,
           C = [q \in Callers |-> C[q]], Goes(p, place, c, C), c.op = "anchor" => p = Timer
    PROVE  /\ Moving({p}, C)
           /\ p = Timer => at'[Timer] = place /\ ctx'[Timer] = c
BY GoesTo DEF Moving

LEMMA BlankFacts == Blank.op = "none" /\ Blank.mark = Never
BY DEF Blank

LEMMA WritingFacts ==
    ASSUME NEW c, DOMAIN c = Fields, NEW op, NEW row
    PROVE  /\ Writing(c, op, row).op = op /\ Writing(c, op, row).mark = c.mark
           /\ Writing(c, op, row).sched = c.sched /\ DOMAIN Writing(c, op, row) = Fields
BY DEF Writing, Fields

\* The copies of the others after a step.
CopyOf(C) ==
    \/ C = ctx
    \/ C = Outdated(ctx)
    \/ \E q \in Callers : C = Taken(Outdated(ctx), q)

LEMMA CopyFields ==
    ASSUME TypeInv, NEW C, CopyOf(C)
    PROVE  /\ C = [q \in Callers |-> C[q]]
           /\ \A q \in Callers :
                /\ DOMAIN C[q] = Fields
                /\ C[q].op = ctx[q].op /\ C[q].mark = ctx[q].mark
                /\ C[q].sched = ctx[q].sched /\ C[q].row = ctx[q].row
<1>1. Hands(C)
    BY HandsNow, HandsOutdated, HandsTaken DEF CopyOf, TypeInv
<1>2. \A q \in Callers :
        LET d == Outdated(ctx)[q] IN
        d.op = ctx[q].op /\ d.mark = ctx[q].mark /\ d.sched = ctx[q].sched /\ d.row = ctx[q].row
    BY OutdatedFields
<1>3. ASSUME NEW r \in Callers, C = Taken(Outdated(ctx), r), NEW q \in Callers
      PROVE  C[q].op = ctx[q].op /\ C[q].mark = ctx[q].mark /\ C[q].sched = ctx[q].sched
             /\ C[q].row = ctx[q].row
    BY <1>3, OutdatedFields, TakenFields
<1>4. \A q \in Callers : DOMAIN C[q] = Fields
    BY <1>1 DEF Hands, Sound, Typed
<1> QED
    BY <1>1, <1>2, <1>3, <1>4 DEF Hands, CopyOf

After(p) == IF ctx[p].op = "begin" THEN {p, ctx[p].row.id} ELSE {p}

LEMMA ContinueMoves ==
    ASSUME TypeInv, FireInv, OwnInv, NEW p \in Callers, at[p] \in {"load", "save"},
           NEW C, CopyOf(C), Continue(p, C)
    PROVE  /\ Moving(After(p), C) /\ (Timer \in After(p) => p = Timer)
           /\ p = Timer => Onward \/ Carries
<1> DEFINE c == [C[p] EXCEPT !.snap = None, !.stale = FALSE, !.taken = FALSE, !.when = 0]
<1>1. C = [q \in Callers |-> C[q]] /\ DOMAIN C[p] = Fields
    BY CopyFields
<1>2. /\ DOMAIN c = Fields /\ c.op = ctx[p].op /\ c.mark = ctx[p].mark
      /\ c.sched = ctx[p].sched /\ c.row = ctx[p].row
    BY <1>1, CopyFields DEF Fields
<1>3. c.op # "begin" => After(p) = {p}
    BY <1>2 DEF After
<1>4. p = Timer => c.op \notin EditOps /\ (c.op # "anchor" => c.mark = Never)
    BY <1>2 DEF OwnInv
<1>5. c.op \in {"patch", "status"} /\ p = Timer => Heading
    BY <1>2 DEF Heading
<1> HIDE DEF c
<1>6. CASE c.op = "patch" /\ Goes(p, "load", Writing(c, "status", None), C)
    <2> DEFINE w == Writing(c, "status", None)
    <2>1. w.op = "status" /\ w.mark = c.mark /\ w.sched = c.sched
        BY <1>2, WritingFacts
    <2> HIDE DEF w
    <2>2. Moving({p}, C) /\ (p = Timer => at'[Timer] = "load" /\ ctx'[Timer] = w)
        BY <1>1, <1>6, <2>1, GoesMoves DEF Places, w
    <2>3. p = Timer => Onward
        BY <1>2, <1>4, <1>5, <1>6, <2>1, <2>2 DEF Onward, Unmarked, EditOps
    <2> QED
        BY <1>3, <1>6, <2>2, <2>3
<1>7. CASE c.op = "status" /\ Goes(p, "due", c, C)
    <2>1. Moving({p}, C) /\ (p = Timer => at'[Timer] = "due" /\ ctx'[Timer] = c)
        BY <1>1, <1>7, GoesMoves DEF Places
    <2>2. p = Timer => Onward
        BY <1>2, <1>4, <1>5, <1>7, <2>1 DEF Onward, Unmarked
    <2> QED
        BY <1>3, <1>7, <2>1, <2>2
<1>8. CASE c.op = "anchor" /\ Goes(p, "current", c, C)
    <2>1. p = Timer
        BY <1>2, <1>8 DEF OwnInv
    <2>2. Moving({p}, C) /\ at'[Timer] = "current" /\ ctx'[Timer] = c
        BY <1>1, <1>8, <2>1, GoesMoves DEF Places
    <2>3. Carries
        BY <1>2, <1>8, <2>1, <2>2 DEF Carries
    <2> QED
        BY <1>3, <1>8, <2>1, <2>2, <2>3
<1>9. CASE c.op = "link" /\ Goes(p, "turn", c, C)
    <2>1. Moving({p}, C) /\ (p = Timer => at'[Timer] = "turn" /\ ctx'[Timer] = c)
        BY <1>1, <1>9, GoesMoves DEF Places
    <2>2. p = Timer => Onward
        BY <1>2, <1>4, <1>9, <2>1 DEF Onward, Unmarked, Heading
    <2> QED
        BY <1>3, <1>9, <2>1, <2>2
<1>10. ASSUME c.op = "link", NEW row, Goes(p, "load", Writing(c, "finish", row), C)
       PROVE  Moving({p}, C) /\ (p = Timer => Onward)
    <2> DEFINE w == Writing(c, "finish", row)
    <2>1. w.op = "finish" /\ w.mark = c.mark
        BY <1>2, WritingFacts
    <2> HIDE DEF w
    <2>2. Moving({p}, C) /\ (p = Timer => at'[Timer] = "load" /\ ctx'[Timer] = w)
        BY <1>1, <1>10, <2>1, GoesMoves DEF Places, w
    <2> QED
        BY <1>4, <1>10, <2>1, <2>2 DEF Onward, Unmarked, Heading, EditOps
<1>11. CASE /\ c.op = "begin"
            /\ at' = [at EXCEPT ![p] = "idle", ![c.row.id] = "creating"]
            /\ ctx' = [C EXCEPT ![p] = Blank, ![c.row.id] = [Blank EXCEPT !.row = c.row]]
    <2> DEFINE r == c.row.id
               b == [Blank EXCEPT !.row = c.row]
    <2>1. r \in Runs /\ p \notin Runs /\ r \in Callers /\ r # p /\ r # Timer
        BY <1>2, <1>11, CallersApart DEF FireInv, ShapeInv, Callers
    <2>2. b.op = "none"
        BY DEF Blank
    <2>3. at \in [Callers -> Places] /\ After(p) = {p, r}
        BY <1>2, <1>11 DEF TypeInv, HandInv, After
    <2> HIDE DEF b, r
    <2>4. at' = [at EXCEPT ![p] = "idle", ![r] = "creating"] /\ ctx' = [C EXCEPT ![p] = Blank, ![r] = b]
        BY <1>11 DEF b, r
    <2>5. /\ at'[p] = "idle" /\ at'[r] = "creating" /\ \A q \in Callers \ {p, r} : at'[q] = at[q]
          /\ ctx'[p] = Blank /\ ctx'[r] = b /\ \A q \in Callers \ {p, r} : ctx'[q] = C[q]
        BY <1>1, <2>1, <2>3, <2>4
    <2>6. Moving({p, r}, C)
        BY <2>1, <2>2, <2>5, BlankFacts DEF Moving
    <2>7. p = Timer => Onward
        BY <2>5, BlankFacts DEF Onward, Unmarked, Heading, EditOps
    <2> QED
        BY <2>1, <2>3, <2>6, <2>7
<1>12. CASE c.op # "begin" /\ Goes(p, "idle", Blank, C)
    <2>1. Moving({p}, C) /\ (p = Timer => at'[Timer] = "idle" /\ ctx'[Timer] = Blank)
        BY <1>1, <1>12, BlankFacts, GoesMoves DEF Places
    <2>2. p = Timer => Onward
        BY <2>1, BlankFacts DEF Onward, Unmarked, Heading, EditOps
    <2> QED
        BY <1>3, <1>12, <2>1, <2>2
<1> QED
    BY <1>3, <1>6, <1>7, <1>8, <1>9, <1>10, <1>11, <1>12 DEF Continue, c

LEMMA ThrowMoves ==
    ASSUME TypeInv, OwnInv, NEW p \in Callers, NEW C, CopyOf(C), Throw(p, C)
    PROVE  Moving({p}, C) /\ (p = Timer => Onward)
<1> DEFINE c == C[p]
<1>1. C = [q \in Callers |-> C[q]] /\ DOMAIN c = Fields /\ c.op = ctx[p].op /\ c.mark = ctx[p].mark
    BY CopyFields
<1> HIDE DEF c
<1>2. ASSUME c.op = "link", NEW row, Goes(p, "load", Writing(c, "finish", row), C)
      PROVE  Moving({p}, C) /\ (p = Timer => Onward)
    <2> DEFINE w == Writing(c, "finish", row)
    <2>1. w.op = "finish" /\ w.mark = c.mark
        BY <1>1, WritingFacts
    <2>2. p = Timer => c.mark = Never
        BY <1>1, <1>2 DEF OwnInv
    <2> HIDE DEF w
    <2>3. Moving({p}, C) /\ (p = Timer => at'[Timer] = "load" /\ ctx'[Timer] = w)
        BY <1>1, <1>2, <2>1, GoesMoves DEF Places, w
    <2> QED
        BY <2>1, <2>2, <2>3 DEF Onward, Unmarked, Heading, EditOps
<1>3. CASE Goes(p, "idle", Blank, C)
    <2>1. Moving({p}, C) /\ (p = Timer => at'[Timer] = "idle" /\ ctx'[Timer] = Blank)
        BY <1>1, <1>3, BlankFacts, GoesMoves DEF Places
    <2> QED
        BY <2>1, BlankFacts DEF Onward, Unmarked, Heading, EditOps
<1> QED
    BY <1>2, <1>3 DEF Throw, c

\* A caller who neither writes nor answers.
LEMMA QuietMoves ==
    ASSUME TypeInv, MarkInv, UNCHANGED <<disk, now, answered, collided>>,
           NEW S, Moving(S, ctx), Timer \in S => Onward
    PROVE  MarkInv'
<1>1. CASE Timer \in S
    <2>1. Heading => collided \/ Ahead(ctx[Timer].sched.next)
        BY DEF MarkInv, AheadInv
    <2> QED
        BY <1>1, <2>1, TimerMoves DEF Onward
<1>2. CASE Timer \notin S
    BY <1>2, OthersMove
<1> QED
    BY <1>1, <1>2

LEMMA LoadMarks ==
    ASSUME TypeInv, FireInv, MarkInv, NEW p \in Callers, Load(p)
    PROVE  MarkInv'
<1>1. UNCHANGED <<disk, now, answered, collided>> /\ at[p] = "load" /\ CopyOf(ctx) /\ OwnInv
    BY DEF Load, CopyOf, MarkInv
<1>2. CASE NothingToWrite(ctx[p].op)
    <2>1. Continue(p, ctx)
        BY <1>2 DEF Load
    <2>2. /\ Moving(After(p), ctx) /\ (Timer \in After(p) => p = Timer)
          /\ p = Timer => Onward \/ Carries
        BY <1>1, <2>1, ContinueMoves
    <2>3. CASE p = Timer /\ Carries
        <3>1. ctx[p].op = "anchor"
            BY <2>3 DEF Carries
        <3>2. disk = None /\ After(p) = {Timer}
            BY <1>2, <2>3, <3>1 DEF NothingToWrite, After
        <3> QED
            BY <1>1, <2>2, <2>3, <3>2, TimerCarries
    <2>4. CASE Timer \in After(p) => Onward
        BY <1>1, <2>2, <2>4, QuietMoves
    <2> QED
        BY <2>2, <2>3, <2>4
<1>3. CASE ~NothingToWrite(ctx[p].op)
    <2> DEFINE t == IF ctx[p].op \in EditOps THEN now ELSE ctx[p].when
    <2>1. Goes(p, "save", [ctx[p] EXCEPT !.snap = disk, !.stale = FALSE, !.when = t], ctx)
        BY <1>3 DEF Load, EditOps
    <2> HIDE DEF t
    <2> QED
        BY <1>1, <2>1, LoadMoves DEF t
<1> QED
    BY <1>2, <1>3

LEMMA SaveMarks ==
    ASSUME TypeInv, FireInv, MarkInv, NEW p \in Callers, Save(p)
    PROVE  MarkInv'
<1> DEFINE S == After(p)
<1>1. /\ at[p] = "save" /\ disk' = Mutated(ctx[p]) /\ collided' = (collided \/ Collides(ctx[p]))
      /\ UNCHANGED <<now, answered>> /\ Continue(p, Outdated(ctx)) /\ OwnInv
    BY DEF Save, MarkInv
<1>2. /\ Moving(S, Outdated(ctx)) /\ (Timer \in S => p = Timer)
      /\ p = Timer => Onward \/ Carries
    BY <1>1, ContinueMoves DEF CopyOf
<1> HIDE DEF S
<1> QED
    BY <1>1, <1>2, SaveMoves

\* Two writes collide: only what does not depend on the file is promised.
LEMMA CollisionMoves ==
    ASSUME TypeInv, MarkInv, collided' = TRUE, UNCHANGED <<now, answered>>,
           NEW S, NEW C, Moving(S, C), Timer \in S => Onward \/ Carries,
           \A q \in Callers :
               /\ C[q].op = ctx[q].op /\ C[q].mark = ctx[q].mark
               /\ at[q] = "save" => C[q].stale
    PROVE  MarkInv'
<1>1. \A q \in Callers : ~FreshCopy(q)'
    BY DEF Moving, FreshCopy
<1>2. \/ Timer \in S /\ (Onward \/ Carries)
      \/ /\ Timer \notin S /\ at'[Timer] = at[Timer] /\ ctx'[Timer].op = ctx[Timer].op
         /\ ctx'[Timer].mark = ctx[Timer].mark
    BY MarkTypes DEF Moving
<1>3. \A q \in Callers : ctx'[q].op = "anchor" => q = Timer
    BY DEF Moving, MarkInv, OwnInv
<1>4. OwnInv'
    BY <1>1, <1>2, <1>3 DEF MarkInv, OwnInv, Onward, Unmarked, Carries, EditOps, Heading
<1> QED
    BY <1>4 DEF MarkInv

LEMMA CollisionMarks ==
    ASSUME TypeInv, FireInv, MarkInv, NEW p \in Callers, Clash(p) \/ Overtaken(p)
    PROVE  MarkInv'
<1>1. UNCHANGED <<now, answered>> /\ collided' = TRUE /\ at[p] = "save" /\ OwnInv
    BY DEF Clash, Overtaken, MarkInv
<1>2. \A q \in Callers :
        /\ Outdated(ctx)[q].op = ctx[q].op /\ Outdated(ctx)[q].mark = ctx[q].mark
        /\ at[q] = "save" => Outdated(ctx)[q].stale
    BY OutdatedFields
<1>3. ASSUME NEW q \in Callers, Continue(p, Taken(Outdated(ctx), q))
      PROVE  MarkInv'
    <2> DEFINE C == Taken(Outdated(ctx), q)
               S == After(p)
    <2>1. /\ Moving(S, C) /\ (Timer \in S => p = Timer)
          /\ p = Timer => Onward \/ Carries
        BY <1>1, <1>3, ContinueMoves DEF CopyOf
    <2>2. \A o \in Callers :
            /\ C[o].op = ctx[o].op /\ C[o].mark = ctx[o].mark
            /\ at[o] = "save" => C[o].stale
        BY <1>2, TakenFields
    <2> HIDE DEF C, S
    <2> QED
        BY <1>1, <2>1, <2>2, CollisionMoves
<1>4. CASE Throw(p, Outdated(ctx))
    <2> DEFINE S == {p}
    <2>1. Moving(S, Outdated(ctx)) /\ (p = Timer => Onward) /\ (Timer \in S => p = Timer)
        BY <1>1, <1>4, ThrowMoves DEF CopyOf
    <2> HIDE DEF S
    <2> QED
        BY <1>1, <1>2, <2>1, CollisionMoves
<1> QED
    BY <1>3, <1>4 DEF Clash, Overtaken

LEMMA FileFailsMarks ==
    ASSUME TypeInv, MarkInv, NEW p \in Callers, FileFails(p)
    PROVE  MarkInv'
<1> DEFINE S == {p}
<1>1. UNCHANGED <<now, answered>> /\ OwnInv
    BY DEF FileFails, MarkInv
<1>2. CASE Throw(p, ctx) /\ UNCHANGED <<disk, collided>>
    <2>1. Moving(S, ctx) /\ (p = Timer => Onward)
        BY <1>1, <1>2, ThrowMoves DEF CopyOf
    <2> HIDE DEF S
    <2> QED
        BY <1>1, <1>2, <2>1, QuietMoves DEF S
<1>3. CASE /\ at[p] = "save" /\ disk' = Mutated(ctx[p])
           /\ collided' = (collided \/ Collides(ctx[p])) /\ Throw(p, Outdated(ctx))
    <2>1. Moving(S, Outdated(ctx)) /\ (p = Timer => Onward)
        BY <1>1, <1>3, ThrowMoves DEF CopyOf
    <2>2. Timer \in S => p = Timer
        OBVIOUS
    <2> HIDE DEF S
    <2> QED
        BY <1>1, <1>3, <2>1, <2>2, SaveMoves
<1> QED
    BY <1>2, <1>3 DEF FileFails

\* Any other caller goes where it neither writes nor moves a mark on.
LEMMA OtherGoes ==
    ASSUME TypeInv, MarkInv, UNCHANGED <<disk, now, answered, collided>>,
           NEW p \in Callers \ {Timer}, NEW place \in Places \ {"save"}, NEW c, c.op # "anchor",
           Goes(p, place, c, ctx)
    PROVE  MarkInv'
<1> DEFINE S == {p}
<1>1. Moving(S, ctx) /\ Timer \notin S
    BY CopyFields, GoesMoves DEF CopyOf
<1> HIDE DEF S
<1> QED
    BY <1>1, QuietMoves

\* The scan goes where it has no mark.
LEMMA TimerGoes ==
    ASSUME TypeInv, MarkInv, UNCHANGED <<disk, now, answered, collided>>,
           NEW place \in Places \ {"save", "current", "busy", "asking"}, NEW c,
           Goes(Timer, place, c, ctx), c.op \notin EditOps \cup {"anchor"}, c.mark = Never,
           place \in {"reconcile", "due"} \/ (place = "load" /\ c.op \in {"patch", "status"})
             => collided \/ Ahead(c.sched.next)
    PROVE  MarkInv'
<1> DEFINE S == {Timer}
<1>1. Moving(S, ctx) /\ Timer \in S /\ at'[Timer] = place /\ ctx'[Timer] = c
    BY MarkTypes, CopyFields, GoesMoves DEF CopyOf
<1> HIDE DEF S
<1>2. Unmarked /\ (Heading' => collided \/ Ahead(ctx'[Timer].sched.next))
    BY <1>1 DEF Unmarked, Heading
<1> QED
    BY <1>1, <1>2, TimerMoves

\* The scan has found the schedule due, or not.
LEMMA GoesOnMarks ==
    ASSUME TypeInv, MarkInv, UNCHANGED <<disk, now, answered, collided>>, Heading,
           at[Timer] \in {"reconcile", "due"}, GoesOn(ctx[Timer])
    PROVE  MarkInv'
<1> DEFINE c == ctx[Timer]
<1>1. CASE Goes(Timer, "idle", Blank, ctx)
    BY <1>1, BlankFacts, TimerGoes DEF Places, EditOps
<1>2. CASE IsDue(c.sched)
    <2> DEFINE w == Writing(c, "anchor", None)
               d == [w EXCEPT !.when = now, !.mark = c.sched.next]
    <2>1. DOMAIN c = Fields /\ ctx = [q \in Callers |-> ctx[q]] /\ Timer \in Callers
        BY CopyFields, MarkTypes DEF CopyOf
    <2>2. DOMAIN w = Fields /\ w.op = "anchor"
        BY <2>1, WritingFacts
    <2>3. Goes(Timer, "load", d, ctx)
        BY <1>2 DEF GoesOn
    <2>4. c.sched.next \in 1..now
        <3>1. IsFile(c.sched)
            BY <2>1 DEF TypeInv, HandInv, Sound
        <3> QED
            BY <1>2, <3>1, MarkTypes DEF IsDue, IsFile, Marks, Never
    <2> HIDE DEF w
    <2>5. d.op = "anchor" /\ d.when = now /\ d.mark = c.sched.next
        BY <2>2 DEF Fields
    <2> HIDE DEF d
    <2>6. at'[Timer] = "load" /\ ctx'[Timer] = d
          /\ \A q \in Callers \ {Timer} : at'[q] = at[q] /\ ctx'[q] = ctx[q]
        BY <2>1, <2>3, GoesTo
    <2>7. \A q \in Callers : FreshCopy(q)' => FreshCopy(q) /\ ctx'[q] = ctx[q]
        BY <2>6 DEF FreshCopy
    <2>8. OwnInv'
        BY <2>4, <2>5, <2>6, <2>7 DEF MarkInv, OwnInv, EditOps, Heading
    <2>9. ~collided => AheadInv'
        BY <2>4, <2>5, <2>6, <2>7, MarkTypes
        DEF MarkInv, AheadInv, Ahead, Past, Heading, Anchoring, Anchored, Never
    <2> QED
        BY <2>8, <2>9 DEF MarkInv
<1> QED
    BY <1>1, <1>2 DEF GoesOn

LEMMA ScanMarks ==
    ASSUME TypeInv, MarkInv, Tick \/ Scan
    PROVE  MarkInv'
<1>1. UNCHANGED <<disk, now, answered, collided>> /\ Timer \in Callers
    BY MarkTypes DEF Tick, Scan, List, Reconcile, Due, Current, still
<1>2. CASE Tick
    BY <1>1, <1>2, BlankFacts, TimerGoes DEF Tick, Places, EditOps
<1>3. CASE List
    <2> DEFINE c == [Blank EXCEPT !.sched = disk]
    <2>1. c.op = "none" /\ c.mark = Never /\ c.sched = disk
        BY DEF Blank
    <2>2. CASE Goes(Timer, "idle", Blank, ctx)
        BY <1>1, <2>2, BlankFacts, TimerGoes DEF Places, EditOps
    <2>3. CASE disk # None /\ Goes(Timer, "reconcile", c, ctx)
        <3> HIDE DEF c
        <3>1. collided \/ Ahead(c.sched.next)
            BY <2>1, <2>3 DEF MarkInv, AheadInv
        <3> QED
            BY <1>1, <2>1, <2>3, <3>1, TimerGoes DEF Places, EditOps
    <2> QED
        BY <1>3, <2>2, <2>3 DEF List
<1>4. CASE Reconcile
    <2> DEFINE c == ctx[Timer]
               s == c.sched
               row == [s.runs[1] EXCEPT !.status = "error"]
               w == Writing(c, "patch", row)
               d == [w EXCEPT !.sched.runs[1] = row]
    <2>1. Heading /\ at[Timer] = "reconcile"
        BY <1>4 DEF Reconcile, Heading
    <2>2. CASE GoesOn(c)
        BY <1>1, <2>1, <2>2, GoesOnMarks
    <2>3. CASE Goes(Timer, "load", d, ctx)
        <3>1. DOMAIN c = Fields /\ c.mark = Never /\ (collided \/ Ahead(s.next)) /\ IsFile(s)
            BY <1>1, <2>1 DEF MarkInv, OwnInv, AheadInv, TypeInv, HandInv, Sound, Typed
        <3>2. DOMAIN w = Fields /\ w.op = "patch" /\ w.mark = Never /\ w.sched = s
            BY <3>1, WritingFacts
        <3> HIDE DEF row, w, c, s
        <3>3. d.op = "patch" /\ d.mark = Never /\ d.sched.next = s.next
            BY <3>1, <3>2 DEF Fields, IsFile
        <3> HIDE DEF d
        <3> QED
            BY <1>1, <2>3, <3>1, <3>3, TimerGoes DEF Places, EditOps
    <2> QED
        BY <1>4, <2>2, <2>3 DEF Reconcile
<1>5. CASE Due
    BY <1>1, <1>5, GoesOnMarks DEF Due, Heading
<1>6. CASE Current
    <2> DEFINE c == ctx[Timer]
               d == [c EXCEPT !.sched = IF disk = None THEN @ ELSE disk]
    <2>1. at[Timer] = "current" /\ Goes(Timer, "busy", d, ctx)
        BY <1>6 DEF Current
    <2>2. DOMAIN c = Fields /\ c.op = "anchor"
        BY <1>1, <2>1, CopyFields DEF MarkInv, OwnInv, CopyOf
    <2>3. d.op = "anchor" /\ d.mark = c.mark
        BY <2>2 DEF Fields
    <2> HIDE DEF d
    <2>4. Moving({Timer}, ctx) /\ at'[Timer] = "busy" /\ ctx'[Timer] = d
        BY <1>1, <2>1, CopyFields, GoesMoves DEF CopyOf, Places
    <2>5. Carries /\ Anchored
        BY <2>1, <2>2, <2>3, <2>4 DEF Carries, Anchored
    <2> QED
        BY <1>1, <2>4, <2>5, TimerCarries
<1> QED
    BY <1>2, <1>3, <1>4, <1>5, <1>6 DEF Scan

\* A caller fires or skips: the scan has answered its mark, which is later than
\* every one before and earlier than the one in the file.
LEMMA AnswerMarks ==
    ASSUME TypeInv, MarkInv, NEW p \in Callers, at[p] \in {"busy", "asking"},
           UNCHANGED <<disk, now, collided>>, Answers(p),
           NEW place \in {"idle", "load"}, NEW c, c.op \in {"none", "skip", "begin"},
           c.mark = Never, Goes(p, place, c, ctx)
    PROVE  MarkInv'
<1>1. CASE p # Timer
    BY <1>1, OtherGoes DEF Answers, Places
<1>2. CASE p = Timer
    <2>1. /\ at'[Timer] = place /\ ctx'[Timer] = c
          /\ \A q \in Callers \ {Timer} : at'[q] = at[q] /\ ctx'[q] = ctx[q]
        BY <1>2, CopyFields, GoesTo DEF CopyOf
    <2>2. \A q \in Callers : FreshCopy(q)' => FreshCopy(q) /\ ctx'[q] = ctx[q]
        BY <2>1 DEF FreshCopy
    <2> DEFINE m == ctx[Timer].mark
    <2>3. answered' = answered \cup {m} /\ m \in 1..now /\ Anchored
        BY <1>2 DEF Answers, MarkInv, OwnInv, Anchored
    <2> HIDE DEF m
    <2>4. OwnInv'
        BY <2>1, <2>2, <2>3 DEF MarkInv, OwnInv, EditOps, Heading
    <2>5. ASSUME ~collided
          PROVE  AheadInv'
        <3>1. AheadInv
            BY <2>5 DEF MarkInv
        <3>2. disk # None => \A n \in answered' : disk.next = Never \/ n < disk.next
            BY <2>3, <3>1 DEF AheadInv, Ahead, Past, m
        <3>3. \A q \in Callers : FreshCopy(q) /\ ctx[q].op \in EditOps /\ disk # None =>
                \A n \in answered' : n <= ctx[q].when
            BY <2>3, <3>1 DEF AheadInv, m
        <3> QED
            BY <2>1, <2>2, <3>2, <3>3 DEF AheadInv, Ahead, Past, Heading, Anchoring, Anchored
    <2> QED
        BY <2>4, <2>5 DEF MarkInv
<1> QED
    BY <1>1, <1>2

LEMMA BusyMarks ==
    ASSUME TypeInv, MarkInv, NEW p \in Callers, Busy(p) \/ Asking(p)
    PROVE  MarkInv'
<1>1. UNCHANGED <<disk, now, collided>> /\ at[p] \in {"busy", "asking"}
    BY DEF Busy, Asking, still
<1>2. CASE Skip(p)
    <2> DEFINE row == [id |-> None, status |-> "skipped", made |-> FALSE]
               w == Writing(Blank, "skip", row)
    <2>1. w.op = "skip" /\ w.mark = Never
        BY BlankFields, BlankFacts, WritingFacts
    <2>2. Goes(p, "load", w, ctx) /\ Answers(p)
        BY <1>2 DEF Skip
    <2> HIDE DEF w
    <2> QED
        BY <1>1, <2>1, <2>2, AnswerMarks
<1>3. CASE Fire(p)
    <2>1. CASE Goes(p, "idle", Blank, ctx)
        BY <1>1, <1>3, <2>1, BlankFacts, AnswerMarks DEF Fire
    <2>2. ASSUME NEW r, Goes(p, "load", Writing(Blank, "begin", NewRow(r)), ctx)
          PROVE  MarkInv'
        <3> DEFINE w == Writing(Blank, "begin", NewRow(r))
        <3>1. w.op = "begin" /\ w.mark = Never
            BY BlankFields, BlankFacts, WritingFacts
        <3> HIDE DEF w
        <3> QED
            BY <1>1, <1>3, <2>2, <3>1, AnswerMarks DEF Fire, w
    <2> QED
        BY <1>3, <2>1, <2>2 DEF Fire, Begins
<1>4. CASE at[p] = "busy" /\ Goes(p, "asking", ctx[p], ctx) /\ UNCHANGED answered
    <2>1. CASE p = Timer
        <3>1. Moving({Timer}, ctx) /\ at'[Timer] = "asking" /\ ctx'[Timer] = ctx[Timer]
            BY <1>4, <2>1, CopyFields, GoesMoves DEF CopyOf, Places
        <3>2. Carries /\ Anchored
            BY <1>4, <2>1, <3>1 DEF MarkInv, OwnInv, Carries, Anchored
        <3> QED
            BY <1>1, <1>4, <3>1, <3>2, TimerCarries
    <2>2. CASE p # Timer
        <3>1. ctx[p].op # "anchor"
            BY <2>2 DEF MarkInv, OwnInv
        <3> QED
            BY <1>1, <1>4, <2>2, <3>1, OtherGoes DEF Places
    <2> QED
        BY <2>1, <2>2
<1> QED
    BY <1>2, <1>3, <1>4 DEF Busy, Asking

LEMMA RequestMarks ==
    ASSUME TypeInv, MarkInv, NEW p \in Manual \cup Editors,
           RunNow(p) \/ Ask(p) \/ \E op \in EditOps : Edit(p, op)
    PROVE  MarkInv'
<1>1. p \in Callers \ {Timer} /\ UNCHANGED <<disk, now, answered, collided>>
    BY CallersApart DEF Callers, RunNow, Ask, Edit, still
<1>2. ASSUME NEW place \in {"ask", "idle"}, Goes(p, place, Blank, ctx)
      PROVE  MarkInv'
    BY <1>1, <1>2, BlankFacts, OtherGoes DEF Places
<1>3. CASE Goes(p, "busy", [Blank EXCEPT !.sched = disk], ctx)
    <2> DEFINE c == [Blank EXCEPT !.sched = disk]
    <2>1. c.op = "none"
        BY DEF Blank
    <2> HIDE DEF c
    <2> QED
        BY <1>1, <1>3, <2>1, OtherGoes DEF Places, c
<1>4. ASSUME NEW op \in EditOps, Goes(p, "load", [Blank EXCEPT !.op = op], ctx)
      PROVE  MarkInv'
    <2> DEFINE c == [Blank EXCEPT !.op = op]
    <2>1. c.op # "anchor"
        BY DEF Blank, EditOps
    <2> HIDE DEF c
    <2> QED
        BY <1>1, <1>4, <2>1, OtherGoes DEF Places, c
<1> QED
    BY <1>2, <1>3, <1>4 DEF RunNow, Ask, Edit

LEMMA WorkMarks ==
    ASSUME TypeInv, MarkInv, NEW r \in Runs, Work(r)
    PROVE  MarkInv'
<1>1. r \in Callers \ {Timer} /\ UNCHANGED <<disk, now, answered, collided>>
    BY CallersApart DEF Callers, Work, Create, StartTurn, EndTurn
<1>2. DOMAIN ctx[r] = Fields /\ ctx[r].op # "anchor"
    BY <1>1, CopyFields DEF CopyOf, MarkInv, OwnInv
<1>3. ASSUME NEW op \in {"finish", "link"}, NEW row, Goes(r, "load", Writing(ctx[r], op, row), ctx)
      PROVE  MarkInv'
    <2> DEFINE w == Writing(ctx[r], op, row)
    <2>1. w.op # "anchor"
        BY <1>2, WritingFacts
    <2> HIDE DEF w
    <2> QED
        BY <1>1, <1>3, <2>1, OtherGoes DEF Places, w
<1>4. CASE Goes(r, "turning", ctx[r], ctx)
    BY <1>1, <1>2, <1>4, OtherGoes DEF Places
<1> QED
    BY <1>3, <1>4 DEF Work, Create, StartTurn, EndTurn, Ends

\* Nobody moves.
LEMMA StillMarks ==
    ASSUME TypeInv, MarkInv, UNCHANGED <<disk, answered, collided, at, ctx>>,
           now' = now \/ now' = now + 1
    PROVE  MarkInv'
<1>1. now \in Nat /\ now' \in Nat /\ now <= now'
    BY MarkTypes
<1>2. OwnInv'
    BY <1>1 DEF MarkInv, OwnInv, Heading, FreshCopy
<1>3. ~collided => AheadInv'
    BY <1>1, MarkTypes DEF MarkInv, AheadInv, Ahead, Past, Heading, Anchoring, Anchored, FreshCopy
<1> QED
    BY <1>2, <1>3 DEF MarkInv

LEMMA DeleteMarks ==
    ASSUME TypeInv, MarkInv, Delete
    PROVE  MarkInv'
<1>1. /\ UNCHANGED <<now, answered, collided, at>>
      /\ disk' = None /\ ctx' = Outdated(ctx)
    BY DEF Delete
<1>2. \A q \in Callers : ~FreshCopy(q)'
    BY <1>1, OutdatedFields DEF FreshCopy
<1>3. \A q \in Callers :
        /\ ctx'[q].op = ctx[q].op /\ ctx'[q].mark = ctx[q].mark
        /\ ctx'[q].sched = ctx[q].sched /\ ctx'[q].when = ctx[q].when
    BY <1>1, OutdatedFields
<1>4. OwnInv'
    BY <1>1, <1>2, <1>3, MarkTypes DEF MarkInv, OwnInv, Heading
<1>5. ~collided => AheadInv'
    BY <1>1, <1>2, <1>3, MarkTypes DEF MarkInv, AheadInv, Ahead, Past, Heading, Anchoring, Anchored
<1> QED
    BY <1>1, <1>4, <1>5 DEF MarkInv

LEMMA CrashMarks ==
    ASSUME TypeInv, MarkInv, Crash
    PROVE  MarkInv'
<1>1. UNCHANGED <<now, answered, collided, disk>>
      /\ \A q \in Callers : at'[q] = "idle" /\ ctx'[q] = Blank
    BY DEF Crash
<1>2. at'[Timer] = "idle" /\ ctx'[Timer] = Blank /\ \A q \in Callers : ~FreshCopy(q)'
    BY <1>1, MarkTypes DEF FreshCopy
<1>3. OwnInv'
    BY <1>1, <1>2, BlankFacts DEF MarkInv, OwnInv, Heading, EditOps
<1>4. ~collided => AheadInv'
    BY <1>1, <1>2, BlankFacts DEF MarkInv, AheadInv, Ahead, Past, Heading, Anchoring, Anchored
<1> QED
    BY <1>1, <1>3, <1>4 DEF MarkInv

LEMMA MarkInvInit == Init => MarkInv
<1> SUFFICES ASSUME Init
             PROVE  MarkInv
    OBVIOUS
<1>1. answered = {} /\ \A q \in Callers : at[q] = "idle" /\ ctx[q] = Blank
    BY DEF Init
<1>2. at[Timer] = "idle" /\ ctx[Timer] = Blank /\ \A q \in Callers : ~FreshCopy(q)
    BY <1>1 DEF FreshCopy, Callers
<1>3. OwnInv
    BY <1>1, <1>2, BlankFacts DEF OwnInv, Heading, EditOps
<1>4. AheadInv
    BY <1>1, <1>2, BlankFacts DEF AheadInv, Ahead, Past, Heading, Anchoring, Anchored
<1> QED
    BY <1>3, <1>4 DEF MarkInv

LEMMA MarkInvStep == TypeInv /\ FireInv /\ MarkInv /\ [Next]_vars => MarkInv'
<1> SUFFICES ASSUME TypeInv, FireInv, MarkInv, [Next]_vars
             PROVE  MarkInv'
    OBVIOUS
<1>1. CASE Tick \/ Scan
    BY <1>1, ScanMarks
<1>2. CASE Clock
    BY <1>2, StillMarks DEF Clock
<1>3. CASE Crash
    BY <1>3, CrashMarks
<1>4. CASE Delete
    BY <1>4, DeleteMarks
<1>5. CASE \/ \E m \in Manual : RunNow(m) \/ Ask(m)
           \/ \E e \in Editors, op \in {"enable", "disable", "keep", "retime"} : Edit(e, op)
    BY <1>5, RequestMarks DEF EditOps
<1>6. ASSUME NEW r \in Runs, Work(r)
      PROVE  MarkInv'
    BY <1>6, WorkMarks
<1>7. ASSUME NEW r \in Runs, OutlivesWork(r) \/ UserTurn(r)
      PROVE  MarkInv'
    BY <1>7, StillMarks DEF OutlivesWork, UserTurn
<1>8. ASSUME NEW p \in Callers, Proceeds(p) \/ Clash(p) \/ FileFails(p)
      PROVE  MarkInv'
    BY <1>8, LoadMarks, SaveMarks, BusyMarks, CollisionMarks, FileFailsMarks DEF Proceeds
<1>9. CASE UNCHANGED vars
    BY <1>9, StillMarks DEF vars
<1> QED
    BY <1>1, <1>2, <1>3, <1>4, <1>5, <1>6, <1>7, <1>8, <1>9 DEF Next

\* The timer answers each mark once, however its scans, the user's edits, failed
\* file calls and restarts interleave, as long as no unlocked write has replaced
\* a file its writer had not read.
THEOREM MarksAnsweredOnce == Spec => MarkAnsweredOnce
<1>1. ASSUME MarkInv
      PROVE  [Answering /\ ~collided => ctx[Timer].mark \notin answered]_vars
    <2> SUFFICES ASSUME ctx[Timer].mark # Never, ~collided, ctx[Timer].mark \in answered
                 PROVE  FALSE
        BY DEF Answering
    <2>1. OwnInv /\ AheadInv
        BY <1>1 DEF MarkInv
    <2>2. Past(ctx[Timer].mark) /\ ctx[Timer].mark \in 1..now
        BY <2>1 DEF OwnInv, AheadInv
    <2>3. ctx[Timer].mark < ctx[Timer].mark
        BY <2>2 DEF Past
    <2> QED
        BY <2>2, <2>3
<1>2. Spec => []TypeInv
    BY TypeStart, TypeKept, PTL DEF Spec
<1> QED
    BY <1>1, <1>2, MarkInvInit, MarkInvStep, FireInvHolds, PTL DEF Spec, MarkAnsweredOnce

=============================================================================
