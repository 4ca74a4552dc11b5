-------------------------- MODULE SessionTurns_proofs --------------------------
(***************************************************************************)
(* Proofs about SessionTurns: for any number of turns, compactions, CLIs   *)
(* and calls, and any number of overflows.                                 *)
(***************************************************************************)
EXTENDS SessionTurns, TLAPS

Waiting(c) == pc[c] \in {"waiting", "streaming"}

\* The map holds the last entry or, once that has settled, none.
TailInv ==
    /\ settled \subseteq 1 .. Len(line)
    /\ tail = 0 => settled = 1 .. Len(line)
    /\ tail # 0 => tail = Len(line) /\ tail \notin settled

\* An entry is chained to the one before it, or all before it have settled.
ChainInv ==
    /\ \A n \in 1 .. Len(line) : line[n] = n - 1 \/ (line[n] = 0 /\ 1 .. (n - 1) \subseteq settled)
    /\ \A n \in settled : 1 .. n \subseteq settled

\* Those in the lock have entries of their own that have not settled.
SpotInv ==
    /\ \A c \in Senders : Waiting(c) => spot[c] \in 1 .. Len(line) /\ spot[c] \notin settled
    /\ \A c, d \in Senders : c # d /\ Waiting(c) /\ Waiting(d) => spot[c] # spot[d]

LineInv == TailInv /\ ChainInv /\ SpotInv /\ RunsInOrder

-----------------------------------------------------------------------------
LEMMA TypeInit == Init => TypeOK
BY Kinds DEF Init, TypeOK, SenderPcs, OpenPcs, CallStates, Senders

LEMMA EnterType == ASSUME TypeOK, NEW c \in Senders, Enter(c)
                   PROVE  /\ line' \in Seq(Nat) /\ spot' \in [Senders -> Nat]
                          /\ tail' \in Nat /\ settled' \subseteq Nat
BY DEF TypeOK, Enter

LEMMA LeaveType == ASSUME TypeOK, NEW c \in Senders, Leave(c)
                   PROVE  /\ line' \in Seq(Nat) /\ spot' \in [Senders -> Nat]
                          /\ tail' \in Nat /\ settled' \subseteq Nat
BY DEF TypeOK, Leave

LEMMA WithdrawnType == ASSUME TypeOK, NEW ts
                       PROVE  Withdrawn(ts) \in [Calls -> CallStates]
BY DEF TypeOK, Withdrawn, CallStates

LEMMA TypeStep == TypeOK /\ [Next]_vars => TypeOK'
<1> SUFFICES ASSUME TypeOK, [Next]_vars PROVE TypeOK'
  OBVIOUS
<1> USE DEF TypeOK, SenderPcs, OpenPcs, Senders
<1>1. ASSUME NEW c \in Senders, Begin(c) \/ Refuse(c) \/ NoStream(c) \/ Stream(c) PROVE TypeOK'
  BY <1>1 DEF Begin, Refuse, NoStream, Stream, Move, turnVars, lockVars
<1>2. ASSUME NEW c \in Senders, Queue(c) PROVE TypeOK'
  BY <1>2, EnterType DEF Queue, Move, turnVars
<1>3. ASSUME NEW t \in Turns, Register(t) PROVE TypeOK'
  BY <1>3 DEF Register, Move, lockVars
<1>4. ASSUME NEW t \in Turns, Overflow(t) \/ Recovered(t) PROVE TypeOK'
  BY <1>4, LeaveType DEF Overflow, Recovered, Move
<1>5. ASSUME NEW t \in Turns, EndStream(t) PROVE TypeOK'
  BY <1>5, LeaveType DEF EndStream, Move, turnVars
<1>6. ASSUME NEW t \in Turns, Finish(t) PROVE TypeOK'
  BY <1>6, WithdrawnType DEF Finish, Move, lockVars
<1>7. ASSUME NEW r \in Calls, CallTool(r) \/ Gate(r) \/ Answer(r) PROVE TypeOK'
  BY <1>7 DEF CallTool, Gate, Answer, CallStates, lockVars
<1>8. CASE Stop
  BY <1>8, WithdrawnType DEF Stop, lockVars
<1>9. ASSUME NEW c \in Compactions, RegisterCompaction(c) \/ FinishCompaction(c) PROVE TypeOK'
  BY <1>9 DEF RegisterCompaction, FinishCompaction, Move, lockVars
<1>10. ASSUME NEW c \in Compactions, EndCompaction(c) PROVE TypeOK'
  BY <1>10, LeaveType DEF EndCompaction, Move, turnVars
<1>11. ASSUME NEW o \in Opens, OpenCheck(o) \/ FindLink(o) \/ SpawnFails(o) \/ Attach(o) \/ Exit(o)
       PROVE TypeOK'
  BY <1>11 DEF OpenCheck, FindLink, SpawnFails, Attach, Exit, Move, turnVars, lockVars
<1>12. CASE UNCHANGED vars
  BY <1>12 DEF vars, turnVars, lockVars
<1> QED
  BY <1>1, <1>2, <1>3, <1>4, <1>5, <1>6, <1>7, <1>8, <1>9, <1>10, <1>11, <1>12
  DEF Next, SystemStep, TurnStep, CompactionStep, OpenStep

(***************************************************************************)
(* Type correctness, for any number of callers.                            *)
(***************************************************************************)
THEOREM TurnTypeCorrect == Spec => []TypeOK
BY TypeInit, TypeStep, PTL DEF Spec

-----------------------------------------------------------------------------
LEMMA DriverInit == Init => OneDriver
BY DEF Init, OneDriver

LEMMA DriverStep == TypeOK /\ OneDriver /\ [Next]_vars => OneDriver'
<1> SUFFICES ASSUME TypeOK, OneDriver, [Next]_vars PROVE OneDriver'
  OBVIOUS
<1> USE Apart DEF TypeOK, OneDriver, Senders
<1>1. ASSUME NEW c \in Senders, Begin(c) \/ Refuse(c) \/ NoStream(c) \/ Stream(c) \/ Queue(c)
      PROVE OneDriver'
  BY <1>1 DEF Begin, Refuse, NoStream, Stream, Queue, Move, turnVars
<1>2. ASSUME NEW t \in Turns, Register(t) PROVE OneDriver'
  BY <1>2 DEF Register, Move
<1>3. ASSUME NEW t \in Turns, Overflow(t) \/ Recovered(t) \/ EndStream(t) \/ Finish(t) PROVE OneDriver'
  BY <1>3 DEF Overflow, Recovered, EndStream, Finish, Move, turnVars
<1>4. ASSUME NEW r \in Calls, CallTool(r) \/ Gate(r) \/ Answer(r) PROVE OneDriver'
  BY <1>4 DEF CallTool, Gate, Answer
<1>5. CASE Stop
  BY <1>5 DEF Stop
<1>6. ASSUME NEW c \in Compactions,
             RegisterCompaction(c) \/ EndCompaction(c) \/ FinishCompaction(c)
      PROVE OneDriver'
  BY <1>6 DEF RegisterCompaction, EndCompaction, FinishCompaction, Move, turnVars
<1>7. ASSUME NEW o \in Opens, OpenCheck(o) \/ FindLink(o) \/ SpawnFails(o) \/ Attach(o) \/ Exit(o)
      PROVE OneDriver'
  BY <1>7 DEF OpenCheck, FindLink, SpawnFails, Attach, Exit, Move, turnVars
<1>8. CASE UNCHANGED vars
  BY <1>8 DEF vars, turnVars
<1> QED
  BY <1>1, <1>2, <1>3, <1>4, <1>5, <1>6, <1>7, <1>8
  DEF Next, SystemStep, TurnStep, CompactionStep, OpenStep

(***************************************************************************)
(* A turn and an attached CLI never drive the session together, however    *)
(* many of each are begun: the two looks at the link and the two looks at  *)
(* the registry suffice.                                                   *)
(***************************************************************************)
THEOREM DriverIsAlone == Spec => []OneDriver
<1>1. Init => TypeOK /\ OneDriver
  BY TypeInit, DriverInit
<1>2. TypeOK /\ OneDriver /\ [Next]_vars => (TypeOK /\ OneDriver)'
  BY TypeStep, DriverStep
<1> QED
  BY <1>1, <1>2, PTL DEF Spec

-----------------------------------------------------------------------------
LEMMA CardInit == Init => CardsWithdrawn
BY DEF Init, CardsWithdrawn

LEMMA CardStep == TypeOK /\ CardsWithdrawn /\ [Next]_vars => CardsWithdrawn'
<1> SUFFICES ASSUME TypeOK, CardsWithdrawn, [Next]_vars PROVE CardsWithdrawn'
  OBVIOUS
<1> USE Apart, Kinds DEF TypeOK, CardsWithdrawn, Senders
<1>1. ASSUME NEW c \in Senders, Begin(c) \/ Refuse(c) \/ NoStream(c) \/ Stream(c) \/ Queue(c)
      PROVE CardsWithdrawn'
  BY <1>1 DEF Begin, Refuse, NoStream, Stream, Queue, turnVars
<1>2. ASSUME NEW t \in Turns, Register(t) \/ Overflow(t) \/ Recovered(t) \/ EndStream(t)
      PROVE CardsWithdrawn'
  BY <1>2 DEF Register, Overflow, Recovered, EndStream, turnVars
<1>3. ASSUME NEW t \in Turns, Finish(t) PROVE CardsWithdrawn'
  BY <1>3 DEF Finish, Withdrawn
<1>4. ASSUME NEW r \in Calls, CallTool(r) \/ Gate(r) \/ Answer(r) PROVE CardsWithdrawn'
  BY <1>4 DEF CallTool, Gate, Answer
<1>5. CASE Stop
  BY <1>5 DEF Stop, Withdrawn
<1>6. ASSUME NEW c \in Compactions,
             RegisterCompaction(c) \/ EndCompaction(c) \/ FinishCompaction(c)
      PROVE CardsWithdrawn'
  BY <1>6 DEF RegisterCompaction, EndCompaction, FinishCompaction, turnVars
<1>7. ASSUME NEW o \in Opens, OpenCheck(o) \/ FindLink(o) \/ SpawnFails(o) \/ Attach(o) \/ Exit(o)
      PROVE CardsWithdrawn'
  BY <1>7 DEF OpenCheck, FindLink, SpawnFails, Attach, Exit, turnVars
<1>8. CASE UNCHANGED vars
  BY <1>8 DEF vars, turnVars
<1> QED
  BY <1>1, <1>2, <1>3, <1>4, <1>5, <1>6, <1>7, <1>8
  DEF Next, SystemStep, TurnStep, CompactionStep, OpenStep

(***************************************************************************)
(* A card that was shown in time asks for a turn that runs and has not     *)
(* been stopped.                                                           *)
(***************************************************************************)
THEOREM CardsAreWithdrawn == Spec => []CardsWithdrawn
<1>1. Init => TypeOK /\ CardsWithdrawn
  BY TypeInit, CardInit
<1>2. TypeOK /\ CardsWithdrawn /\ [Next]_vars => (TypeOK /\ CardsWithdrawn)'
  BY TypeStep, CardStep
<1> QED
  BY <1>1, <1>2, PTL DEF Spec

-----------------------------------------------------------------------------
LEMMA LineInit == Init => LineInv
BY DEF Init, LineInv, TailInv, ChainInv, SpotInv, RunsInOrder, Waiting, Senders

\* A sender that neither enters nor leaves the lock disturbs nothing.
LEMMA LineKept ==
    ASSUME TypeOK, LineInv, UNCHANGED lockVars,
           \A c \in Senders : pc'[c] = pc[c] \/ pc'[c] \notin {"waiting", "streaming"}
    PROVE  LineInv'
BY DEF LineInv, TailInv, ChainInv, SpotInv, RunsInOrder, Waiting, lockVars

\* Whoever runs the lock next runs after all before it.
LEMMA LineStream == ASSUME TypeOK, LineInv, NEW c \in Senders, Stream(c) PROVE LineInv'
<1> USE DEF TypeOK
<1>1. 1 .. (spot[c] - 1) \subseteq settled
  BY DEF Stream, Move, LineInv, ChainInv, SpotInv, Waiting
<1>2. TailInv' /\ ChainInv'
  BY DEF Stream, lockVars, LineInv, TailInv, ChainInv
<1>3. SpotInv'
  BY DEF Stream, Move, lockVars, LineInv, SpotInv, Waiting, Senders
<1>4. RunsInOrder'
  BY <1>1 DEF Stream, Move, lockVars, LineInv, RunsInOrder, Senders
<1> QED
  BY <1>2, <1>3, <1>4 DEF LineInv

LEMMA LineEnter ==
    ASSUME TypeOK, LineInv, NEW c \in Senders, Move(c, "ready", "waiting"), Enter(c)
    PROVE  LineInv'
<1> USE DEF TypeOK
<1>1. Len(line) \in Nat /\ Len(line') = Len(line) + 1
      /\ \A n \in 1 .. Len(line) : line'[n] = line[n]
      /\ line'[Len(line) + 1] = tail
  BY DEF Enter
<1>2. TailInv'
  BY <1>1 DEF Enter, LineInv, TailInv
<1>3. ChainInv'
  BY <1>1 DEF Enter, LineInv, TailInv, ChainInv
<1>4. SpotInv'
  BY <1>1 DEF Enter, Move, LineInv, TailInv, SpotInv, Waiting, Senders
<1>5. RunsInOrder'
  BY <1>1 DEF Enter, Move, LineInv, RunsInOrder, Senders
<1> QED
  BY <1>2, <1>3, <1>4, <1>5 DEF LineInv

LEMMA LineLeave ==
    ASSUME TypeOK, LineInv, NEW c \in Senders, NEW to \in {"ready", "saving"},
           Move(c, "streaming", to), Leave(c)
    PROVE  LineInv'
<1> USE DEF TypeOK
<1>1. /\ spot[c] \in 1 .. Len(line) /\ spot[c] \notin settled
      /\ 1 .. (spot[c] - 1) \subseteq settled
  BY DEF Move, LineInv, SpotInv, RunsInOrder, Waiting
<1>2. Len(line) \in Nat
  OBVIOUS
<1>3. TailInv'
  <2>1. /\ settled' = settled \cup {spot[c]} /\ line' = line
        /\ tail' = IF tail = spot[c] THEN 0 ELSE tail
    BY DEF Leave
  <2>2. TailInv
    BY DEF LineInv
  <2>3. settled' \subseteq 1 .. Len(line)
    BY <1>1, <2>1, <2>2 DEF TailInv
  <2>4. tail # 0
    BY <1>1, <2>2 DEF TailInv
  <2>5. CASE tail = spot[c]
    <3>1. settled' = 1 .. Len(line)
      <4>1. spot[c] = Len(line)
        BY <2>2, <2>4, <2>5 DEF TailInv
      <4>2. \A n \in 1 .. Len(line) : n = spot[c] \/ n \in 1 .. (spot[c] - 1)
        BY <1>2, <4>1
      <4> QED
        BY <1>1, <2>1, <2>3, <4>2
    <3> QED
      BY <2>1, <2>5, <3>1 DEF TailInv
  <2>6. CASE tail # spot[c]
    BY <2>1, <2>2, <2>3, <2>4, <2>6 DEF TailInv
  <2> QED
    BY <2>5, <2>6
<1>4. ChainInv'
  <2>1. settled' = settled \cup {spot[c]} /\ line' = line
    BY DEF Leave
  <2>2. \A n \in settled' : 1 .. n \subseteq settled'
    <3>1. 1 .. spot[c] \subseteq settled'
      BY <1>1, <1>2, <2>1
    <3> QED
      BY <2>1, <3>1 DEF LineInv, ChainInv
  <2> QED
    BY <2>1, <2>2 DEF LineInv, ChainInv
<1>5. SpotInv'
  BY <1>1 DEF Leave, Move, LineInv, SpotInv, Waiting, Senders
<1>6. RunsInOrder'
  BY <1>1 DEF Leave, Move, LineInv, RunsInOrder, Senders
<1> QED
  BY <1>3, <1>4, <1>5, <1>6 DEF LineInv

LEMMA LineStep == TypeOK /\ LineInv /\ [Next]_vars => LineInv'
<1> SUFFICES ASSUME TypeOK, LineInv, [Next]_vars PROVE LineInv'
  OBVIOUS
<1> USE Apart DEF Senders
<1>1. ASSUME NEW c \in Senders, Begin(c) \/ Refuse(c) \/ NoStream(c) PROVE LineInv'
  BY <1>1, LineKept DEF Begin, Refuse, NoStream, Move, lockVars, TypeOK
<1>2. ASSUME NEW c \in Senders, Queue(c) PROVE LineInv'
  BY <1>2, LineEnter DEF Queue
<1>3. ASSUME NEW c \in Senders, Stream(c) PROVE LineInv'
  BY <1>3, LineStream
<1>4. ASSUME NEW t \in Turns, Register(t) \/ Finish(t) PROVE LineInv'
  BY <1>4, LineKept DEF Register, Finish, Move, lockVars, TypeOK
<1>5. ASSUME NEW t \in Turns, Overflow(t) \/ Recovered(t) \/ EndStream(t) PROVE LineInv'
  BY <1>5, LineLeave DEF Overflow, Recovered, EndStream
<1>6. ASSUME NEW r \in Calls, CallTool(r) \/ Gate(r) \/ Answer(r) PROVE LineInv'
  BY <1>6, LineKept DEF CallTool, Gate, Answer
<1>7. CASE Stop
  BY <1>7, LineKept DEF Stop
<1>8. ASSUME NEW c \in Compactions, RegisterCompaction(c) \/ FinishCompaction(c) PROVE LineInv'
  BY <1>8, LineKept DEF RegisterCompaction, FinishCompaction, Move, lockVars, TypeOK
<1>9. ASSUME NEW c \in Compactions, EndCompaction(c) PROVE LineInv'
  BY <1>9, LineLeave DEF EndCompaction
<1>10. ASSUME NEW o \in Opens, OpenCheck(o) \/ FindLink(o) \/ SpawnFails(o) \/ Attach(o) \/ Exit(o)
       PROVE LineInv'
  BY <1>10, LineKept DEF OpenCheck, FindLink, SpawnFails, Attach, Exit, Move, lockVars, TypeOK
<1>11. CASE UNCHANGED vars
  BY <1>11, LineKept DEF vars, lockVars
<1> QED
  BY <1>1, <1>2, <1>3, <1>4, <1>5, <1>6, <1>7, <1>8, <1>9, <1>10, <1>11
  DEF Next, SystemStep, TurnStep, CompactionStep, OpenStep

(***************************************************************************)
(* The chain of promises of withSessionLock runs the streams of a session  *)
(* one at a time and in the order of their calls, for any number of them:  *)
(* the map forgets the session only when the last entry has settled.       *)
(***************************************************************************)
THEOREM StreamsInOrder == Spec => []RunsInOrder
<1>1. Init => TypeOK /\ LineInv
  BY TypeInit, LineInit
<1>2. TypeOK /\ LineInv /\ [Next]_vars => (TypeOK /\ LineInv)'
  BY TypeStep, LineStep
<1>3. LineInv => RunsInOrder
  BY DEF LineInv
<1> QED
  BY <1>1, <1>2, <1>3, PTL DEF Spec

=============================================================================
