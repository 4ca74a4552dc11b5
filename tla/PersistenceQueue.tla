--------------------------- MODULE PersistenceQueue ----------------------------
(***************************************************************************)
(* How one session reaches its file: the managed copy that the session     *)
(* manager keeps in memory (sessions/session-manager.ts) and the debounced *)
(* per-session queue that writes it (sessions/persistence-queue.ts).  All  *)
(* maps of the queue are keyed by session and no operation relates two     *)
(* keys, so the module follows one session.                                *)
(*                                                                         *)
(* A snapshot is a record: rev numbers the local changes, title stands for *)
(* the metadata of the header that another window may edit in the file     *)
(* (the fields of HeaderMetadataSignature that the merge takes from disk), *)
(* body counts the messages, one for a turn, and cut is the change that    *)
(* last truncated them.  Changes are numbered by edits in the order they   *)
(* are made, whoever makes them.                                           *)
(*                                                                         *)
(* A session that runs on the Claude CLI may leave its messages to the     *)
(* CLI's own transcript (transcriptSource = 'sdk'): sdk says that the      *)
(* snapshot is such a pointer, and root is the change after which the CLI  *)
(* transcript that it names was started.                                   *)
(***************************************************************************)
EXTENDS Integers

CONSTANTS
    Flushes,        \* calls of flush(id) that may be open at once
    None,           \* no value
    MaxEdits,       \* bound: changes made to the session
    MaxExternal,    \* bound: changes made by another window
    MaxFaults,      \* bound: file operations that fail
    MaxCrashes,     \* bound: deaths of the sidecar
    MaxLosses       \* bound: CLI transcripts that are lost or cannot be read

ASSUME NoneIsNoFlush == None \notin Flushes
ASSUME BoundsAreNat == MaxEdits \in Nat /\ MaxExternal \in Nat /\ MaxFaults \in Nat /\ MaxCrashes \in Nat
                       /\ MaxLosses \in Nat

VARIABLES
    managed,            \* the session in the manager's map
    loaded,             \* messagesLoaded: its messages are in memory
    pending,            \* the snapshot in the queue
    armed,              \* its debounce timer is running
    writeInProgress,    \* the flush that the next one chains after
    prior,              \* flush -> the flush it waits for
    pc,                 \* flush -> where it is
    data,               \* flush -> the snapshot it took
    signature,          \* lastWrittenHeaderSignature
    disk, tmp,          \* session.jsonl and session.jsonl.tmp
    folder,             \* the session's folder exists
    cli,                \* root -> the messages that the CLI transcript holds, 0 without one
    cutting,            \* a truncation of a pointer session is between its two steps
    deleting,           \* deleteSession awaits its rm
    edits, externals, faults, crashes, losses,  \* counters
    asked,              \* flush -> the latest change when it was called
    acked,              \* the latest change that a flush which returned had been asked for
    lost,               \* the latest change that a failed write carried or a failed read refused
    deleted,            \* the session was ever deleted
    spoilt              \* the cuts after which a CLI transcript was removed or read as empty

queueVars == <<pending, armed, writeInProgress, prior, pc, data, signature>>
fileVars == <<disk, tmp, folder>>
cliVars == <<cli, cutting, losses, spoilt>>
countVars == <<edits, externals, faults, crashes>>
ghostVars == <<asked, acked, lost, deleted>>
vars == <<managed, loaded, queueVars, fileVars, deleting, cliVars, countVars, ghostVars>>

Later(m, n) == IF m > n THEN m ELSE n

\* A transcript is started after a change, or with the session.
Roots == 0..MaxEdits
Snapshot == [rev : Nat, title : Nat, body : Nat, cut : Nat, root : Roots, sdk : BOOLEAN]
ASSUME NoneIsNoSnapshot == None \notin Snapshot
Pcs == {"out", "chained", "making", "writing", "renaming"}
Writing(f) == pc[f] \in {"making", "writing", "renaming"}

TypeOK ==
    /\ managed \in Snapshot \cup {None} /\ loaded \in BOOLEAN
    /\ pending \in Snapshot \cup {None} /\ armed \in BOOLEAN
    /\ writeInProgress \in Flushes \cup {None}
    /\ prior \in [Flushes -> Flushes \cup {None}] /\ pc \in [Flushes -> Pcs]
    /\ data \in [Flushes -> Snapshot \cup {None}]
    /\ \A f \in Flushes : Writing(f) => data[f] \in Snapshot
    /\ signature \in Nat \cup {None}
    /\ disk \in Snapshot \cup {None} /\ tmp \in Snapshot \cup {None}
    /\ folder \in BOOLEAN /\ deleting \in BOOLEAN /\ deleted \in BOOLEAN
    /\ cli \in [Roots -> Nat] /\ cutting \in BOOLEAN /\ losses \in Nat /\ spoilt \subseteq Nat
    /\ edits \in Nat /\ externals \in Nat /\ faults \in Nat /\ crashes \in Nat
    /\ asked \in [Flushes -> Nat] /\ acked \in Nat /\ lost \in Nat

Init ==
    /\ managed = None /\ loaded = FALSE /\ pending = None /\ armed = FALSE
    /\ writeInProgress = None /\ prior = [f \in Flushes |-> None]
    /\ pc = [f \in Flushes |-> "out"] /\ data = [f \in Flushes |-> None]
    /\ signature = None /\ disk = None /\ tmp = None /\ folder = FALSE
    /\ deleting = FALSE /\ deleted = FALSE
    /\ cli = [r \in Roots |-> 0] /\ cutting = FALSE /\ losses = 0 /\ spoilt = {}
    /\ edits = 0 /\ externals = 0 /\ faults = 0 /\ crashes = 0
    /\ asked = [f \in Flushes |-> 0] /\ acked = 0 /\ lost = 0

-----------------------------------------------------------------------------
\* The manager's operations.

\* The messages are read from the CLI transcript that the session points at.
FromCli(s) == s.sdk /\ cli[s.root] > 0

\* readManagedMessages: how many messages a load of the session finds, in the
\* CLI transcript or, without one, in the session's file.
Stored(s) ==
    IF FromCli(s) THEN cli[s.root] ELSE IF disk = None THEN 0 ELSE disk.body

\* The cold guard of persistSession: messages that were never loaded are read,
\* in the same synchronous stretch as the enqueue.
Hydrated == IF loaded THEN managed ELSE [managed EXCEPT !.body = Stored(managed)]

\* Fault: a snapshot that is already queued is kept.
EnqueueFirst(s) ==
    /\ pending' = IF pending = None THEN s ELSE pending
    /\ armed' = TRUE

\* A snapshot replaces the queued one and the timer starts again.
Enqueue(s) == pending' = s /\ armed' = TRUE

\* persistSession, after the manager changed the session to s.
Persist(s) ==
    /\ edits < MaxEdits /\ edits' = edits + 1
    /\ managed' = s /\ loaded' = TRUE
    /\ Enqueue(s)
    /\ UNCHANGED <<signature, data, fileVars, deleting, externals, faults, crashes,
                   acked, lost, deleted>>

\* Fault: a flush starts at once.
FlushUnchained(f, rev) ==
    /\ pc[f] = "out"
    /\ pc' = [pc EXCEPT ![f] = "chained"]
    /\ prior' = [prior EXCEPT ![f] = None]
    /\ writeInProgress' = f
    /\ asked' = [asked EXCEPT ![f] = rev]

\* flush(id): chained after the write in progress.
Flush(f, rev) ==
    /\ pc[f] = "out"
    /\ pc' = [pc EXCEPT ![f] = "chained"]
    /\ prior' = [prior EXCEPT ![f] = writeInProgress]
    /\ writeInProgress' = f
    /\ asked' = [asked EXCEPT ![f] = rev]

NoFlush == UNCHANGED <<pc, prior, writeInProgress, asked>>

Create(f) ==
    /\ edits = 0
    /\ Persist([rev |-> 1, title |-> 1, body |-> 0, cut |-> 0, root |-> 0, sdk |-> FALSE])
    /\ Flush(f, 1)
    /\ UNCHANGED cliVars

\* A turn's message.  If the turn runs on the CLI, its transcript, which goes on
\* from what it holds, gets the message too; it is counted as one of the
\* session's only if the transcript holds all before it.
AppendMessage ==
    /\ managed # None
    /\ Persist([Hydrated EXCEPT !.rev = edits + 1, !.body = @ + 1])
    /\ NoFlush
    /\ \/ UNCHANGED cli
       \/ /\ cli[managed.root] = Hydrated.body
          /\ cli' = [cli EXCEPT ![managed.root] = @ + 1]
    /\ UNCHANGED <<cutting, losses, spoilt>>

UpdateMetadata ==
    /\ managed # None
    /\ Persist([Hydrated EXCEPT !.rev = edits + 1, !.title = edits + 1])
    /\ NoFlush
    /\ UNCHANGED cliVars

\* Fault: any CLI transcript will do.
PointAtAny ==
    /\ managed # None /\ loaded /\ ~managed.sdk
    /\ cli[managed.root] > 0
    /\ Persist([managed EXCEPT !.rev = edits + 1, !.sdk = TRUE])
    /\ NoFlush
    /\ UNCHANGED cliVars

\* The end of a turn on the CLI, which has loaded the session: once the CLI
\* transcript covers the messages, the session points at it.
PointAtCli ==
    /\ managed # None /\ loaded /\ ~managed.sdk
    /\ cli[managed.root] > 0 /\ cli[managed.root] >= managed.body
    /\ Persist([managed EXCEPT !.rev = edits + 1, !.sdk = TRUE])
    /\ NoFlush
    /\ UNCHANGED cliVars

\* setArchived, setInfra, setSessionAgent and the like flush before they return.
SetMetadata(f) ==
    /\ managed # None
    /\ Persist([Hydrated EXCEPT !.rev = edits + 1, !.title = edits + 1])
    /\ Flush(f, edits + 1)
    /\ UNCHANGED cliVars

\* clearSdkTranscript at the end of a turn that ran elsewhere, and compactSession:
\* the messages come back to the file, and the next CLI transcript is a new one.
ClearPointer(f) ==
    /\ managed # None /\ loaded
    /\ Persist([managed EXCEPT !.rev = edits + 1, !.root = edits + 1, !.sdk = FALSE])
    /\ Flush(f, edits + 1)
    /\ UNCHANGED cliVars

\* sessions.truncate loads the session and removes its CLI transcript first.
RemoveSdkSession ==
    /\ managed # None /\ managed.sdk /\ ~cutting
    /\ cutting' = TRUE
    /\ managed' = Hydrated /\ loaded' = TRUE
    /\ cli' = [cli EXCEPT ![managed.root] = 0]
    /\ spoilt' = spoilt \cup {managed.cut}
    /\ UNCHANGED <<queueVars, fileVars, deleting, losses, countVars, ghostVars>>

\* truncateSession through saveSession: the first k messages stay.
Truncate(f) ==
    /\ managed # None
    /\ cutting \/ ~managed.sdk
    /\ cutting' = FALSE
    /\ \E k \in 0..Hydrated.body :
         Persist([Hydrated EXCEPT !.rev = edits + 1, !.body = k, !.cut = edits + 1,
                                  !.root = edits + 1, !.sdk = FALSE])
    /\ Flush(f, edits + 1)
    /\ UNCHANGED <<cli, losses, spoilt>>

\* getSession loads the messages on first access.  A CLI transcript that cannot
\* be read gives none.
Load ==
    /\ managed # None /\ ~loaded /\ loaded' = TRUE
    /\ \/ /\ managed' = Hydrated
          /\ UNCHANGED <<losses, spoilt>>
       \/ /\ FromCli(managed) /\ losses < MaxLosses
          /\ managed' = [managed EXCEPT !.body = 0]
          /\ losses' = losses + 1 /\ spoilt' = spoilt \cup {managed.cut}
    /\ UNCHANGED <<queueVars, fileVars, deleting, cli, cutting, countVars, ghostVars>>

\* The cold guard's read of the file throws: a setter has changed the header in
\* memory, and nothing is queued.
ColdReadFails ==
    /\ managed # None /\ ~loaded /\ ~FromCli(managed)
    /\ edits < MaxEdits /\ edits' = edits + 1
    /\ faults < MaxFaults /\ faults' = faults + 1
    /\ managed' = [managed EXCEPT !.rev = edits + 1, !.title = edits + 1]
    /\ lost' = Later(lost, edits + 1)
    /\ UNCHANGED <<loaded, queueVars, fileVars, deleting, cliVars, externals, crashes,
                   asked, acked, deleted>>

Rev(s) == IF s = None THEN 0 ELSE s.rev

\* The debounce timer fires.
Timer(f) ==
    /\ armed /\ armed' = FALSE
    /\ Flush(f, Rev(managed))
    /\ UNCHANGED <<managed, loaded, pending, data, signature, fileVars, deleting, cliVars,
                   countVars, acked, lost, deleted>>

\* flush on closing or switching a session and flushAll on quit; with nothing
\* queued and nothing in progress it would do nothing.
FlushNow(f) ==
    /\ pending # None \/ writeInProgress # None
    /\ Flush(f, Rev(managed))
    /\ UNCHANGED <<managed, loaded, pending, armed, data, signature, fileVars, deleting,
                   cliVars, countVars, acked, lost, deleted>>

\* deleteSession up to its await: the queue forgets the session.
Delete ==
    /\ managed # None /\ ~deleting
    /\ pending' = None /\ armed' = FALSE /\ signature' = None
    /\ deleting' = TRUE /\ deleted' = TRUE
    /\ UNCHANGED <<managed, loaded, writeInProgress, prior, pc, data, fileVars, cliVars,
                   countVars, asked, acked, lost>>

\* The rm ends, or fails and is logged; the session leaves the map either way.
Removed ==
    /\ deleting /\ deleting' = FALSE
    /\ managed' = None /\ loaded' = FALSE /\ cutting' = FALSE
    /\ \/ disk' = None /\ tmp' = None /\ folder' = FALSE /\ UNCHANGED faults
       \/ /\ faults < MaxFaults /\ faults' = faults + 1
          /\ UNCHANGED fileVars
    /\ UNCHANGED <<queueVars, cli, losses, spoilt, edits, externals, crashes, ghostVars>>
-----------------------------------------------------------------------------
\* writePending, run by one flush.

\* The run settles: the flush chained after it starts, its caller resumes, and
\* the map forgets it if no later flush took its place.
Settle(f) ==
    /\ pc' = [pc EXCEPT ![f] = "out"]
    /\ data' = [data EXCEPT ![f] = None]
    /\ prior' = [g \in Flushes |-> IF prior[g] = f THEN None ELSE prior[g]]
    /\ writeInProgress' = IF writeInProgress = f THEN None ELSE writeInProgress
    /\ acked' = Later(acked, asked[f])
    /\ asked' = [asked EXCEPT ![f] = 0]

\* The queued snapshot is taken, and forgotten by the queue, before it is written.
Take(f) ==
    /\ pc[f] = "chained" /\ prior[f] = None
    /\ IF pending = None
       THEN Settle(f) /\ UNCHANGED <<pending, armed>>
       ELSE /\ data' = [data EXCEPT ![f] = pending]
            /\ pending' = None /\ armed' = FALSE
            /\ pc' = [pc EXCEPT ![f] = "making"]
            /\ UNCHANGED <<prior, writeInProgress, asked, acked>>
    /\ UNCHANGED <<managed, loaded, signature, fileVars, deleting, cliVars, countVars,
                   lost, deleted>>

\* The file was edited by somebody else since this process last wrote it.
HasExternalChange == disk # None /\ signature # None /\ disk.title # signature

\* mergeHeaderWithExternalMetadata.
Merged(s) == IF HasExternalChange THEN [s EXCEPT !.title = disk.title] ELSE s

\* The folder is there; the header is read, merged and signed in one stretch.
Prepare(f) ==
    /\ pc[f] = "making"
    /\ folder' = TRUE
    /\ data' = [data EXCEPT ![f] = Merged(@)]
    /\ signature' = Merged(data[f]).title
    /\ pc' = [pc EXCEPT ![f] = "writing"]
    /\ UNCHANGED <<managed, loaded, pending, armed, writeInProgress, prior, disk, tmp, deleting,
                   cliVars, countVars, ghostVars>>

\* A pointer session is written as its header line only.
Written(s) == IF s.sdk THEN [s EXCEPT !.body = 0] ELSE s

WriteTmp(f) ==
    /\ pc[f] = "writing" /\ folder
    /\ tmp' = Written(data[f])
    /\ pc' = [pc EXCEPT ![f] = "renaming"]
    /\ UNCHANGED <<managed, loaded, pending, armed, writeInProgress, prior, data, signature,
                   disk, folder, deleting, cliVars, countVars, ghostVars>>

\* Fault: the queue forgets the session after the write, and not before it.
RenameAndForget(f) ==
    /\ pc[f] = "renaming" /\ tmp # None
    /\ disk' = tmp /\ tmp' = None
    /\ pending' = None /\ armed' = FALSE
    /\ Settle(f)
    /\ UNCHANGED <<managed, loaded, signature, folder, deleting, cliVars, countVars, lost, deleted>>

\* The rename replaces the file at once, as on POSIX.
Rename(f) ==
    /\ pc[f] = "renaming" /\ tmp # None
    /\ disk' = tmp /\ tmp' = None
    /\ Settle(f)
    /\ UNCHANGED <<managed, loaded, pending, armed, signature, folder, deleting, cliVars,
                   countVars, lost, deleted>>

\* The folder or the .tmp was removed under the write.
Gone(f) == (pc[f] = "writing" /\ ~folder) \/ (pc[f] = "renaming" /\ tmp = None)

\* mkdir, writeFile or rename rejects: the error is logged and the snapshot is
\* gone, while its signature may have been recorded.
Fail(f) ==
    /\ pc[f] \in {"making", "writing", "renaming"}
    /\ \/ Gone(f) /\ UNCHANGED faults
       \/ faults < MaxFaults /\ faults' = faults + 1
    /\ lost' = Later(lost, data[f].rev)
    /\ Settle(f)
    /\ UNCHANGED <<managed, loaded, pending, armed, signature, fileVars, deleting, cliVars,
                   edits, externals, crashes, deleted>>

-----------------------------------------------------------------------------
\* The surroundings.

\* Another window or a person edits the header in the file.
ExternalEdit ==
    /\ disk # None /\ edits < MaxEdits /\ externals < MaxExternal
    /\ edits' = edits + 1 /\ externals' = externals + 1
    /\ disk' = [disk EXCEPT !.title = edits + 1]
    /\ UNCHANGED <<managed, loaded, queueVars, tmp, folder, deleting, cliVars, faults, crashes,
                   ghostVars>>

\* A CLI transcript that the session or its file points at is deleted, by the
\* CLI's own cleanup or by hand.
CliLost ==
    /\ losses < MaxLosses /\ losses' = losses + 1
    /\ \E s \in {managed, disk} \ {None} :
         /\ FromCli(s)
         /\ cli' = [cli EXCEPT ![s.root] = 0]
         /\ spoilt' = spoilt \cup {s.cut}
    /\ UNCHANGED <<managed, loaded, queueVars, fileVars, deleting, cutting, countVars, ghostVars>>

\* The sidecar dies; the next one loads the headers only.  A message that the
\* file did not have yet is none of the session's any more, though the CLI
\* transcript may hold it.
Crash ==
    /\ crashes < MaxCrashes /\ crashes' = crashes + 1
    /\ managed' = IF disk = None THEN None ELSE [disk EXCEPT !.body = 0]
    /\ loaded' = FALSE /\ deleting' = FALSE
    /\ pending' = None /\ armed' = FALSE /\ signature' = None
    /\ writeInProgress' = None /\ prior' = [f \in Flushes |-> None]
    /\ pc' = [f \in Flushes |-> "out"] /\ data' = [f \in Flushes |-> None]
    /\ asked' = [f \in Flushes |-> 0]
    /\ cutting' = FALSE
    /\ cli' = IF disk # None /\ ~disk.sdk /\ cli[disk.root] > disk.body
              THEN [cli EXCEPT ![disk.root] = disk.body] ELSE cli
    /\ UNCHANGED <<fileVars, losses, spoilt, edits, externals, faults, acked, lost, deleted>>

Write(f) == Take(f) \/ Prepare(f) \/ WriteTmp(f) \/ Rename(f) \/ Fail(f)

Next ==
    \/ AppendMessage \/ UpdateMetadata \/ PointAtCli \/ RemoveSdkSession \/ Load \/ ColdReadFails
    \/ Delete \/ Removed \/ ExternalEdit \/ CliLost \/ Crash
    \/ \E f \in Flushes :
         \/ Create(f) \/ SetMetadata(f) \/ ClearPointer(f) \/ Truncate(f)
         \/ FlushNow(f) \/ Timer(f) \/ Write(f)

Spec == Init /\ [][Next]_vars

\* Timers fire and file operations end, well or badly.
FairSpec ==
    /\ Spec /\ WF_vars(Removed)
    /\ WF_vars(\E f \in Flushes : Timer(f))
    /\ \A f \in Flushes : WF_vars(Write(f))

-----------------------------------------------------------------------------

\* One flush at a time is between taking a snapshot and settling, so no two
\* writes share the .tmp file.
OneWriter == \A f, g \in Flushes : Writing(f) /\ Writing(g) => f = g

\* What a returned flush was asked for is in the file (the header and, unless it
\* is a pointer, the messages), across crashes: only a write that failed, or the
\* session's deletion, takes it away.
AckedOnDisk == ~deleted /\ acked > lost => disk # None /\ disk.rev >= acked

\* The file never goes back to an older snapshot.
NeverOlder == [][disk # None /\ disk' # None => disk'.rev >= disk.rev]_vars

\* What a load of the file gives, from its own lines or from the CLI transcript it
\* points at, shrinks by a truncation only, unless since the last one a CLI
\* transcript of the session was removed or could not be read: a session whose
\* messages were never loaded is not written back empty, and the messages that
\* move to the CLI transcript or back are all there before the file says so.
TranscriptKept ==
    [][disk # None /\ disk' # None /\ Stored(disk)' < Stored(disk)
         => disk'.cut > disk.cut \/ disk.cut \in spoilt']_vars

\* Every change reaches the file unless a read of the cold session or a write
\* fails, the sidecar dies before or the session is deleted.
SavedInTheEnd ==
    \A r \in 1..MaxEdits :
        (managed # None /\ managed.rev = r)
            ~> (Rev(disk) >= r \/ lost >= r \/ deleted \/ Rev(managed) < r)

\* What session-manager.ts says of the fallback to the file: a pointer session
\* never reads as empty.
PointerNeverEmpty == managed # None /\ managed.sdk /\ ~loaded => Stored(managed) > 0

=============================================================================
