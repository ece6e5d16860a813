---------------------------- MODULE TargetStore ----------------------------
(***************************************************************************)
(* The live targets of CTA Manager and their two write-behind stores       *)
(* (src/src/web/target_state.rs, src/src/position_archive.rs).             *)
(*                                                                         *)
(* An admitted target changes the memory maps `current' and `pending' and  *)
(* joins the archive queue.  Two independent workers persist it: one       *)
(* appends every queued target to the RocksDB history, one mirrors only    *)
(* the latest target of each strategy to its PostgreSQL row.  Creating a   *)
(* strategy and editing the configuration reload the catalog from both     *)
(* stores while the workers, and for a creation the admissions of other    *)
(* strategies, go on.  The process may stop at any step.                   *)
(*                                                                         *)
(* The content of a target is abstracted to its updated_at_us (a version)  *)
(* and the created_at of the row it belongs to (an identity).              *)
(***************************************************************************)
EXTENDS Naturals, Sequences, FiniteSets

CONSTANTS
  Strategies,   \* strategy names
  Ids,          \* created_at of rows; a name never gets the same one twice
  NoId,         \* stands for no row
  Versions,     \* updated_at_us values
  QueueCap,     \* MAX_PENDING_ARCHIVES
  MaxLate       \* bound on UPDATEs still at the server after their timeout

ASSUME NoIdAssumption == NoId \notin Ids
ASSUME VersionsAssumption == Versions \subseteq Nat \ {0}
ASSUME QueueCapAssumption == QueueCap \in Nat \ {0}

Row == [id : Ids, ver : Versions]
Absent == [id |-> NoId, ver |-> 0]
Slot == Row \cup {Absent}
Event == [name : Strategies, id : Ids, ver : Versions]

EventOf(s, r) == [name |-> s, id |-> r.id, ver |-> r.ver]
RowOf(e) == [id |-> e.id, ver |-> e.ver]

VARIABLES
  pgRow,           \* PostgreSQL: the row of each strategy
  positionCurrent, \* RocksDB: the position_current:<name> keys
  history,         \* RocksDB: target events of position_updates, as written
  synced,          \* length of the part of history known to be on disk
  syncedCurrent,   \* positionCurrent as of that part
  current,         \* memory: the live target of each catalogued strategy
  pending,         \* memory: the target the mirror still has to write
  archivePending,  \* memory: the archive queue
  written,         \* the front of the queue is written, its pop is due
  accepting,       \* the event put in `current' and not yet in `pending'
  flushing,        \* the flush worker's clone of `pending', minus what is done
  mirrored,        \* the strategy whose UPDATE ran and awaits its answer
  late,            \* timed-out UPDATEs the server may still run
  ready,           \* admission is open
  closing,         \* shutdown has closed admission
  loader,          \* "idle", "select" (rows not read yet) or "recover"
  rows,            \* the rows a running load selected
  recovered,       \* the archived targets it read for them
  unread,          \* the strategies whose archived target it has yet to read
  process,         \* "down", "starting" or "serving"
  issued           \* history variable: every target created or admitted

archiveVars == <<positionCurrent, history, synced, syncedCurrent, written>>
mirrorVars  == <<flushing, mirrored, late>>
loadVars    == <<loader, rows, recovered, unread>>
phaseVars   == <<ready, closing, process>>
vars == <<archiveVars, mirrorVars, loadVars, phaseVars,
          pgRow, current, pending, archivePending, accepting, issued>>

NoRows == [s \in Strategies |-> Absent]

Up == process # "down"

Init ==
  /\ pgRow = NoRows
  /\ positionCurrent = NoRows /\ syncedCurrent = NoRows
  /\ history = <<>> /\ synced = 0
  /\ current = NoRows /\ pending = NoRows
  /\ archivePending = <<>> /\ written = FALSE /\ accepting = {}
  /\ flushing = NoRows /\ mirrored = {} /\ late = {}
  /\ ready = FALSE /\ closing = FALSE /\ process = "starting"
  /\ loader = "select" /\ rows = NoRows /\ recovered = NoRows /\ unread = {}
  /\ issued = {}

-----------------------------------------------------------------------------
(***************************************************************************)
(* Admission (Targets::enqueue, Targets::accept).  The archive lock covers *)
(* the closing and capacity checks, the push and both map inserts; the two *)
(* inserts take different locks, so a load's install may come in between.  *)
(***************************************************************************)
\* Fault: the capacity check lets one target too many in.
RoomBeyondCap == Len(archivePending) <= QueueCap

Room == Len(archivePending) < QueueCap

Admit(s, v) ==
  LET r == [current[s] EXCEPT !.ver = v] IN
  /\ ready
  /\ accepting = {}
  /\ ~closing /\ Room
  /\ current[s] # Absent
  /\ v > current[s].ver
  /\ archivePending' = Append(archivePending, EventOf(s, r))
  /\ current' = [current EXCEPT ![s] = r]
  /\ accepting' = {EventOf(s, r)}
  /\ issued' = issued \cup {EventOf(s, r)}
  /\ UNCHANGED <<archiveVars, mirrorVars, loadVars, phaseVars, pgRow, pending>>

AcceptPending ==
  \E e \in accepting :
    /\ accepting' = {}
    /\ pending' = [pending EXCEPT ![e.name] = RowOf(e)]
    /\ UNCHANGED <<archiveVars, mirrorVars, loadVars, phaseVars,
                   pgRow, current, archivePending, issued>>

-----------------------------------------------------------------------------
(***************************************************************************)
(* The archive worker (Targets::flush_archive, PositionArchive::            *)
(* append_target).  One WAL batch holds the event and position_current.     *)
(* An error before the batch commits changes nothing and is retried.        *)
(***************************************************************************)
\* Fault: a retry does not look for its target in the archive.
NeverArchived(e) == FALSE

Archived(e) == positionCurrent[e.name] = RowOf(e)

AppendBatch(e) ==
  /\ history' = Append(history, e)
  /\ positionCurrent' = [positionCurrent EXCEPT ![e.name] = RowOf(e)]

ArchiveFront ==
  /\ Up /\ archivePending # <<>> /\ ~written
  /\ ~Archived(Head(archivePending))
  /\ AppendBatch(Head(archivePending))

ArchiveWrite ==
  /\ ArchiveFront
  /\ synced' = Len(history')
  /\ syncedCurrent' = positionCurrent'
  /\ written' = TRUE
  /\ UNCHANGED <<mirrorVars, loadVars, phaseVars,
                 pgRow, current, pending, archivePending, accepting, issued>>

\* Fault: an error of the WAL sync is taken for success.
AdvancePastError == written' = TRUE

KeepFront == UNCHANGED written

\* The batch is committed, its WAL sync reports an error.
ArchiveSyncError ==
  /\ ArchiveFront
  /\ KeepFront
  /\ UNCHANGED <<mirrorVars, loadVars, phaseVars, synced, syncedCurrent, pgRow,
                 current, pending, archivePending, accepting, issued>>

\* Fault: a retry that finds its target committed fails for ever.
ArchiveStuck == FALSE

\* The retry finds its target committed and only syncs the WAL.
ArchiveResync ==
  /\ Up /\ archivePending # <<>> /\ ~written
  /\ Archived(Head(archivePending))
  /\ synced' = Len(history)
  /\ syncedCurrent' = positionCurrent
  /\ written' = TRUE
  /\ UNCHANGED <<mirrorVars, loadVars, phaseVars, positionCurrent, history,
                 pgRow, current, pending, archivePending, accepting, issued>>

ArchivePop ==
  /\ written /\ accepting = {}
  /\ archivePending' = Tail(archivePending)
  /\ written' = FALSE
  /\ UNCHANGED <<mirrorVars, loadVars, phaseVars, positionCurrent, history,
                 synced, syncedCurrent, pgRow, current, pending, accepting, issued>>

-----------------------------------------------------------------------------
(***************************************************************************)
(* The mirror worker (Targets::flush): one UPDATE after the other, guarded  *)
(* by identity and version in its WHERE clause.                             *)
(***************************************************************************)
\* Faults: the WHERE clause misses the identity, or the version.
UpdatedAnyIdentity(row, r) ==
  IF row # Absent /\ row.ver <= r.ver THEN [row EXCEPT !.ver = r.ver] ELSE row
UpdatedAnyVersion(row, r) ==
  IF row.id = r.id THEN [row EXCEPT !.ver = r.ver] ELSE row

\* The UPDATE leaves created_at alone.
Updated(row, r) ==
  IF row.id = r.id /\ row.ver <= r.ver THEN [row EXCEPT !.ver = r.ver] ELSE row

MirrorStart ==
  /\ Up /\ flushing = NoRows /\ pending # NoRows
  /\ flushing' = pending
  /\ UNCHANGED <<archiveVars, loadVars, phaseVars, mirrored, late,
                 pgRow, current, pending, archivePending, accepting, issued>>

MirrorUpdate(s) ==
  /\ flushing[s] # Absent /\ mirrored = {}
  /\ pgRow' = [pgRow EXCEPT ![s] = Updated(@, flushing[s])]
  /\ mirrored' = {s}
  /\ UNCHANGED <<archiveVars, loadVars, phaseVars, flushing, late,
                 current, pending, archivePending, accepting, issued>>

\* Fault: the answer removes whatever is pending, also a newer target.
LeftAfterAnyAck(s) == Absent

LeftAfterAck(s) == IF pending[s] = flushing[s] THEN Absent ELSE pending[s]

MirrorAck ==
  \E s \in mirrored :
    /\ pending' = [pending EXCEPT ![s] = LeftAfterAck(s)]
    /\ flushing' = [flushing EXCEPT ![s] = Absent]
    /\ mirrored' = {}
    /\ UNCHANGED <<archiveVars, loadVars, phaseVars, late,
                   pgRow, current, archivePending, accepting, issued>>

\* The UPDATE fails, or it ran and its answer is lost; pending keeps the target.
MirrorFail(s) ==
  /\ flushing[s] # Absent /\ mirrored \subseteq {s}
  /\ flushing' = [flushing EXCEPT ![s] = Absent]
  /\ mirrored' = {}
  /\ UNCHANGED <<archiveVars, loadVars, phaseVars, late,
                 pgRow, current, pending, archivePending, accepting, issued>>

\* Three seconds pass while the server holds the UPDATE back, on a row lock say.
MirrorTimeout(s) ==
  /\ flushing[s] # Absent /\ mirrored = {}
  /\ Cardinality(late) < MaxLate
  /\ late' = late \cup {EventOf(s, flushing[s])}
  /\ flushing' = [flushing EXCEPT ![s] = Absent]
  /\ UNCHANGED <<archiveVars, loadVars, phaseVars, mirrored,
                 pgRow, current, pending, archivePending, accepting, issued>>

LateUpdate ==
  \E e \in late :
    /\ pgRow' = [pgRow EXCEPT ![e.name] = Updated(@, RowOf(e))]
    /\ late' = late \ {e}
    /\ UNCHANGED <<archiveVars, loadVars, phaseVars, flushing, mirrored,
                   current, pending, archivePending, accepting, issued>>

-----------------------------------------------------------------------------
(***************************************************************************)
(* Configuration: an edit takes the configuration lock exclusively and      *)
(* closes admission (Targets::edit); the reload worker reopens it.  A name  *)
(* the catalog lacks is created under the shared lock, with admission of    *)
(* the other strategies going on.                                           *)
(***************************************************************************)
BeginEdit ==
  /\ ready /\ loader = "idle" /\ accepting = {}
  /\ ready' = FALSE
  /\ UNCHANGED <<archiveVars, mirrorVars, loadVars, closing, process, pgRow,
                 current, pending, archivePending, accepting, issued>>

DeleteStrategy(s) ==
  /\ process = "serving" /\ ~ready /\ loader = "idle"
  /\ pgRow[s] # Absent
  /\ pgRow' = [pgRow EXCEPT ![s] = Absent]
  /\ UNCHANGED <<archiveVars, mirrorVars, loadVars, phaseVars,
                 current, pending, archivePending, accepting, issued>>

\* INSERT ... ON CONFLICT DO NOTHING, then a load.
CreateStrategy(s, r) ==
  /\ ready /\ loader = "idle"
  /\ current[s] = Absent
  /\ \A e \in issued : e.name = s => e.id # r.id
  /\ IF pgRow[s] = Absent
     THEN /\ pgRow' = [pgRow EXCEPT ![s] = r]
          /\ issued' = issued \cup {EventOf(s, r)}
     ELSE UNCHANGED <<pgRow, issued>>
  /\ loader' = "select"
  /\ UNCHANGED <<archiveVars, mirrorVars, phaseVars, rows, recovered, unread,
                 current, pending, archivePending, accepting>>

-----------------------------------------------------------------------------
(***************************************************************************)
(* Loading the catalog (Targets::load, Targets::install): select the rows,  *)
(* read each strategy's archived target, then merge both with the memory    *)
(* under the two map locks.                                                 *)
(***************************************************************************)
\* Fault: nothing wakes the reload worker after an edit.
LoadNeverRedone == loader = "select"

LoadDue ==
  \/ loader = "select"
  \/ loader = "idle" /\ process = "serving" /\ ~ready

LoadRows ==
  /\ Up /\ LoadDue
  /\ loader' = "recover"
  /\ rows' = pgRow
  /\ recovered' = NoRows
  /\ unread' = {s \in Strategies : pgRow[s] # Absent}
  /\ UNCHANGED <<archiveVars, mirrorVars, phaseVars, pgRow, current, pending,
                 archivePending, accepting, issued>>

\* Fault: the archive's target is not recovered.
NothingArchived(s) == Absent

\* PositionArchive::current_target returns the key only for the same identity.
ArchivedTarget(s) ==
  IF positionCurrent[s].id = rows[s].id THEN positionCurrent[s] ELSE Absent

Recover(s) ==
  /\ loader = "recover" /\ s \in unread
  /\ recovered' = [recovered EXCEPT ![s] = ArchivedTarget(s)]
  /\ unread' = unread \ {s}
  /\ UNCHANGED <<archiveVars, mirrorVars, phaseVars, loader, rows, pgRow,
                 current, pending, archivePending, accepting, issued>>

Newer(a, b) == IF b.id = a.id /\ b.ver > a.ver THEN b ELSE a

\* Fault: the merge leaves out targets admitted while the load ran.
InstalledFromStores(s) == Newer(rows[s], recovered[s])

\* The target the installed catalog shows for s: the newest of its row, the
\* archive and the memory.
Installed(s) == Newer(Newer(rows[s], recovered[s]), current[s])

\* Fault: the mirror queue is rebuilt from the stores alone.
PendingFromStores(s) ==
  IF rows[s] # Absent /\ Newer(rows[s], recovered[s]) # rows[s]
  THEN recovered[s] ELSE Absent

StillPending(s) ==
  IF rows[s] # Absent /\ Installed(s).ver > rows[s].ver THEN Installed(s)
  ELSE IF rows[s] # Absent /\ pending[s].id = rows[s].id THEN pending[s]
  ELSE Absent

Install ==
  /\ loader = "recover" /\ unread = {}
  /\ current' = [s \in Strategies |-> Installed(s)]
  /\ pending' = [s \in Strategies |-> StillPending(s)]
  /\ ready' = TRUE
  /\ process' = "serving"
  /\ loader' = "idle" /\ rows' = NoRows /\ recovered' = NoRows
  /\ UNCHANGED <<archiveVars, mirrorVars, unread, closing, pgRow,
                 archivePending, accepting, issued>>

\* A store error ends the load.  A reload is retried later, a creation answers
\* with the error, a starting process exits (Exit).
LoadFail ==
  /\ process = "serving" /\ loader # "idle"
  /\ loader' = "idle" /\ rows' = NoRows /\ recovered' = NoRows /\ unread' = {}
  /\ UNCHANGED <<archiveVars, mirrorVars, phaseVars, pgRow, current, pending,
                 archivePending, accepting, issued>>

-----------------------------------------------------------------------------
(***************************************************************************)
(* The process.  Shutdown closes admission, waits ten seconds at most for   *)
(* the archive queue and exits; a kill just exits.  The disk keeps the      *)
(* synced history, and may or may not keep an event whose sync failed.      *)
(***************************************************************************)
Close ==
  /\ process = "serving" /\ ~closing /\ accepting = {}
  /\ closing' = TRUE
  /\ UNCHANGED <<archiveVars, mirrorVars, loadVars, ready, process, pgRow,
                 current, pending, archivePending, accepting, issued>>

KeepUnsynced ==
  /\ synced' = Len(history)
  /\ syncedCurrent' = positionCurrent
  /\ UNCHANGED <<history, positionCurrent>>

LoseUnsynced ==
  /\ history' = SubSeq(history, 1, synced)
  /\ positionCurrent' = syncedCurrent
  /\ UNCHANGED <<synced, syncedCurrent>>

Exit ==
  /\ Up
  /\ process' = "down"
  /\ KeepUnsynced \/ LoseUnsynced
  /\ current' = NoRows /\ pending' = NoRows
  /\ archivePending' = <<>> /\ written' = FALSE /\ accepting' = {}
  /\ flushing' = NoRows /\ mirrored' = {}
  /\ ready' = FALSE /\ closing' = FALSE
  /\ loader' = "idle" /\ rows' = NoRows /\ recovered' = NoRows /\ unread' = {}
  /\ UNCHANGED <<late, pgRow, issued>>

Start ==
  /\ ~Up
  /\ process' = "starting" /\ loader' = "select"
  /\ UNCHANGED <<archiveVars, mirrorVars, rows, recovered, unread, ready, closing,
                 pgRow, current, pending, archivePending, accepting, issued>>

-----------------------------------------------------------------------------
Archive == ArchiveWrite \/ ArchiveSyncError \/ ArchiveResync \/ ArchivePop

Mirror ==
  \/ MirrorStart \/ MirrorAck
  \/ \E s \in Strategies : MirrorUpdate(s) \/ MirrorFail(s) \/ MirrorTimeout(s)

Configure ==
  \/ BeginEdit
  \/ \E s \in Strategies : DeleteStrategy(s)
  \/ \E s \in Strategies, r \in Row : CreateStrategy(s, r)

Load == LoadRows \/ (\E s \in Strategies : Recover(s)) \/ Install \/ LoadFail

Next ==
  \/ \E s \in Strategies, v \in Versions : Admit(s, v)
  \/ AcceptPending
  \/ Archive \/ Mirror \/ LateUpdate
  \/ Configure \/ Load
  \/ Close \/ Exit \/ Start

Spec == Init /\ [][Next]_vars

-----------------------------------------------------------------------------
(***************************************************************************)
(* Safety                                                                   *)
(***************************************************************************)
Slots == [Strategies -> Slot]

HistoryOK == history \in Seq(Event) /\ synced \in 0..Len(history)

QueueOK ==
  /\ archivePending \in Seq(Event) /\ Len(archivePending) <= QueueCap
  /\ written => archivePending # <<>>

StateOK ==
  /\ pgRow \in Slots /\ positionCurrent \in Slots /\ syncedCurrent \in Slots
  /\ current \in Slots /\ pending \in Slots
  /\ written \in BOOLEAN
  /\ accepting \in SUBSET Event
  /\ flushing \in Slots /\ mirrored \in SUBSET Strategies
  /\ late \in SUBSET Event
  /\ ready \in BOOLEAN /\ closing \in BOOLEAN
  /\ process \in {"down", "starting", "serving"}
  /\ loader \in {"idle", "select", "recover"}
  /\ rows \in Slots /\ recovered \in Slots /\ unread \in SUBSET Strategies
  /\ issued \in SUBSET Event

\* Every variable has its type; the archive queue keeps within its capacity,
\* and never loses the target whose write it awaits.
TypeOK == HistoryOK /\ QueueOK /\ StateOK

\* A live target its row does not hold yet is due: it is in the mirror queue, or
\* in the hands of the admission that is about to put it there.  No interleaving
\* of admissions, flushes, timeouts and reloads drops the newest target of a
\* strategy from the mirror (Targets::accept, flush and install).
NoLostMirror ==
  \A s \in Strategies :
    (current[s] # Absent /\ pgRow[s].id = current[s].id
       /\ pgRow[s].ver < current[s].ver)
    => pending[s] = current[s] \/ EventOf(s, current[s]) \in accepting

\* A row only ever holds targets issued to its own creation of the name: the
\* identity in the UPDATE keeps queued, timed-out and late writes off a name
\* that was deleted and created again (docs/target_publication.md).
MirrorOwnTargets ==
  \A s \in Strategies : pgRow[s] # Absent => EventOf(s, pgRow[s]) \in issued

(***************************************************************************)
(* What a step may not do                                                   *)
(***************************************************************************)
\* No store write takes a row back to an older target of the same creation,
\* however late it arrives.
MirrorNeverOlder ==
  [][\A s \in Strategies :
       pgRow'[s].id = pgRow[s].id => pgRow'[s].ver >= pgRow[s].ver]_vars

\* While the process lives, readers never see the target of a strategy go back,
\* not even when a load that started earlier installs its catalog.
MemoryNeverOlder ==
  [][\A s \in Strategies :
       Up /\ process' # "down" /\ current[s] # Absent
         /\ current'[s].id = current[s].id
       => current'[s].ver >= current[s].ver]_vars

\* What a start would restore of strategy s.
Restorable(s) == Newer(pgRow[s], positionCurrent[s])

\* A process that exits with its archive queue drained loses nothing: the stores
\* hold every live target, and all of history is on disk.
DrainedExitLosesNothing ==
  [][(process = "serving" /\ process' = "down" /\ archivePending = <<>>) =>
       /\ history' = history
       /\ \A s \in Strategies :
            current[s] # Absent /\ current[s].id = pgRow[s].id
            => Restorable(s)'.ver >= current[s].ver]_vars

(***************************************************************************)
(* The promise                                                              *)
(***************************************************************************)
Uncommitted ==
  IF archivePending # <<>> /\ Archived(Head(archivePending))
  THEN Tail(archivePending) ELSE archivePending

Abstract == INSTANCE TargetLog WITH
  log <- history \o Uncommitted,
  durable <- synced,
  live <- current,
  catalogued <- [s \in Strategies |-> pgRow[s].id]

\* The stores implement the log of TargetLog: admitted targets reach the history
\* exactly once and in admission order, also when a write's outcome is unknown;
\* a stop loses a suffix of the unsynced ones; a load never installs a target
\* older than a live or surviving one, or one that was never issued.
RefinesTargetLog == Abstract!Spec

(***************************************************************************)
(* Liveness.  Both workers are polled every second and retry for ever; the  *)
(* stores are assumed to accept a write that is retried for ever.           *)
(***************************************************************************)
Fairness ==
  /\ WF_vars(AcceptPending)
  /\ SF_vars(ArchiveWrite \/ ArchiveResync)
  /\ WF_vars(ArchivePop)
  /\ WF_vars(MirrorStart) /\ SF_vars(MirrorAck)
  /\ \A s \in Strategies :
       SF_vars(MirrorUpdate(s)) /\ WF_vars(MirrorFail(s))
  /\ WF_vars(LoadRows) /\ SF_vars(Install)
  /\ \A s \in Strategies : SF_vars(Recover(s))

FairSpec == Spec /\ Fairness

\* A live target reaches the PostgreSQL row, or a newer one does, unless the
\* process stops or the row goes.
MirrorCatchesUp ==
  \A s \in Strategies, r \in Row :
    (current[s] = r /\ pgRow[s].id = r.id) ~>
      (pgRow[s].id # r.id \/ pgRow[s].ver >= r.ver \/ ~Up)

\* A queued target is on disk eventually unless the process stops.
ArchiveDrains ==
  \A s \in Strategies, r \in Row :
    (\E i \in 1..Len(archivePending) : archivePending[i] = EventOf(s, r)) ~>
      ((\E i \in 1..synced : history[i] = EventOf(s, r)) \/ ~Up)

\* What was admitted reaches both stores behind memory.
StoresCatchUp == MirrorCatchesUp /\ ArchiveDrains

\* An edit closes admission for a while only: a reload reopens it, unless the
\* process stops.
AdmissionReopens == (process = "serving" /\ ~ready) ~> (ready \/ ~Up)
=============================================================================
