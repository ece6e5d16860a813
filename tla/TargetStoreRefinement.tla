----------------------- MODULE TargetStoreRefinement -----------------------
(***************************************************************************)
(* TargetStore implements TargetLog, for any values of its constants, and  *)
(* a process that exits with its queue drained loses nothing.              *)
(*                                                                         *)
(* The log of the abstract specification is the history followed by what   *)
(* the queue still has to commit.  Its steps are matched one by one; what  *)
(* that takes beyond Inv is how the archive worker's commits line up with  *)
(* the queue: only the front can be committed already, and if so it is the *)
(* last event of the history (FrontKnown); the log repeats no event and    *)
(* orders those of a live creation by version (LogUnique, LogOrdered); and *)
(* position_current is the last event of each strategy in the history, on  *)
(* disk as in the written state (KeysFollow).                              *)
(***************************************************************************)
EXTENDS TargetStoreProofs

Log == history \o Uncommitted

\* The front of the queue is committed.
Front == archivePending # <<>> /\ Archived(Head(archivePending))

\* Only the front may be committed and not popped; it is the only event that may
\* be committed and not synced.
FrontKnown ==
  /\ written => Front
  /\ Front => Len(history) > 0 /\ history[Len(history)] = Head(archivePending)
  /\ Front /\ ~written => Len(history) = synced + 1
  /\ ~Front \/ written => Len(history) = synced
  /\ Len(history) = synced => syncedCurrent = positionCurrent

HistoryIssued == \A i \in 1..Len(history) : history[i] \in issued

LogUnique == \A i, j \in 1..Len(Log) : Log[i] = Log[j] => i = j

\* After an event of the creation the row holds come only newer ones of it.
LogOrdered ==
  \A i, j \in 1..Len(Log) :
    i <= j /\ Log[i].name = Log[j].name /\ Log[i].id = pgRow[Log[i].name].id
    => Log[j].id = Log[i].id /\ Log[i].ver <= Log[j].ver

\* The keys are what the first n events of the history left.
KeysOf(n, keys) ==
  /\ \A i \in 1..n :
       history[i].id = pgRow[history[i].name].id =>
         /\ keys[history[i].name].id = history[i].id
         /\ history[i].ver <= keys[history[i].name].ver
  /\ \A s \in Strategies :
       keys[s] # Absent => \E i \in 1..n : history[i] = EventOf(s, keys[s])

KeysFollow ==
  KeysOf(Len(history), positionCurrent) /\ KeysOf(synced, syncedCurrent)

\* A live target its row lacks is in the archive, or queued for it.
LiveKept ==
  \A s \in Strategies :
    current[s] # Absent /\ pgRow[s].id = current[s].id /\ pgRow[s].ver < current[s].ver
    => positionCurrent[s] = current[s] \/ EventOf(s, current[s]) \in Queued

\* What a load read from the archive was committed, and is still in the history.
RecoveredLogged ==
  loader = "recover" => \A s \in Strategies :
    recovered[s] # Absent =>
      \E i \in 1..Len(history) : history[i] = EventOf(s, recovered[s])

\* The inductive invariant of the refinement.
LogInv ==
  /\ Inv
  /\ FrontKnown /\ HistoryIssued /\ LogUnique /\ LogOrdered /\ KeysFollow /\ LiveKept
  /\ RecoveredLogged

-----------------------------------------------------------------------------
(***************************************************************************)
(* The log as a sequence                                                    *)
(***************************************************************************)
\* A prefix of a sequence.
LEMMA Prefix ==
  ASSUME NEW S, NEW q \in Seq(S), NEW n \in 0..Len(q)
  PROVE  /\ SubSeq(q, 1, n) \in Seq(S) /\ Len(SubSeq(q, 1, n)) = n
         /\ \A i \in 1..n : SubSeq(q, 1, n)[i] = q[i]
<1>1. Len(q) \in Nat /\ n \in Nat /\ \A i \in 1..n : q[i] \in S
  BY ElementOfSeq, LenProperties
<1>2. /\ SubSeq(q, 1, n) \in Seq(S)
      /\ Len(SubSeq(q, 1, n)) = IF 1 <= n THEN n - 1 + 1 ELSE 0
      /\ \A i \in 1..n - 1 + 1 : SubSeq(q, 1, n)[i] = q[1 + i - 1]
  BY <1>1, SubSeqProperties
<1>3. n - 1 + 1 = n /\ \A i \in 1..n : 1 + i - 1 = i
  BY <1>1
<1>4. \A i \in 1..n : SubSeq(q, 1, n)[i] = q[i]
  BY <1>2, <1>3
<1>5. Len(SubSeq(q, 1, n)) = n
  BY <1>1, <1>2
<1> QED
  BY <1>2, <1>4, <1>5

\* The log is the history, then the uncommitted events.
LEMMA LogSeq ==
  ASSUME TypeOK
  PROVE  /\ history \in Seq(Event) /\ archivePending \in Seq(Event)
         /\ Uncommitted \in Seq(Event) /\ Log \in Seq(Event)
         /\ Len(Log) = Len(history) + Len(Uncommitted)
         /\ \A i \in 1..Len(history) : Log[i] = history[i]
         /\ \A i \in 1..Len(Uncommitted) : Log[Len(history) + i] = Uncommitted[i]
<1>1. history \in Seq(Event) /\ archivePending \in Seq(Event)
  BY DEF TypeOK, HistoryOK, QueueOK
<1>2. Uncommitted \in Seq(Event)
  <2>1. archivePending # <<>> => Tail(archivePending) \in Seq(Event)
    BY <1>1, HeadTailProperties
  <2> QED
    BY <1>1, <2>1 DEF Uncommitted
<1>3. /\ Log \in Seq(Event) /\ Len(Log) = Len(history) + Len(Uncommitted)
      /\ \A i \in 1..Len(history) + Len(Uncommitted) :
           Log[i] = IF i <= Len(history) THEN history[i] ELSE Uncommitted[i - Len(history)]
  BY <1>1, <1>2, ConcatProperties DEF Log
<1>4. Len(history) \in Nat /\ Len(Uncommitted) \in Nat
  BY <1>1, <1>2, LenProperties
<1>5. \A i \in 1..Len(history) : Log[i] = history[i]
  BY <1>3, <1>4
<1>6. \A i \in 1..Len(Uncommitted) : Log[Len(history) + i] = Uncommitted[i]
  <2> TAKE i \in 1..Len(Uncommitted)
  <2>1. /\ Len(history) + i \in 1..Len(history) + Len(Uncommitted)
        /\ ~(Len(history) + i <= Len(history)) /\ Len(history) + i - Len(history) = i
    BY <1>4
  <2> QED
    BY <1>3, <2>1
<1> QED
  BY <1>1, <1>2, <1>3, <1>5, <1>6

\* Every event in the log is an event; the history and the queue hold it.
LEMMA LogEvents ==
  ASSUME TypeOK, NEW i \in 1..Len(Log)
  PROVE  /\ Log[i] \in Event
         /\ \/ i \in 1..Len(history) /\ Log[i] = history[i]
            \/ Log[i] \in Queued
<1>1. Log[i] \in Event
  BY LogSeq, ElementOfSeq
<1>2. CASE i \in 1..Len(history)
  BY <1>1, <1>2, LogSeq
<1>3. CASE i \notin 1..Len(history)
  <2>1. i - Len(history) \in 1..Len(Uncommitted)
    BY <1>3, LogSeq, LenProperties
  <2>2. Log[i] = Uncommitted[i - Len(history)]
    <3>1. Len(history) + (i - Len(history)) = i
      BY LogSeq, LenProperties
    <3>2. Log[Len(history) + (i - Len(history))] = Uncommitted[i - Len(history)]
      BY <2>1, LogSeq
    <3> QED
      BY <3>1, <3>2
  <2>3. CASE Uncommitted = archivePending
    BY <1>1, <2>1, <2>2, <2>3 DEF Queued
  <2>4. CASE archivePending # <<>> /\ Uncommitted = Tail(archivePending)
    <3>1. i - Len(history) + 1 \in 1..Len(archivePending)
      BY <2>1, <2>4, LogSeq, HeadTailProperties, LenProperties
    <3>2. Log[i] = archivePending[i - Len(history) + 1]
      BY <2>1, <2>2, <2>4, LogSeq, HeadTailProperties
    <3> QED
      BY <1>1, <3>1, <3>2 DEF Queued
  <2> QED
    BY <2>3, <2>4 DEF Uncommitted
<1> QED
  BY <1>2, <1>3

\* A committed event was appended at some place of the history.
LEMMA CommittedWhere ==
  ASSUME TypeOK, KeysFollow, NEW e \in Event, Archived(e)
  PROVE  \E i \in 1..Len(history) : history[i] = e
<1>1. e.name \in Strategies /\ RowOf(e) \in Row /\ EventOf(e.name, RowOf(e)) = e
  BY EventRow
<1>2. positionCurrent[e.name] = RowOf(e) /\ positionCurrent[e.name] # Absent
  BY <1>1, SlotId DEF Archived, Slot
<1> QED
  BY <1>1, <1>2 DEF KeysFollow, KeysOf

-----------------------------------------------------------------------------
(***************************************************************************)
(* What a step does to the log                                              *)
(***************************************************************************)
\* An admission appends its event to the log.
LEMMA AdmitLog ==
  ASSUME LogInv, NEW e \in Event, archivePending' = Append(archivePending, e),
         UNCHANGED <<history, positionCurrent>>,
         \A i \in 1..Len(Log) : Log[i] # e
  PROVE  /\ Log' = Append(Log, e)
         /\ Front' <=> Front
         /\ Front => Head(archivePending') = Head(archivePending)
<1>1. TypeOK /\ KeysFollow
  BY DEF LogInv, Inv
<1>2. /\ archivePending' # <<>>
      /\ Head(archivePending') = IF archivePending = <<>> THEN e ELSE Head(archivePending)
      /\ Tail(archivePending') = IF archivePending = <<>> THEN <<>>
                                ELSE Append(Tail(archivePending), e)
  BY <1>1, LogSeq, HeadTailAppend, AppendProperties
<1>3. ~Archived(e)
  <2>1. \A i \in 1..Len(history) : i \in 1..Len(Log) /\ Log[i] = history[i]
    BY <1>1, LogSeq, LenProperties
  <2> QED
    BY <1>1, <2>1, CommittedWhere
<1>4. Uncommitted' = Append(Uncommitted, e)
  <2>1. CASE archivePending = <<>>
    BY <1>2, <1>3, <2>1 DEF Uncommitted, Archived
  <2>2. CASE archivePending # <<>>
    BY <1>2, <2>2 DEF Uncommitted, Archived
  <2> QED
    BY <2>1, <2>2
<1>5. /\ Append(Uncommitted, e) = Uncommitted \o <<e>>
      /\ Append(Log, e) = Log \o <<e>> /\ <<e>> \in Seq(Event)
  BY <1>1, LogSeq, AppendIsConcat
<1>6. Log' = Append(Log, e)
  <2>1. /\ history \in Seq(Event) /\ Uncommitted \in Seq(Event)
        /\ <<e>> \in Seq(Event)
    BY <1>1, <1>5, LogSeq
  <2>2. (history \o Uncommitted) \o <<e>> = history \o (Uncommitted \o <<e>>)
    BY <2>1, ConcatAssociative
  <2> QED
    BY <1>4, <1>5, <2>2 DEF Log
<1> QED
  BY <1>2, <1>3, <1>6 DEF Front, Archived

\* A commit moves the front from the queue to the history: the log stays.
LEMMA CommitLog ==
  ASSUME LogInv, ArchiveFront, UNCHANGED archivePending
  PROVE  Log' = Log /\ Front'
<1> DEFINE e == Head(archivePending)
<1>1. TypeOK /\ archivePending # <<>> /\ ~Archived(e) /\ e \in Event
  BY QueuedEvents DEF LogInv, Inv, ArchiveFront
<1>2. /\ history' = Append(history, e)
      /\ positionCurrent' = [positionCurrent EXCEPT ![e.name] = RowOf(e)]
  BY DEF ArchiveFront, AppendBatch
<1>3. positionCurrent'[e.name] = RowOf(e)
  BY <1>1, <1>2, EventRow DEF TypeOK, StateOK, Slots
<1>4. Front'
  BY <1>1, <1>3 DEF Front, Archived
<1>5. Uncommitted' = Tail(archivePending) /\ Uncommitted = archivePending
  BY <1>1, <1>4 DEF Front, Uncommitted
<1>6. archivePending = <<e>> \o Tail(archivePending)
  <2>1. SubSeq(archivePending, 1, Len(archivePending))
          = <<archivePending[1]>> \o SubSeq(archivePending, 2, Len(archivePending))
    BY <1>1, LogSeq, SubSeqRecursiveFirst, EmptySeq
  <2> QED
    BY <1>1, <2>1, LogSeq, SubSeqFull, TailIsSubSeq
<1>7. /\ history' = history \o <<e>> /\ <<e>> \in Seq(Event)
      /\ Tail(archivePending) \in Seq(Event) /\ history \in Seq(Event)
  BY <1>1, <1>2, LogSeq, AppendIsConcat, HeadTailProperties
<1>8. (history \o <<e>>) \o Tail(archivePending) = history \o (<<e>> \o Tail(archivePending))
  BY <1>7, ConcatAssociative
<1> QED
  BY <1>4, <1>5, <1>6, <1>7, <1>8 DEF Log

\* So it does when the committed front is popped: the next one is not committed.
LEMMA PopLog ==
  ASSUME LogInv, ArchivePop
  PROVE  Log' = Log /\ ~Front'
<1> DEFINE q == Tail(archivePending)
<1>1. TypeOK /\ KeysFollow /\ LogUnique
  BY DEF LogInv, Inv
<1>2. archivePending # <<>> /\ Uncommitted = q
  BY DEF LogInv, FrontKnown, Front, Uncommitted, ArchivePop
<1>3. archivePending' = q /\ UNCHANGED <<history, positionCurrent>>
  BY DEF ArchivePop
<1>0. q \in Seq(Event)
  BY <1>1, <1>2, LogSeq
<1> HIDE DEF q
<1>4. ASSUME q # <<>>, Archived(Head(q))
      PROVE  FALSE
  <2>1. Head(q) \in Event /\ Head(q) = q[1] /\ Len(q) \in Nat \ {0}
    BY <1>0, <1>4, HeadTailProperties, EmptySeq
  <2>2. PICK i \in 1..Len(history) : history[i] = Head(q)
    BY <1>1, <1>4, <2>1, CommittedWhere
  <2>3. /\ i \in 1..Len(Log) /\ Log[i] = Head(q)
        /\ Len(history) + 1 \in 1..Len(Log) /\ Log[Len(history) + 1] = Head(q)
    <3>1. Len(history) \in Nat /\ Len(Log) = Len(history) + Len(q)
      BY <1>1, <1>2, LogSeq, LenProperties
    <3>2. Log[i] = history[i]
      BY <1>1, <2>2, LogSeq
    <3>3. 1 \in 1..Len(Uncommitted) /\ Uncommitted[1] = Head(q)
      BY <1>2, <2>1
    <3>4. Log[Len(history) + 1] = Head(q)
      BY <1>1, <3>3, LogSeq
    <3>5. i \in 1..Len(Log) /\ Len(history) + 1 \in 1..Len(Log)
      BY <2>1, <2>2, <3>1
    <3> QED
      BY <2>2, <3>2, <3>4, <3>5
  <2>4. i = Len(history) + 1
    BY <1>1, <2>3 DEF LogUnique
  <2> QED
    BY <1>1, <2>2, <2>4, LogSeq, LenProperties
<1>5. ~Front'
  BY <1>3, <1>4 DEF Front, Archived
<1> QED
  BY <1>2, <1>3, <1>5 DEF Log, Uncommitted, Front

\* A stop cuts the log to what the disk keeps of the history.
LEMMA ExitLog ==
  ASSUME LogInv, Exit
  PROVE  /\ archivePending' = <<>> /\ ~written' /\ ~Front'
         /\ Log' = history' /\ synced' \in synced..Len(Log) /\ Len(history') = synced'
         /\ synced' \in Nat /\ synced' <= Len(history) /\ Log' = SubSeq(Log, 1, synced')
         /\ \A i \in 1..synced' : history'[i] = history[i]
         /\ syncedCurrent' = positionCurrent'
<1>1. TypeOK /\ TypeOK'
  BY NextType DEF LogInv, Inv, Next
<1>2. /\ history \in Seq(Event) /\ Len(history) \in Nat /\ synced \in 0..Len(history)
      /\ Len(Log) = Len(history) + Len(Uncommitted) /\ Len(Uncommitted) \in Nat
      /\ \A i \in 1..Len(history) : Log[i] = history[i]
      /\ Log \in Seq(Event)
  BY <1>1, LogSeq, LenProperties DEF TypeOK, HistoryOK
<1>3. archivePending' = <<>> /\ ~written' /\ ~Front' /\ Uncommitted' = <<>>
  BY DEF Exit, Front, Uncommitted
<1>4. /\ synced' \in 0..Len(history) /\ synced' >= synced
      /\ history' = SubSeq(history, 1, synced') /\ syncedCurrent' = positionCurrent'
  <2>1. CASE KeepUnsynced
    BY <1>2, <2>1, SubSeqFull DEF KeepUnsynced
  <2>2. CASE LoseUnsynced
    BY <1>2, <2>2 DEF LoseUnsynced
  <2> QED
    BY <2>1, <2>2 DEF Exit
<1>5. /\ Len(history') = synced' /\ history' \in Seq(Event)
      /\ \A i \in 1..synced' : history'[i] = history[i]
  BY <1>2, <1>4, Prefix
<1>6. Log' = history'
  BY <1>3, <1>5, ConcatEmptySeq DEF Log
<1>7. history' = SubSeq(Log, 1, synced')
  <2>1. synced' \in 0..Len(Log) /\ \A i \in 1..synced' : Log[i] = history[i]
    BY <1>2, <1>4
  <2>2. /\ SubSeq(Log, 1, synced') \in Seq(Event)
        /\ Len(SubSeq(Log, 1, synced')) = synced'
        /\ \A i \in 1..synced' : SubSeq(Log, 1, synced')[i] = Log[i]
    BY <1>2, <2>1, Prefix
  <2> QED
    BY <1>5, <2>1, <2>2, SeqEqual
<1>8. synced' \in synced..Len(Log) /\ synced' \in Nat /\ synced' <= Len(history)
  BY <1>2, <1>4
<1> QED
  BY <1>3, <1>4, <1>5, <1>6, <1>7, <1>8

\* Steps that neither write, commit, pop nor cut leave the archive alone.
LEMMA ArchiveStays ==
  ASSUME [Next]_vars, ~Archive, ~Exit, ~\E s \in Strategies, v \in Versions : Admit(s, v)
  PROVE  UNCHANGED <<archiveVars, archivePending>>
BY DEF Next, Archive, AcceptPending, Mirror, MirrorStart, MirrorUpdate, MirrorAck,
   MirrorFail, MirrorTimeout, LateUpdate, Configure, BeginEdit, DeleteStrategy,
   CreateStrategy, Load, LoadRows, Recover, Install, LoadFail, Close, Start, vars,
   archiveVars, mirrorVars, loadVars, phaseVars

\* Every other step keeps the log.
LEMMA StableLog ==
  ASSUME LogInv, [Next]_vars, ~Exit, ~\E s \in Strategies, v \in Versions : Admit(s, v)
  PROVE  Log' = Log
<1>1. CASE ArchiveWrite \/ ArchiveSyncError
  <2>1. ArchiveFront /\ UNCHANGED archivePending
    BY <1>1 DEF ArchiveWrite, ArchiveSyncError
  <2> QED
    BY <2>1, CommitLog
<1>2. CASE ArchiveResync
  BY <1>2 DEF ArchiveResync, Log, Uncommitted, Archived
<1>3. CASE ArchivePop
  BY <1>3, PopLog
<1>4. CASE ~Archive
  <2>1. UNCHANGED <<history, archivePending, positionCurrent>>
    BY <1>4, ArchiveStays DEF archiveVars
  <2> QED
    BY <2>1 DEF Log, Uncommitted, Archived
<1> QED
  BY <1>1, <1>2, <1>3, <1>4 DEF Archive

-----------------------------------------------------------------------------
(***************************************************************************)
(* Every step keeps the invariant of the refinement                         *)
(***************************************************************************)
\* Every event in the log was issued.
LEMMA LogIssued ==
  ASSUME LogInv, NEW i \in 1..Len(Log)
  PROVE  Log[i] \in issued
BY LogEvents DEF LogInv, HistoryIssued, Inv, AllIssued

\* No step makes a row one of a creation that is in the log and was not its own.
LEMMA RowIds ==
  ASSUME LogInv, [Next]_vars, NEW e \in issued, e.id = pgRow'[e.name].id
  PROVE  e.id = pgRow[e.name].id
<1>1. TypeOK /\ Inv /\ e \in Event
  BY DEF LogInv, Inv, TypeOK, StateOK
<1>2. e.name \in Strategies /\ e.id \in Ids
  BY <1>1 DEF Event
<1>3. CASE LateUpdate \/ \E s \in Strategies : MirrorUpdate(s)
  BY <1>1, <1>2, <1>3, MirrorWrites
<1>4. ASSUME NEW s \in Strategies, DeleteStrategy(s)
      PROVE  e.id = pgRow[e.name].id
  BY <1>1, <1>2, <1>4, NoIdAssumption DEF DeleteStrategy, TypeOK, StateOK, Slots, Absent
<1>5. ASSUME NEW s \in Strategies, NEW r \in Row, CreateStrategy(s, r)
      PROVE  e.id = pgRow[e.name].id
  <2>1. e.name = s => e.id # r.id
    BY <1>5 DEF CreateStrategy
  <2> QED
    BY <1>1, <1>2, <1>5, <2>1, FreshCreation
<1>6. CASE UNCHANGED pgRow
  BY <1>6
<1> QED
  BY <1>3, <1>4, <1>5, <1>6 DEF Next, Archive, ArchiveWrite, ArchiveSyncError,
     ArchiveResync, ArchivePop, Mirror, MirrorStart, MirrorAck, MirrorFail,
     MirrorTimeout, Configure, BeginEdit, Load, LoadRows, Recover, Install, LoadFail,
     Admit, AcceptPending, Close, Exit, Start, vars

\* No event of a live creation in the log is newer than memory.
LEMMA LogBehind ==
  ASSUME LogInv, NEW i \in 1..Len(Log), current[Log[i].name] # Absent,
         Log[i].id = pgRow[Log[i].name].id
  PROVE  /\ Log[i].id = current[Log[i].name].id
         /\ Log[i].ver <= current[Log[i].name].ver
<1> DEFINE e == Log[i]
           s == Log[i].name
<1>1. TypeOK /\ e \in Event /\ s \in Strategies /\ e.id \in Ids /\ e.ver \in Nat
  BY LogEvents, VersionsAssumption DEF LogInv, Inv, Event
<1>2. e.id = current[s].id
  BY <1>1, NoIdAssumption DEF LogInv, Inv, SameCreation, Absent
<1>3. CASE i \in 1..Len(history) /\ e = history[i]
  <2>1. positionCurrent[s].id = e.id /\ e.ver <= positionCurrent[s].ver
    BY <1>3 DEF LogInv, KeysFollow, KeysOf
  <2>2. positionCurrent[s].ver <= current[s].ver
    BY <1>1, <1>2, <2>1 DEF LogInv, Inv, ArchiveBehind
  <2> QED
    BY <1>1, <1>2, <2>1, <2>2, Vers
<1>4. CASE e \in Queued
  BY <1>2, <1>4 DEF LogInv, Inv, QueueBehind
<1> QED
  BY <1>1, <1>3, <1>4, LogEvents

\* A step that admits e, which is newer than all of its creation in the log.
Admits(s, v, e) ==
  /\ e = EventOf(s, [current[s] EXCEPT !.ver = v])
  /\ e.name = s /\ e.id = pgRow[s].id /\ e.id = current[s].id /\ e.ver = v
  /\ current'[s] = RowOf(e)
  /\ \A t \in Strategies : t # s => current'[t] = current[t]
  /\ archivePending' = Append(archivePending, e)
  /\ UNCHANGED <<archiveVars, pgRow>>
  /\ \A i \in 1..Len(Log) : Log[i].name = s /\ Log[i].id = e.id => Log[i].ver < v
  /\ \A i \in 1..Len(Log) : Log[i] # e

\* An admission is such a step.
LEMMA AdmitFresh ==
  ASSUME LogInv, NEW s \in Strategies, NEW v \in Versions, Admit(s, v)
  PROVE  \E e \in Event : Admits(s, v, e)
<1> DEFINE e == EventOf(s, [current[s] EXCEPT !.ver = v])
<1>1. TypeOK /\ current[s] # Absent /\ ready /\ v > current[s].ver
  BY DEF LogInv, Inv, Admit
<1>2. current[s] \in Row /\ pgRow[s].id = current[s].id /\ current[s].ver \in Nat
  BY <1>1, SlotId, Vers DEF LogInv, Inv, SameCreation
<1>3. e \in Event /\ e.name = s /\ e.id = current[s].id /\ e.ver = v
      /\ RowOf(e) = [current[s] EXCEPT !.ver = v]
  BY <1>2 DEF EventOf, RowOf, Row, Event
<1>4. /\ current'[s] = RowOf(e) /\ archivePending' = Append(archivePending, e)
      /\ \A t \in Strategies : t # s => current'[t] = current[t]
      /\ UNCHANGED <<archiveVars, pgRow>>
  BY <1>1, <1>3 DEF Admit, TypeOK, StateOK, Slots
<1> HIDE DEF e
<1>5. ASSUME NEW i \in 1..Len(Log), Log[i].name = s, Log[i].id = e.id
      PROVE  Log[i].ver < v
  <2>1. Log[i].ver <= current[s].ver
    BY <1>1, <1>2, <1>3, <1>5, LogBehind
  <2>2. Log[i].ver \in Nat /\ v \in Nat
    BY <1>1, LogEvents, VersionsAssumption DEF Event
  <2> QED
    BY <1>1, <1>2, <2>1, <2>2
<1>6. ASSUME NEW i \in 1..Len(Log)
      PROVE  Log[i] # e
  BY <1>3, <1>5, VersionsAssumption
<1> QED
  BY <1>2, <1>3, <1>4, <1>5, <1>6 DEF e, Admits

\* FrontKnown: the worker writes, syncs and pops one event at a time.
LEMMA KeepsFrontKnown ==
  ASSUME LogInv, [Next]_vars
  PROVE  FrontKnown'
<1>1. /\ FrontKnown /\ TypeOK /\ history \in Seq(Event) /\ Len(history) \in Nat
      /\ synced \in Nat
  BY LogSeq, LenProperties DEF LogInv, Inv, TypeOK, HistoryOK
<1>2. ASSUME NEW s \in Strategies, NEW v \in Versions, Admit(s, v)
      PROVE  FrontKnown'
  <2>1. PICK e \in Event : Admits(s, v, e)
    BY <1>2, AdmitFresh
  <2>2. /\ Front' <=> Front
        /\ Front => Head(archivePending') = Head(archivePending)
        /\ UNCHANGED <<history, synced, syncedCurrent, positionCurrent, written>>
    BY <2>1, AdmitLog DEF archiveVars, Admits
  <2> QED
    BY <1>1, <2>2 DEF FrontKnown
<1>3. ASSUME ArchiveFront, UNCHANGED archivePending
      PROVE  /\ ~Front /\ ~written /\ Front' /\ Len(history) = synced
             /\ Len(history') = Len(history) + 1 /\ Len(history') > 0
             /\ history'[Len(history')] = Head(archivePending')
  <2>1. ~Front /\ ~written /\ Front'
    BY <1>3, CommitLog DEF ArchiveFront, Front
  <2>2. Head(archivePending) \in Event /\ history' = Append(history, Head(archivePending))
    BY <1>1, <1>3, QueuedEvents DEF ArchiveFront, AppendBatch
  <2>3. Len(history) = synced
    BY <1>1, <2>1 DEF FrontKnown
  <2> QED
    BY <1>1, <1>3, <2>1, <2>2, <2>3, AppendProperties
<1>4. CASE ArchiveWrite
  <2>1. /\ ArchiveFront /\ UNCHANGED archivePending /\ synced' = Len(history')
        /\ written' = TRUE /\ syncedCurrent' = positionCurrent'
    BY <1>4 DEF ArchiveWrite
  <2> QED
    BY <1>1, <1>3, <2>1 DEF FrontKnown
<1>5. CASE ArchiveSyncError
  <2>1. ArchiveFront /\ UNCHANGED <<archivePending, written, synced>>
    BY <1>5 DEF ArchiveSyncError, KeepFront
  <2> QED
    BY <1>1, <1>3, <2>1 DEF FrontKnown
<1>6. CASE ArchiveResync
  <2>1. /\ Front /\ written' = TRUE /\ synced' = Len(history)
        /\ syncedCurrent' = positionCurrent
        /\ UNCHANGED <<positionCurrent, history, archivePending>>
    BY <1>6 DEF ArchiveResync, Front
  <2>2. Front'
    BY <2>1 DEF Front, Archived
  <2> QED
    BY <1>1, <2>1, <2>2 DEF FrontKnown
<1>7. CASE ArchivePop
  <2>1. /\ written /\ ~written' /\ ~Front'
        /\ UNCHANGED <<positionCurrent, syncedCurrent, history, synced>>
    BY <1>7, PopLog DEF ArchivePop
  <2> QED
    BY <1>1, <2>1 DEF FrontKnown
<1>8. CASE Exit
  <2>1. /\ ~written' /\ ~Front' /\ Len(history') = synced'
        /\ syncedCurrent' = positionCurrent' /\ synced' \in Nat
    BY <1>8, ExitLog
  <2> QED
    BY <2>1 DEF FrontKnown
<1>9. CASE UNCHANGED <<archiveVars, archivePending>>
  <2>1. Front' <=> Front
    BY <1>9 DEF Front, Archived, archiveVars
  <2> QED
    BY <1>1, <1>9, <2>1 DEF FrontKnown, archiveVars
<1> QED
  BY <1>2, <1>4, <1>5, <1>6, <1>7, <1>8, <1>9, ArchiveStays DEF Archive

\* HistoryIssued: only queued events are committed.
LEMMA KeepsHistoryIssued ==
  ASSUME LogInv, [Next]_vars
  PROVE  HistoryIssued'
<1>1. TypeOK /\ HistoryIssued /\ Queued \subseteq issued /\ history \in Seq(Event)
  BY LogSeq DEF LogInv, Inv, AllIssued
<1>2. issued \subseteq issued'
  BY DEF Next, Admit, AcceptPending, Archive, ArchiveWrite, ArchiveSyncError,
     ArchiveResync, ArchivePop, Mirror, MirrorStart, MirrorUpdate, MirrorAck,
     MirrorFail, MirrorTimeout, LateUpdate, Configure, BeginEdit, DeleteStrategy,
     CreateStrategy, Load, LoadRows, Recover, Install, LoadFail, Close, Exit, Start, vars
<1>3. CASE ArchiveWrite \/ ArchiveSyncError
  <2>1. /\ Head(archivePending) \in issued /\ Head(archivePending) \in Event
        /\ history' = Append(history, Head(archivePending))
    BY <1>1, <1>3, QueuedEvents DEF ArchiveWrite, ArchiveSyncError, ArchiveFront,
       AppendBatch
  <2>2. /\ Len(history') = Len(history) + 1 /\ Len(history) \in Nat
        /\ \A i \in 1..Len(history) : history'[i] = history[i]
        /\ history'[Len(history) + 1] = Head(archivePending)
    BY <1>1, <2>1, AppendProperties, LenProperties
  <2>3. \A i \in 1..Len(history') : i \in 1..Len(history) \/ i = Len(history) + 1
    BY <2>2
  <2> QED
    BY <1>1, <1>2, <2>1, <2>2, <2>3 DEF HistoryIssued
<1>4. CASE Exit
  <2>1. \A i \in 1..Len(history') : i \in 1..Len(history) /\ history'[i] = history[i]
    BY <1>1, <1>4, ExitLog, LenProperties DEF TypeOK, HistoryOK
  <2> QED
    BY <1>1, <1>2, <2>1 DEF HistoryIssued
<1>5. CASE UNCHANGED history
  BY <1>1, <1>2, <1>5 DEF HistoryIssued
<1> QED
  BY <1>3, <1>4, <1>5, ArchiveStays DEF Archive, ArchiveResync, ArchivePop, Admit,
     archiveVars

\* LogUnique and LogOrdered: an admitted event is the newest of its creation.
LEMMA KeepsLogOrder ==
  ASSUME LogInv, [Next]_vars
  PROVE  LogUnique' /\ LogOrdered'
<1>1. TypeOK /\ LogUnique /\ LogOrdered /\ Log \in Seq(Event) /\ Len(Log) \in Nat
  BY LogSeq, LenProperties DEF LogInv, Inv
<1>2. \A i \in 1..Len(Log) :
        Log[i].id = pgRow'[Log[i].name].id => Log[i].id = pgRow[Log[i].name].id
  BY LogIssued, RowIds
<1>3. ASSUME NEW s \in Strategies, NEW v \in Versions, Admit(s, v)
      PROVE  LogUnique' /\ LogOrdered'
  <2>0. PICK e \in Event : Admits(s, v, e)
    BY <1>3, AdmitFresh
  <2>1. /\ e.name = s /\ e.id = pgRow[s].id /\ e.ver = v /\ UNCHANGED pgRow
        /\ \A i \in 1..Len(Log) :
             Log[i].name = s /\ Log[i].id = e.id => Log[i].ver < v
        /\ \A i \in 1..Len(Log) : Log[i] # e
    BY <2>0 DEF Admits
  <2>2. Log' = Append(Log, e)
    BY <2>0, AdmitLog DEF archiveVars, Admits
  <2>3. /\ Len(Log') = Len(Log) + 1
        /\ \A i \in 1..Len(Log) : Log'[i] = Log[i]
        /\ Log'[Len(Log) + 1] = e
    BY <1>1, <2>2, AppendProperties
  <2>4. \A i \in 1..Len(Log') : i \in 1..Len(Log) \/ i = Len(Log) + 1
    BY <1>1, <2>3
  <2>5. LogUnique'
    BY <1>1, <2>1, <2>3, <2>4 DEF LogUnique
  <2>6. ASSUME NEW i \in 1..Len(Log'), NEW j \in 1..Len(Log'),
               i <= j, Log'[i].name = Log'[j].name, Log'[i].id = pgRow'[Log'[i].name].id
        PROVE  Log'[j].id = Log'[i].id /\ Log'[i].ver <= Log'[j].ver
    <3>1. e.ver \in Nat /\ \A k \in 1..Len(Log) : Log[k].ver \in Nat
      BY <1>1, LogEvents, VersionsAssumption DEF Event
    <3>2. CASE j \in 1..Len(Log)
      <4>1. i \in 1..Len(Log)
        BY <1>1, <2>4, <2>6, <3>2
      <4> QED
        BY <1>1, <2>1, <2>3, <2>6, <3>2, <4>1 DEF LogOrdered
    <3>3. CASE j = Len(Log) + 1 /\ i \in 1..Len(Log)
      BY <2>1, <2>3, <2>6, <3>1, <3>3
    <3>4. CASE j = Len(Log) + 1 /\ i = Len(Log) + 1
      BY <2>3, <3>1, <3>4
    <3> QED
      BY <2>4, <3>2, <3>3, <3>4
  <2> QED
    BY <2>5, <2>6 DEF LogOrdered
<1>4. ASSUME Len(Log') \in Nat, Len(Log') <= Len(Log),
             \A i \in 1..Len(Log') : Log'[i] = Log[i]
      PROVE  LogUnique' /\ LogOrdered'
  <2>1. \A i \in 1..Len(Log') : i \in 1..Len(Log)
    BY <1>1, <1>4
  <2>2. LogUnique'
    BY <1>1, <1>4, <2>1 DEF LogUnique
  <2>3. LogOrdered'
    BY <1>1, <1>2, <1>4, <2>1 DEF LogOrdered
  <2> QED
    BY <2>2, <2>3
<1>5. CASE Exit
  <2>1. synced' \in 0..Len(history) /\ Len(history) \in Nat /\ Len(Log) >= Len(history)
    BY <1>1, <1>5, ExitLog, LogSeq, LenProperties DEF TypeOK, HistoryOK
  <2>2. \A i \in 1..Len(history) : Log[i] = history[i]
    BY <1>1, LogSeq
  <2> QED
    BY <1>4, <1>5, <2>1, <2>2, ExitLog
<1>6. CASE Log' = Log
  BY <1>1, <1>4, <1>6
<1> QED
  BY <1>3, <1>5, <1>6, StableLog

\* A step that leaves the history makes no event in it one of its row's creation.
LEMMA HistoryRowIds ==
  ASSUME LogInv, [Next]_vars, NEW i \in 1..Len(history),
         history[i].id = pgRow'[history[i].name].id
  PROVE  history[i].id = pgRow[history[i].name].id
<1>1. history[i] \in issued
  BY DEF LogInv, HistoryIssued
<1> QED
  BY <1>1, RowIds

\* KeysFollow: a commit writes key and event in one batch.
LEMMA KeepsKeysFollow ==
  ASSUME LogInv, [Next]_vars
  PROVE  KeysFollow'
<1>1. /\ TypeOK /\ KeysFollow /\ history \in Seq(Event) /\ Len(history) \in Nat
      /\ synced \in 0..Len(history)
  BY LogSeq, LenProperties DEF LogInv, Inv, TypeOK, HistoryOK
<1>2. KeysOf(Len(history), positionCurrent) /\ KeysOf(synced, syncedCurrent)
  BY <1>1 DEF KeysFollow
<1>3. ASSUME ArchiveFront, UNCHANGED <<archivePending, pgRow>>
      PROVE  /\ KeysOf(Len(history), positionCurrent)'
             /\ \A i \in 1..Len(history) : history'[i] = history[i]
  <2> DEFINE e == Head(archivePending)
             n == Len(history) + 1
  <2>1. /\ e \in Event /\ e.name \in Strategies /\ EventOf(e.name, RowOf(e)) = e
        /\ e.ver \in Nat
    BY <1>1, <1>3, QueuedEvents, EventRow, VersionsAssumption DEF ArchiveFront, Event
  <2>2. /\ history' = Append(history, e)
        /\ positionCurrent' = [positionCurrent EXCEPT ![e.name] = RowOf(e)]
    BY <1>3 DEF ArchiveFront, AppendBatch
  <2> HIDE DEF e
  <2>3. /\ Len(history') = n /\ history'[n] = e
        /\ \A i \in 1..Len(history) : history'[i] = history[i]
        /\ \A i \in 1..n : i \in 1..Len(history) \/ i = n
    BY <1>1, <2>1, <2>2, AppendProperties
  <2>4. \A s \in Strategies :
          positionCurrent'[s] = IF s = e.name THEN RowOf(e) ELSE positionCurrent[s]
    BY <1>1, <2>1, <2>2 DEF TypeOK, StateOK, Slots
  <2>5. n \in 1..Len(Log) /\ Log[n] = e /\ 1..Len(history) \subseteq 1..Len(Log)
        /\ \A i \in 1..Len(history) : Log[i] = history[i]
    <3>1. Uncommitted = archivePending /\ archivePending # <<>>
      BY <1>3 DEF ArchiveFront, Uncommitted
    <3>2. Len(Uncommitted) \in Nat \ {0} /\ Uncommitted[1] = e
      BY <1>1, <3>1, LogSeq, EmptySeq DEF e
    <3>3. Len(Log) = Len(history) + Len(Uncommitted)
      BY <1>1, LogSeq
    <3>4. 1 \in 1..Len(Uncommitted) /\ n \in 1..Len(Log)
      BY <1>1, <3>2, <3>3
    <3>5. 1..Len(history) \subseteq 1..Len(Log)
      BY <1>1, <3>2, <3>3
    <3> QED
      BY <1>1, <3>2, <3>4, <3>5, LogSeq
  <2>6. ASSUME NEW i \in 1..n, history'[i].id = pgRow[history'[i].name].id
        PROVE  /\ positionCurrent'[history'[i].name].id = history'[i].id
               /\ history'[i].ver <= positionCurrent'[history'[i].name].ver
    <3>1. CASE i = n
      BY <2>1, <2>3, <2>4, <3>1 DEF RowOf
    <3>2. CASE i \in 1..Len(history) /\ history[i].name # e.name
      <4>1. history[i].name \in Strategies
        <5>1. history[i] \in Event
          BY <1>1, <3>2, ElementOfSeq
        <5> QED
          BY <5>1 DEF Event
      <4> QED
        BY <1>2, <2>3, <2>4, <2>6, <3>2, <4>1 DEF KeysOf
    <3>3. CASE i \in 1..Len(history) /\ history[i].name = e.name
      <4>1. i <= n /\ Log[i] = history[i] /\ i \in 1..Len(Log) /\ n \in 1..Len(Log)
        BY <1>1, <2>5, <3>3
      <4>2. e.id = history[i].id /\ history[i].ver <= e.ver
        BY <2>3, <2>5, <2>6, <3>3, <4>1 DEF LogInv, LogOrdered
      <4> QED
        BY <2>1, <2>3, <2>4, <3>3, <4>2 DEF RowOf
    <3> QED
      BY <2>3, <3>1, <3>2, <3>3
  <2>7. ASSUME NEW s \in Strategies, positionCurrent'[s] # Absent
        PROVE  \E i \in 1..n : history'[i] = EventOf(s, positionCurrent'[s])
    <3>1. CASE s = e.name
      BY <1>1, <2>1, <2>3, <2>4, <3>1
    <3>2. CASE s # e.name
      <4>1. PICK i \in 1..Len(history) : history[i] = EventOf(s, positionCurrent[s])
        BY <1>2, <2>4, <2>7, <3>2 DEF KeysOf
      <4> QED
        BY <1>1, <2>3, <2>4, <3>2, <4>1
    <3> QED
      BY <3>1, <3>2
  <2> QED
    BY <1>3, <2>3, <2>6, <2>7 DEF KeysOf
<1>4. CASE ArchiveWrite
  <2>1. /\ ArchiveFront /\ UNCHANGED <<archivePending, pgRow>>
        /\ synced' = Len(history') /\ syncedCurrent' = positionCurrent'
    BY <1>4 DEF ArchiveWrite
  <2> QED
    BY <1>3, <2>1 DEF KeysFollow, KeysOf
<1>5. CASE ArchiveSyncError
  <2>1. ArchiveFront /\ UNCHANGED <<archivePending, pgRow, synced, syncedCurrent>>
    BY <1>5 DEF ArchiveSyncError
  <2>2. \A i \in 1..synced : history'[i] = history[i]
    BY <1>1, <1>3, <2>1
  <2> QED
    BY <1>2, <1>3, <2>1, <2>2 DEF KeysFollow, KeysOf
<1>6. CASE Exit
  <2>1. /\ synced' \in Nat /\ Len(history') = synced' /\ synced' <= Len(history)
        /\ \A i \in 1..synced' : history'[i] = history[i]
        /\ syncedCurrent' = positionCurrent' /\ UNCHANGED pgRow
    <3>1. UNCHANGED pgRow
      BY <1>6 DEF Exit
    <3> QED
      BY <1>6, <3>1, ExitLog
  <2>2. CASE KeepUnsynced
    BY <1>2, <2>1, <2>2 DEF KeepUnsynced, KeysFollow, KeysOf
  <2>3. CASE LoseUnsynced
    BY <1>2, <2>1, <2>3 DEF LoseUnsynced, KeysFollow, KeysOf
  <2> QED
    BY <1>6, <2>2, <2>3 DEF Exit
<1>7. CASE ArchiveResync
  BY <1>2, <1>7 DEF ArchiveResync, KeysFollow, KeysOf
<1>8. CASE UNCHANGED <<history, synced, positionCurrent, syncedCurrent>>
  <2>1. history' = history /\ Len(history') = Len(history) /\ synced' = synced
    BY <1>8
  <2>2. \A i \in 1..Len(history) :
          history'[i].id = pgRow'[history'[i].name].id =>
            history[i].id = pgRow[history[i].name].id
    BY <2>1, HistoryRowIds
  <2>3. \A i \in 1..synced : i \in 1..Len(history)
    BY <1>1
  <2>4. KeysOf(Len(history), positionCurrent)'
    BY <1>2, <1>8, <2>1, <2>2 DEF KeysOf
  <2>5. KeysOf(synced, syncedCurrent)'
    BY <1>2, <1>8, <2>1, <2>2, <2>3 DEF KeysOf
  <2> QED
    BY <2>4, <2>5 DEF KeysFollow
<1> QED
  BY <1>4, <1>5, <1>6, <1>7, <1>8, ArchiveStays DEF Archive, ArchivePop, Admit, archiveVars

\* LiveKept: what leaves the queue is in the archive, and the archive's key gives way
\* only to a newer target.
LEMMA KeepsLiveKept ==
  ASSUME LogInv, [Next]_vars
  PROVE  LiveKept'
<1>1. TypeOK /\ Inv /\ LiveKept /\ KeysFollow
  BY DEF LogInv, Inv
<1>2. ASSUME NEW x \in Strategies, NEW v \in Versions, Admit(x, v)
      PROVE  LiveKept'
  <2>1. PICK e \in Event : Admits(x, v, e)
    BY <1>2, AdmitFresh
  <2>2. Queued' = Queued \cup {e} /\ EventOf(x, current'[x]) = e
        /\ UNCHANGED <<positionCurrent, pgRow>>
        /\ \A s \in Strategies : s # x => current'[s] = current[s]
    BY <1>1, <2>1, QueuedAppend, EventRow DEF Admits, archiveVars
  <2> QED
    BY <1>1, <2>2 DEF LiveKept
<1>3. CASE ArchiveWrite \/ ArchiveSyncError
  <2> DEFINE e == Head(archivePending)
             n == Len(history) + 1
  <2>1. /\ e \in Event /\ e \in Queued /\ e.name \in Strategies
        /\ EventOf(e.name, RowOf(e)) = e /\ e.ver \in Nat /\ ArchiveFront
        /\ UNCHANGED <<archivePending, current, pgRow>>
    BY <1>1, <1>3, QueuedEvents, EventRow, VersionsAssumption
       DEF ArchiveWrite, ArchiveSyncError, ArchiveFront, Event
  <2>2. positionCurrent' = [positionCurrent EXCEPT ![e.name] = RowOf(e)]
    BY <2>1 DEF ArchiveFront, AppendBatch
  <2>3. Log[n] = e /\ n \in 1..Len(Log) /\ Len(history) \in Nat
        /\ \A i \in 1..Len(history) : i \in 1..Len(Log) /\ i <= n /\ Log[i] = history[i]
    <3>1. Uncommitted = archivePending /\ archivePending # <<>> /\ Len(history) \in Nat
      BY <1>1, <2>1, LogSeq, LenProperties DEF ArchiveFront, Uncommitted
    <3>2. Len(Uncommitted) \in Nat \ {0} /\ Uncommitted[1] = e
      BY <1>1, <3>1, LogSeq, EmptySeq
    <3> HIDE DEF e
    <3>3. Len(Log) = Len(history) + Len(Uncommitted) /\ 1 \in 1..Len(Uncommitted)
      BY <1>1, <3>2, LogSeq
    <3>4. n \in 1..Len(Log) /\ \A i \in 1..Len(history) : i \in 1..Len(Log) /\ i <= n
      BY <3>1, <3>2, <3>3
    <3> QED
      BY <1>1, <3>1, <3>2, <3>3, <3>4, LogSeq
  <2> HIDE DEF e
  <2>4. ASSUME NEW s \in Strategies, current[s] # Absent, pgRow[s].id = current[s].id,
               pgRow[s].ver < current[s].ver, positionCurrent[s] = current[s], s = e.name
        PROVE  EventOf(s, current[s]) \in Queued
    <3>1. PICK i \in 1..Len(history) : history[i] = EventOf(s, current[s])
      BY <1>1, <2>4 DEF KeysFollow, KeysOf
    <3>2. /\ Log[i].name = s /\ Log[i].id = current[s].id /\ Log[i].ver = current[s].ver
          /\ i \in 1..Len(Log) /\ i <= n
      BY <2>3, <3>1 DEF EventOf
    <3>3. e.id = current[s].id /\ current[s].ver <= e.ver
      BY <2>3, <2>4, <3>2 DEF LogInv, LogOrdered
    <3>4. e.ver <= current[s].ver
      BY <2>1, <2>4, <3>3 DEF LogInv, Inv, QueueBehind
    <3>5. e.ver = current[s].ver
      BY <1>1, <2>1, <3>3, <3>4, Vers
    <3>6. EventOf(s, current[s]) = e
      BY <2>1, <2>4, <3>3, <3>5 DEF EventOf, Event
    <3> QED
      BY <2>1, <3>6
  <2>5. \A s \in Strategies : s # e.name => positionCurrent'[s] = positionCurrent[s]
    BY <1>1, <2>1, <2>2 DEF TypeOK, StateOK, Slots
  <2>6. Queued' = Queued
    BY <2>1 DEF Queued
  <2> QED
    BY <1>1, <2>1, <2>4, <2>5, <2>6 DEF LiveKept
<1>4. CASE ArchivePop
  <2>1. /\ archivePending # <<>> /\ archivePending' = Tail(archivePending)
        /\ Archived(Head(archivePending)) /\ UNCHANGED <<positionCurrent, current, pgRow>>
    BY <1>4 DEF ArchivePop, LogInv, FrontKnown, Front
  <2>2. \A e \in Queued : e = Head(archivePending) \/ e \in Queued'
    <3>1. archivePending \in Seq(Event)
      BY <1>1, LogSeq
    <3>2. Len(archivePending) \in Nat /\ Len(archivePending') = Len(archivePending) - 1
          /\ \A i \in 1..Len(archivePending') : archivePending'[i] = archivePending[i + 1]
      BY <2>1, <3>1, HeadTailProperties, LenProperties
    <3>3. ASSUME NEW i \in 1..Len(archivePending), i # 1
          PROVE  archivePending[i] \in Queued'
      <4>1. i - 1 \in 1..Len(archivePending') /\ i - 1 + 1 = i
        BY <3>2, <3>3
      <4> QED
        BY <3>2, <4>1 DEF Queued
    <3>4. Head(archivePending) = archivePending[1]
      BY <2>1, <3>1
    <3> QED
      BY <3>3, <3>4 DEF Queued
  <2>3. ASSUME NEW s \in Strategies, current[s] # Absent,
               EventOf(s, current[s]) = Head(archivePending)
        PROVE  positionCurrent[s] = current[s]
    <3>1. current[s] \in Row
      BY <1>1, <2>3, Vers, SlotId
    <3> QED
      BY <2>1, <2>3, <3>1 DEF Archived, EventOf, RowOf, Row
  <2> QED
    BY <1>1, <2>1, <2>2, <2>3 DEF LiveKept
<1>5. CASE LateUpdate \/ \E s \in Strategies : MirrorUpdate(s)
  <2>1. UNCHANGED <<current, positionCurrent, archivePending>>
    BY <1>5 DEF LateUpdate, MirrorUpdate, archiveVars
  <2>2. \A s \in Strategies : /\ pgRow'[s].id = pgRow[s].id
                              /\ pgRow'[s].ver >= pgRow[s].ver /\ pgRow'[s].ver \in Nat
    BY <1>1, <1>5, MirrorWrites, NextType, Vers, SlotVer DEF TypeOK, StateOK, Slots
  <2>3. \A s \in Strategies : current[s].ver \in Nat /\ pgRow[s].ver \in Nat
    BY <1>1, Vers
  <2> QED
    BY <1>1, <2>1, <2>2, <2>3 DEF LiveKept, Queued
<1>6. ASSUME NEW x \in Strategies, DeleteStrategy(x)
      PROVE  LiveKept'
  <2>1. /\ UNCHANGED <<current, positionCurrent, archivePending>>
        /\ \A s \in Strategies : pgRow'[s] = IF s = x THEN Absent ELSE pgRow[s]
    BY <1>1, <1>6 DEF DeleteStrategy, archiveVars, TypeOK, StateOK, Slots
  <2>2. \A s \in Strategies : current[s] # Absent => current[s].id # NoId
    BY <1>1, Vers, SlotId
  <2> QED
    BY <1>1, <2>1, <2>2 DEF LiveKept, Queued, Absent
<1>7. ASSUME NEW x \in Strategies, NEW r \in Row, CreateStrategy(x, r)
      PROVE  LiveKept'
  <2>1. /\ UNCHANGED <<current, positionCurrent, archivePending>> /\ current[x] = Absent
        /\ \A s \in Strategies : s # x => pgRow'[s] = pgRow[s]
    BY <1>1, <1>7, FreshCreation DEF CreateStrategy, archiveVars
  <2> QED
    BY <1>1, <2>1 DEF LiveKept, Queued
<1>8. CASE Install
  <2>1. /\ UNCHANGED <<positionCurrent, archivePending>> /\ loader = "recover" /\ unread = {}
    BY <1>8 DEF Install, archiveVars
  <2>2. ASSUME NEW s \in Strategies, current'[s] # Absent, pgRow'[s].id = current'[s].id,
               pgRow'[s].ver < current'[s].ver
        PROVE  positionCurrent[s] = current'[s] \/ EventOf(s, current'[s]) \in Queued
    <3>1. /\ current'[s] \in {rows[s], recovered[s], current[s]} /\ pgRow'[s] = pgRow[s]
          /\ current'[s].id = pgRow[s].id /\ rows[s].id = pgRow[s].id
          /\ rows[s].ver <= pgRow[s].ver
          /\ current[s].id = pgRow[s].id => current'[s].ver >= current[s].ver
      BY <1>1, <1>8, InstalledRow, InstalledVer
    <3>2. current'[s] # rows[s]
      BY <1>1, <2>2, <3>1, Vers
    <3>3. CASE current'[s] = current[s]
      BY <1>1, <2>2, <3>1, <3>3 DEF LiveKept
    <3>4. CASE current'[s] = recovered[s] /\ current[s] # Absent
      <4>1. current[s].id = pgRow[s].id
        <5>1. pgRow[s] # Absent
          BY <1>1, <2>2, <3>1, <3>4, Vers, SlotId
        <5> QED
          BY <1>1, <3>4, <5>1 DEF Inv, SameCreation
      <4>2. recovered[s].ver <= current[s].ver
        BY <1>1, <2>1, <3>1, <3>4, <4>1 DEF Inv, LoadBehind
      <4>3. current'[s].ver = current[s].ver
        BY <1>1, <3>1, <3>4, <4>1, <4>2, Vers
      <4>4. current'[s] = current[s]
        <5>1. current[s] \in Row /\ recovered[s] \in Row
          BY <1>1, <2>2, <3>4, Vers, SlotId
        <5> QED
          BY <3>1, <3>4, <4>1, <4>3, <5>1 DEF Row
      <4> QED
        BY <3>3, <4>4
    <3>5. CASE current'[s] = recovered[s] /\ current[s] = Absent
      <4>1. rows[s] # Absent
        BY <1>1, <2>2, <3>1, <3>5, Vers, SlotId
      <4>2. positionCurrent[s].id = rows[s].id
        <5>1. PICK i \in 1..Len(history) : history[i] = EventOf(s, recovered[s])
          BY <2>1, <2>2, <3>5 DEF LogInv, RecoveredLogged
        <5>2. history[i].name = s /\ history[i].id = pgRow[s].id
          BY <3>1, <3>5, <5>1 DEF EventOf
        <5> QED
          BY <1>1, <3>1, <5>2 DEF KeysFollow, KeysOf
      <4> QED
        BY <1>1, <2>1, <3>5, <4>1, <4>2 DEF Inv, LoadBehind
    <3> QED
      BY <3>1, <3>2, <3>3, <3>4, <3>5
  <2>3. Queued' = Queued
    BY <2>1 DEF Queued
  <2> QED
    BY <2>1, <2>2, <2>3 DEF LiveKept
<1>9. CASE Exit
  <2>1. \A s \in Strategies : current'[s] = Absent
    BY <1>9 DEF Exit, NoRows
  <2> QED
    BY <2>1 DEF LiveKept
<1>10. CASE UNCHANGED <<current, positionCurrent, archivePending, pgRow>>
  BY <1>1, <1>10 DEF LiveKept, Queued
<1> QED
  BY <1>2, <1>3, <1>4, <1>5, <1>6, <1>7, <1>8, <1>9, <1>10 DEF Next, Archive,
     ArchiveResync, Mirror, MirrorStart, MirrorAck, MirrorFail, MirrorTimeout, Configure,
     BeginEdit, Load, LoadRows, Recover, LoadFail, AcceptPending, Close, Start, vars,
     archiveVars

\* RecoveredLogged: while a load runs the history only grows.
LEMMA KeepsRecoveredLogged ==
  ASSUME LogInv, [Next]_vars
  PROVE  RecoveredLogged'
<1>1. TypeOK /\ RecoveredLogged /\ KeysFollow /\ history \in Seq(Event)
      /\ Len(history) \in Nat
  BY LogSeq, LenProperties DEF LogInv, Inv
<1>2. CASE LoadRows
  BY <1>2 DEF LoadRows, NoRows, RecoveredLogged
<1>3. ASSUME NEW x \in Strategies, Recover(x)
      PROVE  RecoveredLogged'
  <2>1. /\ UNCHANGED <<loader, history>> /\ loader = "recover"
        /\ \A s \in Strategies :
             recovered'[s] = IF s = x THEN ArchivedTarget(x) ELSE recovered[s]
    BY <1>1, <1>3 DEF Recover, archiveVars, TypeOK, StateOK, Slots
  <2>2. ArchivedTarget(x) # Absent => ArchivedTarget(x) = positionCurrent[x]
    BY DEF ArchivedTarget
  <2> QED
    BY <1>1, <2>1, <2>2 DEF RecoveredLogged, KeysFollow, KeysOf
<1>4. CASE ArchiveWrite \/ ArchiveSyncError
  <2>1. /\ UNCHANGED <<loader, recovered>> /\ Head(archivePending) \in Event
        /\ history' = Append(history, Head(archivePending))
    BY <1>1, <1>4, QueuedEvents DEF ArchiveWrite, ArchiveSyncError, ArchiveFront,
       AppendBatch, loadVars
  <2>2. \A i \in 1..Len(history) : i \in 1..Len(history') /\ history'[i] = history[i]
    BY <1>1, <2>1, AppendProperties
  <2>3. \A s \in Strategies :
          (\E i \in 1..Len(history) : history[i] = EventOf(s, recovered[s])) =>
          (\E i \in 1..Len(history') : history'[i] = EventOf(s, recovered[s]))
    BY <2>2
  <2> QED
    BY <1>1, <2>1, <2>3 DEF RecoveredLogged
<1>5. CASE loader' # "recover"
  BY <1>5 DEF RecoveredLogged
<1>6. CASE UNCHANGED <<loader, recovered, history>>
  BY <1>1, <1>6 DEF RecoveredLogged
<1> QED
  BY <1>2, <1>3, <1>4, <1>5, <1>6 DEF Next, Admit, AcceptPending, Archive, ArchiveResync,
     ArchivePop, Mirror, MirrorStart, MirrorUpdate, MirrorAck, MirrorFail, MirrorTimeout,
     LateUpdate, Configure, BeginEdit, DeleteStrategy, CreateStrategy, Load, Install,
     LoadFail, Close, Exit, Start, vars, archiveVars, loadVars

\* The invariant holds initially,
LEMMA InitLogInv == Init => LogInv
<1> SUFFICES ASSUME Init PROVE LogInv
  OBVIOUS
<1>1. /\ history = <<>> /\ archivePending = <<>> /\ written = FALSE /\ synced = 0
      /\ positionCurrent = NoRows /\ syncedCurrent = NoRows /\ current = NoRows
      /\ loader = "select"
  BY DEF Init
<1>2. Len(history) = 0 /\ ~Front /\ Uncommitted = <<>>
  BY <1>1 DEF Front, Uncommitted
<1>3. Log = <<>> /\ Len(Log) = 0
  BY <1>1, <1>2, ConcatEmptySeq, EmptySeq DEF Log
<1>4. FrontKnown /\ HistoryIssued /\ RecoveredLogged
  BY <1>1, <1>2 DEF FrontKnown, HistoryIssued, RecoveredLogged
<1>5. LogUnique /\ LogOrdered
  BY <1>3 DEF LogUnique, LogOrdered
<1>6. KeysFollow /\ LiveKept
  BY <1>1, <1>2 DEF KeysFollow, KeysOf, LiveKept, NoRows
<1> QED
  BY <1>4, <1>5, <1>6, InitInv DEF LogInv

\* and every step keeps it.
LEMMA NextLogInv == LogInv /\ [Next]_vars => LogInv'
BY NextInv, KeepsFrontKnown, KeepsHistoryIssued, KeepsLogOrder, KeepsKeysFollow,
   KeepsLiveKept, KeepsRecoveredLogged DEF LogInv

-----------------------------------------------------------------------------
(***************************************************************************)
(* The refinement                                                           *)
(***************************************************************************)
\* An initial state of the stores is one of the log.
LEMMA InitRefines == Init => Abstract!Init
<1> SUFFICES ASSUME Init PROVE Abstract!Init
  OBVIOUS
<1>1. /\ history = <<>> /\ archivePending = <<>> /\ synced = 0 /\ current = NoRows
      /\ pgRow = NoRows /\ issued = {}
  BY DEF Init
<1>2. history \o Uncommitted = <<>>
  BY <1>1, ConcatEmptySeq, EmptySeq DEF Uncommitted
<1>3. \A s \in Strategies : pgRow[s].id = NoId
  BY <1>1 DEF NoRows, Absent
<1> QED
  BY <1>1, <1>2, <1>3 DEF Abstract!Init, Abstract!Absent, NoRows, Absent

\* The abstract variables.
LEMMA Mapped ==
  /\ Log = history \o Uncommitted
  /\ Abstract!logVars =
       <<Log, synced, current, [s \in Strategies |-> pgRow[s].id], issued>>
BY DEF Log, Abstract!logVars

\* An admission is an admission to the log.
LEMMA AdmitRefines ==
  ASSUME LogInv, NEW s \in Strategies, NEW v \in Versions, Admit(s, v)
  PROVE  Abstract!Admit(s, v)
<1>1. PICK e \in Event : Admits(s, v, e)
  BY AdmitFresh
<1>2. Log' = Append(Log, e) /\ UNCHANGED <<synced, pgRow>>
  BY <1>1, AdmitLog DEF Admits, archiveVars
<1>3. e = EventOf(s, [current[s] EXCEPT !.ver = v])
  BY <1>1 DEF Admits
<1> QED
  BY <1>2, <1>3 DEF Admit, Abstract!Admit, Abstract!Absent, Abstract!EventOf, EventOf,
     Absent, Log

\* A commit that is synced, or a sync of one, hardens one event.
LEMMA SyncRefines ==
  ASSUME LogInv, [Next]_vars, ArchiveWrite \/ ArchiveResync
  PROVE  Abstract!Harden
<1>1. TypeOK /\ FrontKnown /\ history \in Seq(Event) /\ Len(history) \in Nat
      /\ synced \in Nat
  BY LogSeq, LenProperties DEF LogInv, Inv, TypeOK, HistoryOK
<1>2. synced' = synced + 1 /\ synced < Len(Log)
  <2>1. CASE ArchiveWrite
    <3>1. /\ ~Front /\ archivePending # <<>> /\ Uncommitted = archivePending
          /\ Head(archivePending) \in Event /\ synced' = Len(history')
          /\ history' = Append(history, Head(archivePending))
      BY <1>1, <2>1, QueuedEvents
         DEF ArchiveWrite, ArchiveFront, AppendBatch, Front, Uncommitted
    <3>2. Len(history') = Len(history) + 1 /\ Len(history) = synced
      BY <1>1, <3>1, AppendProperties DEF FrontKnown
    <3>3. Len(Uncommitted) \in Nat \ {0} /\ Len(Log) = Len(history) + Len(Uncommitted)
      BY <1>1, <3>1, LogSeq, EmptySeq
    <3> QED
      BY <1>1, <3>1, <3>2, <3>3
  <2>2. CASE ArchiveResync
    <3>1. Front /\ ~written /\ synced' = Len(history)
      BY <2>2 DEF ArchiveResync, Front
    <3>2. Len(history) = synced + 1
      BY <1>1, <3>1 DEF FrontKnown
    <3>3. Len(Uncommitted) \in Nat /\ Len(Log) = Len(history) + Len(Uncommitted)
      BY <1>1, LogSeq, LenProperties
    <3> QED
      BY <1>1, <3>1, <3>2, <3>3
  <2> QED
    BY <2>1, <2>2
<1>3. Log' = Log
  BY StableLog DEF ArchiveWrite, ArchiveResync, ArchiveFront, Exit, Admit, archiveVars,
     mirrorVars, phaseVars
<1>4. UNCHANGED <<current, pgRow, issued>>
  BY DEF ArchiveWrite, ArchiveResync
<1> QED
  BY <1>2, <1>3, <1>4 DEF Abstract!Harden, Log

\* A load installs for every strategy what TargetLog allows.
LEMMA InstallRefines ==
  ASSUME LogInv, Install
  PROVE  Abstract!Load
<1>1. TypeOK /\ Inv /\ KeysFollow /\ loader = "recover" /\ unread = {}
      /\ UNCHANGED <<archiveVars, archivePending, pgRow, issued>>
  BY DEF LogInv, Inv, Install
<1>2. Log' = Log /\ synced' = synced
  BY <1>1 DEF archiveVars, Log, Uncommitted, Archived
<1>3. ASSUME NEW s \in Strategies
      PROVE  Abstract!Loadable(s, current'[s])
  <2>1. /\ current'[s] \in {rows[s], recovered[s], current[s]}
        /\ current'[s].id = pgRow[s].id /\ rows[s].id = pgRow[s].id
        /\ rows[s] \in Slot /\ recovered[s] \in Slot /\ current[s] \in Slot
        /\ pgRow[s] \in Slot /\ current'[s].ver \in Nat
        /\ recovered[s].id = pgRow[s].id => current'[s].ver >= recovered[s].ver
        /\ current[s].id = pgRow[s].id => current'[s].ver >= current[s].ver
    BY <1>1, InstalledRow, InstalledVer, Vers
  <2>2. CASE pgRow[s].id = NoId
    BY <2>1, <2>2, SlotId DEF Abstract!Loadable, Abstract!Absent, Absent
  <2>3. CASE pgRow[s].id # NoId
    <3>1. EventOf(s, current'[s]) \in issued
      <4>1. current'[s] # Absent
        BY <2>1, <2>3, SlotId
      <4> QED
        BY <1>1, <2>1, <4>1 DEF Inv, AllIssued, Known
    <3>2. ASSUME NEW i \in 1..Len(Log), Log[i].name = s, Log[i].id = pgRow[s].id
          PROVE  Log[i].ver <= current'[s].ver
      <4>1. Log[i].ver \in Nat
        BY <1>1, LogEvents, VersionsAssumption DEF Event
      <4>2. CASE current[s] # Absent
        BY <1>1, <2>1, <3>2, <4>1, <4>2, LogBehind, Vers
      <4>3. CASE current[s] = Absent /\ i \in 1..Len(history) /\ Log[i] = history[i]
        <5>1. positionCurrent[s].id = pgRow[s].id /\ Log[i].ver <= positionCurrent[s].ver
          BY <1>1, <3>2, <4>3 DEF KeysFollow, KeysOf
        <5>2. recovered[s] = positionCurrent[s]
          BY <1>1, <2>1, <2>3, <4>3, <5>1, SlotId DEF Inv, LoadBehind
        <5> QED
          BY <1>1, <2>1, <4>1, <5>1, <5>2, Vers
      <4>4. CASE current[s] = Absent /\ Log[i] \in Queued
        BY <1>1, <3>2, <4>4 DEF Inv, QueueBehind
      <4> QED
        BY <1>1, <4>2, <4>3, <4>4, LogEvents
    <3> QED
      BY <2>1, <2>3, <3>1, <3>2
         DEF Abstract!Loadable, Abstract!EventOf, EventOf, Log
  <2> QED
    BY <2>2, <2>3
<1> QED
  BY <1>1, <1>2, <1>3 DEF Abstract!Load, Log

\* A stop is a crash that keeps what is synced, or one event more.
LEMMA ExitRefines ==
  ASSUME LogInv, Exit
  PROVE  Abstract!Crash(synced')
<1>1. /\ synced' \in synced..Len(Log) /\ Log' = SubSeq(Log, 1, synced')
  BY ExitLog
<1>2. current' = [s \in Strategies |-> Absent] /\ UNCHANGED <<pgRow, issued>>
  BY DEF Exit, NoRows
<1> QED
  BY <1>1, <1>2 DEF Abstract!Crash, Abstract!Absent, Absent, Log

\* Creations and deletions are their own.
LEMMA ConfigureRefines ==
  ASSUME LogInv, NEW s \in Strategies, [Next]_vars,
         ~Exit, ~\E x \in Strategies, v \in Versions : Admit(x, v)
  PROVE  /\ DeleteStrategy(s) => Abstract!Delete(s)
         /\ \A r \in Row : CreateStrategy(s, r) =>
              Abstract!Create(s, r) \/ UNCHANGED Abstract!logVars
<1>1. Log' = Log /\ TypeOK
  BY StableLog DEF LogInv, Inv
<1>2. pgRow[s] # Absent <=> pgRow[s].id # NoId
  BY <1>1, Vers, SlotId
<1>3. ASSUME DeleteStrategy(s)
      PROVE  Abstract!Delete(s)
  <2>1. /\ UNCHANGED <<synced, current, issued>>
        /\ \A t \in Strategies : pgRow'[t] = IF t = s THEN Absent ELSE pgRow[t]
        /\ pgRow[s] # Absent
    BY <1>1, <1>3 DEF DeleteStrategy, archiveVars, TypeOK, StateOK, Slots
  <2>2. [t \in Strategies |-> pgRow'[t].id]
          = [[t \in Strategies |-> pgRow[t].id] EXCEPT ![s] = NoId]
    <3>1. \A t \in Strategies : pgRow'[t].id = IF t = s THEN NoId ELSE pgRow[t].id
      BY <2>1 DEF Absent
    <3> QED
      BY <3>1
  <2> QED
    BY <1>1, <1>2, <2>1, <2>2 DEF Abstract!Delete, Log
<1>4. ASSUME NEW r \in Row, CreateStrategy(s, r)
      PROVE  Abstract!Create(s, r) \/ UNCHANGED Abstract!logVars
  <2>1. UNCHANGED <<synced, current>> /\ \A e \in issued : e.name = s => e.id # r.id
    BY <1>4 DEF CreateStrategy, archiveVars
  <2>2. CASE pgRow[s] = Absent
    <3>1. /\ \A t \in Strategies : pgRow'[t] = IF t = s THEN r ELSE pgRow[t]
          /\ issued' = issued \cup {EventOf(s, r)}
      BY <1>1, <1>4, <2>2 DEF CreateStrategy, TypeOK, StateOK, Slots
    <3>2. [t \in Strategies |-> pgRow'[t].id]
            = [[t \in Strategies |-> pgRow[t].id] EXCEPT ![s] = r.id]
      BY <3>1
    <3> QED
      BY <1>1, <1>2, <2>1, <2>2, <3>1, <3>2
         DEF Abstract!Create, Abstract!EventOf, EventOf, Log
  <2>3. CASE pgRow[s] # Absent
    BY <1>1, <1>4, <2>1, <2>3, Mapped DEF CreateStrategy, Abstract!logVars, Log
  <2> QED
    BY <2>2, <2>3
<1> QED
  BY <1>3, <1>4

\* Every step of the stores is a step of the log, or does not show there.
LEMMA StepRefines ==
  ASSUME LogInv, [Next]_vars
  PROVE  [Abstract!Next]_(Abstract!logVars)
<1>1. TypeOK
  BY DEF LogInv, Inv
<1>2. ASSUME NEW s \in Strategies, NEW v \in Versions, Admit(s, v)
      PROVE  Abstract!Next
  BY <1>2, AdmitRefines DEF Abstract!Next
<1>3. CASE ArchiveWrite \/ ArchiveResync
  BY <1>3, SyncRefines DEF Abstract!Next
<1>4. CASE Install
  BY <1>4, InstallRefines DEF Abstract!Next
<1>5. CASE Exit
  <2>1. synced' \in 0..Len(Log)
    BY <1>5, ExitLog, <1>1, LogSeq, LenProperties
  <2> QED
    BY <1>5, <2>1, ExitRefines DEF Abstract!Next, Log
<1>6. ASSUME ~Exit, ~\E s \in Strategies, v \in Versions : Admit(s, v),
             ~(ArchiveWrite \/ ArchiveResync \/ Install)
      PROVE  [Abstract!Next]_(Abstract!logVars)
  <2>1. ASSUME NEW s \in Strategies, DeleteStrategy(s)
        PROVE  Abstract!Next
    BY <1>6, <2>1, ConfigureRefines DEF Abstract!Next
  <2>2. ASSUME NEW s \in Strategies, NEW r \in Row, CreateStrategy(s, r)
        PROVE  [Abstract!Next]_(Abstract!logVars)
    <3>1. r = [id |-> r.id, ver |-> r.ver] /\ r.id \in Ids /\ r.ver \in Versions
      BY DEF Row
    <3> QED
      BY <1>6, <2>2, <3>1, ConfigureRefines DEF Abstract!Next
  <2>3. CASE LateUpdate \/ \E s \in Strategies : MirrorUpdate(s)
    <3>1. UNCHANGED <<synced, current, issued>> /\ Log' = Log
      BY <1>6, <2>3, StableLog DEF LateUpdate, MirrorUpdate, archiveVars
    <3>2. [s \in Strategies |-> pgRow'[s].id] = [s \in Strategies |-> pgRow[s].id]
      BY <1>1, <2>3, MirrorWrites
    <3> QED
      BY <3>1, <3>2 DEF Abstract!logVars, Log
  <2>4. CASE UNCHANGED <<synced, current, issued, pgRow>>
    BY <1>6, <2>4, StableLog DEF Abstract!logVars, Log
  <2> QED
    BY <1>6, <2>1, <2>2, <2>3, <2>4 DEF Next, Archive, ArchiveSyncError, ArchivePop,
       Mirror, MirrorStart, MirrorAck, MirrorFail, MirrorTimeout, Configure, BeginEdit,
       Load, LoadRows, Recover, LoadFail, AcceptPending, Close, Start, vars, archiveVars
<1> QED
  BY <1>2, <1>3, <1>4, <1>5, <1>6

-----------------------------------------------------------------------------
(***************************************************************************)
(* Theorems                                                                 *)
(***************************************************************************)
\* LogInv is an inductive invariant.
THEOREM LogInvariance == Spec => []LogInv
BY InitLogInv, NextLogInv, PTL DEF Spec

\* The two write-behind stores implement the log of admitted targets.
THEOREM StoresImplementLog == Spec => RefinesTargetLog
<1>1. LogInv /\ [Next]_vars => [Abstract!Next]_(Abstract!logVars)
  BY StepRefines
<1> QED
  BY <1>1, InitRefines, LogInvariance, PTL DEF Spec, RefinesTargetLog, Abstract!Spec

\* A process that exits with its archive queue drained loses nothing.
THEOREM DrainedExit == Spec => DrainedExitLosesNothing
<1> DEFINE A ==
      (process = "serving" /\ process' = "down" /\ archivePending = <<>>) =>
        /\ history' = history
        /\ \A s \in Strategies :
             current[s] # Absent /\ current[s].id = pgRow[s].id
             => Restorable(s)'.ver >= current[s].ver
<1>1. ASSUME LogInv, [Next]_vars
      PROVE  A
  <2>1. SUFFICES ASSUME process = "serving", process' = "down", archivePending = <<>>
                 PROVE  A
    OBVIOUS
  <2>2. Exit
    BY <1>1, <2>1 DEF Next, Admit, AcceptPending, Archive, ArchiveWrite, ArchiveSyncError,
       ArchiveResync, ArchivePop, Mirror, MirrorStart, MirrorUpdate, MirrorAck, MirrorFail,
       MirrorTimeout, LateUpdate, Configure, BeginEdit, DeleteStrategy, CreateStrategy,
       Load, LoadRows, Recover, Install, LoadFail, Close, Start, vars, phaseVars
  <2>3. /\ TypeOK /\ ~Front /\ Len(history) = synced /\ syncedCurrent = positionCurrent
        /\ history \in Seq(Event) /\ Queued = {}
    <3>1. TypeOK /\ ~Front
      BY <1>1, <2>1 DEF LogInv, Inv, Front
    <3>2. Queued = {}
      BY <2>1 DEF Queued
    <3> QED
      BY <1>1, <3>1, <3>2, LogSeq DEF LogInv, FrontKnown
  <2>4. history' = history /\ positionCurrent' = positionCurrent /\ pgRow' = pgRow
    BY <2>2, <2>3, SubSeqFull DEF Exit, KeepUnsynced, LoseUnsynced
  <2>5. ASSUME NEW s \in Strategies, current[s] # Absent, current[s].id = pgRow[s].id
        PROVE  Newer(pgRow[s], positionCurrent[s]).ver >= current[s].ver
    <3>1. pgRow[s].ver >= current[s].ver \/ positionCurrent[s] = current[s]
      BY <1>1, <2>3, <2>5, Vers DEF LogInv, LiveKept
    <3> QED
      BY <2>3, <2>5, <3>1, Vers, NewerRow
  <2> QED
    BY <2>4, <2>5 DEF Restorable
<1>2. LogInv /\ [Next]_vars => [A]_vars
  BY <1>1
<1> QED
  BY <1>2, LogInvariance, PTL DEF Spec, DrainedExitLosesNothing
=============================================================================
