------------------------- MODULE TargetStoreProofs -------------------------
(***************************************************************************)
(* Proofs about TargetStore, for any strategies, identities, versions,     *)
(* queue capacity and number of late UPDATEs.                              *)
(*                                                                         *)
(* NoLostMirror is not inductive.  What it leans on: a target only ever    *)
(* sits where it was put for its own creation of the name (AllIssued);     *)
(* memory and row agree on the creation (SameCreation); nothing the        *)
(* archive holds or will hold is newer than memory (ArchiveBehind and      *)
(* QueueBehind); a load works on rows and archived targets that can only   *)
(* have aged (LoadBehind); the strategy awaiting its UPDATE's answer was   *)
(* updated (AckIsTrue); and an admission between its two map inserts still *)
(* has its target in memory (AcceptingCurrent).                            *)
(***************************************************************************)
EXTENDS TargetStore, SequenceTheorems, TLAPS

\* The events in the archive queue.
Queued == {archivePending[i] : i \in 1..Len(archivePending)}

\* A map of targets that were all created or admitted.
Known(t) == \A s \in Strategies : t[s] # Absent => EventOf(s, t[s]) \in issued

\* Every target in memory, in a store or on its way was created or admitted.
AllIssued ==
  /\ Known(pgRow) /\ Known(positionCurrent) /\ Known(syncedCurrent)
  /\ Known(current) /\ Known(pending) /\ Known(flushing)
  /\ Known(rows) /\ Known(recovered)
  /\ Queued \subseteq issued /\ late \subseteq issued /\ accepting \subseteq issued

\* Memory and row belong to the same creation of the name, except that an edit may
\* have deleted the row.
SameCreation ==
  \A s \in Strategies : current[s] # Absent =>
    \/ pgRow[s].id = current[s].id
    \/ pgRow[s] = Absent /\ ~ready

\* position_current is no newer than memory,
ArchiveBehind ==
  \A s \in Strategies :
    current[s] # Absent /\ positionCurrent[s].id = current[s].id
    => positionCurrent[s].ver <= current[s].ver

\* and neither is what the queue will write there; a strategy memory does not know
\* has nothing queued for its row.
QueueBehind ==
  \A e \in Queued :
    /\ e.id = current[e.name].id => e.ver <= current[e.name].ver
    /\ current[e.name] = Absent => e.id # pgRow[e.name].id

\* While a load runs its rows only age, its archived targets are no newer than memory,
\* and those of strategies new to memory stay what the archive holds.
LoadBehind ==
  loader = "recover" => \A s \in Strategies :
    /\ rows[s].id = pgRow[s].id /\ rows[s].ver <= pgRow[s].ver
    /\ current[s] # Absent /\ recovered[s].id = current[s].id
         => recovered[s].ver <= current[s].ver
    /\ s \notin unread /\ current[s] = Absent /\ rows[s] # Absent
         /\ positionCurrent[s].id = rows[s].id
         => recovered[s] = positionCurrent[s]

\* A strategy that awaits the answer of its UPDATE was updated.
AckIsTrue ==
  \A s \in mirrored :
    /\ flushing[s] # Absent
    /\ pgRow[s].id = flushing[s].id => pgRow[s].ver >= flushing[s].ver

\* The target between the two inserts is live, or a newer one came from the row.
AcceptingCurrent ==
  \A e \in accepting :
    /\ ready /\ accepting = {e}
    /\ current[e.name].id = e.id
    /\ current[e.name] = RowOf(e) \/ pgRow[e.name].ver >= current[e.name].ver

\* The inductive invariant.
Inv ==
  /\ TypeOK /\ AllIssued /\ SameCreation /\ ArchiveBehind /\ QueueBehind
  /\ LoadBehind /\ AckIsTrue /\ AcceptingCurrent /\ NoLostMirror

-----------------------------------------------------------------------------
(***************************************************************************)
(* Slots                                                                    *)
(***************************************************************************)
\* A slot with an identity holds a row, and conversely.
LEMMA SlotId ==
  ASSUME NEW r \in Slot
  PROVE  /\ r # Absent <=> r \in Row
         /\ r.id \in Ids <=> r \in Row
         /\ r.id = NoId <=> r = Absent
BY NoIdAssumption DEF Slot, Row, Absent

\* Versions are numbers, 0 of an absent slot included.
LEMMA SlotVer ==
  ASSUME NEW r \in Slot
  PROVE  r.ver \in Nat
<1>1. CASE r \in Row
  BY <1>1, VersionsAssumption DEF Row
<1>2. CASE r = Absent
  BY <1>2 DEF Absent
<1> QED
  BY <1>1, <1>2 DEF Slot

\* Neither the UPDATE nor the merge of a load leaves the slots.
LEMMA UpdatedSlot ==
  ASSUME NEW a \in Slot, NEW b \in Row
  PROVE  Updated(a, b) \in Slot
BY NoIdAssumption DEF Slot, Row, Absent, Updated

\* The merge of two slots is one of them.
LEMMA NewerOneOf == \A a, b : Newer(a, b) = a \/ Newer(a, b) = b
BY DEF Newer

\* A row keeps being one with another version.
LEMMA NewVersion ==
  ASSUME NEW r \in Row, NEW v \in Versions
  PROVE  [r EXCEPT !.ver = v] \in Row
BY DEF Row

\* An event and the row it stands for determine each other.
LEMMA EventRow ==
  /\ \A s \in Strategies, r \in Row : EventOf(s, r) \in Event /\ RowOf(EventOf(s, r)) = r
  /\ \A e \in Event : /\ RowOf(e) \in Row /\ e.name \in Strategies
                     /\ EventOf(e.name, RowOf(e)) = e
BY DEF Event, Row, EventOf, RowOf

\* Empty maps are maps.
LEMMA NoRowsSlots == NoRows \in Slots
BY DEF NoRows, Slots, Slot

-----------------------------------------------------------------------------
(***************************************************************************)
(* Types                                                                    *)
(***************************************************************************)
\* The initial state is well typed.
LEMMA InitType == Init => TypeOK
<1> SUFFICES ASSUME Init PROVE TypeOK
  OBVIOUS
<1>1. HistoryOK
  BY DEF Init, HistoryOK
<1>2. QueueOK
  BY QueueCapAssumption DEF Init, QueueOK
<1>3. StateOK
  BY NoRowsSlots DEF Init, StateOK
<1> QED
  BY <1>1, <1>2, <1>3 DEF TypeOK

\* Every step keeps the types.
LEMMA NextType ==
  ASSUME TypeOK, [Next]_vars
  PROVE  TypeOK'
<1> USE DEF TypeOK, HistoryOK, QueueOK, StateOK, Slots, archiveVars, mirrorVars,
            loadVars, phaseVars
<1>1. ASSUME NEW s \in Strategies, NEW v \in Versions, Admit(s, v)
      PROVE  TypeOK'
  <2>1. [current[s] EXCEPT !.ver = v] \in Row
    BY <1>1, SlotId, NewVersion DEF Admit
  <2>2. HistoryOK'
    BY <1>1 DEF Admit
  <2>3. QueueOK'
    <3>1. EventOf(s, [current[s] EXCEPT !.ver = v]) \in Event
      BY <2>1, EventRow
    <3>2. /\ archivePending' = Append(archivePending, EventOf(s, [current[s] EXCEPT !.ver = v]))
          /\ Len(archivePending) < QueueCap
      BY <1>1 DEF Admit, Room
    <3> QED
      BY <3>1, <3>2, QueueCapAssumption
  <2>4. StateOK'
    BY <1>1, <2>1, EventRow DEF Admit, Slot
  <2> QED
    BY <2>2, <2>3, <2>4
<1>2. CASE AcceptPending
  <2>1. HistoryOK' /\ QueueOK'
    BY <1>2 DEF AcceptPending
  <2>2. StateOK'
    BY <1>2, EventRow DEF AcceptPending, Slot
  <2> QED
    BY <2>1, <2>2
<1>3. ASSUME ArchiveFront
      PROVE  /\ history' \in Seq(Event) /\ Len(history') = Len(history) + 1
             /\ positionCurrent' \in Slots
  <2>1. Head(archivePending) \in Event
    BY <1>3 DEF ArchiveFront
  <2>2. RowOf(Head(archivePending)) \in Slot
    BY <2>1, EventRow DEF Slot
  <2>3. history' \in Seq(Event) /\ Len(history') = Len(history) + 1
    BY <1>3, <2>1 DEF ArchiveFront, AppendBatch
  <2>4. positionCurrent' \in Slots
    BY <1>3, <2>2 DEF ArchiveFront, AppendBatch
  <2> QED
    BY <2>3, <2>4
<1>4. CASE ArchiveWrite
  <2>1. HistoryOK'
    BY <1>3, <1>4 DEF ArchiveWrite
  <2>2. QueueOK'
    BY <1>4 DEF ArchiveWrite, ArchiveFront
  <2>3. StateOK'
    BY <1>3, <1>4 DEF ArchiveWrite
  <2> QED
    BY <2>1, <2>2, <2>3
<1>5. CASE ArchiveSyncError
  <2>1. HistoryOK'
    BY <1>3, <1>5 DEF ArchiveSyncError
  <2>2. QueueOK'
    BY <1>5 DEF ArchiveSyncError, KeepFront
  <2>3. StateOK'
    BY <1>3, <1>5 DEF ArchiveSyncError, KeepFront
  <2> QED
    BY <2>1, <2>2, <2>3
<1>6. CASE ArchiveResync
  BY <1>6 DEF ArchiveResync
<1>7. CASE ArchivePop
  <2>1. HistoryOK' /\ StateOK'
    BY <1>7 DEF ArchivePop
  <2>2. QueueOK'
    BY <1>7, QueueCapAssumption DEF ArchivePop
  <2> QED
    BY <2>1, <2>2
<1>8. CASE MirrorStart
  BY <1>8 DEF MirrorStart
<1>9. ASSUME NEW s \in Strategies, MirrorUpdate(s)
      PROVE  TypeOK'
  BY <1>9, SlotId, UpdatedSlot DEF MirrorUpdate
<1>10. CASE MirrorAck
  BY <1>10 DEF MirrorAck, LeftAfterAck, Slot
<1>11. ASSUME NEW s \in Strategies, MirrorFail(s)
       PROVE  TypeOK'
  BY <1>11 DEF MirrorFail, Slot
<1>12. ASSUME NEW s \in Strategies, MirrorTimeout(s)
       PROVE  TypeOK'
  BY <1>12, SlotId, EventRow DEF MirrorTimeout, Slot
<1>13. CASE LateUpdate
  <2>1. HistoryOK' /\ QueueOK'
    BY <1>13 DEF LateUpdate
  <2>2. PICK e \in late : LateUpdate!(e)
    BY <1>13 DEF LateUpdate
  <2>3. Updated(pgRow[e.name], RowOf(e)) \in Slot
    BY UpdatedSlot, EventRow
  <2>4. StateOK'
    BY <2>2, <2>3
  <2> QED
    BY <2>1, <2>4
<1>14. CASE BeginEdit
  BY <1>14 DEF BeginEdit
<1>15. ASSUME NEW s \in Strategies, DeleteStrategy(s)
       PROVE  TypeOK'
  BY <1>15 DEF DeleteStrategy, Slot
<1>16. ASSUME NEW s \in Strategies, NEW r \in Row, CreateStrategy(s, r)
       PROVE  TypeOK'
  <2>1. HistoryOK' /\ QueueOK'
    BY <1>16 DEF CreateStrategy
  <2>2. EventOf(s, r) \in Event
    BY EventRow
  <2>3. pgRow' \in Slots /\ issued' \in SUBSET Event
    BY <1>16, <2>2 DEF CreateStrategy, Slot
  <2>4. StateOK'
    BY <1>16, <2>3 DEF CreateStrategy
  <2> QED
    BY <2>1, <2>4
<1>17. CASE LoadRows
  BY <1>17, NoRowsSlots DEF LoadRows
<1>18. ASSUME NEW s \in Strategies, Recover(s)
       PROVE  TypeOK'
  <2>1. HistoryOK' /\ QueueOK'
    BY <1>18 DEF Recover
  <2>2. ArchivedTarget(s) \in Slot
    BY DEF ArchivedTarget, Slot
  <2>3. StateOK'
    BY <1>18, <2>2 DEF Recover
  <2> QED
    BY <2>1, <2>3
<1>19. CASE Install
  <2>1. ASSUME NEW s \in Strategies
        PROVE  Installed(s) \in Slot
    <3>1. rows[s] \in Slot /\ recovered[s] \in Slot /\ current[s] \in Slot
      OBVIOUS
    <3> QED
      BY <3>1, NewerOneOf DEF Installed
  <2>2. \A s \in Strategies : StillPending(s) \in Slot
    BY <2>1 DEF StillPending, Slot
  <2> QED
    BY <1>19, <2>1, <2>2, NoRowsSlots DEF Install
<1>20. CASE LoadFail
  BY <1>20, NoRowsSlots DEF LoadFail
<1>21. CASE Close
  BY <1>21 DEF Close
<1>22. CASE Exit
  <2>1. HistoryOK'
    <3>1. CASE KeepUnsynced
      BY <3>1 DEF KeepUnsynced
    <3>2. CASE LoseUnsynced
      BY <3>2, SubSeqProperties DEF LoseUnsynced
    <3> QED
      BY <1>22, <3>1, <3>2 DEF Exit
  <2>2. QueueOK'
    BY <1>22, QueueCapAssumption DEF Exit
  <2>3. StateOK'
    BY <1>22, NoRowsSlots DEF Exit, KeepUnsynced, LoseUnsynced
  <2> QED
    BY <2>1, <2>2, <2>3
<1>23. CASE Start
  BY <1>23 DEF Start
<1>24. CASE UNCHANGED vars
  BY <1>24 DEF vars
<1> QED
  BY <1>1, <1>2, <1>4, <1>5, <1>6, <1>7, <1>8, <1>9, <1>10, <1>11, <1>12, <1>13,
     <1>14, <1>15, <1>16, <1>17, <1>18, <1>19, <1>20, <1>21, <1>22, <1>23, <1>24
     DEF Next, Archive, Mirror, Configure, Load

\* Every reachable state has its types, the queue its bound, and a written front
\* is still queued.
THEOREM TypeCorrect == Spec => []TypeOK
  BY InitType, NextType, PTL DEF Spec

-----------------------------------------------------------------------------
(***************************************************************************)
(* Steps seen from the invariant                                           *)
(***************************************************************************)

\* The UPDATE leaves a row as it is or makes it the written target.
LEMMA UpdatedRow ==
  ASSUME NEW a \in Slot, NEW b \in Row
  PROVE  /\ Updated(a, b).id = a.id
         /\ Updated(a, b) \in {a, b}
         /\ a = Absent <=> Updated(a, b) = Absent
<1>1. CASE a.id = b.id /\ a.ver <= b.ver
  <2>1. a \in Row
    BY <1>1, SlotId DEF Row
  <2>2. [a EXCEPT !.ver = b.ver] = b
    BY <1>1, <2>1 DEF Row
  <2>3. Updated(a, b) = b
    BY <1>1, <2>2 DEF Updated
  <2>4. b # Absent
    BY SlotId DEF Slot
  <2> QED
    BY <1>1, <2>1, <2>3, <2>4, SlotId
<1>2. CASE ~(a.id = b.id /\ a.ver <= b.ver)
  BY <1>2 DEF Updated
<1> QED
  BY <1>1, <1>2

\* The UPDATE never lowers a version.
LEMMA UpdatedVer ==
  ASSUME NEW a \in Slot, NEW b \in Row
  PROVE  /\ Updated(a, b).ver >= a.ver
         /\ a.id = b.id => Updated(a, b).ver >= b.ver
<1>1. a.ver \in Nat /\ b.ver \in Nat
  BY SlotVer DEF Slot
<1>2. CASE a.id = b.id /\ a.ver <= b.ver
  <2>1. a \in Row
    BY <1>2, SlotId DEF Row
  <2>2. [a EXCEPT !.ver = b.ver].ver = b.ver
    BY <2>1 DEF Row
  <2> QED
    BY <1>1, <1>2, <2>2 DEF Updated
<1>3. CASE ~(a.id = b.id /\ a.ver <= b.ver)
  BY <1>1, <1>3 DEF Updated
<1> QED
  BY <1>2, <1>3

\* The merge picks one of its sources, none of them newer.
LEMMA NewerRow ==
  ASSUME NEW a \in Slot, NEW b \in Slot
  PROVE  /\ Newer(a, b) \in {a, b}
         /\ Newer(a, b).id = a.id
         /\ Newer(a, b).ver >= a.ver
         /\ b.id = a.id => Newer(a, b).ver >= b.ver
BY SlotVer DEF Newer

\* A mirror write keeps every row's identity and lowers no version.
LEMMA MirrorWrites ==
  ASSUME TypeOK, LateUpdate \/ \E s \in Strategies : MirrorUpdate(s)
  PROVE  \A s \in Strategies :
           /\ pgRow'[s].id = pgRow[s].id
           /\ pgRow'[s].ver >= pgRow[s].ver
           /\ pgRow'[s] = Absent <=> pgRow[s] = Absent
<1> USE DEF TypeOK, StateOK, Slots
<1>1. PICK s \in Strategies, r \in Row : pgRow' = [pgRow EXCEPT ![s] = Updated(@, r)]
  <2>1. CASE LateUpdate
    BY <2>1, EventRow DEF LateUpdate
  <2>2. CASE \E s \in Strategies : MirrorUpdate(s)
    BY <2>2, SlotId DEF MirrorUpdate
  <2> QED
    BY <2>1, <2>2
<1>2. \A t \in Strategies : pgRow[t].ver \in Nat
  BY SlotVer
<1>3. \A t \in Strategies : pgRow'[t] = IF t = s THEN Updated(pgRow[t], r) ELSE pgRow[t]
  BY <1>1
<1> QED
  BY <1>2, <1>3, UpdatedRow, UpdatedVer

\* What an admission puts in memory and in the queue.
LEMMA AdmitRow ==
  ASSUME TypeOK, NEW s \in Strategies, NEW v \in Versions, Admit(s, v)
  PROVE  \E r \in Row :
           /\ r.id = current[s].id /\ r.ver > current[s].ver
           /\ \A t \in Strategies : current'[t] = IF t = s THEN r ELSE current[t]
           /\ archivePending' = Append(archivePending, EventOf(s, r))
           /\ accepting' = {EventOf(s, r)}
           /\ issued' = issued \cup {EventOf(s, r)}
<1>1. current[s] \in Row
  BY SlotId DEF Admit, TypeOK, StateOK, Slots
<1> DEFINE r == [current[s] EXCEPT !.ver = v]
<1>2. r \in Row /\ r.id = current[s].id /\ r.ver = v
  BY <1>1 DEF Row
<1> QED
  BY <1>2 DEF Admit, TypeOK, StateOK, Slots

\* The queue holds events.
LEMMA QueuedEvents ==
  ASSUME TypeOK
  PROVE  /\ Queued \subseteq Event
         /\ archivePending # <<>> => Head(archivePending) \in Queued
BY DEF TypeOK, QueueOK, Queued

\* A push adds one event.
LEMMA QueuedAppend ==
  ASSUME TypeOK, NEW e \in Event, archivePending' = Append(archivePending, e)
  PROVE  Queued' = Queued \cup {e}
<1>1. archivePending \in Seq(Event)
  BY DEF TypeOK, QueueOK
<1>2. /\ Len(archivePending') = Len(archivePending) + 1
      /\ \A i \in 1..Len(archivePending) : archivePending'[i] = archivePending[i]
      /\ archivePending'[Len(archivePending) + 1] = e
  BY <1>1
<1>3. 1..Len(archivePending') = 1..Len(archivePending) \cup {Len(archivePending) + 1}
  BY <1>1, <1>2
<1> QED
  BY <1>2, <1>3 DEF Queued

\* A pop adds none.
LEMMA QueuedTail ==
  ASSUME TypeOK, archivePending # <<>>, archivePending' = Tail(archivePending)
  PROVE  Queued' \subseteq Queued
<1>1. archivePending \in Seq(Event)
  BY DEF TypeOK, QueueOK
<1>2. \A i \in 1..Len(archivePending') :
        i + 1 \in 1..Len(archivePending) /\ archivePending'[i] = archivePending[i + 1]
  BY <1>1
<1> QED
  BY <1>2 DEF Queued
\* Versions compare.
LEMMA Vers ==
  ASSUME TypeOK, NEW s \in Strategies
  PROVE  /\ pgRow[s] \in Slot /\ pgRow[s].ver \in Nat
         /\ current[s] \in Slot /\ current[s].ver \in Nat
         /\ pending[s] \in Slot
         /\ flushing[s] \in Slot /\ flushing[s].ver \in Nat
         /\ positionCurrent[s] \in Slot /\ positionCurrent[s].ver \in Nat
         /\ rows[s] \in Slot /\ rows[s].ver \in Nat
         /\ recovered[s] \in Slot /\ recovered[s].ver \in Nat
BY SlotVer DEF TypeOK, StateOK, Slots

\* A creation takes an identity the name never had.
LEMMA FreshCreation ==
  ASSUME Inv, NEW s \in Strategies, NEW r \in Row, CreateStrategy(s, r)
  PROVE  /\ flushing[s].id # r.id /\ positionCurrent[s].id # r.id
         /\ \A e \in Queued \cup late \cup accepting : e.name = s => e.id # r.id
         /\ \A t \in Strategies : t # s => pgRow'[t] = pgRow[t]
         /\ pgRow'[s] = IF pgRow[s] = Absent THEN r ELSE pgRow[s]
<1>1. \A e \in issued : e.name = s => e.id # r.id
  BY DEF CreateStrategy
<1>2. ASSUME NEW x \in Slot, x # Absent => EventOf(s, x) \in issued
      PROVE  x.id # r.id
  BY <1>1, <1>2, SlotId, NoIdAssumption DEF EventOf, Absent, Row
<1>3. flushing[s].id # r.id /\ positionCurrent[s].id # r.id
  BY <1>2, Vers DEF Inv, AllIssued, Known
<1>4. \A e \in Queued \cup late \cup accepting : e.name = s => e.id # r.id
  BY <1>1 DEF Inv, AllIssued
<1>5. /\ \A t \in Strategies : t # s => pgRow'[t] = pgRow[t]
      /\ pgRow'[s] = IF pgRow[s] = Absent THEN r ELSE pgRow[s]
  BY DEF CreateStrategy, Inv, TypeOK, StateOK, Slots
<1> QED
  BY <1>3, <1>4, <1>5

-----------------------------------------------------------------------------
(***************************************************************************)
(* Every step keeps the inductive invariant                                *)
(***************************************************************************)
\* AckIsTrue: only the mirror worker and what it races with on the row matter.
LEMMA KeepsAckIsTrue ==
  ASSUME Inv, [Next]_vars
  PROVE  AckIsTrue'
<1> USE DEF Inv, archiveVars, mirrorVars, loadVars, phaseVars
<1>1. CASE MirrorStart
  <2>1. mirrored = {}
    BY <1>1 DEF MirrorStart, AckIsTrue, NoRows, TypeOK, StateOK
  <2> QED
    BY <1>1, <2>1 DEF MirrorStart, AckIsTrue
<1>2. ASSUME NEW s \in Strategies, MirrorUpdate(s)
      PROVE  AckIsTrue'
  <2>1. pgRow'[s] = Updated(pgRow[s], flushing[s]) /\ flushing[s] \in Row
    BY <1>2, Vers, SlotId DEF MirrorUpdate, TypeOK, StateOK, Slots
  <2>2. pgRow'[s].id = pgRow[s].id
    BY <2>1, UpdatedRow, Vers
  <2>3. pgRow[s].id = flushing[s].id => pgRow'[s].ver >= flushing[s].ver
    BY <2>1, UpdatedVer, Vers
  <2> QED
    BY <1>2, <2>2, <2>3 DEF MirrorUpdate, AckIsTrue
<1>3. CASE MirrorAck \/ Exit \/ \E s \in Strategies : MirrorFail(s) \/ MirrorTimeout(s)
  <2>1. mirrored' = {}
    BY <1>3 DEF MirrorAck, Exit, MirrorFail, MirrorTimeout
  <2> QED
    BY <2>1 DEF AckIsTrue
<1>4. CASE LateUpdate
  <2>1. UNCHANGED <<mirrored, flushing>>
    BY <1>4 DEF LateUpdate
  <2>2. ASSUME NEW s \in mirrored, pgRow'[s].id = flushing[s].id
        PROVE  pgRow'[s].ver >= flushing[s].ver
    <3>1. s \in Strategies
      BY DEF TypeOK, StateOK
    <3>2. pgRow[s].id = flushing[s].id /\ pgRow'[s].ver >= pgRow[s].ver
      BY <1>4, <2>2, <3>1, MirrorWrites
    <3>3. pgRow[s].ver >= flushing[s].ver
      BY <3>2 DEF AckIsTrue
    <3>4. pgRow'[s].ver \in Nat
      BY <3>1, NextType, SlotVer DEF TypeOK, StateOK, Slots
    <3> QED
      BY <3>1, <3>2, <3>3, <3>4, Vers
  <2> QED
    BY <2>1, <2>2 DEF AckIsTrue
<1>5. ASSUME NEW s \in Strategies, DeleteStrategy(s)
      PROVE  AckIsTrue'
  <2>1. pgRow' = [pgRow EXCEPT ![s] = Absent] /\ UNCHANGED <<mirrored, flushing>>
    BY <1>5 DEF DeleteStrategy
  <2> QED
    BY <2>1, Vers, SlotId DEF AckIsTrue, TypeOK, StateOK, Slots, Absent
<1>6. ASSUME NEW s \in Strategies, NEW r \in Row, CreateStrategy(s, r)
      PROVE  AckIsTrue'
  <2>1. UNCHANGED <<mirrored, flushing>>
    BY <1>6 DEF CreateStrategy
  <2> QED
    BY <1>6, <2>1, FreshCreation DEF AckIsTrue, TypeOK, StateOK
<1>7. CASE \/ AcceptPending \/ Archive \/ BeginEdit \/ Load \/ Close \/ Start
           \/ \E s \in Strategies, v \in Versions : Admit(s, v)
           \/ UNCHANGED vars
  <2>1. UNCHANGED <<mirrored, flushing, pgRow>>
    BY <1>7 DEF AcceptPending, Archive, ArchiveWrite, ArchiveSyncError, ArchiveResync,
         ArchivePop, BeginEdit, Load, LoadRows, Recover, Install, LoadFail, Close,
         Start, Admit, vars
  <2> QED
    BY <2>1 DEF AckIsTrue
<1> QED
  BY <1>1, <1>2, <1>3, <1>4, <1>5, <1>6, <1>7 DEF Next, Mirror, Configure

\* SameCreation: rows come and go only while admission is closed or memory has none.
LEMMA KeepsSameCreation ==
  ASSUME Inv, [Next]_vars
  PROVE  SameCreation'
<1> USE DEF Inv, archiveVars, mirrorVars, loadVars, phaseVars
<1>1. ASSUME NEW s \in Strategies, NEW v \in Versions, Admit(s, v)
      PROVE  SameCreation'
  <2>1. PICK r \in Row :
          /\ r.id = current[s].id
          /\ \A t \in Strategies : current'[t] = IF t = s THEN r ELSE current[t]
    BY <1>1, AdmitRow
  <2>2. current[s] # Absent /\ UNCHANGED <<pgRow, ready>>
    BY <1>1 DEF Admit
  <2> QED
    BY <2>1, <2>2 DEF SameCreation
<1>2. CASE LateUpdate \/ \E s \in Strategies : MirrorUpdate(s)
  <2>1. UNCHANGED <<current, ready>>
    BY <1>2 DEF LateUpdate, MirrorUpdate
  <2> QED
    BY <1>2, <2>1, MirrorWrites DEF SameCreation
<1>3. CASE BeginEdit
  BY <1>3 DEF BeginEdit, SameCreation
<1>4. ASSUME NEW s \in Strategies, DeleteStrategy(s)
      PROVE  SameCreation'
  BY <1>4 DEF DeleteStrategy, SameCreation, TypeOK, StateOK, Slots
<1>5. ASSUME NEW s \in Strategies, NEW r \in Row, CreateStrategy(s, r)
      PROVE  SameCreation'
  <2>1. current[s] = Absent /\ UNCHANGED <<current, ready>>
    BY <1>5 DEF CreateStrategy
  <2>2. \A t \in Strategies : pgRow'[t] = pgRow[t] \/ t = s
    BY <1>5, FreshCreation
  <2> QED
    BY <2>1, <2>2 DEF SameCreation
<1>6. CASE Install
  <2>1. \A s \in Strategies : current'[s].id = rows[s].id
    BY <1>6, NewerRow, Vers DEF Install, Installed
  <2>2. \A s \in Strategies : rows[s].id = pgRow[s].id /\ pgRow'[s] = pgRow[s]
    BY <1>6 DEF Install, LoadBehind
  <2> QED
    BY <2>1, <2>2 DEF SameCreation
<1>7. CASE Exit
  BY <1>7 DEF Exit, SameCreation, NoRows
<1>8. CASE \/ AcceptPending \/ Archive \/ MirrorStart \/ MirrorAck \/ LoadRows
           \/ LoadFail \/ Close \/ Start \/ UNCHANGED vars
           \/ \E s \in Strategies : MirrorFail(s) \/ MirrorTimeout(s) \/ Recover(s)
  <2>1. UNCHANGED <<current, pgRow, ready>>
    BY <1>8 DEF AcceptPending, Archive, ArchiveWrite, ArchiveSyncError, ArchiveResync,
         ArchivePop, MirrorStart, MirrorAck, LoadRows, LoadFail, Close, Start, vars,
         MirrorFail, MirrorTimeout, Recover
  <2> QED
    BY <2>1 DEF SameCreation
<1> QED
  BY <1>1, <1>2, <1>3, <1>4, <1>5, <1>6, <1>7, <1>8 DEF Next, Mirror, Configure, Load

\* A committed batch holds the row of the queue's front.
LEMMA ArchivedFront ==
  ASSUME TypeOK, ArchiveFront
  PROVE  \E e \in Queued :
           \A s \in Strategies :
             positionCurrent'[s] = IF s = e.name THEN RowOf(e) ELSE positionCurrent[s]
BY QueuedEvents, EventRow DEF ArchiveFront, AppendBatch, TypeOK, StateOK, Slots

\* What a load installs: the identity of the row, and no older than any source.
LEMMA InstalledRow ==
  ASSUME Inv, NEW s \in Strategies, Install
  PROVE  /\ current'[s] = Installed(s)
         /\ current'[s] \in {rows[s], recovered[s], current[s]}
         /\ current'[s].id = pgRow[s].id /\ rows[s].id = pgRow[s].id
         /\ pgRow'[s] = pgRow[s]
<1>1. current'[s] = Installed(s) /\ UNCHANGED pgRow /\ loader = "recover"
  BY DEF Install
<1>2. Installed(s) \in {rows[s], recovered[s], current[s]} /\ Installed(s).id = rows[s].id
  BY NewerRow, Vers DEF Inv, Installed
<1> QED
  BY <1>1, <1>2 DEF Inv, LoadBehind

\* How the versions compare.
LEMMA InstalledVer ==
  ASSUME Inv, NEW s \in Strategies, Install
  PROVE  /\ current'[s].ver \in Nat
         /\ current'[s].ver >= rows[s].ver /\ rows[s].ver <= pgRow[s].ver
         /\ recovered[s].id = pgRow[s].id => current'[s].ver >= recovered[s].ver
         /\ current[s].id = pgRow[s].id => current'[s].ver >= current[s].ver
<1> USE DEF Inv
<1> DEFINE m == Newer(rows[s], recovered[s])
<1>1. m \in Slot /\ m.ver \in Nat /\ m.id = rows[s].id
  BY NewerRow, Vers, SlotVer
<1>2. m.ver >= rows[s].ver /\ (recovered[s].id = rows[s].id => m.ver >= recovered[s].ver)
  BY NewerRow, Vers
<1>3. Newer(m, current[s]) \in Slot /\ Newer(m, current[s]).ver \in Nat
  BY <1>1, NewerRow, Vers, SlotVer
<1>4. /\ Newer(m, current[s]).ver >= m.ver
      /\ current[s].id = rows[s].id => Newer(m, current[s]).ver >= current[s].ver
  BY <1>1, NewerRow, Vers
<1>5. current'[s] = Newer(m, current[s]) /\ rows[s].id = pgRow[s].id
  BY InstalledRow DEF Installed
<1>6. rows[s].ver <= pgRow[s].ver
  BY DEF Install, LoadBehind
<1> HIDE DEF m
<1> QED
  BY <1>1, <1>2, <1>3, <1>4, <1>5, <1>6, Vers

\* ArchiveBehind: the batch holds a queued target, the load one from the archive.
LEMMA KeepsArchiveBehind ==
  ASSUME Inv, [Next]_vars
  PROVE  ArchiveBehind'
<1> USE DEF Inv, archiveVars, mirrorVars, loadVars, phaseVars
<1>1. ASSUME NEW s \in Strategies, NEW v \in Versions, Admit(s, v)
      PROVE  ArchiveBehind'
  <2>1. PICK r \in Row :
          /\ r.id = current[s].id /\ r.ver > current[s].ver
          /\ \A t \in Strategies : current'[t] = IF t = s THEN r ELSE current[t]
    BY <1>1, AdmitRow
  <2>2. current[s] # Absent /\ UNCHANGED positionCurrent
    BY <1>1 DEF Admit
  <2>3. ASSUME NEW t \in Strategies,
               current'[t] # Absent, positionCurrent[t].id = current'[t].id
        PROVE  positionCurrent[t].ver <= current'[t].ver
    <3>1. positionCurrent[t].ver <= current[t].ver
      BY <2>1, <2>2, <2>3 DEF ArchiveBehind
    <3>2. current'[t].ver >= current[t].ver /\ current'[t].ver \in Nat
      BY <2>1, Vers, SlotVer DEF Slot
    <3> QED
      BY <3>1, <3>2, Vers
  <2> QED
    BY <2>2, <2>3 DEF ArchiveBehind
<1>2. CASE ArchiveWrite \/ ArchiveSyncError
  <2>1. ArchiveFront /\ UNCHANGED current
    BY <1>2 DEF ArchiveWrite, ArchiveSyncError
  <2>2. PICK e \in Queued :
          \A s \in Strategies :
            positionCurrent'[s] = IF s = e.name THEN RowOf(e) ELSE positionCurrent[s]
    BY <2>1, ArchivedFront
  <2>3. e.id = current[e.name].id => e.ver <= current[e.name].ver
    BY DEF QueueBehind
  <2> QED
    BY <2>1, <2>2, <2>3 DEF ArchiveBehind, RowOf
<1>3. CASE Install
  <2>1. UNCHANGED positionCurrent /\ loader = "recover" /\ unread = {}
    BY <1>3 DEF Install
  <2>2. ASSUME NEW s \in Strategies,
               current'[s] # Absent, positionCurrent[s].id = current'[s].id
        PROVE  positionCurrent[s].ver <= current'[s].ver
    <3>1. CASE current[s] = Absent
      <4>1. rows[s] # Absent
        BY <1>3, <2>2, InstalledRow, Vers, SlotId DEF Absent
      <4>2. recovered[s] = positionCurrent[s]
        BY <1>3, <2>1, <2>2, <3>1, <4>1, InstalledRow DEF LoadBehind
      <4> QED
        BY <1>3, <2>2, <4>2, InstalledRow, InstalledVer, Vers
    <3>2. CASE current[s] # Absent
      <4>1. current[s].id = pgRow[s].id
        BY <1>3, <2>2, <3>2, InstalledRow, Vers, SlotId DEF SameCreation, Absent
      <4>2. positionCurrent[s].ver <= current[s].ver
        BY <1>3, <2>2, <3>2, <4>1, InstalledRow DEF ArchiveBehind
      <4> QED
        BY <1>3, <4>1, <4>2, InstalledVer, Vers
    <3> QED
      BY <3>1, <3>2
  <2> QED
    BY <2>1, <2>2 DEF ArchiveBehind
<1>4. CASE Exit
  BY <1>4 DEF Exit, ArchiveBehind, NoRows
<1>5. CASE \/ AcceptPending \/ ArchiveResync \/ ArchivePop \/ Mirror \/ LateUpdate
           \/ Configure \/ LoadRows \/ LoadFail \/ Close \/ Start \/ UNCHANGED vars
           \/ \E s \in Strategies : Recover(s)
  <2>1. UNCHANGED <<current, positionCurrent>>
    BY <1>5 DEF AcceptPending, ArchiveResync, ArchivePop, Mirror, MirrorStart,
         MirrorUpdate, MirrorAck, MirrorFail, MirrorTimeout, LateUpdate, Configure,
         BeginEdit, DeleteStrategy, CreateStrategy, LoadRows, Recover, LoadFail,
         Close, Start, vars
  <2> QED
    BY <2>1 DEF ArchiveBehind
<1> QED
  BY <1>1, <1>2, <1>3, <1>4, <1>5 DEF Next, Archive, Load

\* QueueBehind: admissions go up, loads never go down.
LEMMA KeepsQueueBehind ==
  ASSUME Inv, [Next]_vars
  PROVE  QueueBehind'
<1> USE DEF Inv, archiveVars, mirrorVars, loadVars, phaseVars
<1>0. \A e \in Queued : e \in Event /\ e.name \in Strategies /\ e.id \in Ids /\ e.ver \in Nat
  BY QueuedEvents, VersionsAssumption DEF Event
<1>00. UNCHANGED archivePending => Queued' = Queued
  BY DEF Queued
<1>1. ASSUME NEW s \in Strategies, NEW v \in Versions, Admit(s, v)
      PROVE  QueueBehind'
  <2>1. PICK r \in Row :
          /\ r.id = current[s].id /\ r.ver > current[s].ver
          /\ \A t \in Strategies : current'[t] = IF t = s THEN r ELSE current[t]
          /\ archivePending' = Append(archivePending, EventOf(s, r))
    BY <1>1, AdmitRow
  <2>2. UNCHANGED pgRow /\ r # Absent /\ r.ver \in Nat
    BY <1>1, SlotId, SlotVer DEF Admit, Slot
  <2>3. Queued' = Queued \cup {EventOf(s, r)}
    BY <2>1, EventRow, QueuedAppend
  <2>4. ASSUME NEW e \in Queued
        PROVE  /\ e.id = current'[e.name].id => e.ver <= current'[e.name].ver
               /\ current'[e.name] = Absent => e.id # pgRow[e.name].id
    <3>1. CASE e.name = s
      <4>1. e.id = current[s].id => e.ver <= current[s].ver
        BY <3>1 DEF QueueBehind
      <4> QED
        BY <1>0, <2>1, <2>2, <3>1, <4>1, Vers
    <3>2. CASE e.name # s
      BY <1>0, <2>1, <3>2 DEF QueueBehind
    <3> QED
      BY <3>1, <3>2
  <2>5. ASSUME NEW e, e = EventOf(s, r)
        PROVE  /\ e.id = current'[e.name].id => e.ver <= current'[e.name].ver
               /\ current'[e.name] = Absent => e.id # pgRow[e.name].id
    BY <2>1, <2>2, <2>5 DEF EventOf
  <2> QED
    BY <2>2, <2>3, <2>4, <2>5 DEF QueueBehind
<1>2. CASE ArchivePop
  <2>1. Queued' \subseteq Queued /\ UNCHANGED <<current, pgRow>>
    BY <1>2, QueuedTail DEF ArchivePop, TypeOK, QueueOK
  <2> QED
    BY <2>1 DEF QueueBehind
<1>3. CASE LateUpdate \/ \E s \in Strategies : MirrorUpdate(s)
  <2>1. UNCHANGED <<current, archivePending>>
    BY <1>3 DEF LateUpdate, MirrorUpdate
  <2> QED
    BY <1>0, <1>00, <1>3, <2>1, MirrorWrites DEF QueueBehind
<1>4. ASSUME NEW s \in Strategies, DeleteStrategy(s)
      PROVE  QueueBehind'
  <2>1. \A t \in Strategies : pgRow'[t] = IF t = s THEN Absent ELSE pgRow[t]
    BY <1>4 DEF DeleteStrategy, TypeOK, StateOK, Slots
  <2>2. UNCHANGED <<current, archivePending>>
    BY <1>4 DEF DeleteStrategy
  <2> QED
    BY <1>0, <1>00, <2>1, <2>2, NoIdAssumption DEF QueueBehind, Absent
<1>5. ASSUME NEW s \in Strategies, NEW r \in Row, CreateStrategy(s, r)
      PROVE  QueueBehind'
  <2>1. UNCHANGED <<current, archivePending>>
    BY <1>5 DEF CreateStrategy
  <2> QED
    BY <1>0, <1>00, <1>5, <2>1, FreshCreation DEF QueueBehind
<1>6. CASE Install
  <2>1. Queued' = Queued
    BY <1>6, <1>00 DEF Install
  <2>2. ASSUME NEW e \in Queued, e.id = pgRow[e.name].id
        PROVE  e.ver <= current'[e.name].ver /\ current'[e.name] # Absent
    <3>1. current[e.name] # Absent
      BY <2>2 DEF QueueBehind
    <3>2. pgRow[e.name] # Absent
      BY <1>0, <2>2, NoIdAssumption DEF Absent
    <3>3. current[e.name].id = pgRow[e.name].id
      BY <1>0, <3>1, <3>2 DEF SameCreation
    <3>4. e.ver <= current[e.name].ver
      BY <2>2, <3>3 DEF QueueBehind
    <3>5. current'[e.name].ver >= current[e.name].ver /\ current'[e.name].ver \in Nat
      BY <1>0, <1>6, <3>3, InstalledVer
    <3>6. e.ver <= current'[e.name].ver
      BY <1>0, <3>4, <3>5, Vers
    <3>7. current'[e.name].id = pgRow[e.name].id
      BY <1>0, <1>6, InstalledRow
    <3> QED
      BY <1>0, <2>2, <3>6, <3>7, NoIdAssumption DEF Absent
  <2> QED
    BY <1>0, <1>6, <2>1, <2>2, InstalledRow DEF QueueBehind
<1>7. CASE Exit
  <2>1. Queued' = {}
    BY <1>7 DEF Exit, Queued
  <2> QED
    BY <2>1 DEF QueueBehind
<1>8. CASE \/ AcceptPending \/ ArchiveWrite \/ ArchiveSyncError \/ ArchiveResync
           \/ MirrorStart \/ MirrorAck \/ BeginEdit \/ LoadRows \/ LoadFail \/ Close
           \/ Start \/ UNCHANGED vars
           \/ \E s \in Strategies : MirrorFail(s) \/ MirrorTimeout(s) \/ Recover(s)
  <2>1. UNCHANGED <<current, pgRow, archivePending>>
    BY <1>8 DEF AcceptPending, ArchiveWrite, ArchiveSyncError, ArchiveResync, MirrorStart,
         MirrorAck, BeginEdit, LoadRows, LoadFail, Close, Start, vars, MirrorFail,
         MirrorTimeout, Recover
  <2> QED
    BY <1>00, <2>1 DEF QueueBehind
<1> QED
  BY <1>1, <1>2, <1>3, <1>4, <1>5, <1>6, <1>7, <1>8
     DEF Next, Archive, Mirror, Configure, Load

\* LoadBehind: what a load read ages while it runs.
LEMMA KeepsLoadBehind ==
  ASSUME Inv, [Next]_vars
  PROVE  LoadBehind'
<1> USE DEF Inv, archiveVars, mirrorVars, loadVars, phaseVars
<1>1. ASSUME NEW s \in Strategies, NEW v \in Versions, Admit(s, v)
      PROVE  LoadBehind'
  <2>1. PICK r \in Row :
          /\ r.id = current[s].id /\ r.ver > current[s].ver
          /\ \A t \in Strategies : current'[t] = IF t = s THEN r ELSE current[t]
    BY <1>1, AdmitRow
  <2>2. /\ current[s] # Absent /\ r # Absent /\ r.ver \in Nat
        /\ UNCHANGED <<loader, rows, pgRow, recovered, unread, positionCurrent>>
    BY <1>1, SlotId, SlotVer DEF Admit, Slot
  <2>3. ASSUME loader = "recover", NEW t \in Strategies,
               current'[t] # Absent, recovered[t].id = current'[t].id
        PROVE  recovered[t].ver <= current'[t].ver
    <3>1. recovered[t].ver <= current[t].ver
      BY <2>1, <2>2, <2>3 DEF LoadBehind
    <3>2. current'[t].ver >= current[t].ver /\ current'[t].ver \in Nat
      BY <2>1, <2>2, Vers
    <3> QED
      BY <3>1, <3>2, Vers
  <2> QED
    BY <2>1, <2>2, <2>3 DEF LoadBehind
<1>2. CASE ArchiveWrite \/ ArchiveSyncError
  <2>1. ArchiveFront /\ UNCHANGED <<current, loader, rows, pgRow, recovered, unread>>
    BY <1>2 DEF ArchiveWrite, ArchiveSyncError
  <2>2. PICK e \in Queued :
          \A s \in Strategies :
            positionCurrent'[s] = IF s = e.name THEN RowOf(e) ELSE positionCurrent[s]
    BY <2>1, ArchivedFront
  <2>3. current[e.name] = Absent => RowOf(e).id # pgRow[e.name].id
    BY DEF QueueBehind, RowOf
  <2>4. ASSUME loader = "recover", NEW s \in Strategies, s \notin unread,
               current[s] = Absent, rows[s] # Absent, positionCurrent'[s].id = rows[s].id
        PROVE  positionCurrent'[s] = positionCurrent[s]
    BY <2>2, <2>3, <2>4 DEF LoadBehind
  <2> QED
    BY <2>1, <2>4 DEF LoadBehind
<1>3. CASE LateUpdate \/ \E s \in Strategies : MirrorUpdate(s)
  <2>1. UNCHANGED <<current, loader, rows, recovered, unread, positionCurrent>>
    BY <1>3 DEF LateUpdate, MirrorUpdate
  <2>2. ASSUME loader = "recover", NEW s \in Strategies
        PROVE  rows[s].id = pgRow'[s].id /\ rows[s].ver <= pgRow'[s].ver
    <3>1. rows[s].id = pgRow[s].id /\ rows[s].ver <= pgRow[s].ver
      BY <2>2 DEF LoadBehind
    <3>2. pgRow'[s].id = pgRow[s].id /\ pgRow'[s].ver >= pgRow[s].ver
      BY <1>3, MirrorWrites
    <3>3. pgRow'[s].ver \in Nat
      BY NextType, SlotVer DEF TypeOK, StateOK, Slots
    <3> QED
      BY <3>1, <3>2, <3>3, Vers
  <2> QED
    BY <2>1, <2>2 DEF LoadBehind
<1>4. CASE LoadRows
  <2>1. /\ rows' = pgRow /\ UNCHANGED <<pgRow, current, positionCurrent>>
        /\ \A s \in Strategies : recovered'[s] = Absent
        /\ \A s \in Strategies : s \in unread' <=> pgRow[s] # Absent
    BY <1>4 DEF LoadRows, NoRows
  <2>2. \A s \in Strategies : current[s] # Absent => current[s].id # NoId
    BY Vers, SlotId
  <2> QED
    BY <2>1, <2>2, Vers DEF LoadBehind, Absent
<1>5. ASSUME NEW s \in Strategies, Recover(s)
      PROVE  LoadBehind'
  <2>1. /\ loader = "recover" /\ unread' = unread \ {s}
        /\ UNCHANGED <<loader, rows, pgRow, current, positionCurrent>>
    BY <1>5 DEF Recover
  <2>2. \A t \in Strategies :
          recovered'[t] = IF t = s THEN ArchivedTarget(s) ELSE recovered[t]
    BY <1>5 DEF Recover, TypeOK, StateOK, Slots
  <2>3. current[s] # Absent /\ ArchivedTarget(s).id = current[s].id
        => ArchivedTarget(s).ver <= current[s].ver
    <3>1. current[s] # Absent => current[s].id # NoId
      BY Vers, SlotId
    <3> QED
      BY <3>1 DEF ArchivedTarget, ArchiveBehind, Absent
  <2>4. positionCurrent[s].id = rows[s].id => ArchivedTarget(s) = positionCurrent[s]
    BY DEF ArchivedTarget
  <2> QED
    BY <2>1, <2>2, <2>3, <2>4 DEF LoadBehind
<1>6. CASE Install \/ LoadFail \/ Exit \/ Start
           \/ \E s \in Strategies, r \in Row : CreateStrategy(s, r)
  <2>1. loader' # "recover"
    BY <1>6 DEF Install, LoadFail, Exit, Start, CreateStrategy
  <2> QED
    BY <2>1 DEF LoadBehind
<1>7. ASSUME NEW s \in Strategies, DeleteStrategy(s)
      PROVE  LoadBehind'
  BY <1>7 DEF DeleteStrategy, LoadBehind
<1>8. CASE \/ AcceptPending \/ ArchiveResync \/ ArchivePop \/ MirrorStart \/ MirrorAck
           \/ BeginEdit \/ Close \/ UNCHANGED vars
           \/ \E s \in Strategies : MirrorFail(s) \/ MirrorTimeout(s)
  <2>1. UNCHANGED <<loader, rows, pgRow, recovered, current, unread, positionCurrent>>
    BY <1>8 DEF AcceptPending, ArchiveResync, ArchivePop, MirrorStart, MirrorAck,
         BeginEdit, Close, vars, MirrorFail, MirrorTimeout
  <2> QED
    BY <2>1 DEF LoadBehind
<1> QED
  BY <1>1, <1>2, <1>3, <1>4, <1>5, <1>6, <1>7, <1>8
     DEF Next, Archive, Mirror, Configure, Load

\* AcceptingCurrent: a load between the two map inserts keeps the admitted target.
LEMMA KeepsAcceptingCurrent ==
  ASSUME Inv, [Next]_vars
  PROVE  AcceptingCurrent'
<1> USE DEF Inv, archiveVars, mirrorVars, loadVars, phaseVars
<1>0. \A e \in accepting : e \in Event /\ e.name \in Strategies /\ e.id \in Ids
  BY DEF TypeOK, StateOK, Event
<1>1. ASSUME NEW s \in Strategies, NEW v \in Versions, Admit(s, v)
      PROVE  AcceptingCurrent'
  <2>1. PICK r \in Row :
          /\ r.id = current[s].id
          /\ \A t \in Strategies : current'[t] = IF t = s THEN r ELSE current[t]
          /\ accepting' = {EventOf(s, r)}
    BY <1>1, AdmitRow
  <2>2. ready'
    BY <1>1 DEF Admit
  <2>3. EventOf(s, r).name = s /\ EventOf(s, r).id = r.id /\ RowOf(EventOf(s, r)) = r
    BY EventRow DEF EventOf
  <2>4. current'[s] = r
    BY <2>1
  <2> QED
    BY <2>1, <2>2, <2>3, <2>4 DEF AcceptingCurrent
<1>2. CASE AcceptPending \/ Exit
  <2>1. accepting' = {}
    BY <1>2 DEF AcceptPending, Exit
  <2> QED
    BY <2>1 DEF AcceptingCurrent
<1>3. CASE LateUpdate \/ \E s \in Strategies : MirrorUpdate(s)
  <2>1. UNCHANGED <<accepting, ready, current>>
    BY <1>3 DEF LateUpdate, MirrorUpdate
  <2>2. ASSUME NEW e \in accepting, pgRow[e.name].ver >= current[e.name].ver
        PROVE  pgRow'[e.name].ver >= current[e.name].ver
    <3>1. pgRow'[e.name].ver >= pgRow[e.name].ver
      BY <1>0, <1>3, MirrorWrites
    <3>2. pgRow'[e.name].ver \in Nat
      BY <1>0, NextType, SlotVer DEF TypeOK, StateOK, Slots
    <3> QED
      BY <1>0, <2>2, <3>1, <3>2, Vers
  <2> QED
    BY <2>1, <2>2 DEF AcceptingCurrent
<1>4. CASE BeginEdit \/ \E s \in Strategies : DeleteStrategy(s)
  <2>1. accepting = {} /\ accepting' = {}
    BY <1>4 DEF BeginEdit, DeleteStrategy, AcceptingCurrent
  <2> QED
    BY <2>1 DEF AcceptingCurrent
<1>5. ASSUME NEW s \in Strategies, NEW r \in Row, CreateStrategy(s, r)
      PROVE  AcceptingCurrent'
  <2>1. current[s] = Absent /\ UNCHANGED <<accepting, ready, current>>
    BY <1>5 DEF CreateStrategy
  <2>2. \A e \in accepting : e.name # s
    BY <1>0, <2>1, NoIdAssumption DEF AcceptingCurrent, Absent
  <2> QED
    BY <1>0, <1>5, <2>1, <2>2, FreshCreation DEF AcceptingCurrent
<1>6. CASE Install
  <2>1. ready' /\ accepting' = accepting
    BY <1>6 DEF Install
  <2>2. ASSUME NEW e \in accepting
        PROVE  /\ current'[e.name].id = e.id
               /\ \/ current'[e.name] = RowOf(e)
                  \/ pgRow[e.name].ver >= current'[e.name].ver
    <3> DEFINE n == e.name
    <3>1. n \in Strategies /\ current[n].id = e.id /\ current[n] # Absent /\ ready
      BY <1>0, NoIdAssumption DEF AcceptingCurrent, Absent
    <3>2. current[n].id = pgRow[n].id
      BY <3>1 DEF SameCreation
    <3>3. current'[n].id = e.id
      BY <1>6, <3>1, <3>2, InstalledRow
    <3>4. CASE current'[n] = rows[n]
      BY <1>6, <3>1, <3>3, <3>4, InstalledVer, Vers
    <3>5. CASE current'[n] = recovered[n]
      <4>1. recovered[n].ver <= current[n].ver
        BY <1>6, <3>1, <3>3, <3>5 DEF LoadBehind, Install
      <4>2. current'[n].ver >= current[n].ver
        BY <1>6, <3>1, <3>2, InstalledVer
      <4>3. recovered[n].ver = current[n].ver
        BY <3>1, <3>5, <4>1, <4>2, Vers
      <4>4. recovered[n] = current[n]
        <5>1. recovered[n] \in Row /\ current[n] \in Row
          BY <1>0, <3>1, <3>3, <3>5, Vers, SlotId
        <5> QED
          BY <3>1, <3>3, <3>5, <4>3, <5>1 DEF Row
      <4> QED
        BY <3>3, <3>5, <4>4 DEF AcceptingCurrent
    <3>6. CASE current'[n] = current[n]
      BY <3>3, <3>6 DEF AcceptingCurrent
    <3> QED
      BY <1>6, <3>1, <3>4, <3>5, <3>6, InstalledRow
  <2>3. \A e \in accepting : accepting = {e}
    BY DEF AcceptingCurrent
  <2> QED
    BY <1>0, <1>6, <2>1, <2>2, <2>3, InstalledRow DEF AcceptingCurrent
<1>7. CASE \/ Archive \/ MirrorStart \/ MirrorAck \/ LoadRows \/ LoadFail \/ Close
           \/ Start \/ UNCHANGED vars
           \/ \E s \in Strategies : MirrorFail(s) \/ MirrorTimeout(s) \/ Recover(s)
  <2>1. UNCHANGED <<accepting, ready, current, pgRow>>
    BY <1>7 DEF Archive, ArchiveWrite, ArchiveSyncError, ArchiveResync, ArchivePop,
         MirrorStart, MirrorAck, LoadRows, LoadFail, Close, Start, vars, MirrorFail,
         MirrorTimeout, Recover
  <2> QED
    BY <2>1 DEF AcceptingCurrent
<1> QED
  BY <1>1, <1>2, <1>3, <1>4, <1>5, <1>6, <1>7 DEF Next, Mirror, Configure, Load

\* NoLostMirror itself.
LEMMA KeepsNoLostMirror ==
  ASSUME Inv, [Next]_vars
  PROVE  NoLostMirror'
<1> USE DEF Inv, archiveVars, mirrorVars, loadVars, phaseVars
<1>0. \A e \in accepting : e \in Event /\ e.name \in Strategies
  BY DEF TypeOK, StateOK, Event
<1>1. ASSUME NEW s \in Strategies, NEW v \in Versions, Admit(s, v)
      PROVE  NoLostMirror'
  <2>1. PICK r \in Row :
          /\ \A t \in Strategies : current'[t] = IF t = s THEN r ELSE current[t]
          /\ accepting' = {EventOf(s, r)}
    BY <1>1, AdmitRow
  <2>2. accepting = {} /\ UNCHANGED <<pgRow, pending>>
    BY <1>1 DEF Admit
  <2> QED
    BY <2>1, <2>2 DEF NoLostMirror
<1>2. CASE AcceptPending
  <2>1. PICK e \in accepting : AcceptPending!(e)
    BY <1>2 DEF AcceptPending
  <2>2. accepting = {e} /\ e.name \in Strategies
    BY <1>0 DEF AcceptingCurrent
  <2>3. SUFFICES ASSUME NEW s \in Strategies, current[s] # Absent,
                        pgRow[s].id = current[s].id, pgRow[s].ver < current[s].ver
                 PROVE  pending'[s] = current[s]
    BY <2>1 DEF NoLostMirror
  <2>4. \A t \in Strategies : pending'[t] = IF t = e.name THEN RowOf(e) ELSE pending[t]
    BY <2>1 DEF TypeOK, StateOK, Slots
  <2>5. CASE s = e.name
    <3>1. current[s] = RowOf(e)
      BY <2>3, <2>5, Vers DEF AcceptingCurrent
    <3> QED
      BY <2>4, <2>5, <3>1
  <2>6. CASE s # e.name
    <3>1. EventOf(s, current[s]) # e
      BY <2>6 DEF EventOf
    <3> QED
      BY <2>2, <2>3, <2>4, <2>6, <3>1 DEF NoLostMirror
  <2> QED
    BY <2>5, <2>6
<1>3. CASE LateUpdate \/ \E s \in Strategies : MirrorUpdate(s)
  <2>1. UNCHANGED <<current, pending, accepting>>
    BY <1>3 DEF LateUpdate, MirrorUpdate
  <2>2. ASSUME NEW s \in Strategies, pgRow'[s].ver < current[s].ver
        PROVE  pgRow[s].ver < current[s].ver
    <3>1. pgRow'[s].ver >= pgRow[s].ver
      BY <1>3, MirrorWrites
    <3>2. pgRow'[s].ver \in Nat
      BY NextType, SlotVer DEF TypeOK, StateOK, Slots
    <3> QED
      BY <2>2, <3>1, <3>2, Vers
  <2>3. \A s \in Strategies : pgRow'[s].id = pgRow[s].id
    BY <1>3, MirrorWrites
  <2> QED
    BY <2>1, <2>2, <2>3 DEF NoLostMirror
<1>4. CASE MirrorAck
  <2>1. PICK t \in mirrored : MirrorAck!(t)
    BY <1>4 DEF MirrorAck
  <2>2. \A s \in Strategies : pending'[s] = IF s = t THEN LeftAfterAck(t) ELSE pending[s]
    BY <2>1 DEF TypeOK, StateOK, Slots
  <2>3. UNCHANGED <<pgRow, current, accepting>>
    BY <1>4 DEF MirrorAck
  <2>4. SUFFICES ASSUME NEW s \in Strategies, current[s] # Absent,
                        pgRow[s].id = current[s].id, pgRow[s].ver < current[s].ver
                 PROVE  pending'[s] = current[s] \/ EventOf(s, current[s]) \in accepting
    BY <2>3 DEF NoLostMirror
  <2>5. pending[s] = current[s] \/ EventOf(s, current[s]) \in accepting
    BY <2>4 DEF NoLostMirror
  <2>6. ASSUME s = t, pending[s] = current[s]
        PROVE  pending[s] # flushing[s]
    <3>1. pgRow[s].id = flushing[s].id => pgRow[s].ver >= flushing[s].ver
      BY <2>6 DEF AckIsTrue
    <3> QED
      BY <2>4, <2>6, <3>1, Vers
  <2> QED
    BY <2>2, <2>5, <2>6 DEF LeftAfterAck
<1>5. ASSUME NEW s \in Strategies, DeleteStrategy(s)
      PROVE  NoLostMirror'
  <2>1. \A t \in Strategies : pgRow'[t] = IF t = s THEN Absent ELSE pgRow[t]
    BY <1>5 DEF DeleteStrategy, TypeOK, StateOK, Slots
  <2>2. UNCHANGED <<current, pending, accepting>>
    BY <1>5 DEF DeleteStrategy
  <2>3. current[s] # Absent => current[s].id # NoId
    BY Vers, SlotId
  <2> QED
    BY <2>1, <2>2, <2>3 DEF NoLostMirror, Absent
<1>6. ASSUME NEW s \in Strategies, NEW r \in Row, CreateStrategy(s, r)
      PROVE  NoLostMirror'
  <2>1. current[s] = Absent /\ UNCHANGED <<current, pending, accepting>>
    BY <1>6 DEF CreateStrategy
  <2> QED
    BY <1>6, <2>1, FreshCreation DEF NoLostMirror
<1>7. CASE Install
  <2>1. SUFFICES ASSUME NEW s \in Strategies, current'[s] # Absent,
                        pgRow[s].id = current'[s].id, pgRow[s].ver < current'[s].ver
                 PROVE  pending'[s] = current'[s]
    BY <1>7 DEF NoLostMirror, Install
  <2>2. rows[s] # Absent
    BY <1>7, <2>1, InstalledRow, NextType, SlotId DEF TypeOK, StateOK, Slots, Absent
  <2>3. current'[s].ver > rows[s].ver
    BY <1>7, <2>1, InstalledVer, Vers
  <2> QED
    BY <1>7, <2>2, <2>3, InstalledRow DEF Install, StillPending
<1>8. CASE Exit
  BY <1>8 DEF Exit, NoLostMirror, NoRows
<1>9. CASE \/ Archive \/ MirrorStart \/ BeginEdit \/ LoadRows \/ LoadFail \/ Close
           \/ Start \/ UNCHANGED vars
           \/ \E s \in Strategies : MirrorFail(s) \/ MirrorTimeout(s) \/ Recover(s)
  <2>1. UNCHANGED <<current, pgRow, pending, accepting>>
    BY <1>9 DEF Archive, ArchiveWrite, ArchiveSyncError, ArchiveResync, ArchivePop,
         MirrorStart, BeginEdit, LoadRows, LoadFail, Close, Start, vars, MirrorFail,
         MirrorTimeout, Recover
  <2> QED
    BY <2>1 DEF NoLostMirror
<1> QED
  BY <1>1, <1>2, <1>3, <1>4, <1>5, <1>6, <1>7, <1>8, <1>9
     DEF Next, Mirror, Configure, Load

\* AllIssued: targets are only copied.
LEMMA KeepsIssued ==
  ASSUME Inv, [Next]_vars
  PROVE  AllIssued'
<1> USE DEF Inv, archiveVars, mirrorVars, loadVars, phaseVars
<1>0. UNCHANGED archivePending => Queued' = Queued
  BY DEF Queued
<1>00. ASSUME NEW f, NEW g, Known(f), \A s \in Strategies : g[s] \in {f[s], Absent}
       PROVE  Known(g)
  BY <1>00 DEF Known
<1>1. ASSUME NEW s \in Strategies, NEW v \in Versions, Admit(s, v)
      PROVE  AllIssued'
  <2>1. PICK r \in Row :
          /\ \A t \in Strategies : current'[t] = IF t = s THEN r ELSE current[t]
          /\ archivePending' = Append(archivePending, EventOf(s, r))
          /\ accepting' = {EventOf(s, r)}
          /\ issued' = issued \cup {EventOf(s, r)}
    BY <1>1, AdmitRow
  <2>2. UNCHANGED <<pgRow, positionCurrent, syncedCurrent, pending, flushing, rows,
                    recovered, late>>
    BY <1>1 DEF Admit
  <2>3. Queued' = Queued \cup {EventOf(s, r)}
    BY <2>1, EventRow, QueuedAppend
  <2> QED
    BY <2>1, <2>2, <2>3 DEF AllIssued, Known
<1>2. CASE AcceptPending
  <2>1. PICK e \in accepting : AcceptPending!(e)
    BY <1>2 DEF AcceptPending
  <2>2. e \in issued /\ e \in Event
    BY DEF AllIssued, TypeOK, StateOK
  <2>3. Known(pending)'
    BY <2>1, <2>2, EventRow DEF AllIssued, Known, TypeOK, StateOK, Slots
  <2> QED
    BY <1>0, <1>2, <2>3 DEF AcceptPending, AllIssued, Known
<1>3. CASE ArchiveWrite \/ ArchiveSyncError
  <2>1. ArchiveFront /\ syncedCurrent' \in {syncedCurrent, positionCurrent'}
    BY <1>3 DEF ArchiveWrite, ArchiveSyncError
  <2>2. PICK e \in Queued :
          \A s \in Strategies :
            positionCurrent'[s] = IF s = e.name THEN RowOf(e) ELSE positionCurrent[s]
    BY <2>1, ArchivedFront
  <2>3. e \in issued /\ EventOf(e.name, RowOf(e)) = e
    BY QueuedEvents, EventRow DEF AllIssued
  <2>4. UNCHANGED <<pgRow, current, pending, flushing, rows, recovered, archivePending,
                    late, accepting, issued>>
    BY <1>3 DEF ArchiveWrite, ArchiveSyncError
  <2>5. Known(positionCurrent)'
    BY <2>2, <2>3, <2>4 DEF AllIssued, Known
  <2> QED
    BY <1>0, <2>1, <2>4, <2>5 DEF AllIssued, Known
<1>4. CASE ArchivePop
  <2>1. Queued' \subseteq Queued
    BY <1>4, QueuedTail DEF ArchivePop, TypeOK, QueueOK
  <2> QED
    BY <1>4, <2>1 DEF ArchivePop, AllIssued, Known
<1>5. CASE ArchiveResync \/ MirrorStart
  BY <1>0, <1>5 DEF ArchiveResync, MirrorStart, AllIssued, Known
<1>6. ASSUME NEW s \in Strategies, MirrorUpdate(s)
      PROVE  AllIssued'
  <2>1. \A t \in Strategies :
          pgRow'[t] = IF t = s THEN Updated(pgRow[s], flushing[s]) ELSE pgRow[t]
    BY <1>6 DEF MirrorUpdate, TypeOK, StateOK, Slots
  <2>2. Updated(pgRow[s], flushing[s]) \in {pgRow[s], flushing[s]}
    BY <1>6, UpdatedRow, Vers, SlotId DEF MirrorUpdate
  <2>3. Known(pgRow)'
    BY <1>6, <2>1, <2>2 DEF AllIssued, Known, MirrorUpdate
  <2> QED
    BY <1>0, <1>6, <2>3 DEF MirrorUpdate, AllIssued, Known
<1>7. CASE LateUpdate
  <2>1. PICK e \in late : LateUpdate!(e)
    BY <1>7 DEF LateUpdate
  <2>2. e \in issued /\ e \in Event /\ e.name \in Strategies
    BY DEF AllIssued, TypeOK, StateOK, Event
  <2>3. \A t \in Strategies :
          pgRow'[t] = IF t = e.name THEN Updated(pgRow[t], RowOf(e)) ELSE pgRow[t]
    BY <2>1 DEF TypeOK, StateOK, Slots
  <2>4. Updated(pgRow[e.name], RowOf(e)) \in {pgRow[e.name], RowOf(e)}
    BY <2>2, UpdatedRow, Vers, EventRow
  <2>5. Known(pgRow)'
    BY <1>7, <2>2, <2>3, <2>4, EventRow DEF AllIssued, Known, LateUpdate
  <2> QED
    BY <1>0, <1>7, <2>5 DEF LateUpdate, AllIssued, Known
<1>8. ASSUME NEW s \in Strategies, DeleteStrategy(s)
      PROVE  AllIssued'
  BY <1>0, <1>8 DEF DeleteStrategy, AllIssued, Known, TypeOK, StateOK, Slots
<1>9. ASSUME NEW s \in Strategies, NEW r \in Row, CreateStrategy(s, r)
      PROVE  AllIssued'
  <2>1. /\ issued \subseteq issued'
        /\ pgRow[s] = Absent => EventOf(s, r) \in issued'
        /\ UNCHANGED <<positionCurrent, syncedCurrent, current, pending, flushing, rows,
                       recovered, archivePending, late, accepting>>
    BY <1>9 DEF CreateStrategy
  <2>2. Known(pgRow)'
    BY <1>9, <2>1, FreshCreation DEF AllIssued, Known
  <2> QED
    BY <1>0, <2>1, <2>2 DEF AllIssued, Known
<1>10. CASE LoadRows \/ LoadFail
  <2>1. Known(rows)' /\ Known(recovered)'
    BY <1>10 DEF LoadRows, LoadFail, AllIssued, Known, NoRows
  <2> QED
    BY <1>0, <1>10, <2>1 DEF LoadRows, LoadFail, AllIssued, Known
<1>11. ASSUME NEW s \in Strategies, Recover(s)
       PROVE  AllIssued'
  <2>1. Known(recovered)'
    BY <1>11 DEF Recover, ArchivedTarget, AllIssued, Known, TypeOK, StateOK, Slots
  <2> QED
    BY <1>0, <1>11, <2>1 DEF Recover, AllIssued, Known
<1>12. CASE Install
  <2>1. Known(current)'
    BY <1>12, InstalledRow DEF Install, AllIssued, Known
  <2>2. \A s \in Strategies : pending'[s] \in {current'[s], pending[s], Absent}
    BY <1>12, InstalledRow DEF Install, StillPending
  <2>3. Known(pending)'
    BY <1>12, <2>1, <2>2 DEF Install, AllIssued, Known
  <2>4. Known(rows)' /\ Known(recovered)'
    BY <1>12 DEF Install, Known, NoRows
  <2> QED
    BY <1>0, <1>12, <2>1, <2>3, <2>4 DEF Install, AllIssued, Known
<1>13. CASE Exit
  <2>1. Queued' = {}
    BY <1>13 DEF Exit, Queued
  <2>2. Known(positionCurrent)' /\ Known(syncedCurrent)'
    BY <1>13 DEF Exit, KeepUnsynced, LoseUnsynced, AllIssued, Known
  <2> QED
    BY <1>13, <2>1, <2>2 DEF Exit, AllIssued, Known, NoRows
<1>14. CASE MirrorAck
  <2>1. PICK t \in mirrored : MirrorAck!(t)
    BY <1>14 DEF MirrorAck
  <2>2. Known(pending)' /\ Known(flushing)'
    BY <1>14, <2>1 DEF MirrorAck, LeftAfterAck, AllIssued, Known, TypeOK, StateOK, Slots
  <2> QED
    BY <1>0, <1>14, <2>2 DEF MirrorAck, AllIssued, Known
<1>15. ASSUME NEW s \in Strategies, MirrorFail(s) \/ MirrorTimeout(s)
       PROVE  AllIssued'
  <2>1. Known(flushing)'
    BY <1>15 DEF MirrorFail, MirrorTimeout, AllIssued, Known, TypeOK, StateOK, Slots
  <2>2. late' \subseteq issued
    BY <1>15 DEF MirrorFail, MirrorTimeout, AllIssued, Known
  <2> QED
    BY <1>0, <1>15, <2>1, <2>2 DEF MirrorFail, MirrorTimeout, AllIssued, Known
<1>16. CASE BeginEdit \/ Close \/ Start \/ UNCHANGED vars
  BY <1>0, <1>16 DEF BeginEdit, Close, Start, vars, AllIssued, Known
<1> QED
  BY <1>1, <1>2, <1>3, <1>4, <1>5, <1>6, <1>7, <1>8, <1>9, <1>10, <1>11, <1>12, <1>13,
     <1>14, <1>15, <1>16 DEF Next, Archive, Mirror, Configure, Load

\* Inv holds initially,
LEMMA InitInv == Init => Inv
<1> SUFFICES ASSUME Init PROVE Inv
  OBVIOUS
<1>1. TypeOK
  BY InitType
<1>2. \A s \in Strategies : NoRows[s] = Absent
  BY DEF NoRows
<1>3. Queued = {}
  BY DEF Init, Queued
<1> QED
  BY <1>1, <1>2, <1>3 DEF Init, Inv, AllIssued, Known, SameCreation, ArchiveBehind,
     QueueBehind, LoadBehind, AckIsTrue, AcceptingCurrent, NoLostMirror

\* and every step keeps it.
LEMMA NextInv == Inv /\ [Next]_vars => Inv'
BY NextType, KeepsIssued, KeepsSameCreation, KeepsArchiveBehind, KeepsQueueBehind,
   KeepsLoadBehind, KeepsAckIsTrue, KeepsAcceptingCurrent, KeepsNoLostMirror DEF Inv

-----------------------------------------------------------------------------
(***************************************************************************)
(* Theorems                                                                *)
(***************************************************************************)
\* Inv is an inductive invariant.
THEOREM Invariance == Spec => []Inv
BY InitInv, NextInv, PTL DEF Spec

\* A live target that its row lacks is always on its way to the row.
THEOREM NothingLost == Spec => []NoLostMirror
<1>1. Inv => NoLostMirror
  BY DEF Inv
<1> QED
  BY <1>1, Invariance, PTL

\* A row never holds a target of another creation of its name.
THEOREM RowsOwn == Spec => []MirrorOwnTargets
<1>1. Inv => MirrorOwnTargets
  BY DEF Inv, AllIssued, Known, MirrorOwnTargets
<1> QED
  BY <1>1, Invariance, PTL

\* No store write takes a row back.
THEOREM RowsAdvance == Spec => MirrorNeverOlder
<1> DEFINE A == \A s \in Strategies :
                  pgRow'[s].id = pgRow[s].id => pgRow'[s].ver >= pgRow[s].ver
<1>1. ASSUME Inv, [Next]_vars
      PROVE  A
  <2> USE <1>1 DEF Inv
  <2>1. CASE LateUpdate \/ \E s \in Strategies : MirrorUpdate(s)
    BY <2>1, MirrorWrites
  <2>2. ASSUME NEW s \in Strategies, DeleteStrategy(s)
        PROVE  A
    <3>1. \A t \in Strategies : pgRow'[t] = IF t = s THEN Absent ELSE pgRow[t]
      BY <2>2 DEF DeleteStrategy, TypeOK, StateOK, Slots
    <3>2. pgRow[s].id # NoId
      BY <2>2, Vers, SlotId DEF DeleteStrategy
    <3> QED
      BY <3>1, <3>2, Vers DEF Absent
  <2>3. ASSUME NEW s \in Strategies, NEW r \in Row, CreateStrategy(s, r)
        PROVE  A
    <3>1. pgRow[s] = Absent => pgRow[s].id # r.id
      BY NoIdAssumption DEF Absent, Row
    <3> QED
      BY <2>3, <3>1, FreshCreation, Vers
  <2>4. CASE UNCHANGED pgRow
    BY <2>4, Vers
  <2> QED
    BY <2>1, <2>2, <2>3, <2>4 DEF Next, Archive, ArchiveWrite, ArchiveSyncError,
       ArchiveResync, ArchivePop, Mirror, MirrorStart, MirrorAck, MirrorFail,
       MirrorTimeout, Configure, BeginEdit, Load, LoadRows, Recover, Install, LoadFail,
       Admit, AcceptPending, Close, Exit, Start, vars
<1>2. Inv /\ [Next]_vars => [A]_vars
  BY <1>1
<1> QED
  BY <1>2, Invariance, PTL DEF Spec, MirrorNeverOlder

\* A load never takes back the target a reader has seen.
THEOREM ReadersAdvance == Spec => MemoryNeverOlder
<1> DEFINE A == \A s \in Strategies :
                  Up /\ process' # "down" /\ current[s] # Absent
                    /\ current'[s].id = current[s].id
                  => current'[s].ver >= current[s].ver
<1>1. ASSUME Inv, [Next]_vars
      PROVE  A
  <2> USE <1>1 DEF Inv
  <2>1. ASSUME NEW s \in Strategies, NEW v \in Versions, Admit(s, v)
        PROVE  A
    <3>1. PICK r \in Row :
            /\ r.ver > current[s].ver
            /\ \A t \in Strategies : current'[t] = IF t = s THEN r ELSE current[t]
      BY <2>1, AdmitRow
    <3>2. r.ver \in Nat
      BY SlotVer DEF Slot
    <3>3. \A t \in Strategies : current[t].ver \in Nat
      BY Vers
    <3> QED
      BY <3>1, <3>2, <3>3
  <2>2. CASE Install
    BY <2>2, InstalledRow, InstalledVer
  <2>3. CASE Exit
    BY <2>3 DEF Exit
  <2>4. CASE UNCHANGED current
    BY <2>4, Vers
  <2> QED
    BY <2>1, <2>2, <2>3, <2>4 DEF Next, Archive, ArchiveWrite, ArchiveSyncError,
       ArchiveResync, ArchivePop, Mirror, MirrorStart, MirrorUpdate, MirrorAck,
       MirrorFail, MirrorTimeout, Configure, BeginEdit, DeleteStrategy, CreateStrategy,
       Load, LoadRows, Recover, LoadFail, AcceptPending, LateUpdate, Close, Start, vars
<1>2. Inv /\ [Next]_vars => [A]_vars
  BY <1>1
<1> QED
  BY <1>2, Invariance, PTL DEF Spec, MemoryNeverOlder
=============================================================================
