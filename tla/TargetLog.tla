----------------------------- MODULE TargetLog -----------------------------
(***************************************************************************)
(* What the target stores of CTA Manager promise to the code that admits   *)
(* and publishes position targets, with no store in sight.                 *)
(*                                                                         *)
(* Admitted targets form one log.  A prefix of it is durable; a process    *)
(* that dies loses a suffix of the rest and nothing else, adds nothing and *)
(* repeats nothing.  Every strategy also has a live target in memory.      *)
(* Loading the catalog gives each catalogued strategy a target that was    *)
(* really issued to that very creation of the name, and that is no older   *)
(* than the live one, nor than any of its targets left in the log.         *)
(*                                                                         *)
(* TargetStore implements this specification (see RefinesTargetLog there). *)
(***************************************************************************)
EXTENDS Naturals, Sequences

CONSTANTS
  Strategies,   \* strategy names
  Ids,          \* identities: created_at of a row of cta_position_strategies
  NoId,         \* the identity of an absent row
  Versions      \* updated_at_us of a target

VARIABLES
  log,          \* admitted targets, in admission order
  durable,      \* length of the prefix of log that survives any crash
  live,         \* the target a reader of the memory sees, per strategy
  catalogued,   \* identity of the strategy's row, NoId when it has none
  issued        \* every target ever admitted or created

logVars == <<log, durable, live, catalogued, issued>>

Row == [id : Ids, ver : Versions]
Absent == [id |-> NoId, ver |-> 0]
Event == [name : Strategies, id : Ids, ver : Versions]

EventOf(s, r) == [name |-> s, id |-> r.id, ver |-> r.ver]

Logged(l, e) == \E i \in 1..Len(l) : l[i] = e

Init ==
  /\ log = <<>>
  /\ durable = 0
  /\ live = [s \in Strategies |-> Absent]
  /\ catalogued = [s \in Strategies |-> NoId]
  /\ issued = {}

(***************************************************************************)
(* A new row under a name that has none; the identity was never used for   *)
(* that name before.                                                       *)
(***************************************************************************)
Create(s, r) ==
  /\ catalogued[s] = NoId
  /\ \A e \in issued : e.name = s => e.id # r.id
  /\ catalogued' = [catalogued EXCEPT ![s] = r.id]
  /\ issued' = issued \cup {EventOf(s, r)}
  /\ UNCHANGED <<log, durable, live>>

Delete(s) ==
  /\ catalogued[s] # NoId
  /\ catalogued' = [catalogued EXCEPT ![s] = NoId]
  /\ UNCHANGED <<log, durable, live, issued>>

(***************************************************************************)
(* Admission: the next target of a strategy is newer than its live one.    *)
(***************************************************************************)
Admit(s, v) ==
  LET r == [live[s] EXCEPT !.ver = v] IN
  /\ live[s] # Absent
  /\ v > live[s].ver
  /\ log' = Append(log, EventOf(s, r))
  /\ live' = [live EXCEPT ![s] = r]
  /\ issued' = issued \cup {EventOf(s, r)}
  /\ UNCHANGED <<durable, catalogued>>

Harden ==
  /\ durable < Len(log)
  /\ durable' = durable + 1
  /\ UNCHANGED <<log, live, catalogued, issued>>

(***************************************************************************)
(* What loading the catalog may make the live target r of strategy s.      *)
(***************************************************************************)
Loadable(s, r) ==
  IF catalogued[s] = NoId THEN r = Absent
  ELSE /\ r.id = catalogued[s]
       /\ EventOf(s, r) \in issued
       /\ r.id = live[s].id => r.ver >= live[s].ver
       /\ \A i \in 1..Len(log) :
            log[i].name = s /\ log[i].id = r.id => log[i].ver <= r.ver

Load ==
  /\ \A s \in Strategies : Loadable(s, live'[s])
  /\ UNCHANGED <<log, durable, catalogued, issued>>

Crash(n) ==
  /\ n \in durable..Len(log)
  /\ log' = SubSeq(log, 1, n)
  /\ durable' = n
  /\ live' = [s \in Strategies |-> Absent]
  /\ UNCHANGED <<catalogued, issued>>

Next ==
  \/ \E s \in Strategies :
       \/ \E i \in Ids, v \in Versions : Create(s, [id |-> i, ver |-> v])
       \/ Delete(s)
       \/ \E v \in Versions : Admit(s, v)
  \/ Harden
  \/ Load
  \/ \E n \in 0..Len(log) : Crash(n)

Spec == Init /\ [][Next]_logVars
=============================================================================
