---------------------------- MODULE OrderConfig ----------------------------
(***************************************************************************)
(* The order parameters of one binding: the template of the binding, the   *)
(* templates its symbols select, the documents Exec reads, and the edit of  *)
(* the parameters of one account through Exec Config (src/src/order_        *)
(* config.rs, redis_runtime.rs publish_strategy_inner, web.rs              *)
(* save_order_parameters, postgres.rs).                                    *)
(*                                                                         *)
(* A publish writes one document per market and family: the parameters of  *)
(* the binding, and of every symbol only what differs.  An edit goes to    *)
(* Exec Config, another process that owns the document of the account's    *)
(* market, with the version it started from.  The Manager does one or the  *)
(* other at a time (configuration_lock); an operator of the Exec host may  *)
(* write between any two steps.                                            *)
(*                                                                         *)
(* Parameters are abstracted to the groups the code treats alike: `base`   *)
(* is every batch field but algorithm, pov and grid, `rate` the order rate *)
(* limits of chase.  0 is the default of a group, 2 a value validate()     *)
(* rejects.                                                                *)
(***************************************************************************)
EXTENDS Integers, Sequences, FiniteSets

CONSTANTS
  Forms,        \* order templates an operator may save or select
  Symbols,      \* symbols of the binding's target
  Markets,      \* markets of the account, or one market alone
  MarketOf,     \* the market that owns a symbol
  Main,         \* the market the account is configured for
  MaxWrites,    \* bound on versions
  MaxEdits,     \* bound on changes of the binding
  MaxSaves,     \* bound on edits through Exec Config
  MaxFaults     \* bound on lost calls and crashes

VARIABLES
  gridAllowed,  \* the account's mode supports grid
  default,      \* parameters of the template of the binding
  selected,     \* parameters of the template each symbol selects, or NoForm
  documents,    \* {market}:{family}:{binding} in Redis
  intended,     \* what a publish meant by the document that stands, or NoBinding
  shown,        \* version an operator's page holds
  save,         \* the edit under way
  late,         \* an edit sent and given up, which may still arrive
  audit,        \* cta_exec_order_config_audit
  replaced,     \* version each edit took the place of, by audit row
  notified,     \* versions Exec was told to reload
  writes, edits, faults

orderVars == <<gridAllowed, default, selected, documents, intended, shown,
               save, late, audit, replaced, notified, writes, edits, faults>>

Algorithms == {"batch", "pov", "chase", "ctaker", "grid"}
Families == {"batch_exec", "chase_exec"}
Values == 0..2
AllForms == [algorithm : Algorithms, pov : Values, grid : Values, chase : Values,
             base : Values, rate : 0..1, enabled : BOOLEAN]
NoForm == [algorithm |-> "none"]
NoSave == [stage |-> "idle"]
NoBinding == [default |-> NoForm, selected |-> [s \in Symbols |-> NoForm]]

Family(p) == IF p.algorithm = "chase" THEN "chase_exec" ELSE "batch_exec"

----------------------------------------------------------------------------
(* Validation. *)

PovValid(p) == p.pov # 2
GridValid(p) == p.grid # 2
ChaseValid(p) == p.chase # 2

\* Chase ignores the batch fields; the others check pov only for pov and grid
\* always.
Valid(p) ==
  IF p.algorithm = "chase" THEN ChaseValid(p)
  ELSE /\ p.base # 2
       /\ p.algorithm = "pov" => PovValid(p)
       /\ GridValid(p)

\* Grid needs an account mode that supports it, for the binding and for every
\* symbol.
GridRefused(p, chosen) ==
  /\ ~gridAllowed
  /\ \E q \in {p} \union {chosen[s] : s \in Symbols} : q.algorithm = "grid"

\* The symbols of the target must belong to a market of the account.
Foreign == {s \in Symbols : MarketOf[s] \notin Markets}

----------------------------------------------------------------------------
(* Documents.  -1 is an absent field. *)

\* Fault: the grid of a symbol is left out whenever it equals the binding's.
GridDiffers(p, q) == q.algorithm = "grid" /\ q.grid # p.grid

\* The document of the binding carries a grid only when its algorithm is grid,
\* so a symbol that selects grid has to bring its own in every other case.
GridOverride(p, q) ==
  q.algorithm = "grid" /\ (p.algorithm # "grid" \/ q.grid # p.grid)

Differs(p, q, f) == IF q[f] # p[f] THEN q[f] ELSE -1

BatchOverrides(p, q) ==
  [algorithm |-> IF q.algorithm # p.algorithm THEN q.algorithm ELSE "none",
   pov |-> Differs(p, q, "pov"), base |-> Differs(p, q, "base"),
   grid |-> IF GridOverride(p, q) THEN q.grid ELSE -1, chase |-> -1]

ChaseOverrides(p, q) ==
  [algorithm |-> "none", pov |-> -1, base |-> -1, grid |-> -1,
   chase |-> Differs(p, q, "chase")]

NoOverrides == [algorithm |-> "none", pov |-> -1, base |-> -1, grid |-> -1,
                chase |-> -1]

\* A symbol without a template, or of another market, has no overrides.
OverridesIn(p, chosen, m) ==
  [s \in Symbols |->
     IF chosen[s] = NoForm \/ MarketOf[s] # m THEN NoOverrides
     ELSE IF Family(p) = "chase_exec" THEN ChaseOverrides(p, chosen[s])
     ELSE BatchOverrides(p, chosen[s])]

\* The signal of a symbol is published only if its template lets it.
SignalsIn(p, chosen, m) ==
  {s \in Symbols : /\ MarketOf[s] = m
                   /\ (IF chosen[s] = NoForm THEN p ELSE chosen[s]).enabled}

StoredBatch(p) == [algorithm |-> p.algorithm, pov |-> p.pov, base |-> p.base,
                   grid |-> IF p.algorithm = "grid" THEN p.grid ELSE -1,
                   chase |-> -1, rate |-> -1]
StoredChase(p) == [algorithm |-> "chase", pov |-> -1, base |-> -1, grid |-> -1,
                   chase |-> p.chase, rate |-> p.rate]
Stored(p) == IF Family(p) = "chase_exec" THEN StoredChase(p) ELSE StoredBatch(p)

Document(p, chosen, m, version) ==
  [parameters |-> Stored(p), overrides |-> OverridesIn(p, chosen, m),
   signals |-> SignalsIn(p, chosen, m), version |-> version]

NoDocument == [parameters |-> NoForm,
               overrides |-> [s \in Symbols |-> NoOverrides],
               signals |-> {}, version |-> 0]

\* An absent field of a document has its default.
Decode(parameters) ==
  [parameters EXCEPT !.pov = IF @ = -1 THEN 0 ELSE @,
                     !.grid = IF @ = -1 THEN 0 ELSE @,
                     !.base = IF @ = -1 THEN 0 ELSE @,
                     !.chase = IF @ = -1 THEN 0 ELSE @]

\* What a symbol runs: its overrides over the parameters of the binding.
Applied(o, p) ==
  [algorithm |-> IF o.algorithm = "none" THEN p.algorithm ELSE o.algorithm,
   pov |-> IF o.pov = -1 THEN p.pov ELSE o.pov,
   base |-> IF o.base = -1 THEN p.base ELSE o.base,
   grid |-> IF o.grid = -1 THEN p.grid ELSE o.grid,
   chase |-> IF o.chase = -1 THEN p.chase ELSE o.chase]

Runs(d, s) == Applied(d.overrides[s], Decode(d.parameters))

----------------------------------------------------------------------------
(* The binding and its publish. *)

OrderInit ==
  /\ gridAllowed \in BOOLEAN
  /\ default \in {p \in Forms : Valid(p)}
  /\ selected = [s \in Symbols |-> NoForm]
  /\ documents = [m \in Markets |-> [f \in Families |-> NoDocument]]
  /\ intended = [m \in Markets |-> [f \in Families |-> NoBinding]]
  /\ shown = 0 /\ save = NoSave /\ late = NoSave
  /\ audit = <<>> /\ replaced = <<>> /\ notified = {}
  /\ writes = 0 /\ edits = 0 /\ faults = 0

NoEdit == save.stage = "idle"

\* An operator saves the template, or the template a symbol selects; nothing
\* is published for a direct binding.  Its lock excludes every other edit.
TemplateSaved(p) ==
  /\ NoEdit /\ edits < MaxEdits /\ edits' = edits + 1
  /\ Valid(p) /\ default' = p
  /\ UNCHANGED <<gridAllowed, selected, documents, intended, shown, save, late,
                 audit, replaced, notified, writes, faults>>

SymbolSelects(s, q) ==
  /\ NoEdit /\ edits < MaxEdits /\ edits' = edits + 1
  /\ q # NoForm => Valid(q)
  /\ selected' = [selected EXCEPT ![s] = q]
  /\ UNCHANGED <<gridAllowed, default, documents, intended, shown, save, late,
                 audit, replaced, notified, writes, faults>>

\* Symbols that select another family than the binding's are refused.
PublishRefused ==
  \/ GridRefused(default, selected)
  \/ \E s \in Symbols : /\ selected[s] # NoForm
                        /\ Family(selected[s]) # Family(default)
  \/ Foreign # {}

\* Above the version of every market, and of the clock.
NextVersion == writes + 1

\* Exec is told to reload, once a write is known to be there.
Announced(version) == notified \union {version}

\* One transaction for all markets; what it wrote is read back.  A publish
\* whose answer is lost is not announced.
Publish(confirmed) ==
  LET f == Family(default) IN
  /\ NoEdit /\ writes < MaxWrites /\ ~PublishRefused
  /\ IF confirmed THEN faults' = faults ELSE faults < MaxFaults /\ faults' = faults + 1
  /\ documents' = [m \in Markets |->
                     [documents[m] EXCEPT ![f] =
                        Document(default, selected, m, NextVersion)]]
  /\ intended' = [m \in Markets |->
                    [intended[m] EXCEPT ![f] =
                       [default |-> default, selected |-> selected]]]
  /\ writes' = NextVersion
  /\ notified' = IF confirmed THEN Announced(NextVersion) ELSE notified
  /\ UNCHANGED <<gridAllowed, default, selected, shown, save, late, audit,
                 replaced, edits>>

----------------------------------------------------------------------------
(* Edits through Exec Config. *)

\* Exec Config's document of the family the binding has now.
Held(f) == documents[Main][f]
Exists(f) == Held(f).version # 0

\* An operator opens the page.
Show ==
  /\ Exists(Family(default)) /\ shown # Held(Family(default)).version
  /\ shown' = Held(Family(default)).version
  /\ UNCHANGED <<gridAllowed, default, selected, documents, intended, save, late,
                 audit, replaced, notified, writes, edits, faults>>

\* Exec Config replaces the parameters and keeps overrides and targets.
Edited(f, p) ==
  /\ documents' = [documents EXCEPT ![Main][f].parameters = Stored(p),
                                    ![Main][f].version = NextVersion]
  /\ intended' = [intended EXCEPT ![Main][f] = NoBinding]
  /\ writes' = NextVersion

\* An operator of the Exec host edits the parameters there.
EditedOutside(f, p) ==
  /\ Exists(f) /\ writes < MaxWrites /\ faults < MaxFaults /\ faults' = faults + 1
  /\ Valid(p) /\ Family(p) = f
  /\ Edited(f, p)
  /\ UNCHANGED <<gridAllowed, default, selected, shown, save, late, audit,
                 replaced, notified, edits>>

\* The request names the version its page showed, is valid, and keeps the
\* family of the binding.
SaveRefused(p) ==
  \/ shown = 0
  \/ ~Valid(p)
  \/ Family(p) # Family(default)
  \/ GridRefused(p, [s \in Symbols |-> NoForm])

SaveStarts(p) ==
  /\ NoEdit /\ Len(audit) < MaxSaves /\ ~SaveRefused(p)
  /\ save' = [stage |-> "load", form |-> p, expected |-> shown, row |-> 0, result |-> 0]
  /\ UNCHANGED <<gridAllowed, default, selected, documents, intended, shown, late,
                 audit, replaced, notified, writes, edits, faults>>

\* The document is fetched; it must be there in the version expected.
SaveLoads ==
  /\ save.stage = "load"
  /\ save' = IF Held(Family(save.form)).version = save.expected
             THEN [save EXCEPT !.stage = "audit"] ELSE NoSave
  /\ UNCHANGED <<gridAllowed, default, selected, documents, intended, shown, late,
                 audit, replaced, notified, writes, edits, faults>>

\* The row is there before Exec is asked for anything.
SaveAudited ==
  /\ save.stage = "audit"
  /\ audit' = Append(audit, [form |-> save.form, expected |-> save.expected,
                             status |-> "pending", result |-> 0])
  /\ replaced' = Append(replaced, 0)
  /\ save' = [save EXCEPT !.stage = "post", !.row = Len(audit) + 1]
  /\ UNCHANGED <<gridAllowed, default, selected, documents, intended, shown, late,
                 notified, writes, edits, faults>>

\* Fault: the version of the page is checked here and not sent along.
PostUnconditional(request) ==
  documents[Main][Family(request.form)].version # 0

\* Exec Config refuses any other version than the one the request names.
PostAccepted(request) ==
  request.expected = documents[Main][Family(request.form)].version

\* The request takes effect at Exec Config.
Lands(request) ==
  LET f == Family(request.form) IN
  /\ writes < MaxWrites
  /\ PostAccepted(request)
  /\ Edited(f, request.form)
  /\ replaced' = [replaced EXCEPT ![request.row] = documents[Main][f].version]

\* Exec Config answers the POST.
Accepted ==
  /\ save.stage = "post" /\ Lands(save)
  /\ save' = [save EXCEPT !.stage = "applied", !.result = writes']
  /\ UNCHANGED <<gridAllowed, default, selected, shown, late, audit, notified,
                 edits, faults>>

Refused ==
  /\ save.stage = "post" /\ ~PostAccepted(save)
  /\ save' = [save EXCEPT !.stage = "failed"]
  /\ UNCHANGED <<gridAllowed, default, selected, documents, intended, shown, late,
                 audit, replaced, notified, writes, edits, faults>>

\* The POST is given up: it may have been applied, or may be yet.
GivenUp ==
  /\ save.stage = "post" /\ faults < MaxFaults /\ faults' = faults + 1
  /\ save' = [save EXCEPT !.stage = "failed"]
  /\ late' = save
  /\ UNCHANGED <<gridAllowed, default, selected, documents, intended, shown, audit,
                 replaced, notified, writes, edits>>

Arrives ==
  /\ late # NoSave /\ Lands(late)
  /\ late' = NoSave
  /\ UNCHANGED <<gridAllowed, default, selected, shown, save, audit, notified,
                 edits, faults>>

\* Only a pending row changes.
Outcome == [audit EXCEPT ![save.row].status = save.stage,
                         ![save.row].result = save.result]

\* The outcome is recorded, or the database fails and the row stays pending;
\* Exec is told either way.
Completed(stored) ==
  /\ save.stage \in {"applied", "failed"}
  /\ IF stored THEN faults' = faults ELSE faults < MaxFaults /\ faults' = faults + 1
  /\ audit' = IF stored THEN Outcome ELSE audit
  /\ notified' = IF save.stage = "applied" THEN Announced(save.result) ELSE notified
  /\ save' = NoSave
  /\ UNCHANGED <<gridAllowed, default, selected, documents, intended, shown, late,
                 replaced, writes, edits>>

\* A call fails before anything is written, or the Manager stops.
Abandoned ==
  /\ ~NoEdit /\ faults < MaxFaults /\ faults' = faults + 1
  /\ save' = NoSave
  /\ late' = IF save.stage = "post" THEN save ELSE late
  /\ UNCHANGED <<gridAllowed, default, selected, documents, intended, shown, audit,
                 replaced, notified, writes, edits>>

OrderNext ==
  \/ \E p \in Forms : TemplateSaved(p) \/ SaveStarts(p)
  \/ \E p \in Forms, f \in Families : EditedOutside(f, p)
  \/ \E s \in Symbols, q \in Forms \union {NoForm} : SymbolSelects(s, q)
  \/ \E confirmed \in BOOLEAN : Publish(confirmed)
  \/ Show \/ SaveLoads \/ SaveAudited \/ Accepted \/ Refused \/ GivenUp \/ Arrives
  \/ \E stored \in BOOLEAN : Completed(stored)
  \/ Abandoned

OrderTypeOK ==
  /\ gridAllowed \in BOOLEAN /\ default \in AllForms
  /\ \A s \in Symbols : selected[s] \in AllForms \union {NoForm}
  /\ \A m \in Markets, f \in Families : documents[m][f].version \in 0..writes
  /\ save.stage \in {"idle", "load", "audit", "post", "applied", "failed"}
  /\ late.stage \in {"idle", "post"}
  /\ Len(audit) = Len(replaced) /\ Len(audit) <= MaxSaves
  /\ \A i \in DOMAIN audit : audit[i].status \in {"pending", "applied", "failed"}
  /\ notified \subseteq 1..writes
  /\ shown \in 0..writes /\ writes \in 0..MaxWrites
  /\ edits \in 0..MaxEdits /\ faults \in 0..MaxFaults

----------------------------------------------------------------------------

\* The groups an algorithm reads.
Reads(algorithm) ==
  CASE algorithm = "chase" -> {"chase"}
    [] algorithm = "pov" -> {"base", "pov"}
    [] algorithm = "grid" -> {"base", "grid"}
    [] OTHER -> {"base"}

Same(p, q) ==
  p.algorithm = q.algorithm /\ \A g \in Reads(p.algorithm) : p[g] = q[g]

\* A published symbol runs the template it selects, else the binding's.
SymbolsAsBound ==
  \A m \in Markets, f \in Families :
    intended[m][f] # NoBinding =>
      \A s \in {s \in Symbols : MarketOf[s] = m} :
        LET i == intended[m][f]
            chosen == IF i.selected[s] = NoForm THEN i.default ELSE i.selected[s]
        IN /\ Same(chosen, Runs(documents[m][f], s))
           /\ s \in documents[m][f].signals <=> chosen.enabled

\* An edit takes the place of the version its operator saw, and of no other.
NoLostUpdate ==
  \A i \in DOMAIN replaced : replaced[i] \in {0, audit[i].expected}

\* A row says applied only of an edit that was, and while its version stands
\* Exec runs what the row says.
RowsAreTrue ==
  \A i \in DOMAIN audit : audit[i].status = "applied" =>
    /\ replaced[i] # 0
    /\ LET d == documents[Main][Family(audit[i].form)] IN
       d.version = audit[i].result => Same(audit[i].form, Decode(d.parameters))

\* Exec, told to reload, finds that version or a later one.
NotifiedIsStored ==
  \A v \in notified : \E f \in Families : documents[Main][f].version >= v

(***************************************************************************)
(* What Exec runs is what was asked for: of a publish, by every symbol; of *)
(* an edit, by the binding and on top of the version its operator saw      *)
(* (order_config.rs from_templates, apply_to, save_order_parameters).      *)
(***************************************************************************)
OrdersAsAsked == SymbolsAsBound /\ NoLostUpdate /\ RowsAreTrue /\ NotifiedIsStored
=============================================================================
