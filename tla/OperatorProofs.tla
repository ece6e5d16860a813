--------------------------- MODULE OperatorProofs ---------------------------
(***************************************************************************)
(* What operators do through the host, for every value of the constants:   *)
(* users, grants and targets (Directory), what is set and read at the      *)
(* exchange (ExchangeAccount), the order parameters Exec runs (OrderConfig)*)
(* and the market rules publishes are projected with (MarketRules). Each   *)
(* has an inductive invariant for its part of the host.                    *)
(***************************************************************************)
EXTENDS HostServices, FiniteSetTheorems, SequenceTheorems, TLAPS

-----------------------------------------------------------------------------
(***************************************************************************)
(* Users, grants and targets: the copy publishes are decided by says what   *)
(* the database says, no override, live or stored, names a template that is *)
(* gone, and an administrator remains.                                      *)
(***************************************************************************)
Rows == [by : SUBSET Users, token : SUBSET Tokens, open : BOOLEAN,
         managers : SUBSET Users, grants : SUBSET (Users \X Access!Levels),
         override : SUBSET Templates]
Sessions == [user : Users, admin : BOOLEAN]
Publishes == [strategy : Strategies, who : SUBSET Sessions, token : SUBSET Tokens,
              override : SUBSET Templates]

DirectoryTyped ==
  /\ roles \in [Users -> {"none", "user", "admin"}]
  /\ \A c \in DOMAIN sessions : sessions[c] \in Access!Existing
  /\ \A s \in DOMAIN rows : rows[s] \in Rows
  /\ \A s \in DOMAIN live : live[s] \in SUBSET Templates
  /\ arrived \subseteq Publishes

\* Users are never deleted: whoever was let in has an administrator above him.
SomeAdmin ==
  /\ Access!Existing # {} => Access!Admins # {}
  /\ waiting # {} => Access!Existing # {}

OverridesKnown ==
  \A s \in DOMAIN rows :
    /\ rows[s].override \subseteq DOMAIN templates
    /\ s \in DOMAIN live => live[s] \subseteq DOMAIN templates

\* Two rows that differ in nothing but the target.
SameRow(a, b) == /\ a.by = b.by /\ a.token = b.token /\ a.open = b.open
                 /\ a.managers = b.managers /\ a.grants = b.grants

\* What the copy says, and that it has a live target for each of its strategies and no
\* other: a target that outlived its strategy is dropped before the copy opens.
CopyCurrent ==
  ready =>
    /\ directory = [sessions |-> directory.sessions, entries |-> directory.entries,
                    templates |-> DOMAIN templates, bound |-> bound,
                    fallback |-> fallback, fees |-> fees]
    /\ \A c \in DOMAIN directory.sessions \ lapsed :
         /\ c \in DOMAIN sessions
         /\ directory.sessions[c]
            = [user |-> sessions[c], admin |-> roles[sessions[c]] = "admin"]
    /\ \A s \in DOMAIN directory.entries :
         /\ s \in DOMAIN rows /\ directory.entries[s] \in Rows
         /\ SameRow(rows[s], directory.entries[s])
    /\ DOMAIN live = DOMAIN directory.entries

DirectoryInv == DirectoryTyped /\ SomeAdmin /\ OverridesKnown /\ CopyCurrent

LEMMA DirectoryStart == Access!DirectoryInit => DirectoryInv
<1> SUFFICES ASSUME Access!DirectoryInit PROVE DirectoryInv
  OBVIOUS
<1>1. PICK admin \in Access!AtMostOne(Users), cookie \in Cookies :
        /\ roles = [u \in Users |-> IF u \in admin THEN "admin" ELSE "none"]
        /\ sessions = [c \in {c \in {cookie} : admin # {}} |-> CHOOSE u \in admin : TRUE]
        /\ templates = [t \in {t \in Templates : admin # {}} |-> CHOOSE u \in admin : TRUE]
  BY DEF Access!DirectoryInit
<1>2. /\ rows = <<>> \/ \A s \in DOMAIN rows :
             rows[s] = [by |-> Access!Admins, token |-> {}, open |-> FALSE,
                        managers |-> {}, grants |-> {}, override |-> {}]
      /\ live = <<>> /\ ~ready /\ waiting = {} /\ arrived = {}
  BY DEF Access!DirectoryInit
<1>3. admin \subseteq Users
  BY DEF Access!AtMostOne
<1>4. roles \in [Users -> {"none", "user", "admin"}]
  BY <1>1
<1>5. Access!Existing = admin /\ Access!Admins = admin
  BY <1>1, <1>3 DEF Access!Existing, Access!Admins
<1>6. \A c \in DOMAIN sessions : sessions[c] \in Access!Existing
  <2>1. admin # {} => (CHOOSE u \in admin : TRUE) \in admin
    OBVIOUS
  <2> QED BY <1>1, <1>5, <2>1
<1>7. \A s \in DOMAIN rows : rows[s] \in Rows /\ rows[s].override = {}
  <2>1. CASE rows = <<>>
    <3>1. DOMAIN rows = {}
      BY <2>1
    <3> QED BY <3>1
  <2>2. ASSUME NEW s \in DOMAIN rows, rows # <<>>
        PROVE  rows[s] \in Rows /\ rows[s].override = {}
    <3>1. rows[s] = [by |-> admin, token |-> {}, open |-> FALSE, managers |-> {},
                     grants |-> {}, override |-> {}]
      BY <1>2, <1>5, <2>2
    <3> QED BY <1>3, <3>1 DEF Rows
  <2> QED BY <2>1, <2>2
<1>8. DOMAIN live = {}
  BY <1>2
<1>9. DirectoryTyped
  BY <1>2, <1>4, <1>6, <1>7, <1>8 DEF DirectoryTyped
<1>10. OverridesKnown
  BY <1>7, <1>8 DEF OverridesKnown
<1> QED BY <1>2, <1>5, <1>9, <1>10 DEF DirectoryInv, SomeAdmin, CopyCurrent

-----------------------------------------------------------------------------
(***************************************************************************)
(* Steps                                                                    *)
(***************************************************************************)
\* A step that leaves users, rows, templates and live targets alone, and with an open
\* copy also what the copy says.
LEMMA Untouched ==
  ASSUME DirectoryInv, UNCHANGED <<roles, rows, live, templates>>,
         UNCHANGED sessions \/ (~ready' /\ DirectoryTyped'),
         arrived' \subseteq arrived, waiting' \subseteq waiting,
         ready' => ready /\ UNCHANGED <<directory, bound, fallback, fees>>
                   /\ lapsed \subseteq lapsed'
  PROVE  DirectoryInv'
<1>1. UNCHANGED <<Access!Existing, Access!Admins>>
  BY DEF Access!Existing, Access!Admins
<1>2. DirectoryTyped'
  BY <1>1 DEF DirectoryInv, DirectoryTyped
<1>3. SomeAdmin'
  BY <1>1 DEF DirectoryInv, SomeAdmin
<1>4. OverridesKnown'
  BY DEF DirectoryInv, OverridesKnown
<1>5. CopyCurrent'
  BY DEF DirectoryInv, CopyCurrent, SameRow
<1> QED BY <1>2, <1>3, <1>4, <1>5 DEF DirectoryInv

\* The user of a session is one of those there are.
LEMMA SessionExists ==
  ASSUME DirectoryTyped, NEW cookie, NEW u \in Access!SessionUser(cookie)
  PROVE  u \in Access!Existing
BY DEF DirectoryTyped, Access!SessionUser, Access!Lookup

LEMMA ReloadKeeps == DirectoryInv /\ Access!Reload => DirectoryInv'
<1> SUFFICES ASSUME DirectoryInv, Access!Reload PROVE DirectoryInv'
  OBVIOUS
<1>1. /\ UNCHANGED <<roles, sessions, lapsed, rows, templates, bound, fallback, fees,
                     waiting, arrived>>
      /\ directory' = Access!Loaded(rows) /\ live' = Access!Recovered(rows)
  BY DEF Access!Reload, Access!database
<1>2. UNCHANGED <<Access!Existing, Access!Admins>>
  BY <1>1 DEF Access!Existing, Access!Admins
<1>3. /\ DOMAIN live' = DOMAIN rows
      /\ \A s \in DOMAIN rows :
           live'[s] = IF s \in DOMAIN live THEN live[s] ELSE rows[s].override
  BY <1>1 DEF Access!Recovered
<1>4. DirectoryTyped'
  BY <1>1, <1>2, <1>3 DEF DirectoryInv, DirectoryTyped, Rows
<1>5. OverridesKnown'
  BY <1>1, <1>3 DEF DirectoryInv, OverridesKnown
<1>6. CopyCurrent'
  BY <1>1, <1>3 DEF DirectoryInv, DirectoryTyped, CopyCurrent, SameRow, Access!Loaded
<1> QED BY <1>1, <1>2, <1>4, <1>5, <1>6 DEF DirectoryInv, SomeAdmin

LEMMA MirrorKeeps ==
  ASSUME DirectoryInv, NEW s \in Strategies, Access!Mirror(s)
  PROVE  DirectoryInv'
<1>1. /\ s \in DOMAIN live /\ s \in DOMAIN rows
      /\ rows' = [rows EXCEPT ![s].override = live[s]]
      /\ UNCHANGED <<roles, sessions, lapsed, templates, bound, fallback, fees, directory,
                     live, ready, waiting, arrived>>
  BY DEF Access!Mirror
<1>2. UNCHANGED <<Access!Existing, Access!Admins>>
  BY <1>1 DEF Access!Existing, Access!Admins
<1>3. live[s] \in SUBSET Templates /\ \A q \in DOMAIN rows : rows[q] \in Rows
  BY <1>1 DEF DirectoryInv, DirectoryTyped
<1>4. /\ DOMAIN rows' = DOMAIN rows
      /\ \A q \in DOMAIN rows : rows'[q] \in Rows /\ SameRow(rows'[q], rows[q])
      /\ \A q \in DOMAIN rows \ {s} : rows'[q] = rows[q]
      /\ rows'[s].override = live[s]
  BY <1>1, <1>3 DEF Rows, SameRow
<1>5. DirectoryTyped'
  BY <1>1, <1>2, <1>4 DEF DirectoryInv, DirectoryTyped
<1>6. OverridesKnown'
  BY <1>1, <1>4 DEF DirectoryInv, OverridesKnown
<1>7. CopyCurrent'
  <2>1. ASSUME ready, NEW q \in DOMAIN directory.entries
        PROVE  /\ q \in DOMAIN rows' /\ directory.entries[q] \in Rows
               /\ SameRow(rows'[q], directory.entries[q])
    <3>1. /\ q \in DOMAIN rows /\ directory.entries[q] \in Rows
          /\ SameRow(rows[q], directory.entries[q])
      BY <2>1 DEF DirectoryInv, CopyCurrent
    <3>2. q \in DOMAIN rows' /\ SameRow(rows'[q], rows[q])
      BY <1>4, <3>1
    <3> QED BY <3>1, <3>2 DEF SameRow
  <2> QED BY <1>1, <2>1 DEF DirectoryInv, CopyCurrent
<1> QED BY <1>1, <1>2, <1>5, <1>6, <1>7 DEF DirectoryInv, SomeAdmin

\* A publish carries a session of the open copy, whose user exists.
LEMMA ArriveKeeps ==
  ASSUME DirectoryInv, NEW s \in Strategies, NEW cookie, NEW token \in Access!AtMostOne(Tokens),
         NEW override \in Access!AtMostOne(Templates),
         Access!PublishArrives(s, cookie, token, override)
  PROVE  DirectoryInv'
<1> DEFINE who == UNION {Access!Lookup(directory.sessions, c) : c \in cookie \ lapsed}
           p == [strategy |-> s, who |-> who, token |-> token, override |-> override]
<1>1. /\ cookie # {} => ready
      /\ arrived' = arrived \union {p}
      /\ UNCHANGED <<roles, sessions, lapsed, rows, templates, bound, fallback, fees,
                     directory, live, ready, waiting>>
  BY DEF Access!PublishArrives, Access!database
<1>2. who \subseteq Sessions
  <2>1. SUFFICES ASSUME NEW c \in cookie \ lapsed,
                        NEW w \in Access!Lookup(directory.sessions, c)
                 PROVE  w \in Sessions
    OBVIOUS
  <2>2. ready /\ c \in DOMAIN directory.sessions /\ w = directory.sessions[c]
    BY <1>1, <2>1 DEF Access!Lookup
  <2>3. c \in DOMAIN sessions
        /\ w = [user |-> sessions[c], admin |-> roles[sessions[c]] = "admin"]
    BY <2>1, <2>2 DEF DirectoryInv, CopyCurrent
  <2>4. sessions[c] \in Users
    BY <2>3 DEF DirectoryInv, DirectoryTyped, Access!Existing
  <2> QED BY <2>3, <2>4 DEF Sessions
<1>3. token \in SUBSET Tokens /\ override \in SUBSET Templates
  BY DEF Access!AtMostOne
<1>4. p \in Publishes
  BY <1>2, <1>3 DEF Publishes
<1> HIDE DEF p
<1>5. UNCHANGED <<Access!Existing, Access!Admins>>
  BY <1>1 DEF Access!Existing, Access!Admins
<1>6. DirectoryTyped'
  BY <1>1, <1>4, <1>5 DEF DirectoryInv, DirectoryTyped
<1>7. SomeAdmin'
  BY <1>1, <1>5 DEF DirectoryInv, SomeAdmin
<1>8. OverridesKnown'
  BY <1>1 DEF DirectoryInv, OverridesKnown
<1>9. CopyCurrent'
  BY <1>1 DEF DirectoryInv, CopyCurrent, SameRow
<1> QED BY <1>6, <1>7, <1>8, <1>9 DEF DirectoryInv

\* A publish of a strategy the copy does not know: a row is made where there is none, and
\* nothing is live under its name.
LEMMA CreateKeeps ==
  ASSUME DirectoryInv, NEW p, Access!PublishCreates(p)
  PROVE  DirectoryInv'
<1>1. /\ p \in arrived /\ arrived' \subseteq arrived
      /\ ready /\ p.strategy \notin DOMAIN directory.entries
      /\ p.override \subseteq directory.templates
      /\ rows' = Access!Created(p)
      /\ UNCHANGED <<roles, sessions, lapsed, templates, bound, fallback, fees, ready,
                     waiting>>
      /\ \/ UNCHANGED <<directory, live>>
         \/ /\ directory' = Access!Loaded(rows')
            /\ \/ live' = Access!Recovered(rows')
               \/ /\ p.override \subseteq directory'.templates
                  /\ live' = [Access!Recovered(rows') EXCEPT ![p.strategy] = p.override]
  BY DEF Access!PublishCreates, Access!Published
<1>2. p \in Publishes /\ p.strategy \notin DOMAIN live /\ p.override \subseteq DOMAIN templates
  <2>1. p \in Publishes
    BY <1>1 DEF DirectoryInv, DirectoryTyped
  <2>2. directory.templates = DOMAIN templates /\ DOMAIN live = DOMAIN directory.entries
    BY <1>1 DEF DirectoryInv, CopyCurrent
  <2> QED BY <1>1, <2>1, <2>2
<1> DEFINE new == [by |-> {w.user : w \in p.who}, token |-> {}, open |-> FALSE,
                   managers |-> {}, grants |-> {}, override |-> p.override]
<1>3. new \in Rows
  <2>1. {w.user : w \in p.who} \subseteq Users
    BY <1>2 DEF Publishes, Sessions
  <2> QED BY <1>2, <2>1 DEF Rows, Publishes
<1>4. /\ DOMAIN rows' = DOMAIN rows \union {p.strategy}
      /\ \A s \in DOMAIN rows : rows'[s] = rows[s]
      /\ p.strategy \notin DOMAIN rows => rows'[p.strategy] = new
  BY <1>1 DEF Access!Created
<1> HIDE DEF new
<1>5. \A s \in DOMAIN rows' : /\ rows'[s] \in Rows
                              /\ rows'[s].override \subseteq DOMAIN templates
  <2>1. new.override = p.override
    BY DEF new
  <2> QED BY <1>2, <1>3, <1>4, <2>1 DEF DirectoryInv, DirectoryTyped, OverridesKnown
<1>6. UNCHANGED <<Access!Existing, Access!Admins>>
  BY <1>1 DEF Access!Existing, Access!Admins
<1>7. CASE UNCHANGED <<directory, live>>
  <2>1. DirectoryTyped'
    BY <1>1, <1>5, <1>6, <1>7 DEF DirectoryInv, DirectoryTyped
  <2>2. OverridesKnown'
    BY <1>1, <1>2, <1>4, <1>5, <1>7 DEF DirectoryInv, OverridesKnown
  <2>3. CopyCurrent'
    BY <1>1, <1>4, <1>7 DEF DirectoryInv, CopyCurrent
  <2> QED BY <1>1, <1>6, <2>1, <2>2, <2>3 DEF DirectoryInv, SomeAdmin
<1>8. CASE directory' = Access!Loaded(rows')
  <2>1. /\ DOMAIN live' = DOMAIN rows'
        /\ \A s \in DOMAIN rows' :
             live'[s] \in {p.override, rows'[s].override}
             \/ (s \in DOMAIN rows /\ s \in DOMAIN live /\ live'[s] = live[s])
    <3>1. /\ DOMAIN Access!Recovered(rows') = DOMAIN rows'
          /\ \A s \in DOMAIN rows' : Access!Recovered(rows')[s]
               = IF s \in DOMAIN live THEN live[s] ELSE rows'[s].override
      BY DEF Access!Recovered
    <3>2. DOMAIN live = DOMAIN directory.entries /\ DOMAIN live \subseteq DOMAIN rows
      BY <1>1 DEF DirectoryInv, CopyCurrent
    <3>3. live' = Access!Recovered(rows')
          \/ live' = [Access!Recovered(rows') EXCEPT ![p.strategy] = p.override]
          \/ UNCHANGED live
      BY <1>1
    <3>4. CASE UNCHANGED <<directory, live>>
      <4>1. directory'.entries = rows'
        BY <1>8 DEF Access!Loaded
      <4>2. DOMAIN live' = DOMAIN rows'
        BY <3>2, <3>4, <4>1
      <4> QED BY <3>2, <3>4, <4>2
    <3>5. CASE live' = Access!Recovered(rows')
      BY <3>1, <3>2, <3>5
    <3>6. CASE live' = [Access!Recovered(rows') EXCEPT ![p.strategy] = p.override]
      BY <3>1, <3>2, <3>6
    <3> QED BY <1>1, <3>4, <3>5, <3>6
  <2>2. \A s \in DOMAIN live' : /\ live'[s] \in SUBSET Templates
                                /\ live'[s] \subseteq DOMAIN templates
    <3>1. p.override \in SUBSET Templates
      BY <1>2 DEF Publishes
    <3>2. \A s \in DOMAIN rows' : rows'[s].override \in SUBSET Templates
      BY <1>5 DEF Rows
    <3>3. \A s \in DOMAIN rows : s \in DOMAIN live =>
             live[s] \in SUBSET Templates /\ live[s] \subseteq DOMAIN templates
      BY DEF DirectoryInv, DirectoryTyped, OverridesKnown
    <3> QED BY <1>2, <1>5, <2>1, <3>1, <3>2, <3>3
  <2>3. DirectoryTyped'
    BY <1>1, <1>5, <1>6, <2>2 DEF DirectoryInv, DirectoryTyped
  <2>4. OverridesKnown'
    BY <1>1, <1>5, <2>2 DEF OverridesKnown
  <2>5. CopyCurrent'
    BY <1>1, <1>5, <1>8, <2>1 DEF CopyCurrent, SameRow, Access!Loaded
  <2> QED BY <1>1, <1>6, <2>3, <2>4, <2>5 DEF DirectoryInv, SomeAdmin
<1> QED BY <1>1, <1>7, <1>8

LEMMA PublishKeeps ==
  ASSUME DirectoryInv, NEW p, Access!PublishTo(p)
  PROVE  DirectoryInv'
<1>1. /\ p \in arrived /\ arrived' \subseteq arrived
      /\ ready /\ p.strategy \in DOMAIN directory.entries
      /\ p.override \subseteq directory.templates
      /\ live' = [live EXCEPT ![p.strategy] = p.override]
      /\ UNCHANGED <<roles, sessions, lapsed, rows, templates, bound, fallback, fees,
                     directory, ready, waiting>>
  BY DEF Access!PublishTo, Access!Published, Access!database
<1>2. p.override \subseteq DOMAIN templates /\ p.override \in SUBSET Templates
  BY <1>1 DEF DirectoryInv, DirectoryTyped, CopyCurrent, Publishes
<1>3. UNCHANGED <<Access!Existing, Access!Admins>>
  BY <1>1 DEF Access!Existing, Access!Admins
<1>4. DirectoryTyped'
  BY <1>1, <1>2, <1>3 DEF DirectoryInv, DirectoryTyped
<1>5. OverridesKnown'
  BY <1>1, <1>2 DEF DirectoryInv, OverridesKnown
<1>6. CopyCurrent'
  BY <1>1 DEF DirectoryInv, CopyCurrent, SameRow
<1> QED BY <1>1, <1>3, <1>4, <1>5, <1>6 DEF DirectoryInv, SomeAdmin

\* A request is let in with a user there is.
LEMMA RequestKeeps ==
  ASSUME DirectoryInv, NEW cookie, NEW k, NEW x, Access!Request(cookie, k, x)
  PROVE  DirectoryInv'
<1>1. /\ Access!SessionUser(cookie) # {}
      /\ UNCHANGED <<roles, sessions, lapsed, rows, templates, bound, fallback, fees,
                     directory, live, ready, arrived>>
  BY DEF Access!Request, Access!database
<1>2. Access!Existing # {}
  BY <1>1, SessionExists DEF DirectoryInv
<1>3. UNCHANGED <<Access!Existing, Access!Admins>>
  BY <1>1 DEF Access!Existing, Access!Admins
<1>4. DirectoryTyped'
  BY <1>1, <1>3 DEF DirectoryInv, DirectoryTyped
<1>5. SomeAdmin'
  BY <1>2, <1>3 DEF DirectoryInv, SomeAdmin
<1>6. OverridesKnown' /\ CopyCurrent'
  BY <1>1 DEF DirectoryInv, OverridesKnown, CopyCurrent, SameRow
<1> QED BY <1>4, <1>5, <1>6 DEF DirectoryInv

\* Users are added or change their role while the copy is closed.
LEMMA RolesKeep ==
  ASSUME DirectoryInv, UNCHANGED <<rows, live, templates, arrived>>, ~ready',
         roles' \in [Users -> {"none", "user", "admin"}],
         Access!Existing \subseteq Access!Existing', Access!Admins' # {},
         \A c \in DOMAIN sessions' : sessions'[c] \in Access!Existing',
         waiting' \subseteq waiting
  PROVE  DirectoryInv'
<1>1. DirectoryTyped'
  BY DEF DirectoryInv, DirectoryTyped
<1>2. SomeAdmin' /\ OverridesKnown' /\ CopyCurrent'
  BY DEF DirectoryInv, SomeAdmin, OverridesKnown, CopyCurrent
<1> QED BY <1>1, <1>2 DEF DirectoryInv

LEMMA SessionsKeep ==
  ASSUME DirectoryInv, Access!Sessions
  PROVE  DirectoryInv'
<1>1. ASSUME NEW u \in Users, NEW c, Access!NewSession(u, c),
             Access!Existing \subseteq Access!Existing', u \in Access!Existing'
      PROVE  \A d \in DOMAIN sessions' : sessions'[d] \in Access!Existing'
  BY <1>1 DEF DirectoryInv, DirectoryTyped, Access!NewSession
<1>2. ASSUME NEW u \in Users, NEW c \in Cookies, Access!Login(u, c)
      PROVE  DirectoryInv'
  <2>1. /\ UNCHANGED <<roles, rows, live, templates, arrived, waiting>> /\ ~ready'
        /\ Access!NewSession(u, c) /\ u \in Access!Existing
    BY <1>2 DEF Access!Login, Access!Edited
  <2>2. UNCHANGED <<Access!Existing, Access!Admins>>
    BY <2>1 DEF Access!Existing, Access!Admins
  <2>3. \A d \in DOMAIN sessions' : sessions'[d] \in Access!Existing'
    BY <1>1, <2>1, <2>2
  <2>4. Access!Admins' # {} /\ roles' \in [Users -> {"none", "user", "admin"}]
    BY <2>1, <2>2 DEF DirectoryInv, DirectoryTyped, SomeAdmin
  <2> QED BY <2>1, <2>2, <2>3, <2>4, RolesKeep
<1>3. ASSUME NEW u \in Users, NEW c \in Cookies, NEW own, Access!Register(u, c, own)
      PROVE  DirectoryInv'
  <2>1. /\ UNCHANGED <<rows, live, templates, arrived, waiting>> /\ ~ready'
        /\ roles[u] = "none"
        /\ roles' = [roles EXCEPT ![u] = IF Access!Existing = {} THEN "admin" ELSE "user"]
        /\ UNCHANGED sessions \/ Access!NewSession(u, c)
    BY <1>3 DEF Access!Register, Access!Edited
  <2>2. roles \in [Users -> {"none", "user", "admin"}]
    BY DEF DirectoryInv, DirectoryTyped
  <2>3. /\ roles' \in [Users -> {"none", "user", "admin"}]
        /\ Access!Existing \subseteq Access!Existing' /\ u \in Access!Existing'
    BY <2>1, <2>2 DEF Access!Existing
  <2>4. Access!Admins' # {}
    <3>1. CASE Access!Existing = {}
      <4>1. u \in Access!Admins'
        BY <2>1, <2>2, <3>1 DEF Access!Admins
      <4> QED BY <4>1
    <3>2. CASE Access!Existing # {}
      <4>1. Access!Admins \subseteq Access!Admins'
        BY <2>1, <2>2 DEF Access!Admins
      <4> QED BY <3>2, <4>1 DEF DirectoryInv, SomeAdmin
    <3> QED BY <3>1, <3>2
  <2>5. \A d \in DOMAIN sessions' : sessions'[d] \in Access!Existing'
    <3>1. CASE UNCHANGED sessions
      BY <2>3, <3>1 DEF DirectoryInv, DirectoryTyped
    <3> QED BY <1>1, <2>1, <2>3, <3>1
  <2> QED BY <2>1, <2>3, <2>4, <2>5, RolesKeep
<1>4. ASSUME NEW c \in Cookies, Access!Logout(c)
      PROVE  DirectoryInv'
  <2>1. /\ UNCHANGED <<roles, rows, live, templates, arrived, waiting>> /\ ~ready'
        /\ sessions' = [d \in DOMAIN sessions \ {c} |-> sessions[d]]
    BY <1>4 DEF Access!Logout, Access!Edited
  <2>2. UNCHANGED Access!Existing
    BY <2>1 DEF Access!Existing
  <2>3. DirectoryTyped'
    BY <2>1, <2>2 DEF DirectoryInv, DirectoryTyped
  <2> QED BY <2>1, <2>3, Untouched
<1>5. ASSUME NEW c \in Cookies, Access!Lapse(c)
      PROVE  DirectoryInv'
  <2>1. /\ UNCHANGED <<roles, sessions, rows, live, templates, arrived, waiting, directory,
                       bound, fallback, fees, ready>>
        /\ lapsed \subseteq lapsed'
    BY <1>5 DEF Access!Lapse
  <2> QED BY <2>1, Untouched
<1> QED BY <1>2, <1>3, <1>4, <1>5 DEF Access!Sessions

\* Counting in the instance is counting here.
LEMMA SameCardinality == \A S : Access!Cardinality(S) = Cardinality(S)
BY DEF Access!Cardinality, Cardinality

\* The last administrator is not demoted.
LEMMA UserEditsKeep ==
  ASSUME DirectoryInv, NEW r \in waiting, Access!UserEdits(r)
  PROVE  DirectoryInv'
<1>1. /\ roles \in [Users -> {"none", "user", "admin"}]
      /\ \A c \in DOMAIN sessions : sessions[c] \in Access!Existing
      /\ Access!Admins # {}
  BY DEF DirectoryInv, DirectoryTyped, SomeAdmin
<1>2. ASSUME NEW u \in Users, NEW role \in {"user", "admin"}, Access!CreateUser(r, u, role)
      PROVE  DirectoryInv'
  <2>1. /\ UNCHANGED <<sessions, rows, live, templates, arrived>> /\ ~ready'
        /\ waiting' \subseteq waiting
        /\ roles[u] = "none" /\ roles' = [roles EXCEPT ![u] = role]
    BY <1>2 DEF Access!CreateUser, Access!Edited, Access!Taken
  <2>2. /\ roles' \in [Users -> {"none", "user", "admin"}]
        /\ Access!Existing \subseteq Access!Existing' /\ Access!Admins \subseteq Access!Admins'
    BY <1>1, <2>1 DEF Access!Existing, Access!Admins
  <2> QED BY <1>1, <2>1, <2>2, RolesKeep
<1>3. ASSUME NEW u \in Users, NEW role \in {"user", "admin"}, Access!SetRole(r, u, role)
      PROVE  DirectoryInv'
  <2>1. /\ UNCHANGED <<sessions, rows, live, templates, arrived>> /\ ~ready'
        /\ waiting' \subseteq waiting
        /\ u \in Access!Existing /\ roles' = [roles EXCEPT ![u] = role]
        /\ u \in Access!Admins /\ role = "user" => Cardinality(Access!Admins) > 1
    BY <1>3, SameCardinality
    DEF Access!SetRole, Access!Edited, Access!Taken, Access!Demotable
  <2>2. /\ roles' \in [Users -> {"none", "user", "admin"}]
        /\ Access!Existing \subseteq Access!Existing'
        /\ Access!Admins \ {u} \subseteq Access!Admins'
        /\ role = "admin" => u \in Access!Admins'
    BY <1>1, <2>1 DEF Access!Existing, Access!Admins
  <2>3. CASE u \in Access!Admins /\ role = "user"
    <3>1. Access!Admins # {u}
      <4>1. Cardinality({u}) = 1
        BY FS_Singleton
      <4> QED BY <2>1, <2>3, <4>1
    <3>2. Access!Admins' # {}
      BY <1>1, <2>2, <3>1
    <3> QED BY <1>1, <2>1, <2>2, <3>2, RolesKeep
  <2>4. CASE u \notin Access!Admins \/ role = "admin"
    <3>1. Access!Admins' # {}
      BY <1>1, <2>2, <2>4
    <3> QED BY <1>1, <2>1, <2>2, <3>1, RolesKeep
  <2> QED BY <2>3, <2>4
<1>4. ASSUME NEW u \in Users, NEW given, Access!SetSources(r, u, given)
      PROVE  DirectoryInv'
  <2>1. /\ UNCHANGED <<roles, sessions, lapsed, rows, live, templates, arrived, directory,
                       bound, fallback, fees, ready>>
        /\ waiting' \subseteq waiting
    BY <1>4 DEF Access!SetSources, Access!Taken
  <2> QED BY <2>1, Untouched
<1> QED BY <1>2, <1>3, <1>4 DEF Access!UserEdits

\* An edit of a row leaves its target.
LEMMA RowKeeps ==
  ASSUME DirectoryInv, NEW s \in DOMAIN rows, NEW new \in Rows,
         new.override = rows[s].override, Access!Row(s, new), waiting' \subseteq waiting
  PROVE  DirectoryInv'
<1>1. /\ rows' = [rows EXCEPT ![s] = new] /\ ~ready'
      /\ UNCHANGED <<roles, sessions, templates, live, arrived>>
  BY DEF Access!Row, Access!Edited
<1>2. UNCHANGED <<Access!Existing, Access!Admins>>
  BY <1>1 DEF Access!Existing, Access!Admins
<1>3. DirectoryTyped'
  BY <1>1, <1>2 DEF DirectoryInv, DirectoryTyped
<1>4. OverridesKnown'
  BY <1>1 DEF DirectoryInv, OverridesKnown
<1>5. SomeAdmin' /\ CopyCurrent'
  BY <1>1, <1>2 DEF DirectoryInv, SomeAdmin, CopyCurrent
<1> QED BY <1>3, <1>4, <1>5 DEF DirectoryInv

LEMMA StrategyEditsKeep ==
  ASSUME DirectoryInv, NEW r \in waiting, Access!StrategyEdits(r)
  PROVE  DirectoryInv'
<1>1. PICK s \in Strategies :
        \/ Access!DeleteStrategy(r, s)
        \/ \E token \in Access!AtMostOne(Tokens) : Access!SetPublishToken(r, s, token)
        \/ \E managers \in SUBSET Users : Access!SetManagers(r, s, managers)
        \/ \E given \in SUBSET (Users \X Access!Levels), open \in BOOLEAN :
             Access!SetGrants(r, s, given, open)
  BY DEF Access!StrategyEdits
<1>2. \A q \in DOMAIN rows : rows[q] \in Rows
  BY DEF DirectoryInv, DirectoryTyped
<1>3. CASE Access!DeleteStrategy(r, s)
  <2>1. /\ UNCHANGED <<roles, sessions, templates, live, arrived>> /\ ~ready'
        /\ waiting' \subseteq waiting
        /\ rows' = [q \in DOMAIN rows \ {s} |-> rows[q]]
    BY <1>3 DEF Access!DeleteStrategy, Access!Edited, Access!Taken
  <2>2. UNCHANGED <<Access!Existing, Access!Admins>>
    BY <2>1 DEF Access!Existing, Access!Admins
  <2>3. DirectoryTyped'
    BY <2>1, <2>2 DEF DirectoryInv, DirectoryTyped
  <2>4. OverridesKnown'
    BY <2>1 DEF DirectoryInv, OverridesKnown
  <2>5. SomeAdmin' /\ CopyCurrent'
    BY <2>1, <2>2 DEF DirectoryInv, SomeAdmin, CopyCurrent
  <2> QED BY <2>3, <2>4, <2>5 DEF DirectoryInv
<1>4. ASSUME NEW token \in Access!AtMostOne(Tokens), Access!SetPublishToken(r, s, token)
      PROVE  DirectoryInv'
  <2> DEFINE new == [rows[s] EXCEPT !.token = token]
  <2>1. s \in DOMAIN rows /\ waiting' \subseteq waiting /\ Access!Row(s, new)
    BY <1>4 DEF Access!SetPublishToken, Access!Taken
  <2>2. new \in Rows /\ new.override = rows[s].override
    BY <1>2, <2>1 DEF Rows, Access!AtMostOne
  <2> QED BY <2>1, <2>2, RowKeeps
<1>5. ASSUME NEW managers \in SUBSET Users, Access!SetManagers(r, s, managers)
      PROVE  DirectoryInv'
  <2> DEFINE new == [rows[s] EXCEPT !.managers = managers]
  <2>1. s \in DOMAIN rows /\ waiting' \subseteq waiting /\ Access!Row(s, new)
    BY <1>5 DEF Access!SetManagers, Access!Taken
  <2>2. new \in Rows /\ new.override = rows[s].override
    BY <1>2, <2>1 DEF Rows
  <2> QED BY <2>1, <2>2, RowKeeps
<1>6. ASSUME NEW given \in SUBSET (Users \X Access!Levels), NEW open \in BOOLEAN,
             Access!SetGrants(r, s, given, open)
      PROVE  DirectoryInv'
  <2> DEFINE new == [rows[s] EXCEPT !.grants = given, !.open = open]
  <2>1. s \in DOMAIN rows /\ waiting' \subseteq waiting /\ Access!Row(s, new)
    BY <1>6 DEF Access!SetGrants, Access!Taken
  <2>2. new \in Rows /\ new.override = rows[s].override
    BY <1>2, <2>1 DEF Rows
  <2> QED BY <2>1, <2>2, RowKeeps
<1> QED BY <1>1, <1>3, <1>4, <1>5, <1>6

\* A template is deleted only if no target, live or stored, names it.
LEMMA TemplateEditsKeep ==
  ASSUME DirectoryInv, NEW r \in waiting, Access!TemplateEdits(r)
  PROVE  DirectoryInv'
<1>1. PICK t \in Templates : Access!SaveTemplate(r, t) \/ Access!DeleteTemplate(r, t)
  BY DEF Access!TemplateEdits
<1>2. /\ UNCHANGED <<roles, sessions, rows, live, arrived>> /\ ~ready'
      /\ waiting' \subseteq waiting
      /\ \/ DOMAIN templates \subseteq DOMAIN templates'
         \/ DOMAIN templates \ {t} \subseteq DOMAIN templates' /\ ~Access!Used(t)
  BY <1>1 DEF Access!SaveTemplate, Access!DeleteTemplate, Access!Edited, Access!Taken
<1>3. UNCHANGED <<Access!Existing, Access!Admins>>
  BY <1>2 DEF Access!Existing, Access!Admins
<1>4. DirectoryTyped'
  BY <1>2, <1>3 DEF DirectoryInv, DirectoryTyped
<1>5. OverridesKnown'
  <2>1. CASE DOMAIN templates \subseteq DOMAIN templates'
    BY <1>2, <2>1 DEF DirectoryInv, OverridesKnown
  <2>2. CASE DOMAIN templates \ {t} \subseteq DOMAIN templates' /\ ~Access!Used(t)
    <3>1. \A s \in DOMAIN rows : t \notin rows[s].override
                                 /\ (s \in DOMAIN live => t \notin live[s])
      BY <2>2 DEF Access!Used, Access!Lookup
    <3> QED BY <1>2, <2>2, <3>1 DEF DirectoryInv, OverridesKnown
  <2> QED BY <1>2, <2>1, <2>2
<1>6. SomeAdmin' /\ CopyCurrent'
  BY <1>2, <1>3 DEF DirectoryInv, SomeAdmin, CopyCurrent
<1> QED BY <1>4, <1>5, <1>6 DEF DirectoryInv

LEMMA EditsKeep ==
  ASSUME DirectoryInv, NEW r \in waiting, Access!Edits(r)
  PROVE  DirectoryInv'
<1> DEFINE rest == <<roles, sessions, rows, live, templates, arrived>>
           known == <<lapsed, directory, bound, fallback, fees, ready>>
<1>1. ASSUME Access!Refused(r) \/ Access!FallbackEdits(r) \/ Access!AccountEdits(r)
      PROVE  UNCHANGED rest /\ waiting' \subseteq waiting /\ (~ready' \/ UNCHANGED known)
  <2>1. CASE Access!Refused(r)
    BY <2>1 DEF Access!Refused, Access!Edited, Access!database
  <2>2. CASE Access!FallbackEdits(r)
    BY <2>2 DEF Access!FallbackEdits, Access!AddFallback, Access!DeleteFallback,
                Access!Edited, Access!Taken
  <2>3. CASE Access!AccountEdits(r)
    BY <2>3 DEF Access!AccountEdits, Access!Unbind, Access!SetAccountGrants, Access!Bind,
                Access!SaveFees, Access!Edited, Access!Taken
  <2> QED BY <1>1, <2>1, <2>2, <2>3
<1>2. CASE Access!Refused(r) \/ Access!FallbackEdits(r) \/ Access!AccountEdits(r)
  BY <1>1, <1>2, Untouched
<1> QED BY <1>2, UserEditsKeep, StrategyEditsKeep, TemplateEditsKeep DEF Access!Edits

LEMMA DirectoryStep == DirectoryInv /\ Access!DirectoryNext => DirectoryInv'
<1> SUFFICES ASSUME DirectoryInv, Access!DirectoryNext PROVE DirectoryInv'
  OBVIOUS
<1>1. CASE Access!Restart
  <2>1. UNCHANGED <<roles, sessions, rows, live, templates>> /\ ~ready'
        /\ waiting' = {} /\ arrived' = {}
    BY <1>1 DEF Access!Restart, Access!database
  <2> QED BY <2>1, Untouched
<1>2. CASE Access!Publishes
  <2>1. ASSUME NEW p \in arrived, Access!PublishRefused(p) PROVE DirectoryInv'
    <3>1. UNCHANGED <<roles, sessions, lapsed, rows, live, templates, directory, bound,
                      fallback, fees, ready, waiting>> /\ arrived' \subseteq arrived
      BY <2>1 DEF Access!PublishRefused, Access!database
    <3> QED BY <3>1, Untouched
  <2> QED BY <1>2, <2>1, CreateKeeps, PublishKeeps, ArriveKeeps DEF Access!Publishes
<1>3. CASE \E s \in Strategies : Access!Mirror(s)
  BY <1>3, MirrorKeeps
<1>4. CASE \E c \in Cookies, k \in Access!Kinds, x \in Accounts : Access!Request(c, k, x)
  BY <1>4, RequestKeeps
<1>5. CASE \E r \in waiting : Access!Edits(r)
  BY <1>5, EditsKeep
<1> QED BY <1>1, <1>2, <1>3, <1>4, <1>5, ReloadKeeps, SessionsKeep DEF Access!DirectoryNext

-----------------------------------------------------------------------------
(***************************************************************************)
(* What it says                                                             *)
(***************************************************************************)
LEMMA CopySaysSo == DirectoryInv => Access!DirectoryCurrent
<1> SUFFICES ASSUME DirectoryInv, ready PROVE Access!DirectoryCurrent
  BY DEF Access!DirectoryCurrent
<1> DEFINE now == Access!Loaded(rows)
<1>1. /\ directory = [sessions |-> directory.sessions, entries |-> directory.entries,
                      templates |-> DOMAIN templates, bound |-> bound,
                      fallback |-> fallback, fees |-> fees]
      /\ \A c \in DOMAIN directory.sessions \ lapsed :
           /\ c \in DOMAIN sessions
           /\ directory.sessions[c]
              = [user |-> sessions[c], admin |-> roles[sessions[c]] = "admin"]
      /\ \A s \in DOMAIN directory.entries :
           /\ s \in DOMAIN rows /\ directory.entries[s] \in Rows
           /\ SameRow(rows[s], directory.entries[s])
  BY DEF DirectoryInv, CopyCurrent
<1>2. now = [sessions |-> now.sessions, entries |-> rows, templates |-> DOMAIN templates,
             bound |-> bound, fallback |-> fallback, fees |-> fees]
  BY DEF Access!Loaded
<1>3. [now EXCEPT !.entries = {}, !.sessions = {}]
      = [directory EXCEPT !.entries = {}, !.sessions = {}]
  <2> DEFINE bare == [sessions |-> {}, entries |-> {}, templates |-> DOMAIN templates,
                      bound |-> bound, fallback |-> fallback, fees |-> fees]
  <2> HIDE DEF now
  <2>1. [now EXCEPT !.entries = {}, !.sessions = {}] = bare
    <3>1. PICK a, b : now = [sessions |-> a, entries |-> b, templates |-> DOMAIN templates,
                             bound |-> bound, fallback |-> fallback, fees |-> fees]
      BY <1>2
    <3> DEFINE first == [now EXCEPT !.entries = {}]
    <3>2. first = [sessions |-> a, entries |-> {}, templates |-> DOMAIN templates,
                   bound |-> bound, fallback |-> fallback, fees |-> fees]
      BY <3>1
    <3> HIDE DEF first
    <3>3. [first EXCEPT !.sessions = {}] = bare
      BY <3>2
    <3> QED BY <3>3 DEF first
  <2>2. [directory EXCEPT !.entries = {}, !.sessions = {}] = bare
    <3>1. PICK a, b : directory
                      = [sessions |-> a, entries |-> b, templates |-> DOMAIN templates,
                         bound |-> bound, fallback |-> fallback, fees |-> fees]
      BY <1>1
    <3> DEFINE first == [directory EXCEPT !.entries = {}]
    <3>2. first = [sessions |-> a, entries |-> {}, templates |-> DOMAIN templates,
                   bound |-> bound, fallback |-> fallback, fees |-> fees]
      BY <3>1
    <3> HIDE DEF first
    <3>3. [first EXCEPT !.sessions = {}] = bare
      BY <3>2
    <3> QED BY <3>3 DEF first
  <2> QED BY <2>1, <2>2
<1>4. ASSUME NEW c \in DOMAIN directory.sessions \ lapsed
      PROVE  Access!Lookup(now.sessions, c) = {directory.sessions[c]}
  <2>1. now.sessions = [d \in DOMAIN sessions \ lapsed |->
                          [user |-> sessions[d], admin |-> roles[sessions[d]] = "admin"]]
    BY DEF Access!Loaded
  <2> QED BY <1>1, <1>4, <2>1 DEF Access!Lookup
<1>5. ASSUME NEW s \in DOMAIN directory.entries
      PROVE  /\ s \in DOMAIN rows
             /\ [rows[s] EXCEPT !.override = {}] = [directory.entries[s] EXCEPT !.override = {}]
  <2>1. s \in DOMAIN rows /\ rows[s] \in Rows /\ directory.entries[s] \in Rows
        /\ SameRow(rows[s], directory.entries[s])
    BY <1>1 DEF DirectoryInv, DirectoryTyped
  <2> QED BY <2>1 DEF Rows, SameRow
<1> QED BY <1>3, <1>4, <1>5 DEF Access!DirectoryCurrent

LEMMA NoneDangles == DirectoryInv => Access!NothingDangles
<1> SUFFICES ASSUME DirectoryInv PROVE Access!NothingDangles
  OBVIOUS
<1>1. \A s \in DOMAIN rows :
        rows[s].override \union UNION Access!Lookup(live, s) \subseteq DOMAIN templates
  BY DEF DirectoryInv, OverridesKnown, Access!Lookup
<1> QED BY <1>1 DEF DirectoryInv, SomeAdmin, Access!NothingDangles

-----------------------------------------------------------------------------
(***************************************************************************)
(* The host                                                                 *)
(***************************************************************************)
\* The host starts where the users do.
LEMMA HostStart == Init => (part = "directory" => DirectoryInv)
BY DirectoryStart DEF Init

\* The host takes the steps of the users while they are its part.
LEMMA HostStep ==
  (part = "directory" => DirectoryInv) /\ [Next]_hostVars => (part = "directory" => DirectoryInv)'
<1> SUFFICES ASSUME part = "directory" => DirectoryInv, [Next]_hostVars, part' = "directory"
             PROVE  DirectoryInv'
  OBVIOUS
<1>1. CASE AccessSteps
  BY <1>1, DirectoryStep DEF AccessSteps
<1>2. CASE UNCHANGED hostVars
  <2>1. UNCHANGED <<part, roles, sessions, lapsed, rows, templates, bound, fallback, fees,
                    directory, live, ready, waiting, arrived>>
    BY <1>2 DEF hostVars, directoryVars
  <2> QED BY <2>1, Untouched
<1>3. ASSUME \/ KlineSteps \/ IncomeSteps \/ RatesSteps \/ EarnSteps \/ WatchSteps
             \/ ExchangeSteps \/ OrderSteps \/ RulesSteps \/ TheorySteps \/ OverviewSteps
             \/ ChartsSteps
      PROVE  part # "directory" /\ part' = part
  BY <1>3 DEF KlineSteps, IncomeSteps, RatesSteps, EarnSteps, WatchSteps, ExchangeSteps,
              OrderSteps, RulesSteps, TheorySteps, OverviewSteps, ChartsSteps
<1> QED BY <1>1, <1>2, <1>3 DEF Next

\* While publishes are decided by the copy, it says what the database says, whichever
\* requests wait, edit, fail to load or are cut off by a restart; no template a target
\* names is deleted, and the last administrator stays (web/target_state.rs edit, load,
\* publish; web.rs delete_order_strategy; auth.rs set_role).
THEOREM DirectoryTrue == Spec => []DirectoryHolds
<1>1. Init => (part = "directory" => DirectoryInv)
  BY HostStart
<1>2. (part = "directory" => DirectoryInv) /\ [Next]_hostVars
      => (part = "directory" => DirectoryInv)'
  BY HostStep
<1>3. (part = "directory" => DirectoryInv) => DirectoryHolds
  BY CopySaysSo, NoneDangles DEF DirectoryHolds
<1> QED BY <1>1, <1>2, <1>3, PTL DEF Spec

-----------------------------------------------------------------------------
(***************************************************************************)
(* Requests at the exchange: a request under way has witnessed what the    *)
(* exchange has, and answers with something it witnessed.                  *)
(***************************************************************************)
Stages == {"none", "mode", "look", "post", "tier", "commission", "catalog", "done"}
Requests ==
  [op : {"idle", "set", "get", "fee"}, want : Leverages \union {0}, stage : Stages,
   wrote : BOOLEAN, value : Int, group : Groups \union {NoGroup},
   held : SUBSET (Leverages \union {0}), groups : SUBSET (Groups \union {NoGroup}),
   touched : BOOLEAN, overrode : BOOLEAN, ok : BOOLEAN]

ExchangeTyped ==
  /\ kind \in AccountKinds /\ mode \in Exchange!Modes[kind]
  /\ leverage \in Leverages \union {0} /\ margin \in {"cross", "isolated"}
  /\ group \in Groups \union {NoGroup}
  /\ checked \in {"starting", "verified", "rejected", "failed"}
  /\ call \in [Callers -> Requests]

\* A mode that serves was seen since the start; a contract nobody has set is in the
\* margin mode the Manager would choose.
ExchangeSeen ==
  /\ mode \in modes
  /\ checked = "verified" => modes \intersect Exchange!Required # {}
  /\ leverage = 0 => margin = "cross"

\* A request under way has witnessed what the exchange has now, what it is about to
\* answer was so while it ran, and it stands before a write of Bitget only while the
\* contract is cross or the owner has interfered.
RequestHolds(r) ==
  /\ r.stage \notin {"none", "done"} =>
       r.op # "idle" /\ leverage \in r.held /\ group \in r.groups
  /\ r.stage \in {"tier", "commission"} => r.op = "fee"
  /\ r.stage \in {"look", "post", "catalog"} => r.op # "fee"
  /\ r.stage \notin {"none", "done"} /\ r.op = "set" => r.want # 0
  /\ r.stage = "post" => /\ r.op = "set"
                         /\ kind = "bitget" => margin = "cross" \/ r.touched
  /\ r.stage = "catalog" => r.value \in r.held
  /\ r.group \in r.groups \union {NoGroup}
  /\ r.stage = "done" /\ r.ok =>
       IF r.op = "fee" THEN r.value \in {Charge[g] : g \in r.groups}
                       ELSE r.value \in r.held
  /\ r.overrode => r.touched

ExchangeInv == /\ ExchangeTyped /\ ExchangeSeen
               /\ \A c \in Callers : RequestHolds(call[c])

-----------------------------------------------------------------------------
\* A Manager just started knows the mode the account is in and has no request.
LEMMA ExchangeStart == Exchange!AccountInit => ExchangeInv
<1> SUFFICES ASSUME Exchange!AccountInit PROVE ExchangeInv
  OBVIOUS
<1> USE AccountAssumption
<1>1. Exchange!Idle \in Requests /\ Exchange!Idle.stage = "none" /\ ~Exchange!Idle.overrode
      /\ Exchange!Idle.group = NoGroup
  BY DEF Exchange!Idle, Requests, Stages
<1>2. call = [c \in Callers |-> Exchange!Idle]
  BY DEF Exchange!AccountInit
<1>3. group \in Groups \union {NoGroup}
  BY DEF Exchange!AccountInit
<1>4. ExchangeTyped
  BY <1>1, <1>2, <1>3 DEF Exchange!AccountInit, ExchangeTyped
<1>5. ExchangeSeen
  BY DEF Exchange!AccountInit, ExchangeSeen
<1>6. \A c \in Callers : RequestHolds(call[c])
  BY <1>1, <1>2 DEF RequestHolds
<1> QED BY <1>4, <1>5, <1>6 DEF ExchangeInv

-----------------------------------------------------------------------------
\* A step of one request that changes nothing at the exchange.
LEMMA OneRequest ==
  ASSUME ExchangeInv, UNCHANGED <<kind, mode, modes, leverage, margin, group, checked>>,
         NEW c \in Callers, NEW r \in Requests, RequestHolds(r),
         call' = [call EXCEPT ![c] = r]
  PROVE  ExchangeInv'
<1>1. call' \in [Callers -> Requests]
  BY DEF ExchangeInv, ExchangeTyped
<1>2. ASSUME NEW d \in Callers PROVE RequestHolds(call[d])'
  <2>1. CASE d = c
    <3>1. call'[d] = r
      BY <2>1 DEF ExchangeInv, ExchangeTyped
    <3> QED BY <3>1 DEF RequestHolds
  <2>2. CASE d # c
    <3>1. call'[d] = call[d] /\ RequestHolds(call[d])
      BY <2>2 DEF ExchangeInv, ExchangeTyped
    <3> QED BY <3>1 DEF RequestHolds
  <2> QED BY <2>1, <2>2
<1>3. ExchangeTyped' /\ ExchangeSeen'
  BY <1>1 DEF ExchangeInv, ExchangeTyped, ExchangeSeen
<1> QED BY <1>2, <1>3 DEF ExchangeInv

\* An answer ends a request: without a value it says nothing.
LEMMA AnswerEnds ==
  ASSUME NEW r \in Requests, NEW ok \in BOOLEAN, NEW v \in Int
  PROVE  /\ Exchange!Answered(r, ok, v) \in Requests
         /\ Exchange!Answered(r, ok, v).stage = "done"
         /\ Exchange!Answered(r, ok, v).ok = ok
         /\ Exchange!Answered(r, ok, v).value = v
         /\ Exchange!Answered(r, ok, v).op = r.op
         /\ Exchange!Answered(r, ok, v).held = r.held
         /\ Exchange!Answered(r, ok, v).group = r.group
         /\ Exchange!Answered(r, ok, v).groups = r.groups
         /\ Exchange!Answered(r, ok, v).touched = r.touched
         /\ Exchange!Answered(r, ok, v).overrode = r.overrode
BY DEF Exchange!Answered, Requests, Stages

\* A request ends with an answer.
LEMMA FinishKeeps ==
  ASSUME ExchangeInv, UNCHANGED <<kind, mode, modes, leverage, margin, group, checked>>,
         NEW c \in Callers, NEW ok \in BOOLEAN, NEW v \in Int,
         ok => IF call[c].op = "fee" THEN v \in {Charge[g] : g \in call[c].groups}
                                     ELSE v \in call[c].held,
         Exchange!Finished(c, ok, v)
  PROVE  ExchangeInv'
<1>1. call[c] \in Requests /\ RequestHolds(call[c])
  BY DEF ExchangeInv, ExchangeTyped
<1>2. PICK r : r = Exchange!Answered(call[c], ok, v)
  OBVIOUS
<1>3. r \in Requests /\ RequestHolds(r)
  BY <1>1, <1>2, AnswerEnds DEF RequestHolds
<1>4. call' = [call EXCEPT ![c] = r]
  BY <1>2 DEF Exchange!Finished
<1> QED BY <1>3, <1>4, OneRequest

\* A request ends with an error.
LEMMA FailKeeps ==
  ASSUME ExchangeInv, UNCHANGED <<kind, mode, modes, leverage, margin, group, checked>>,
         NEW c \in Callers, Exchange!Fail(c)
  PROVE  ExchangeInv'
<1>1. Exchange!Finished(c, FALSE, 0) /\ 0 \in Int
  BY DEF Exchange!Fail, Exchange!Finished
<1> QED BY <1>1, FinishKeeps

\* A request goes on to its next call.
LEMMA ProceedKeeps ==
  ASSUME ExchangeInv, UNCHANGED <<kind, mode, modes, leverage, margin, group, checked>>,
         NEW c \in Callers, call[c].stage \notin {"none", "done"},
         NEW stage \in {"look", "post", "commission"},
         stage = "commission" => call[c].op = "fee",
         stage \in {"look", "post"} => call[c].op # "fee",
         stage = "post" => call[c].op = "set"
                           /\ (kind = "bitget" => margin = "cross" \/ call[c].touched),
         Exchange!Proceed(c, stage)
  PROVE  ExchangeInv'
<1>1. call[c] \in Requests /\ RequestHolds(call[c])
  BY DEF ExchangeInv, ExchangeTyped
<1>2. PICK r : r = [call[c] EXCEPT !.stage = stage]
  OBVIOUS
<1>3. r \in Requests /\ RequestHolds(r)
  BY <1>1, <1>2 DEF RequestHolds, Requests, Stages
<1>4. call' = [call EXCEPT ![c] = r]
  BY <1>2 DEF Exchange!Proceed
<1> QED BY <1>3, <1>4, OneRequest

\* The leverage read is what the exchange has, so an answer of it is true.
LEMMA ReadKeeps ==
  ASSUME ExchangeInv, UNCHANGED <<kind, mode, modes, leverage, margin, group, checked>>,
         NEW c \in Callers, call[c].stage \in {"mode", "look"}, call[c].op # "fee",
         ~call[c].wrote /\ kind = "bitget" => margin = "cross",
         Exchange!Read(c, leverage)
  PROVE  ExchangeInv'
<1> USE AccountAssumption
<1>1. call[c] \in Requests /\ RequestHolds(call[c]) /\ leverage \in Int
  BY DEF ExchangeInv, ExchangeTyped
<1>2. CASE call' = [call EXCEPT ![c] = [call[c] EXCEPT !.stage = "catalog", !.value = leverage]]
  <2>1. PICK r : r = [call[c] EXCEPT !.stage = "catalog", !.value = leverage]
    OBVIOUS
  <2>2. r \in Requests /\ RequestHolds(r)
    BY <1>1, <2>1 DEF RequestHolds, Requests, Stages
  <2>3. call' = [call EXCEPT ![c] = r]
    BY <1>2, <2>1
  <2> QED BY <2>2, <2>3, OneRequest
<1>3. CASE Exchange!Fail(c)
  BY <1>3, FailKeeps
<1>4. CASE call[c].op = "set" /\ ~call[c].wrote /\ Exchange!Proceed(c, "post")
  BY <1>4, ProceedKeeps
<1> QED BY <1>2, <1>3, <1>4 DEF Exchange!Read

-----------------------------------------------------------------------------
\* A step that changes the leverage: the others under way have seen it.
LEMMA LeverageMoves ==
  ASSUME ExchangeInv, UNCHANGED <<kind, mode, modes, group, checked>>,
         leverage' \in Leverages \union {0}, margin' \in {"cross", "isolated"},
         margin' = margin \/ margin' = "cross",
         leverage' = 0 => margin' = "cross",
         NEW c \in Callers, NEW r \in Requests, RequestHolds(r)',
         call' = [d \in Callers |-> IF d = c THEN r ELSE Exchange!Witness(call[d])]
  PROVE  ExchangeInv'
<1>1. ASSUME NEW d \in Callers
      PROVE  \E q \in Requests : q = Exchange!Witness(call[d]) /\ RequestHolds(q)'
  <2>1. call[d] \in Requests /\ RequestHolds(call[d])
    BY DEF ExchangeInv, ExchangeTyped
  <2>2. PICK new : new = leverage'
    OBVIOUS
  <2>3. PICK q, old : q = Exchange!Witness(call[d]) /\ old = call[d]
    OBVIOUS
  <2>4. CASE old.stage \in {"none", "done"}
    <3>1. q = old
      BY <2>3, <2>4 DEF Exchange!Witness, Exchange!Under
    <3>2. RequestHolds(q)'
      BY <2>1, <2>3, <2>4, <3>1 DEF RequestHolds
    <3> QED BY <2>1, <2>3, <3>1, <3>2
  <2>5. CASE old.stage \notin {"none", "done"}
    <3>1. q = [old EXCEPT !.held = old.held \union {new}]
      BY <2>2, <2>3, <2>5 DEF Exchange!Witness, Exchange!Under
    <3>2. old \in Requests /\ new \in Leverages \union {0}
      BY <2>1, <2>2, <2>3
    <3>3. q \in Requests
      BY <3>1, <3>2 DEF Requests
    <3>4. /\ q.op = old.op /\ q.stage = old.stage /\ q.want = old.want
          /\ q.value = old.value /\ q.group = old.group
          /\ q.groups = old.groups /\ q.touched = old.touched
          /\ q.overrode = old.overrode /\ q.held = old.held \union {new}
      BY <3>1, <3>2 DEF Requests
    <3>5. RequestHolds(old)
      BY <2>1, <2>3
    <3>6. RequestHolds(q)'
      BY <2>2, <2>5, <3>4, <3>5 DEF RequestHolds
    <3> QED BY <2>3, <3>3, <3>6
  <2> QED BY <2>4, <2>5
<1>2. call' \in [Callers -> Requests]
  BY <1>1
<1>3. ASSUME NEW d \in Callers PROVE RequestHolds(call[d])'
  <2>1. PICK q : (q = IF d = c THEN r ELSE Exchange!Witness(call[d])) /\ RequestHolds(q)'
    BY <1>1
  <2>2. call'[d] = q
    BY <2>1
  <2> QED BY <2>1, <2>2 DEF RequestHolds
<1>4. ExchangeTyped' /\ ExchangeSeen'
  BY <1>2 DEF ExchangeInv, ExchangeTyped, ExchangeSeen
<1> QED BY <1>3, <1>4 DEF ExchangeInv

\* A leverage or margin mode written at the exchange, with the answer of the request.
LEMMA WriteKeeps ==
  ASSUME ExchangeInv, NEW c \in Callers, call[c].stage = "post",
         NEW applied \in BOOLEAN, NEW next \in {"catalog", "mode"},
         next = "catalog" => applied, Exchange!Write(c, applied, next)
  PROVE  ExchangeInv'
<1> USE AccountAssumption
<1>1. call[c] \in Requests /\ RequestHolds(call[c])
  BY DEF ExchangeInv, ExchangeTyped
<1>2. call[c].want \in Leverages \ {0} /\ call[c].op = "set"
  BY <1>1 DEF RequestHolds, Requests
<1>3. PICK new, other : new = leverage' /\ other = (margin' # margin)
  OBVIOUS
<1>4. /\ new = IF applied THEN call[c].want ELSE leverage
      /\ margin' = IF applied /\ kind = "bitget" THEN "cross" ELSE margin
      /\ UNCHANGED <<kind, mode, modes, group, checked>>
  BY <1>3 DEF Exchange!Write, Exchange!boundVars
<1>5. new \in Leverages \union {0} /\ new \in Int /\ call[c].want \in Int
  <2>1. leverage \in Leverages \union {0}
    BY DEF ExchangeInv, ExchangeTyped
  <2>2. new \in Leverages \union {0}
    BY <1>2, <1>4, <2>1
  <2>3. Leverages \union {0} \subseteq Int
    OBVIOUS
  <2> QED BY <1>2, <2>2, <2>3
<1>6. PICK r : r = [call[c] EXCEPT !.wrote = TRUE, !.held = {new}, !.value = call[c].want,
                                   !.overrode = other, !.stage = next]
  OBVIOUS
<1>7. r \in Requests /\ r.touched = call[c].touched /\ r.op = "set" /\ r.stage = next
      /\ r.held = {new} /\ r.value = call[c].want /\ r.overrode = other
      /\ r.want = call[c].want /\ r.group = call[c].group /\ r.groups = call[c].groups
  BY <1>1, <1>2, <1>3, <1>5, <1>6 DEF Requests, Stages
<1>8. other => call[c].touched
  BY <1>1, <1>3, <1>4 DEF RequestHolds
<1>9. RequestHolds(r)'
  BY <1>1, <1>2, <1>3, <1>4, <1>7, <1>8 DEF RequestHolds
<1>10. call' = [d \in Callers |-> IF d = c THEN r ELSE Exchange!Witness(call[d])]
  BY <1>3, <1>6 DEF Exchange!Write
<1>11. /\ leverage' \in Leverages \union {0} /\ margin' \in {"cross", "isolated"}
       /\ margin' = margin \/ margin' = "cross"
       /\ leverage' = 0 => margin' = "cross"
  BY <1>2, <1>3, <1>4, <1>5 DEF ExchangeInv, ExchangeTyped, ExchangeSeen
<1> QED BY <1>4, <1>7, <1>9, <1>10, <1>11, LeverageMoves

\* An answer is lost, the write behind it may have been done.
LEMMA LoseKeeps ==
  ASSUME ExchangeInv, NEW c \in Callers, Exchange!Lose(c)
  PROVE  ExchangeInv'
<1> USE AccountAssumption
<1>1. call[c] \in Requests /\ RequestHolds(call[c])
  BY DEF ExchangeInv, ExchangeTyped
<1>2. /\ leverage' = leverage \/ (call[c].stage = "post" /\ leverage' = call[c].want)
      /\ margin' = IF leverage' # leverage /\ kind = "bitget" THEN "cross" ELSE margin
      /\ UNCHANGED <<kind, mode, modes, group, checked>>
      /\ call' = [d \in Callers |-> IF d = c THEN Exchange!Answered(call[d], FALSE, 0)
                                            ELSE Exchange!Witness(call[d])]
  BY DEF Exchange!Lose
<1>3. PICK r : r = Exchange!Answered(call[c], FALSE, 0)
  OBVIOUS
<1>4. r \in Requests /\ r.stage = "done" /\ ~r.ok /\ r.group = call[c].group
      /\ r.groups = call[c].groups /\ r.touched = call[c].touched
      /\ r.overrode = call[c].overrode
  <2>1. 0 \in Int /\ FALSE \in BOOLEAN
    OBVIOUS
  <2> QED BY <1>1, <1>3, <2>1, AnswerEnds
<1>5. RequestHolds(r)'
  BY <1>1, <1>4 DEF RequestHolds
<1>6. call[c].stage = "post" => call[c].want \in Leverages \ {0}
  BY <1>1 DEF RequestHolds, Requests
<1>7. /\ leverage' \in Leverages \union {0} /\ margin' \in {"cross", "isolated"}
      /\ margin' = margin \/ margin' = "cross"
      /\ leverage' = 0 => margin' = "cross"
  BY <1>2, <1>6 DEF ExchangeInv, ExchangeTyped, ExchangeSeen
<1>8. call' = [d \in Callers |-> IF d = c THEN r ELSE Exchange!Witness(call[d])]
  BY <1>2, <1>3
<1> QED BY <1>2, <1>4, <1>5, <1>7, <1>8, LeverageMoves

\* The owner changes the account by hand: every request under way has seen both values.
LEMMA OwnerKeeps == ExchangeInv /\ Exchange!Owner => ExchangeInv'
<1> SUFFICES ASSUME ExchangeInv, Exchange!Owner PROVE ExchangeInv'
  OBVIOUS
<1>1. /\ mode' \in Exchange!Modes[kind] /\ leverage' \in Leverages \union {0}
      /\ margin' \in {"cross", "isolated"} /\ group' \in Groups \union {NoGroup}
      /\ leverage' = 0 => margin' = "cross"
      /\ UNCHANGED <<kind, checked>> /\ modes' = modes \union {mode'}
  BY DEF Exchange!Owner, ExchangeInv, ExchangeTyped, ExchangeSeen
<1>2. ASSUME NEW c \in Callers PROVE call'[c] \in Requests /\ RequestHolds(call[c])'
  <2>1. call[c] \in Requests /\ RequestHolds(call[c])
    BY DEF ExchangeInv, ExchangeTyped
  <2>2. PICK old, new, to : old = call[c] /\ new = leverage' /\ to = group'
    OBVIOUS
  <2>3. call'[c] = IF Exchange!Under(call[c])
                   THEN [Exchange!Witness(call[c]) EXCEPT
                           !.groups = Exchange!Witness(call[c]).groups \union {group'},
                           !.touched = TRUE]
                   ELSE call[c]
    BY DEF Exchange!Owner
  <2>4. CASE old.stage \in {"none", "done"}
    <3>1. call'[c] = old
      BY <2>2, <2>3, <2>4 DEF Exchange!Under
    <3> QED BY <2>1, <2>2, <2>4, <3>1 DEF RequestHolds
  <2>5. CASE old.stage \notin {"none", "done"}
    <3>1. PICK q : q = [old EXCEPT !.held = old.held \union {new}]
      OBVIOUS
    <3>2. PICK r : r = [q EXCEPT !.groups = q.groups \union {to}, !.touched = TRUE]
      OBVIOUS
    <3>3. q = Exchange!Witness(call[c]) /\ Exchange!Under(call[c])
      BY <2>2, <2>5, <3>1 DEF Exchange!Witness, Exchange!Under
    <3>4. call'[c] = r
      BY <2>2, <2>3, <3>2, <3>3
    <3>5. old \in Requests /\ new \in Leverages \union {0} /\ to \in Groups \union {NoGroup}
      BY <1>1, <2>1, <2>2
    <3>6. q \in Requests /\ q.held = old.held \union {new} /\ q.groups = old.groups
          /\ q.op = old.op /\ q.stage = old.stage /\ q.want = old.want
          /\ q.value = old.value /\ q.group = old.group /\ q.overrode = old.overrode
      BY <3>1, <3>5 DEF Requests
    <3>7. r \in Requests
      BY <3>2, <3>5, <3>6 DEF Requests
    <3>8. r.held = old.held \union {new} /\ r.groups = old.groups \union {to}
          /\ r.op = old.op /\ r.stage = old.stage /\ r.want = old.want /\ r.touched
          /\ r.value = old.value /\ r.group = old.group /\ r.overrode = old.overrode
      BY <3>2, <3>5, <3>6 DEF Requests
    <3>9. RequestHolds(old)
      BY <2>1, <2>2
    <3>10. RequestHolds(r)'
      BY <2>2, <2>5, <3>8, <3>9 DEF RequestHolds
    <3> QED BY <3>4, <3>7, <3>10 DEF RequestHolds
  <2> QED BY <2>4, <2>5
<1>3. call' \in [Callers -> Requests]
  BY <1>2 DEF Exchange!Owner
<1>4. ExchangeTyped' /\ ExchangeSeen'
  BY <1>1, <1>3 DEF ExchangeInv, ExchangeTyped, ExchangeSeen
<1> QED BY <1>2, <1>4 DEF ExchangeInv

\* Portfolio margin and sub-portfolios serve by their kind, the others are looked at.
LEMMA CheckKeeps ==
  ASSUME ExchangeInv, NEW answered \in BOOLEAN, Exchange!CheckMode(answered)
  PROVE  ExchangeInv'
<1>1. /\ UNCHANGED <<kind, mode, modes, leverage, margin, group, call>>
      /\ checked' \in {"starting", "verified", "rejected", "failed"}
      /\ checked' = "verified" => kind \in Exchange!Unasked \/ mode \in Exchange!Required
  BY DEF Exchange!CheckMode, Exchange!exchangeVars
<1>2. mode \in Exchange!Modes[kind] /\ mode \in modes
  BY DEF ExchangeInv, ExchangeTyped, ExchangeSeen
<1>3. kind \in Exchange!Unasked => mode \in Exchange!Required
  BY <1>2 DEF Exchange!Unasked, Exchange!Required, Exchange!Modes
<1>4. ExchangeTyped' /\ ExchangeSeen'
  BY <1>1, <1>2, <1>3 DEF ExchangeInv, ExchangeTyped, ExchangeSeen
<1> QED BY <1>1, <1>4 DEF ExchangeInv, RequestHolds

\* A request that nobody has begun.
LEMMA IdleHolds ==
  /\ Exchange!Idle \in Requests
  /\ Exchange!Idle.stage = "none" /\ ~Exchange!Idle.overrode
  /\ Exchange!Idle.group = NoGroup
BY DEF Exchange!Idle, Requests, Stages

\* A restart forgets the requests; what the exchange has stays.
LEMMA RestartKeeps == ExchangeInv /\ Exchange!Restart => ExchangeInv'
<1> SUFFICES ASSUME ExchangeInv, Exchange!Restart PROVE ExchangeInv'
  OBVIOUS
<1>1. /\ UNCHANGED <<kind, mode, leverage, margin, group>> /\ modes' = {mode}
      /\ checked' = "starting" /\ call' = [c \in Callers |-> Exchange!Idle]
  BY DEF Exchange!Restart
<1>2. ExchangeTyped' /\ ExchangeSeen'
  BY <1>1, IdleHolds DEF ExchangeInv, ExchangeTyped, ExchangeSeen
<1>3. \A c \in Callers : RequestHolds(call[c])'
  BY <1>1, IdleHolds DEF RequestHolds
<1> QED BY <1>2, <1>3 DEF ExchangeInv

\* A request starts with what the exchange has.
LEMMA AskKeeps ==
  ASSUME ExchangeInv, NEW c \in Callers, NEW op \in {"set", "get", "fee"},
         NEW want \in Leverages \union {0}, op = "set" => want # 0,
         Exchange!Ask(c, op, want)
  PROVE  ExchangeInv'
<1>1. leverage \in Leverages \union {0} /\ group \in Groups \union {NoGroup}
  BY DEF ExchangeInv, ExchangeTyped
<1>2. PICK had, was, stage :
        /\ had = leverage /\ was = group
        /\ stage = IF Exchange!Native THEN Exchange!FirstStage(op) ELSE "done"
  OBVIOUS
<1>3. /\ stage \in {"mode", "post", "look", "tier", "done"}
      /\ stage = "post" => op = "set" /\ kind # "bitget"
      /\ stage = "look" => op = "get"
      /\ stage = "tier" => op = "fee"
  BY <1>2 DEF Exchange!FirstStage, Exchange!Unified
<1>4. PICK r : r = [Exchange!Idle EXCEPT !.op = op, !.want = want, !.held = {had},
                                         !.groups = {was}, !.stage = stage]
  OBVIOUS
<1>5. r = [op |-> op, want |-> want, stage |-> stage, wrote |-> FALSE, value |-> 0,
           group |-> NoGroup, held |-> {had}, groups |-> {was}, touched |-> FALSE,
           overrode |-> FALSE, ok |-> FALSE]
  BY <1>4 DEF Exchange!Idle
<1>6. r \in Requests
  BY <1>1, <1>2, <1>3, <1>5 DEF Requests, Stages
<1>7. RequestHolds(r)
  BY <1>2, <1>3, <1>5 DEF RequestHolds
<1>8. UNCHANGED <<kind, mode, modes, leverage, margin, group, checked>>
      /\ call' = [call EXCEPT ![c] = r]
  BY <1>2, <1>4 DEF Exchange!Ask, Exchange!exchangeVars
<1> QED BY <1>6, <1>7, <1>8, OneRequest

\* A unified account is asked for its mode.
LEMMA AskModeKeeps ==
  ASSUME ExchangeInv, NEW c \in Callers, Exchange!AskMode(c)
  PROVE  ExchangeInv'
<1>1. /\ UNCHANGED <<kind, mode, modes, leverage, margin, group, checked>>
      /\ call[c].stage = "mode"
  BY DEF Exchange!AskMode, Exchange!Looked, Exchange!exchangeVars
<1>2. CASE Exchange!Fail(c)
  BY <1>1, <1>2, FailKeeps
<1>3. CASE call[c].op = "fee" /\ Exchange!Proceed(c, "commission")
  BY <1>1, <1>3, ProceedKeeps
<1>4. CASE call[c].op # "fee" /\ Exchange!Proceed(c, "look")
  BY <1>1, <1>4, ProceedKeeps
<1>5. CASE call[c].op # "fee" /\ Exchange!SettingsServe(c) /\ Exchange!Read(c, leverage)
  <2>1. margin = "cross"
    BY <1>5 DEF Exchange!SettingsServe, ExchangeInv, ExchangeSeen
  <2> QED BY <1>1, <1>5, <2>1, ReadKeeps
<1> QED BY <1>2, <1>3, <1>4, <1>5 DEF Exchange!AskMode

\* A leverage is read.
LEMMA LookKeeps ==
  ASSUME ExchangeInv, NEW c \in Callers,
         Exchange!BinanceLeverage(c) \/ Exchange!OkxLeverage(c) \/ Exchange!BybitLeverage(c)
  PROVE  ExchangeInv'
<1>1. /\ UNCHANGED <<kind, mode, modes, leverage, margin, group, checked>>
      /\ call[c].stage = "look" /\ kind # "bitget"
      /\ Exchange!Read(c, leverage) \/ Exchange!Fail(c)
  BY DEF Exchange!BinanceLeverage, Exchange!OkxLeverage, Exchange!BybitLeverage,
         Exchange!Looked, Exchange!exchangeVars, Exchange!Binance
<1>2. call[c].op # "fee"
  BY <1>1 DEF ExchangeInv, RequestHolds
<1> QED BY <1>1, <1>2, ReadKeeps, FailKeeps

\* The write a request sends: of a Binance, an OKX or a unified account.
LEMMA WritesKeep ==
  ASSUME ExchangeInv, NEW c \in Callers,
         Exchange!BinanceWrites(c) \/ Exchange!OkxWrites(c) \/ Exchange!UnifiedWrites(c)
  PROVE  ExchangeInv'
<1>1. call[c].stage = "post"
  BY DEF Exchange!BinanceWrites, Exchange!OkxWrites, Exchange!UnifiedWrites
<1>2. CASE Exchange!Write(c, TRUE, "catalog")
  <2>1. TRUE \in BOOLEAN /\ "catalog" \in {"catalog", "mode"}
    OBVIOUS
  <2> QED BY <1>1, <1>2, <2>1, WriteKeeps
<1>3. ASSUME NEW applied \in BOOLEAN, Exchange!Write(c, applied, "mode")
      PROVE  ExchangeInv'
  BY <1>1, <1>3, WriteKeeps
<1> QED BY <1>2, <1>3 DEF Exchange!BinanceWrites, Exchange!OkxWrites, Exchange!UnifiedWrites

\* What OKX bills by: the group of the instrument it told, or the only one it lists.
LEMMA GroupWasOne ==
  ASSUME ExchangeInv, NEW c \in Callers, call[c].stage = "commission",
         NEW listed \in Exchange!Listed,
         NEW g \in Exchange!SelectGroup(listed, call[c].group)
  PROVE  g \in call[c].groups
<1> USE AccountAssumption
<1>1. /\ group \in call[c].groups /\ call[c].group \in call[c].groups \union {NoGroup}
      /\ group \in Groups \union {NoGroup}
  BY DEF ExchangeInv, ExchangeTyped, RequestHolds
<1>2. CASE group = NoGroup
  BY <1>1, <1>2 DEF Exchange!Listed, Exchange!SelectGroup
<1>3. CASE group # NoGroup /\ call[c].group # NoGroup
  BY <1>1, <1>3 DEF Exchange!Listed, Exchange!SelectGroup
<1>4. CASE group # NoGroup /\ call[c].group = NoGroup
  <2>1. listed \in {Groups, {group}} /\ group \in listed /\ IsFiniteSet(listed)
    BY <1>1, <1>4, FS_Singleton DEF Exchange!Listed
  <2>2. g \in listed /\ Cardinality(listed) = 1
    BY <1>4, <2>1 DEF Exchange!SelectGroup, Exchange!Cardinality, Cardinality
  <2>3. PICK x : listed = {x}
    BY <2>1, <2>2, FS_Singleton
  <2> QED BY <1>1, <2>1, <2>2, <2>3
<1> QED BY <1>2, <1>3, <1>4

\* The two reads of a fee: the tier or group of the account, then its commission.
LEMMA FeeKeeps ==
  ASSUME ExchangeInv, NEW c \in Callers,
         \/ Exchange!BinanceTier(c) \/ Exchange!OkxGroup(c) \/ Exchange!OkxCommission(c)
         \/ Exchange!BinanceCommission(c) \/ Exchange!UnifiedCommission(c)
  PROVE  ExchangeInv'
<1> USE AccountAssumption
<1>1. /\ UNCHANGED <<kind, mode, modes, leverage, margin, group, checked>>
      /\ call[c].stage \in {"tier", "commission"}
  BY DEF Exchange!BinanceTier, Exchange!OkxGroup, Exchange!OkxCommission,
         Exchange!BinanceCommission, Exchange!UnifiedCommission, Exchange!Looked,
         Exchange!exchangeVars
<1>2. /\ call[c] \in Requests /\ RequestHolds(call[c]) /\ call[c].op = "fee"
      /\ group \in call[c].groups /\ group \in Groups \union {NoGroup}
  BY <1>1 DEF ExchangeInv, ExchangeTyped, RequestHolds
<1>3. CASE Exchange!BinanceTier(c)
  <2>1. Exchange!Proceed(c, "commission")
    BY <1>3 DEF Exchange!BinanceTier
  <2> QED BY <1>1, <1>2, <2>1, ProceedKeeps
<1>4. CASE Exchange!OkxGroup(c)
  <2>1. PICK g \in {NoGroup, group} :
          call' = [call EXCEPT ![c] = [call[c] EXCEPT !.stage = "commission", !.group = g]]
    BY <1>4 DEF Exchange!OkxGroup
  <2>2. PICK r : r = [call[c] EXCEPT !.stage = "commission", !.group = g]
    OBVIOUS
  <2>3. r \in Requests /\ RequestHolds(r)
    BY <1>1, <1>2, <2>2 DEF RequestHolds, Requests, Stages
  <2> QED BY <1>1, <2>1, <2>2, <2>3, OneRequest
<1>5. ASSUME NEW g \in call[c].groups, NEW v, v = Charge[g], Exchange!Finished(c, TRUE, v)
      PROVE  ExchangeInv'
  <2>1. g \in Groups \union {NoGroup}
    BY <1>2 DEF Requests
  <2>2. v \in Int /\ v \in {Charge[x] : x \in call[c].groups} /\ TRUE \in BOOLEAN
    BY <1>5, <2>1
  <2> QED BY <1>1, <1>2, <1>5, <2>2, FinishKeeps
<1>6. CASE Exchange!OkxCommission(c)
  <2>1. PICK listed \in Exchange!Listed :
          \E chosen \in {Exchange!SelectGroup(listed, call[c].group)} :
            IF chosen = {} THEN Exchange!Fail(c)
            ELSE \E g \in chosen : Exchange!Finished(c, TRUE, -Exchange!OkxRate(g))
    BY <1>6 DEF Exchange!OkxCommission
  <2>2. call[c].stage = "commission"
    BY <1>6 DEF Exchange!OkxCommission
  <2>3. CASE Exchange!Fail(c)
    BY <1>1, <2>3, FailKeeps
  <2>4. ASSUME NEW g \in Exchange!SelectGroup(listed, call[c].group),
               Exchange!Finished(c, TRUE, -Exchange!OkxRate(g))
        PROVE  ExchangeInv'
    <3>1. g \in call[c].groups
      BY <2>2, GroupWasOne
    <3>2. PICK v : v = -Exchange!OkxRate(g)
      OBVIOUS
    <3>3. Charge[g] \in Int
      BY <1>2, <3>1 DEF Requests
    <3>4. v = Charge[g]
      BY <3>2, <3>3 DEF Exchange!OkxRate
    <3> QED BY <1>5, <2>4, <3>1, <3>2, <3>4
  <2> QED BY <2>1, <2>3, <2>4
<1>7. CASE Exchange!BinanceCommission(c) \/ Exchange!UnifiedCommission(c)
  <2>1. PICK v, g : v = Charge[g] /\ g = group
    OBVIOUS
  <2>2. Exchange!Finished(c, TRUE, v)
    BY <1>7, <2>1 DEF Exchange!BinanceCommission, Exchange!UnifiedCommission
  <2> QED BY <1>2, <1>5, <2>1, <2>2
<1> QED BY <1>3, <1>4, <1>6, <1>7

\* The catalog is read or written last, behind the exchange.
LEMMA CatalogKeeps ==
  ASSUME ExchangeInv, NEW c \in Callers, NEW reachable \in BOOLEAN,
         Exchange!Catalog(c, reachable)
  PROVE  ExchangeInv'
<1>1. /\ UNCHANGED <<kind, mode, modes, leverage, margin, group, checked>>
      /\ call[c].stage = "catalog" /\ Exchange!Finished(c, TRUE, call[c].value)
  BY DEF Exchange!Catalog, Exchange!exchangeVars
<1>2. PICK v : v = call[c].value
  OBVIOUS
<1>3. v \in Int /\ v \in call[c].held /\ call[c].op # "fee" /\ TRUE \in BOOLEAN
  BY <1>1, <1>2 DEF ExchangeInv, ExchangeTyped, Requests, RequestHolds
<1>4. Exchange!Finished(c, TRUE, v)
  BY <1>1, <1>2
<1> QED BY <1>1, <1>3, <1>4, FinishKeeps

\* Every step of the account keeps the invariant.
LEMMA ExchangeStep == ExchangeInv /\ Exchange!AccountNext => ExchangeInv'
<1> SUFFICES ASSUME ExchangeInv, Exchange!AccountNext PROVE ExchangeInv'
  OBVIOUS
<1>1. ASSUME NEW b \in BOOLEAN, Exchange!CheckMode(b) PROVE ExchangeInv'
  BY <1>1, CheckKeeps
<1>2. ASSUME NEW c \in Callers, NEW want \in Leverages \ {0}, Exchange!Ask(c, "set", want)
      PROVE  ExchangeInv'
  <2>1. "set" \in {"set", "get", "fee"} /\ want \in Leverages \union {0}
    OBVIOUS
  <2> QED BY <1>2, <2>1, AskKeeps
<1>3. ASSUME NEW c \in Callers, NEW op \in {"get", "fee"}, Exchange!Ask(c, op, 0)
      PROVE  ExchangeInv'
  <2>1. op \in {"set", "get", "fee"} /\ op # "set" /\ 0 \in Leverages \union {0}
    OBVIOUS
  <2> QED BY <1>3, <2>1, AskKeeps
<1>4. ASSUME NEW c \in Callers, NEW b \in BOOLEAN, Exchange!Catalog(c, b) PROVE ExchangeInv'
  BY <1>4, CatalogKeeps
<1> QED BY <1>1, <1>2, <1>3, <1>4, AskModeKeeps, LookKeeps, WritesKeep, FeeKeeps, LoseKeeps,
           RestartKeeps, OwnerKeeps DEF Exchange!AccountNext

\* The invariant says that an answer was so.
LEMMA AnswersTrue == ExchangeInv => Exchange!AnswersWereTrue
BY DEF ExchangeInv, ExchangeSeen, RequestHolds, Exchange!AnswersWereTrue, Exchange!MayPublish

\* The host starts where the account does.
LEMMA ExchangeHostStart == Init => (part = "account" => ExchangeInv)
BY ExchangeStart DEF Init

\* The host takes the steps of the account while it is its part.
LEMMA ExchangeHostStep ==
  (part = "account" => ExchangeInv) /\ [Next]_hostVars => (part = "account" => ExchangeInv)'
<1> SUFFICES ASSUME part = "account" => ExchangeInv, [Next]_hostVars, part' = "account"
             PROVE  ExchangeInv'
  OBVIOUS
<1>1. CASE ExchangeSteps
  BY <1>1, ExchangeStep DEF ExchangeSteps
<1>2. CASE UNCHANGED hostVars
  <2>1. UNCHANGED <<part, kind, mode, modes, leverage, margin, group, checked, call>>
    BY <1>2 DEF hostVars, accountVars
  <2> QED BY <2>1 DEF ExchangeInv, ExchangeTyped, ExchangeSeen, RequestHolds
<1>3. ASSUME \/ KlineSteps \/ IncomeSteps \/ RatesSteps \/ EarnSteps \/ WatchSteps
             \/ AccessSteps \/ OrderSteps \/ RulesSteps \/ TheorySteps \/ OverviewSteps
             \/ ChartsSteps
      PROVE  part # "account" /\ part' = part
  BY <1>3 DEF KlineSteps, IncomeSteps, RatesSteps, EarnSteps, WatchSteps, AccessSteps,
              OrderSteps, RulesSteps, TheorySteps, OverviewSteps, ChartsSteps
<1> QED BY <1>1, <1>2, <1>3 DEF Next

\* What the Manager says of an account was so: a leverage or fee it answers was the
\* exchange's while the request ran, it publishes in a mode seen since it started, and a
\* Bitget leverage is written in cross margin unless the owner changed the contract in
\* between, with writes and answers lost at any point (exchange_leverage.rs
\* set_symbol_contract_leverage, get_exchange_fee_rates; exchange_leverage/unified.rs
\* AccountApi; web/account_mode.rs check).
THEOREM AnswersTold == Spec => []AnswersWereTrue
<1>1. Init => (part = "account" => ExchangeInv)
  BY ExchangeHostStart
<1>2. (part = "account" => ExchangeInv) /\ [Next]_hostVars
      => (part = "account" => ExchangeInv)'
  BY ExchangeHostStep
<1>3. (part = "account" => ExchangeInv) => AnswersWereTrue
  BY AnswersTrue DEF AnswersWereTrue
<1> QED BY <1>1, <1>2, <1>3, PTL DEF Spec

-----------------------------------------------------------------------------
(***************************************************************************)
(* Order parameters: the document Exec reads is the one computed from the  *)
(* binding it stands for, and its version rises with every write.          *)
(***************************************************************************)
Selectable == Order!AllForms \union {Order!NoForm}
Choices == [OrderSymbols -> Selectable]
Absent == -1..2
Overrides == [algorithm : Order!Algorithms \union {"none"}, pov : Absent, base : Absent,
              grid : Absent, chase : Absent]
Documents == [parameters : {Order!Stored(p) : p \in Order!AllForms} \union {Order!NoForm},
              overrides : [OrderSymbols -> Overrides], signals : SUBSET OrderSymbols,
              version : Nat]
Bindings == [default : Selectable, selected : Choices]
SaveRequests == [stage : {"load", "audit", "post", "applied", "failed"},
                 form : Order!AllForms, expected : Nat \ {0}, row : Nat, result : Nat]
AuditRows == [form : Order!AllForms, expected : Nat,
              status : {"pending", "applied", "failed"}, result : Nat]

OrderTyped ==
  /\ default \in Order!AllForms /\ selected \in Choices
  /\ documents \in [Markets -> [Order!Families -> Documents]]
  /\ intended \in [Markets -> [Order!Families -> Bindings]]
  /\ shown \in Nat /\ writes \in Nat /\ notified \subseteq Nat
  /\ save \in SaveRequests \union {Order!NoSave}
  /\ late \in SaveRequests \union {Order!NoSave}
  /\ audit \in Seq(AuditRows) /\ replaced \in Seq(Nat) /\ Len(replaced) = Len(audit)

\* A document that stands for a binding is the one computed from it.
AsIntended(f, i, d) ==
  i # Order!NoBinding =>
    /\ i.default \in Order!AllForms /\ Order!Family(i.default) = f
    /\ \A s \in OrderSymbols :
         i.selected[s] # Order!NoForm => Order!Family(i.selected[s]) = f

DocumentsHold ==
  \A m \in Markets, f \in Order!Families :
    /\ documents[m][f].version <= writes
    /\ AsIntended(f, intended[m][f], documents[m][f])
    /\ intended[m][f] # Order!NoBinding =>
         \E v \in Nat : documents[m][f]
           = Order!Document(intended[m][f].default, intended[m][f].selected, m, v)

\* What was written as version n of the parameters p stands until a later version.
Stands(p, n) ==
  /\ n \in 1..writes
  /\ documents[Main][Order!Family(p)].version >= n
  /\ documents[Main][Order!Family(p)].version = n =>
       documents[Main][Order!Family(p)].parameters = Order!Stored(p)

\* The row of a request is there before the request is sent.
HasRow(r) == /\ r.row \in 1..Len(audit) /\ audit[r.row].form = r.form
             /\ audit[r.row].expected = r.expected

SaveHolds ==
  /\ save.stage \in {"post", "applied", "failed"} => HasRow(save)
  /\ save.stage = "applied" => replaced[save.row] # 0 /\ Stands(save.form, save.result)
  /\ late # Order!NoSave => HasRow(late)

RowsHold ==
  \A i \in 1..Len(audit) :
    /\ replaced[i] \in {0, audit[i].expected}
    /\ audit[i].status = "applied" => replaced[i] # 0 /\ Stands(audit[i].form, audit[i].result)

OrderInv == OrderTyped /\ DocumentsHold /\ SaveHolds /\ RowsHold /\ Order!NotifiedIsStored

-----------------------------------------------------------------------------
\* The fields of a template an operator can write.
LEMMA FormFields ==
  ASSUME NEW p \in Order!AllForms
  PROVE  /\ p.algorithm \in Order!Algorithms /\ p.algorithm # "none"
         /\ p.pov \in 0..2 /\ p.grid \in 0..2 /\ p.chase \in 0..2 /\ p.base \in 0..2
         /\ p.rate \in 0..1 /\ p.enabled \in BOOLEAN
         /\ Order!Family(p) \in Order!Families
BY DEF Order!AllForms, Order!Algorithms, Order!Values, Order!Family, Order!Families

\* What a document says of a symbol beside its common parameters is of its type.
LEMMA OverridesTyped ==
  ASSUME NEW p \in Order!AllForms, NEW chosen \in Choices, NEW m
  PROVE  Order!OverridesIn(p, chosen, m) \in [OrderSymbols -> Overrides]
<1>1. Order!NoOverrides \in Overrides
  BY DEF Order!NoOverrides, Overrides, Absent
<1>2. ASSUME NEW q \in Order!AllForms
      PROVE  Order!ChaseOverrides(p, q) \in Overrides /\ Order!BatchOverrides(p, q) \in Overrides
  <2>1. Order!Differs(p, q, "pov") \in Absent /\ Order!Differs(p, q, "base") \in Absent
        /\ Order!Differs(p, q, "chase") \in Absent
    BY <1>2, FormFields DEF Order!Differs, Absent
  <2>2. q.grid \in Absent /\ -1 \in Absent
    BY <1>2, FormFields DEF Absent
  <2>3. q.algorithm \in Order!Algorithms
    BY <1>2, FormFields
  <2> QED BY <2>1, <2>2, <2>3 DEF Order!ChaseOverrides, Order!BatchOverrides, Overrides
<1>3. ASSUME NEW s \in OrderSymbols, chosen[s] # Order!NoForm PROVE chosen[s] \in Order!AllForms
  BY <1>3 DEF Choices, Selectable
<1> QED BY <1>1, <1>2, <1>3 DEF Order!OverridesIn

\* A document computed from a binding is a document.
LEMMA DocumentTyped ==
  ASSUME NEW p \in Order!AllForms, NEW chosen \in Choices, NEW m, NEW v \in Nat
  PROVE  Order!Document(p, chosen, m, v) \in Documents
<1>1. Order!SignalsIn(p, chosen, m) \in SUBSET OrderSymbols
  BY DEF Order!SignalsIn
<1> QED BY <1>1, OverridesTyped DEF Order!Document, Documents

\* A stored document with its defaults filled in has the groups its algorithm reads.
LEMMA DecodedStored ==
  ASSUME NEW p \in Order!AllForms
  PROVE  Order!Same(p, Order!Decode(Order!Stored(p)))
<1>1. CASE p.algorithm = "chase"
  <2>1. Order!Stored(p) = [algorithm |-> "chase", pov |-> -1, base |-> -1, grid |-> -1,
                           chase |-> p.chase, rate |-> p.rate]
    BY <1>1 DEF Order!Stored, Order!StoredChase, Order!Family
  <2>2. /\ Order!Decode(Order!Stored(p)).algorithm = "chase"
        /\ Order!Decode(Order!Stored(p)).chase = p.chase
    BY <2>1, FormFields DEF Order!Decode
  <2>3. Order!Reads(p.algorithm) = {"chase"}
    BY <1>1 DEF Order!Reads
  <2> QED BY <1>1, <2>2, <2>3 DEF Order!Same
<1>2. CASE p.algorithm # "chase"
  <2>1. Order!Stored(p) = [algorithm |-> p.algorithm, pov |-> p.pov, base |-> p.base,
                           grid |-> IF p.algorithm = "grid" THEN p.grid ELSE -1,
                           chase |-> -1, rate |-> -1]
    BY <1>2 DEF Order!Stored, Order!StoredBatch, Order!Family
  <2>2. /\ Order!Decode(Order!Stored(p)).algorithm = p.algorithm
        /\ Order!Decode(Order!Stored(p)).pov = p.pov
        /\ Order!Decode(Order!Stored(p)).base = p.base
        /\ p.algorithm = "grid" => Order!Decode(Order!Stored(p)).grid = p.grid
    BY <2>1, FormFields DEF Order!Decode
  <2>3. /\ "chase" \notin Order!Reads(p.algorithm)
        /\ Order!Reads(p.algorithm) \subseteq {"base", "pov", "grid"}
        /\ "grid" \in Order!Reads(p.algorithm) => p.algorithm = "grid"
    BY <1>2 DEF Order!Reads
  <2> QED BY <1>2, <2>2, <2>3 DEF Order!Same
<1> QED BY <1>1, <1>2

\* A symbol runs the template it selects on top of the binding's document.
LEMMA OverriddenRuns ==
  ASSUME NEW p \in Order!AllForms, NEW q \in Order!AllForms,
         Order!Family(q) = Order!Family(p),
         NEW o, o = IF Order!Family(p) = "chase_exec" THEN Order!ChaseOverrides(p, q)
                    ELSE Order!BatchOverrides(p, q)
  PROVE  Order!Same(q, Order!Applied(o, Order!Decode(Order!Stored(p))))
<1>1. CASE p.algorithm = "chase"
  <2>1. Order!Stored(p) = [algorithm |-> "chase", pov |-> -1, base |-> -1, grid |-> -1,
                           chase |-> p.chase, rate |-> p.rate]
    BY <1>1 DEF Order!Stored, Order!StoredChase, Order!Family
  <2>2. /\ Order!Decode(Order!Stored(p)).algorithm = "chase"
        /\ Order!Decode(Order!Stored(p)).chase = p.chase
    BY <2>1, FormFields DEF Order!Decode
  <2>3. q.algorithm = "chase" /\ o = Order!ChaseOverrides(p, q)
    BY <1>1 DEF Order!Family
  <2>4. o.algorithm = "none" /\ o.chase = IF q.chase # p.chase THEN q.chase ELSE -1
    BY <2>3 DEF Order!ChaseOverrides, Order!Differs
  <2>5. /\ Order!Applied(o, Order!Decode(Order!Stored(p))).algorithm = "chase"
        /\ Order!Applied(o, Order!Decode(Order!Stored(p))).chase = q.chase
    BY <2>2, <2>4, FormFields DEF Order!Applied
  <2>6. Order!Reads(q.algorithm) = {"chase"}
    BY <2>3 DEF Order!Reads
  <2> QED BY <2>3, <2>5, <2>6 DEF Order!Same
<1>2. CASE p.algorithm # "chase"
  <2>1. Order!Stored(p) = [algorithm |-> p.algorithm, pov |-> p.pov, base |-> p.base,
                           grid |-> IF p.algorithm = "grid" THEN p.grid ELSE -1,
                           chase |-> -1, rate |-> -1]
    BY <1>2 DEF Order!Stored, Order!StoredBatch, Order!Family
  <2> DEFINE base == Order!Decode(Order!Stored(p))
  <2>2. /\ base.algorithm = p.algorithm /\ base.pov = p.pov /\ base.base = p.base
        /\ p.algorithm = "grid" => base.grid = p.grid
    BY <2>1, FormFields DEF Order!Decode
  <2> HIDE DEF base
  <2>3. q.algorithm # "chase" /\ o = Order!BatchOverrides(p, q)
    BY <1>2 DEF Order!Family
  <2>4. /\ o.algorithm = IF q.algorithm # p.algorithm THEN q.algorithm ELSE "none"
        /\ o.pov = IF q.pov # p.pov THEN q.pov ELSE -1
        /\ o.base = IF q.base # p.base THEN q.base ELSE -1
        /\ o.grid = IF q.algorithm = "grid" /\ (p.algorithm # "grid" \/ q.grid # p.grid)
                    THEN q.grid ELSE -1
    BY <2>3 DEF Order!BatchOverrides, Order!Differs, Order!GridOverride
  <2>5. /\ Order!Applied(o, base).algorithm = q.algorithm
        /\ Order!Applied(o, base).pov = q.pov /\ Order!Applied(o, base).base = q.base
        /\ q.algorithm = "grid" => Order!Applied(o, base).grid = q.grid
    BY <2>2, <2>4, FormFields DEF Order!Applied
  <2>6. /\ Order!Reads(q.algorithm) \subseteq {"base", "pov", "grid"}
        /\ "grid" \in Order!Reads(q.algorithm) => q.algorithm = "grid"
    BY <2>3 DEF Order!Reads
  <2> QED BY <2>5, <2>6 DEF Order!Same, base
<1> QED BY <1>1, <1>2

\* A symbol without overrides runs the common parameters.
LEMMA PlainRuns ==
  ASSUME NEW p \in Order!AllForms
  PROVE  Order!Same(p, Order!Applied(Order!NoOverrides, Order!Decode(Order!Stored(p))))
<1>1. Order!Same(p, Order!Decode(Order!Stored(p)))
  BY DecodedStored
<1>2. PICK d : d = Order!Decode(Order!Stored(p))
  OBVIOUS
<1>3. Order!Applied(Order!NoOverrides, d)
      = [algorithm |-> d.algorithm, pov |-> d.pov, base |-> d.base, grid |-> d.grid,
         chase |-> d.chase]
  BY DEF Order!Applied, Order!NoOverrides
<1>4. Order!Reads(p.algorithm) \subseteq {"base", "pov", "grid", "chase"}
  BY DEF Order!Reads
<1> QED BY <1>1, <1>2, <1>3, <1>4 DEF Order!Same

\* A document computed from a binding runs, for each symbol, the template it selects.
LEMMA DocumentRuns ==
  ASSUME NEW p \in Order!AllForms, NEW chosen \in Choices, NEW m, NEW v \in Nat,
         NEW s \in OrderSymbols, MarketOf[s] = m,
         chosen[s] # Order!NoForm => Order!Family(chosen[s]) = Order!Family(p),
         NEW q, q = IF chosen[s] = Order!NoForm THEN p ELSE chosen[s],
         NEW d, d = Order!Document(p, chosen, m, v)
  PROVE  /\ Order!Same(q, Order!Runs(d, s))
         /\ s \in d.signals <=> q.enabled
<1>1. q \in Order!AllForms
  BY DEF Choices, Selectable
<1>2. /\ d.overrides = Order!OverridesIn(p, chosen, m) /\ d.parameters = Order!Stored(p)
      /\ d.signals = Order!SignalsIn(p, chosen, m)
  BY DEF Order!Document
<1>3. s \in d.signals <=> q.enabled
  BY <1>1, <1>2, FormFields DEF Order!SignalsIn
<1>4. CASE chosen[s] = Order!NoForm
  <2>1. d.overrides[s] = Order!NoOverrides
    BY <1>2, <1>4 DEF Order!OverridesIn
  <2> QED BY <1>2, <1>3, <1>4, <2>1, PlainRuns DEF Order!Runs
<1>5. CASE chosen[s] # Order!NoForm
  <2>1. PICK o : o = IF Order!Family(p) = "chase_exec" THEN Order!ChaseOverrides(p, q)
                     ELSE Order!BatchOverrides(p, q)
    OBVIOUS
  <2>2. d.overrides[s] = o
    BY <1>2, <1>5, <2>1 DEF Order!OverridesIn
  <2>3. Order!Same(q, Order!Applied(o, Order!Decode(Order!Stored(p))))
    BY <1>1, <1>5, <2>1, OverriddenRuns
  <2> QED BY <1>2, <1>3, <2>2, <2>3 DEF Order!Runs
<1> QED BY <1>4, <1>5

-----------------------------------------------------------------------------
\* Markets start with no binding, no document written and no request.
LEMMA OrderStart == Order!OrderInit => OrderInv
<1> SUFFICES ASSUME Order!OrderInit PROVE OrderInv
  OBVIOUS
<1> USE OrderAssumption
<1>1. /\ default \in Order!AllForms /\ selected = [s \in OrderSymbols |-> Order!NoForm]
      /\ documents = [m \in Markets |-> [f \in Order!Families |-> Order!NoDocument]]
      /\ intended = [m \in Markets |-> [f \in Order!Families |-> Order!NoBinding]]
      /\ shown = 0 /\ save = Order!NoSave /\ late = Order!NoSave
      /\ audit = <<>> /\ replaced = <<>> /\ notified = {} /\ writes = 0
  BY DEF Order!OrderInit
<1>2. Order!NoDocument \in Documents /\ Order!NoDocument.version = 0
  BY DEF Order!NoDocument, Order!NoOverrides, Documents, Overrides, Absent
<1>3. Order!NoBinding \in Bindings
  BY DEF Order!NoBinding, Bindings, Choices, Selectable
<1>4. OrderTyped
  BY <1>1, <1>2, <1>3 DEF OrderTyped, Choices, Selectable
<1>5. DocumentsHold
  BY <1>1, <1>2 DEF DocumentsHold, AsIntended
<1>6. SaveHolds /\ RowsHold /\ Order!NotifiedIsStored
  BY <1>1 DEF SaveHolds, RowsHold, Order!NotifiedIsStored, Order!NoSave
<1> QED BY <1>4, <1>5, <1>6 DEF OrderInv

-----------------------------------------------------------------------------
\* A step that writes no document.
LEMMA DocumentsRest ==
  ASSUME DocumentsHold, UNCHANGED <<documents, intended, writes>>
  PROVE  DocumentsHold'
BY DEF DocumentsHold, AsIntended

\* A version stands while the documents do.
LEMMA StandsRest ==
  ASSUME UNCHANGED <<documents, writes>>, NEW p, NEW n, Stands(p, n)
  PROVE  Stands(p, n)'
BY DEF Stands

\* What Exec was told stays stored while the documents do.
LEMMA NoteRest ==
  ASSUME Order!NotifiedIsStored, UNCHANGED <<documents, notified>>
  PROVE  Order!NotifiedIsStored'
BY DEF Order!NotifiedIsStored

\* Every document written has a version of its own, above all before.
NewVersions ==
  /\ writes \in Nat /\ writes' = writes + 1
  /\ \A f \in Order!Families :
       \/ documents'[Main][f] = documents[Main][f]
       \/ documents'[Main][f].version = writes + 1

\* A version that stands is still there, or overtaken, after a write with new versions.
LEMMA StandsLater ==
  ASSUME OrderTyped, DocumentsHold, NewVersions, NEW p \in Order!AllForms, NEW n, Stands(p, n)
  PROVE  Stands(p, n)'
<1> USE OrderAssumption
<1>1. PICK f \in Order!Families : f = Order!Family(p)
  BY FormFields
<1>2. documents[Main][f].version \in Nat /\ documents[Main][f].version <= writes
  BY DEF OrderTyped, Documents, DocumentsHold
<1>3. n \in 1..writes /\ documents[Main][f].version >= n
      /\ (documents[Main][f].version = n => documents[Main][f].parameters = Order!Stored(p))
  BY <1>1 DEF Stands
<1>4. CASE documents'[Main][f] = documents[Main][f]
  BY <1>1, <1>2, <1>3, <1>4 DEF Stands, NewVersions
<1>5. CASE documents'[Main][f].version = writes + 1
  BY <1>1, <1>2, <1>3, <1>5 DEF Stands, NewVersions
<1> QED BY <1>4, <1>5 DEF NewVersions

\* What was told to Exec is still there, or something later.
LEMMA NotedLater ==
  ASSUME OrderTyped, DocumentsHold, NewVersions, Order!NotifiedIsStored, NEW v \in notified
  PROVE  \E f \in Order!Families : documents'[Main][f].version >= v
<1> USE OrderAssumption
<1>1. PICK f \in Order!Families : documents[Main][f].version >= v
  BY DEF Order!NotifiedIsStored
<1>2. documents[Main][f].version \in Nat /\ documents[Main][f].version <= writes /\ v \in Nat
  BY DEF OrderTyped, Documents, DocumentsHold
<1>3. CASE documents'[Main][f] = documents[Main][f]
  BY <1>1, <1>3
<1>4. CASE documents'[Main][f].version = writes + 1
  BY <1>1, <1>2, <1>4 DEF NewVersions
<1> QED BY <1>3, <1>4 DEF NewVersions

\* What Exec was told is still stored, or overtaken.
LEMMA NoteLater ==
  ASSUME OrderTyped, DocumentsHold, NewVersions, Order!NotifiedIsStored, notified' = notified
  PROVE  Order!NotifiedIsStored'
BY NotedLater DEF Order!NotifiedIsStored

\* Rows and requests that were true of an earlier document stay so.
LEMMA RowsLater ==
  ASSUME OrderTyped, DocumentsHold, NewVersions, SaveHolds, RowsHold,
         UNCHANGED <<save, late, audit, replaced>>
  PROVE  SaveHolds' /\ RowsHold'
<1>1. ASSUME NEW i \in 1..Len(audit)
      PROVE  /\ replaced[i] \in {0, audit[i].expected}
             /\ audit[i].status = "applied" => replaced[i] # 0
                  /\ Stands(audit[i].form, audit[i].result)'
  <2>1. PICK p, n : p = audit[i].form /\ n = audit[i].result
    OBVIOUS
  <2>2. audit[i] \in AuditRows
    BY DEF OrderTyped
  <2>3. p \in Order!AllForms
    BY <2>1, <2>2 DEF AuditRows
  <2>4. audit[i].status = "applied" => Stands(p, n)'
    BY <2>1, <2>3, StandsLater DEF RowsHold
  <2>5. audit' = audit
    OBVIOUS
  <2> QED BY <2>1, <2>4, <2>5 DEF RowsHold, Stands
<1>2. RowsHold'
  BY <1>1 DEF RowsHold
<1>3. save.stage = "applied" => Stands(save.form, save.result)'
  <2> SUFFICES ASSUME save.stage = "applied" PROVE Stands(save.form, save.result)'
    OBVIOUS
  <2>1. PICK p, n : p = save.form /\ n = save.result
    OBVIOUS
  <2>2. p \in Order!AllForms
    BY <2>1 DEF OrderTyped, SaveRequests, Order!NoSave
  <2>3. Stands(p, n)'
    BY <2>1, <2>2, StandsLater DEF SaveHolds
  <2> QED BY <2>1, <2>3 DEF Stands
<1>4. SaveHolds'
  BY <1>3 DEF SaveHolds, HasRow
<1> QED BY <1>2, <1>4

\* An operator binds templates; no document changes.
LEMMA BindingChanges ==
  ASSUME OrderInv, default' \in Order!AllForms, selected' \in Choices,
         UNCHANGED <<documents, intended, shown, save, late, audit, replaced, notified, writes>>
  PROVE  OrderInv'
<1>1. OrderTyped'
  BY DEF OrderInv, OrderTyped
<1>2. DocumentsHold' /\ Order!NotifiedIsStored'
  BY DocumentsRest, NoteRest DEF OrderInv
<1>3. SaveHolds' /\ RowsHold'
  BY DEF OrderInv, SaveHolds, RowsHold, HasRow, Stands
<1> QED BY <1>1, <1>2, <1>3 DEF OrderInv

\* A publish writes the documents of its market, computed from the binding.
LEMMA PublishingKeeps ==
  ASSUME OrderInv, NEW confirmed \in BOOLEAN, Order!Publish(confirmed)
  PROVE  OrderInv'
<1> USE OrderAssumption
<1>1. PICK p, chosen, f, v :
        p = default /\ chosen = selected /\ f = Order!Family(default) /\ v = writes + 1
  OBVIOUS
<1>2. /\ p \in Order!AllForms /\ chosen \in Choices /\ f \in Order!Families /\ v \in Nat
      /\ f = Order!Family(p)
  BY <1>1, FormFields DEF OrderInv, OrderTyped
<1>3. /\ documents' = [m \in Markets |->
                         [documents[m] EXCEPT ![f] = Order!Document(p, chosen, m, v)]]
      /\ intended' = [m \in Markets |->
                        [intended[m] EXCEPT ![f] = [default |-> p, selected |-> chosen]]]
      /\ writes' = v /\ notified' \in {notified, notified \union {v}}
      /\ UNCHANGED <<default, selected, shown, save, late, audit, replaced>>
      /\ ~Order!PublishRefused
  BY <1>1 DEF Order!Publish, Order!NextVersion, Order!Announced
<1>4. \A s \in OrderSymbols : chosen[s] # Order!NoForm => Order!Family(chosen[s]) = f
  BY <1>1, <1>3 DEF Order!PublishRefused
<1>5. ASSUME NEW m \in Markets, NEW g \in Order!Families
      PROVE  /\ documents'[m][g] = IF g = f THEN Order!Document(p, chosen, m, v)
                                    ELSE documents[m][g]
             /\ intended'[m][g] = IF g = f THEN [default |-> p, selected |-> chosen]
                                   ELSE intended[m][g]
  BY <1>2, <1>3 DEF OrderInv, OrderTyped
<1>6. OrderTyped'
  <2>1. \A m \in Markets : Order!Document(p, chosen, m, v) \in Documents
    BY <1>2, DocumentTyped
  <2>2. [default |-> p, selected |-> chosen] \in Bindings
    BY <1>2 DEF Bindings, Selectable
  <2>3. documents' \in [Markets -> [Order!Families -> Documents]]
    BY <1>2, <1>3, <2>1 DEF OrderInv, OrderTyped
  <2>4. intended' \in [Markets -> [Order!Families -> Bindings]]
    BY <1>2, <1>3, <2>2 DEF OrderInv, OrderTyped
  <2> QED BY <1>2, <1>3, <2>3, <2>4 DEF OrderInv, OrderTyped
<1>7. DocumentsHold'
  <2> SUFFICES ASSUME NEW m \in Markets, NEW g \in Order!Families
      PROVE  /\ documents'[m][g].version <= writes'
             /\ AsIntended(g, intended[m][g], documents[m][g])'
             /\ intended'[m][g] # Order!NoBinding =>
                  \E w \in Nat : documents'[m][g]
                    = Order!Document(intended'[m][g].default, intended'[m][g].selected, m, w)
    BY DEF DocumentsHold
  <2>1. CASE g = f
    <3>1. documents'[m][g] = Order!Document(p, chosen, m, v)
          /\ intended'[m][g] = [default |-> p, selected |-> chosen]
      BY <1>5, <2>1
    <3>2. Order!Document(p, chosen, m, v).version = v
      BY DEF Order!Document
    <3> QED BY <1>2, <1>3, <1>4, <2>1, <3>1, <3>2 DEF AsIntended
  <2>2. CASE g # f
    <3>1. documents'[m][g] = documents[m][g] /\ intended'[m][g] = intended[m][g]
      BY <1>5, <2>2
    <3>2. documents[m][g].version \in Nat /\ documents[m][g].version <= writes
          /\ writes \in Nat
      BY DEF OrderInv, OrderTyped, Documents, DocumentsHold
    <3> QED BY <1>1, <1>3, <3>1, <3>2 DEF OrderInv, DocumentsHold, AsIntended
  <2> QED BY <2>1, <2>2
<1>8. NewVersions /\ documents'[Main][f].version = v
  <2>1. Order!Document(p, chosen, Main, v).version = v
    BY DEF Order!Document
  <2> QED BY <1>1, <1>2, <1>3, <1>5, <2>1 DEF NewVersions, OrderInv, OrderTyped
<1>9. SaveHolds' /\ RowsHold'
  BY <1>3, <1>8, RowsLater DEF OrderInv
<1>10. Order!NotifiedIsStored'
  <2>1. ASSUME NEW n \in notified PROVE \E g \in Order!Families : documents'[Main][g].version >= n
    BY <1>8, NotedLater DEF OrderInv
  <2> QED BY <1>2, <1>3, <1>8, <2>1 DEF Order!NotifiedIsStored
<1> QED BY <1>6, <1>7, <1>9, <1>10 DEF OrderInv

\* A document edited in place is no longer the one of a binding.
LEMMA EditWrites ==
  ASSUME OrderTyped, DocumentsHold, NEW p \in Order!AllForms,
         NEW f \in Order!Families, f = Order!Family(p), Order!Edited(f, p)
  PROVE  /\ documents' \in [Markets -> [Order!Families -> Documents]]
         /\ intended' \in [Markets -> [Order!Families -> Bindings]]
         /\ DocumentsHold' /\ NewVersions /\ Stands(p, writes)'
<1> USE OrderAssumption
<1>1. PICK v, x : v = writes + 1 /\ x = Order!Stored(p)
  OBVIOUS
<1>2. v \in Nat /\ x \in {Order!Stored(q) : q \in Order!AllForms} \union {Order!NoForm}
  BY <1>1 DEF OrderTyped
<1>3. /\ documents' = [documents EXCEPT ![Main][f].parameters = x, ![Main][f].version = v]
      /\ intended' = [intended EXCEPT ![Main][f] = Order!NoBinding] /\ writes' = v
  BY <1>1 DEF Order!Edited, Order!NextVersion
<1>4. PICK d, e : d = documents[Main][f]
                  /\ e = [parameters |-> x, overrides |-> d.overrides,
                          signals |-> d.signals, version |-> v]
  OBVIOUS
<1>5. d \in Documents /\ e \in Documents
  BY <1>2, <1>4 DEF OrderTyped, Documents
<1>6. documents' = [documents EXCEPT ![Main] = [documents[Main] EXCEPT ![f] = e]]
  <2>1. [d EXCEPT !.parameters = x, !.version = v] = e
    <3> DEFINE first == [d EXCEPT !.parameters = x]
    <3>1. first = [parameters |-> x, overrides |-> d.overrides, signals |-> d.signals,
                   version |-> d.version]
      BY <1>5 DEF Documents
    <3> HIDE DEF first
    <3>2. [first EXCEPT !.version = v] = e
      BY <1>4, <3>1
    <3> QED BY <3>2 DEF first
  <2> QED BY <1>3, <1>4, <2>1 DEF OrderTyped
<1>7. documents' \in [Markets -> [Order!Families -> Documents]]
  BY <1>5, <1>6 DEF OrderTyped
<1>8. Order!NoBinding \in Bindings
  BY DEF Order!NoBinding, Bindings, Choices, Selectable
<1>9. intended' \in [Markets -> [Order!Families -> Bindings]]
  BY <1>3, <1>8 DEF OrderTyped
<1>10. ASSUME NEW m \in Markets, NEW g \in Order!Families
       PROVE  IF m = Main /\ g = f
              THEN documents'[m][g] = e /\ intended'[m][g] = Order!NoBinding
              ELSE documents'[m][g] = documents[m][g] /\ intended'[m][g] = intended[m][g]
  BY <1>3, <1>6 DEF OrderTyped
<1>11. DocumentsHold'
  <2> SUFFICES ASSUME NEW m \in Markets, NEW g \in Order!Families
      PROVE  /\ documents'[m][g].version <= writes'
             /\ AsIntended(g, intended[m][g], documents[m][g])'
             /\ intended'[m][g] # Order!NoBinding =>
                  \E w \in Nat : documents'[m][g]
                    = Order!Document(intended'[m][g].default, intended'[m][g].selected, m, w)
    BY DEF DocumentsHold
  <2>1. CASE m = Main /\ g = f
    <3>1. documents'[m][g] = e /\ intended'[m][g] = Order!NoBinding
      BY <1>10, <2>1
    <3>2. e.version <= writes'
      BY <1>2, <1>3, <1>4
    <3> QED BY <3>1, <3>2 DEF AsIntended
  <2>2. CASE ~(m = Main /\ g = f)
    <3>1. documents'[m][g] = documents[m][g] /\ intended'[m][g] = intended[m][g]
      BY <1>10, <2>2
    <3>2. documents[m][g].version \in Nat /\ documents[m][g].version <= writes
          /\ writes \in Nat
      BY DEF OrderTyped, Documents, DocumentsHold
    <3>3. documents'[m][g].version <= writes'
      BY <1>1, <1>3, <3>1, <3>2
    <3>4. /\ AsIntended(g, intended[m][g], documents[m][g])
          /\ intended[m][g] # Order!NoBinding =>
               \E w \in Nat : documents[m][g]
                 = Order!Document(intended[m][g].default, intended[m][g].selected, m, w)
      BY DEF DocumentsHold
    <3> QED BY <3>1, <3>3, <3>4 DEF AsIntended
  <2> QED BY <2>1, <2>2
<1>12. NewVersions
  BY <1>1, <1>3, <1>4, <1>10 DEF NewVersions, OrderTyped
<1>13. Stands(p, writes)'
  <2>1. documents'[Main][f] = e /\ v \in 1..v
    BY <1>1, <1>10 DEF OrderTyped
  <2> QED BY <1>1, <1>2, <1>3, <1>4, <2>1 DEF Stands
<1> QED BY <1>7, <1>9, <1>11, <1>12, <1>13

\* The exchange of one version for another: what the row of the request says took its
\* place is what its operator saw.
LEMMA LandsKeeps ==
  ASSUME OrderInv, NEW r \in SaveRequests, HasRow(r), Order!Lands(r),
         UNCHANGED <<default, selected, shown, audit, notified>>
  PROVE  /\ documents' \in [Markets -> [Order!Families -> Documents]]
         /\ intended' \in [Markets -> [Order!Families -> Bindings]]
         /\ writes' \in Nat /\ replaced' \in Seq(Nat) /\ Len(replaced') = Len(replaced)
         /\ DocumentsHold' /\ RowsHold' /\ Order!NotifiedIsStored' /\ NewVersions
         /\ replaced'[r.row] # 0 /\ Stands(r.form, writes)'
         /\ \A i \in 1..Len(audit) : replaced[i] # 0 => replaced'[i] # 0
<1> USE OrderAssumption
<1>1. PICK f, v : f = Order!Family(r.form) /\ v = documents[Main][f].version
  OBVIOUS
<1>2. r.form \in Order!AllForms /\ f \in Order!Families /\ r.expected \in Nat \ {0}
  BY <1>1, FormFields DEF SaveRequests
<1>3. /\ Order!Edited(f, r.form) /\ v = r.expected
      /\ replaced' = [replaced EXCEPT ![r.row] = v]
  BY <1>1 DEF Order!Lands, Order!PostAccepted
<1>4. /\ documents' \in [Markets -> [Order!Families -> Documents]]
      /\ intended' \in [Markets -> [Order!Families -> Bindings]]
      /\ DocumentsHold' /\ NewVersions /\ Stands(r.form, writes)'
  BY <1>1, <1>2, <1>3, EditWrites DEF OrderInv
<1>5. /\ replaced \in Seq(Nat) /\ Len(replaced) = Len(audit)
      /\ r.row \in 1..Len(replaced) /\ audit[r.row].expected = r.expected
  BY DEF OrderInv, OrderTyped, HasRow
<1>6. /\ replaced' \in Seq(Nat) /\ Len(replaced') = Len(replaced)
      /\ \A i \in 1..Len(replaced) :
           replaced'[i] = IF i = r.row THEN r.expected ELSE replaced[i]
  BY <1>2, <1>3, <1>5, ExceptSeq
<1>7. ASSUME NEW i \in 1..Len(audit)
      PROVE  /\ replaced'[i] \in {0, audit[i].expected}
             /\ replaced[i] # 0 => replaced'[i] # 0
             /\ audit[i].status = "applied" => Stands(audit[i].form, audit[i].result)'
  <2>1. PICK p, n : p = audit[i].form /\ n = audit[i].result
    OBVIOUS
  <2>2. audit[i] \in AuditRows /\ audit' = audit
    BY DEF OrderInv, OrderTyped
  <2>3. p \in Order!AllForms
    BY <2>1, <2>2 DEF AuditRows
  <2>4. audit[i].status = "applied" => Stands(p, n)'
    BY <1>4, <2>1, <2>3, StandsLater DEF OrderInv, RowsHold
  <2>5. replaced'[i] \in {0, audit[i].expected} /\ (replaced[i] # 0 => replaced'[i] # 0)
    BY <1>2, <1>5, <1>6 DEF OrderInv, RowsHold
  <2> QED BY <2>1, <2>2, <2>4, <2>5 DEF Stands
<1>8. RowsHold'
  BY <1>7 DEF OrderInv, RowsHold
<1>9. Order!NotifiedIsStored'
  BY <1>4, NoteLater DEF OrderInv
<1>10. writes' \in Nat
  BY <1>4 DEF NewVersions
<1> QED BY <1>2, <1>4, <1>5, <1>6, <1>7, <1>8, <1>9, <1>10

\* Another writer at the Exec host: its document stands for no binding.
LEMMA OutsideKeeps ==
  ASSUME OrderInv, NEW f \in Order!Families, NEW p \in Forms, Order!EditedOutside(f, p)
  PROVE  OrderInv'
<1> USE OrderAssumption
<1>1. /\ p \in Order!AllForms /\ f = Order!Family(p) /\ Order!Edited(f, p)
      /\ UNCHANGED <<default, selected, shown, save, late, audit, replaced, notified>>
  BY DEF Order!EditedOutside
<1>2. /\ documents' \in [Markets -> [Order!Families -> Documents]]
      /\ intended' \in [Markets -> [Order!Families -> Bindings]]
      /\ DocumentsHold' /\ NewVersions
  BY <1>1, EditWrites DEF OrderInv
<1>3. OrderTyped'
  BY <1>1, <1>2 DEF OrderInv, OrderTyped, NewVersions
<1>4. SaveHolds' /\ RowsHold' /\ Order!NotifiedIsStored'
  BY <1>1, <1>2, RowsLater, NoteLater DEF OrderInv
<1> QED BY <1>2, <1>3, <1>4 DEF OrderInv

\* The edit of a request reaches Exec and is taken, in the time its operator waits.
LEMMA AcceptedKeeps == OrderInv /\ Order!Accepted => OrderInv'
<1> SUFFICES ASSUME OrderInv, Order!Accepted PROVE OrderInv'
  OBVIOUS
<1>1. PICK r : r = save
  OBVIOUS
<1>2. r.stage = "post" /\ Order!Lands(r)
      /\ UNCHANGED <<default, selected, shown, late, audit, notified>>
  BY <1>1 DEF Order!Accepted
<1>3. r \in SaveRequests /\ HasRow(r)
  BY <1>1, <1>2 DEF OrderInv, OrderTyped, SaveHolds, Order!NoSave
<1>4. /\ documents' \in [Markets -> [Order!Families -> Documents]]
      /\ intended' \in [Markets -> [Order!Families -> Bindings]]
      /\ writes' \in Nat /\ replaced' \in Seq(Nat) /\ Len(replaced') = Len(replaced)
      /\ DocumentsHold' /\ RowsHold' /\ Order!NotifiedIsStored'
      /\ replaced'[r.row] # 0 /\ Stands(r.form, writes)'
  BY <1>2, <1>3, LandsKeeps
<1>5. PICK n, q : n = writes' /\ q = [r EXCEPT !.stage = "applied", !.result = n]
  OBVIOUS
<1>6. save' = q
  BY <1>1, <1>5 DEF Order!Accepted
<1>7. q \in SaveRequests /\ q.stage = "applied" /\ q.row = r.row /\ q.form = r.form
      /\ q.expected = r.expected /\ q.result = n
  BY <1>3, <1>4, <1>5 DEF SaveRequests
<1>8. OrderTyped'
  BY <1>2, <1>4, <1>6, <1>7 DEF OrderInv, OrderTyped
<1>9. Stands(q.form, q.result)'
  BY <1>4, <1>5, <1>7 DEF Stands
<1>10. SaveHolds'
  BY <1>2, <1>3, <1>4, <1>6, <1>7, <1>9 DEF OrderInv, SaveHolds, HasRow, Stands
<1> QED BY <1>4, <1>8, <1>10 DEF OrderInv

\* The edit of a request given up arrives late.
LEMMA ArrivesKeeps == OrderInv /\ Order!Arrives => OrderInv'
<1> SUFFICES ASSUME OrderInv, Order!Arrives PROVE OrderInv'
  OBVIOUS
<1>1. PICK r : r = late
  OBVIOUS
<1>2. r # Order!NoSave /\ Order!Lands(r) /\ late' = Order!NoSave
      /\ UNCHANGED <<default, selected, shown, save, audit, notified>>
  BY <1>1 DEF Order!Arrives
<1>3. r \in SaveRequests /\ HasRow(r)
  BY <1>1, <1>2 DEF OrderInv, OrderTyped, SaveHolds
<1>4. /\ documents' \in [Markets -> [Order!Families -> Documents]]
      /\ intended' \in [Markets -> [Order!Families -> Bindings]]
      /\ writes' \in Nat /\ replaced' \in Seq(Nat) /\ Len(replaced') = Len(replaced)
      /\ DocumentsHold' /\ RowsHold' /\ Order!NotifiedIsStored' /\ NewVersions
      /\ \A i \in 1..Len(audit) : replaced[i] # 0 => replaced'[i] # 0
  BY <1>2, <1>3, LandsKeeps
<1>5. OrderTyped'
  BY <1>2, <1>4 DEF OrderInv, OrderTyped
<1>6. SaveHolds'
  <2>1. PICK q : q = save
    OBVIOUS
  <2>2. CASE q.stage = "applied"
    <3>1. q \in SaveRequests /\ HasRow(q) /\ replaced[q.row] # 0 /\ Stands(q.form, q.result)
      BY <2>1, <2>2 DEF OrderInv, OrderTyped, SaveHolds, Order!NoSave
    <3>2. Stands(q.form, q.result)'
      BY <1>4, <3>1, StandsLater DEF OrderInv, SaveRequests
    <3>3. replaced'[q.row] # 0
      BY <1>4, <3>1 DEF HasRow
    <3> QED BY <1>2, <2>1, <3>1, <3>2, <3>3 DEF SaveHolds, HasRow, Stands
  <2>3. CASE q.stage # "applied"
    BY <1>2, <2>1, <2>3 DEF OrderInv, SaveHolds, HasRow
  <2> QED BY <2>2, <2>3
<1> QED BY <1>4, <1>5, <1>6 DEF OrderInv

\* A step of an edit that writes neither a document nor a row.
LEMMA EditMoves ==
  ASSUME OrderInv,
         UNCHANGED <<default, selected, documents, intended, writes, notified, audit, replaced>>,
         shown' \in Nat, save' \in SaveRequests \union {Order!NoSave},
         late' \in SaveRequests \union {Order!NoSave}, SaveHolds'
  PROVE  OrderInv'
<1>1. OrderTyped'
  BY DEF OrderInv, OrderTyped
<1>2. DocumentsHold' /\ Order!NotifiedIsStored'
  BY DocumentsRest, NoteRest DEF OrderInv
<1>3. RowsHold'
  BY DEF OrderInv, RowsHold, Stands
<1> QED BY <1>1, <1>2, <1>3 DEF OrderInv

\* An operator is shown the document in force.
LEMMA ShowKeeps == OrderInv /\ Order!Show => OrderInv'
<1> SUFFICES ASSUME OrderInv, Order!Show PROVE OrderInv'
  OBVIOUS
<1> USE OrderAssumption
<1>1. PICK f \in Order!Families : f = Order!Family(default)
  BY FormFields DEF OrderInv, OrderTyped
<1>2. documents[Main][f].version \in Nat
  BY DEF OrderInv, OrderTyped, Documents
<1>3. /\ UNCHANGED <<default, selected, documents, intended, writes, notified, audit, replaced,
                     save, late>>
      /\ shown' = documents[Main][f].version
  BY <1>1 DEF Order!Show, Order!Held
<1>4. SaveHolds'
  BY <1>3 DEF OrderInv, SaveHolds, HasRow, Stands
<1> QED BY <1>2, <1>3, <1>4, EditMoves DEF OrderInv, OrderTyped

\* A save of parameters begins from the version its operator was shown.
LEMMA SaveStartsKeeps ==
  ASSUME OrderInv, NEW p \in Forms, Order!SaveStarts(p)
  PROVE  OrderInv'
<1> USE OrderAssumption
<1>1. PICK r : r = [stage |-> "load", form |-> p, expected |-> shown, row |-> 0, result |-> 0]
  OBVIOUS
<1>2. /\ UNCHANGED <<default, selected, documents, intended, writes, notified, audit, replaced,
                     shown, late>>
      /\ save' = r /\ shown # 0
  BY <1>1 DEF Order!SaveStarts, Order!SaveRefused
<1>3. r \in SaveRequests /\ r.stage = "load"
  BY <1>1, <1>2 DEF OrderInv, OrderTyped, SaveRequests
<1>4. SaveHolds'
  BY <1>2, <1>3 DEF OrderInv, SaveHolds, HasRow, Stands
<1> QED BY <1>2, <1>3, <1>4, EditMoves DEF OrderInv, OrderTyped

\* The request stays what it is or is dropped; one given up may still arrive.
LEMMA SaveMovesKeep ==
  OrderInv /\ (Order!SaveLoads \/ Order!Refused \/ Order!GivenUp \/ Order!Abandoned) => OrderInv'
<1> SUFFICES ASSUME OrderInv,
                    Order!SaveLoads \/ Order!Refused \/ Order!GivenUp \/ Order!Abandoned
             PROVE  OrderInv'
  OBVIOUS
<1>1. PICK r : r = save
  OBVIOUS
<1>2. /\ UNCHANGED <<default, selected, documents, intended, writes, notified, audit, replaced,
                     shown>>
      /\ \/ save' = Order!NoSave
         \/ r.stage = "load" /\ save' = [r EXCEPT !.stage = "audit"]
         \/ r.stage = "post" /\ save' = [r EXCEPT !.stage = "failed"]
      /\ late' = late \/ (r.stage = "post" /\ late' = r)
      /\ r.stage # "idle"
  BY <1>1 DEF Order!SaveLoads, Order!Refused, Order!GivenUp, Order!Abandoned, Order!NoEdit
<1>3. r \in SaveRequests /\ (r.stage = "post" => HasRow(r))
  BY <1>1, <1>2 DEF OrderInv, OrderTyped, SaveHolds, Order!NoSave
<1>4. save' \in SaveRequests \union {Order!NoSave}
  BY <1>2, <1>3 DEF SaveRequests
<1>5. late' \in SaveRequests \union {Order!NoSave}
  BY <1>2, <1>3 DEF OrderInv, OrderTyped
<1>6. late' # Order!NoSave => HasRow(late)'
  BY <1>2, <1>3 DEF OrderInv, SaveHolds, HasRow
<1>7. save'.stage \in {"post", "applied", "failed"} => HasRow(save)' /\ save'.stage = "failed"
  BY <1>2, <1>3 DEF HasRow, SaveRequests, Order!NoSave
<1>8. SaveHolds'
  BY <1>6, <1>7 DEF SaveHolds
<1> QED BY <1>2, <1>4, <1>5, <1>8, EditMoves DEF OrderInv, OrderTyped

\* The row of a request is written before it is sent.
LEMMA AuditedKeeps == OrderInv /\ Order!SaveAudited => OrderInv'
<1> SUFFICES ASSUME OrderInv, Order!SaveAudited PROVE OrderInv'
  OBVIOUS
<1>1. PICK r, k, row : /\ r = save /\ k = Len(audit) + 1
                       /\ row = [form |-> r.form, expected |-> r.expected,
                                 status |-> "pending", result |-> 0]
  OBVIOUS
<1>2. /\ UNCHANGED <<default, selected, documents, intended, writes, notified, shown, late>>
      /\ audit' = Append(audit, row) /\ replaced' = Append(replaced, 0)
      /\ save' = [r EXCEPT !.stage = "post", !.row = k] /\ r.stage = "audit"
  BY <1>1 DEF Order!SaveAudited
<1>3. /\ r \in SaveRequests /\ audit \in Seq(AuditRows) /\ replaced \in Seq(Nat)
      /\ Len(replaced) = Len(audit) /\ k \in Nat
  BY <1>1, <1>2 DEF OrderInv, OrderTyped, Order!NoSave
<1>4. row \in AuditRows /\ row.form = r.form /\ row.expected = r.expected
      /\ row.status = "pending"
  BY <1>1, <1>3 DEF AuditRows, SaveRequests
<1>5. /\ audit' \in Seq(AuditRows) /\ Len(audit') = k /\ audit'[k] = row
      /\ \A i \in 1..Len(audit) : audit'[i] = audit[i]
  BY <1>1, <1>2, <1>3, <1>4, AppendProperties
<1>6. /\ replaced' \in Seq(Nat) /\ Len(replaced') = k /\ replaced'[k] = 0
      /\ \A i \in 1..Len(audit) : replaced'[i] = replaced[i]
  BY <1>1, <1>2, <1>3, AppendProperties
<1>7. PICK q : q = [r EXCEPT !.stage = "post", !.row = k]
  OBVIOUS
<1>8. q \in SaveRequests /\ q.stage = "post" /\ q.row = k /\ q.form = r.form
      /\ q.expected = r.expected /\ save' = q
  BY <1>2, <1>3, <1>7 DEF SaveRequests
<1>9. OrderTyped'
  BY <1>2, <1>5, <1>6, <1>8 DEF OrderInv, OrderTyped
<1>10. 1..Len(audit') = 1..Len(audit) \union {k}
  BY <1>1, <1>3, <1>5
<1>11. HasRow(save)'
  BY <1>4, <1>5, <1>8, <1>10 DEF HasRow
<1>12. late' # Order!NoSave => HasRow(late)'
  BY <1>2, <1>5, <1>10 DEF OrderInv, SaveHolds, HasRow
<1>13. SaveHolds'
  BY <1>8, <1>11, <1>12 DEF SaveHolds
<1>14. RowsHold'
  <2> SUFFICES ASSUME NEW i \in 1..Len(audit')
               PROVE  /\ replaced'[i] \in {0, audit'[i].expected}
                      /\ audit'[i].status = "applied" =>
                           replaced'[i] # 0 /\ Stands(audit[i].form, audit[i].result)'
    BY DEF RowsHold
  <2>1. CASE i = k
    BY <1>4, <1>5, <1>6, <2>1
  <2>2. CASE i \in 1..Len(audit)
    BY <1>2, <1>5, <1>6, <2>2 DEF OrderInv, RowsHold, Stands
  <2> QED BY <1>10, <2>1, <2>2
<1>15. DocumentsHold' /\ Order!NotifiedIsStored'
  BY <1>2, DocumentsRest, NoteRest DEF OrderInv
<1> QED BY <1>9, <1>13, <1>14, <1>15 DEF OrderInv

\* The row of a request is completed from the answer, or its loss.
LEMMA CompletedKeeps ==
  ASSUME OrderInv, NEW saved \in BOOLEAN, Order!Completed(saved)
  PROVE  OrderInv'
<1>1. PICK r, k, row : /\ r = save /\ k = save.row
                       /\ row = [form |-> r.form, expected |-> r.expected,
                                 status |-> r.stage, result |-> r.result]
  OBVIOUS
<1>2. /\ UNCHANGED <<default, selected, documents, intended, writes, replaced, shown, late>>
      /\ save' = Order!NoSave /\ r.stage \in {"applied", "failed"}
      /\ notified' = IF r.stage = "applied" THEN notified \union {r.result} ELSE notified
      /\ audit' = audit
         \/ audit' = [audit EXCEPT ![k].status = r.stage, ![k].result = r.result]
  BY <1>1 DEF Order!Completed, Order!Announced, Order!Outcome
<1>3. /\ r \in SaveRequests /\ audit \in Seq(AuditRows) /\ HasRow(r) /\ k \in 1..Len(audit)
      /\ r.stage = "applied" => replaced[k] # 0 /\ Stands(r.form, r.result)
  BY <1>1, <1>2 DEF OrderInv, OrderTyped, SaveHolds, HasRow, Order!NoSave
<1>4. PICK was : was = audit[k]
  OBVIOUS
<1>5. was \in AuditRows /\ was.form = r.form /\ was.expected = r.expected /\ row \in AuditRows
  <2>1. was \in AuditRows
    BY <1>3, <1>4
  <2>2. was.form = r.form /\ was.expected = r.expected
    BY <1>1, <1>3, <1>4 DEF HasRow
  <2>3. row \in AuditRows
    BY <1>1, <1>2, <1>3 DEF AuditRows, SaveRequests
  <2> QED BY <2>1, <2>2, <2>3
<1>6. audit' = audit \/ audit' = [audit EXCEPT ![k] = row]
  <2>1. [was EXCEPT !.status = r.stage, !.result = r.result] = row
    <3> DEFINE first == [was EXCEPT !.status = r.stage]
    <3>1. first = [form |-> r.form, expected |-> r.expected, status |-> r.stage,
                   result |-> was.result]
      BY <1>5 DEF AuditRows
    <3> HIDE DEF first
    <3>2. [first EXCEPT !.result = r.result] = row
      BY <1>1, <3>1
    <3> QED BY <3>2 DEF first
  <2> QED BY <1>2, <1>3, <1>4, <2>1
<1>7. /\ audit' \in Seq(AuditRows) /\ Len(audit') = Len(audit)
      /\ \A i \in 1..Len(audit) : audit'[i] = audit[i] \/ (i = k /\ audit'[i] = row)
  BY <1>3, <1>5, <1>6, ExceptSeq
<1>8. notified' \subseteq Nat
  BY <1>2, <1>3 DEF OrderInv, OrderTyped, SaveRequests
<1>9. OrderTyped'
  BY <1>2, <1>7, <1>8 DEF OrderInv, OrderTyped
<1>10. \A i \in 1..Len(audit) :
         audit'[i].form = audit[i].form /\ audit'[i].expected = audit[i].expected
  BY <1>1, <1>4, <1>5, <1>7
<1>11. SaveHolds'
  BY <1>2, <1>7, <1>10 DEF OrderInv, SaveHolds, HasRow, Order!NoSave
<1>12. RowsHold'
  <2> SUFFICES ASSUME NEW i \in 1..Len(audit)
               PROVE  /\ replaced'[i] \in {0, audit'[i].expected}
                      /\ audit'[i].status = "applied" =>
                           replaced'[i] # 0 /\ Stands(audit[i].form, audit[i].result)'
    BY <1>7 DEF RowsHold
  <2>1. CASE audit'[i] = audit[i]
    BY <1>2, <2>1 DEF OrderInv, RowsHold, Stands
  <2>2. CASE i = k /\ audit'[i] = row
    BY <1>1, <1>2, <1>3, <1>10, <2>2 DEF OrderInv, RowsHold, Stands
  <2> QED BY <1>7, <2>1, <2>2
<1>13. DocumentsHold'
  BY <1>2, DocumentsRest DEF OrderInv
<1>14. Order!NotifiedIsStored'
  <2>1. r.stage = "applied" =>
          \E f \in Order!Families : documents[Main][f].version >= r.result
    BY <1>3, FormFields DEF Stands, SaveRequests
  <2> QED BY <1>2, <2>1 DEF OrderInv, Order!NotifiedIsStored
<1> QED BY <1>9, <1>11, <1>12, <1>13, <1>14 DEF OrderInv

\* Every step of the order parameters keeps the invariant.
LEMMA OrderStep == OrderInv /\ Order!OrderNext => OrderInv'
<1> SUFFICES ASSUME OrderInv, Order!OrderNext PROVE OrderInv'
  OBVIOUS
<1> USE OrderAssumption
<1>1. ASSUME NEW p \in Forms, Order!TemplateSaved(p) PROVE OrderInv'
  BY <1>1, BindingChanges DEF Order!TemplateSaved, OrderInv, OrderTyped
<1>2. ASSUME NEW s \in OrderSymbols, NEW q \in Forms \union {Order!NoForm},
             Order!SymbolSelects(s, q)
      PROVE  OrderInv'
  <2>1. selected' \in Choices
    BY <1>2 DEF Order!SymbolSelects, OrderInv, OrderTyped, Choices, Selectable
  <2> QED BY <1>2, <2>1, BindingChanges DEF Order!SymbolSelects, OrderInv, OrderTyped
<1>3. ASSUME NEW p \in Forms, Order!SaveStarts(p) PROVE OrderInv'
  BY <1>3, SaveStartsKeeps
<1>4. ASSUME NEW p \in Forms, NEW f \in Order!Families, Order!EditedOutside(f, p) PROVE OrderInv'
  BY <1>4, OutsideKeeps
<1>5. ASSUME NEW confirmed \in BOOLEAN, Order!Publish(confirmed) PROVE OrderInv'
  BY <1>5, PublishingKeeps
<1>6. ASSUME NEW saved \in BOOLEAN, Order!Completed(saved) PROVE OrderInv'
  BY <1>6, CompletedKeeps
<1> QED BY <1>1, <1>2, <1>3, <1>4, <1>5, <1>6, ShowKeeps, AuditedKeeps, AcceptedKeeps,
           ArrivesKeeps, SaveMovesKeep DEF Order!OrderNext

\* The invariant says that what runs is what was asked for.
LEMMA AsAsked == OrderInv => Order!OrdersAsAsked
<1> SUFFICES ASSUME OrderInv PROVE Order!OrdersAsAsked
  OBVIOUS
<1>1. Order!SymbolsAsBound
  <2> SUFFICES ASSUME NEW m \in Markets, NEW f \in Order!Families,
                      intended[m][f] # Order!NoBinding,
                      NEW s \in OrderSymbols, MarketOf[s] = m
        PROVE  LET i == intended[m][f]
                   chosen == IF i.selected[s] = Order!NoForm THEN i.default ELSE i.selected[s]
               IN /\ Order!Same(chosen, Order!Runs(documents[m][f], s))
                  /\ s \in documents[m][f].signals <=> chosen.enabled
    BY DEF Order!SymbolsAsBound
  <2>1. PICK v \in Nat : documents[m][f]
          = Order!Document(intended[m][f].default, intended[m][f].selected, m, v)
    BY DEF OrderInv, DocumentsHold
  <2>2. PICK p, chosen, d : /\ p = intended[m][f].default /\ chosen = intended[m][f].selected
                            /\ d = documents[m][f]
    OBVIOUS
  <2>3. /\ p \in Order!AllForms /\ chosen \in Choices
        /\ chosen[s] # Order!NoForm => Order!Family(chosen[s]) = Order!Family(p)
    BY <2>2 DEF OrderInv, DocumentsHold, AsIntended, OrderTyped, Bindings
  <2>4. PICK q : q = IF chosen[s] = Order!NoForm THEN p ELSE chosen[s]
    OBVIOUS
  <2>5. Order!Same(q, Order!Runs(d, s)) /\ (s \in d.signals <=> q.enabled)
    BY <2>1, <2>2, <2>3, <2>4, DocumentRuns
  <2> QED BY <2>2, <2>4, <2>5
<1>2. Order!NoLostUpdate
  <2>1. DOMAIN replaced = 1..Len(audit)
    BY DEF OrderInv, OrderTyped
  <2> QED BY <2>1 DEF OrderInv, RowsHold, Order!NoLostUpdate
<1>3. Order!RowsAreTrue
  <2> SUFFICES ASSUME NEW i \in DOMAIN audit, audit[i].status = "applied"
        PROVE  /\ replaced[i] # 0
               /\ documents[Main][Order!Family(audit[i].form)].version = audit[i].result =>
                    Order!Same(audit[i].form,
                      Order!Decode(documents[Main][Order!Family(audit[i].form)].parameters))
    BY DEF Order!RowsAreTrue
  <2>1. PICK p, n : p = audit[i].form /\ n = audit[i].result
    OBVIOUS
  <2>2. i \in 1..Len(audit) /\ audit[i] \in AuditRows
    BY DEF OrderInv, OrderTyped
  <2>3. p \in Order!AllForms /\ replaced[i] # 0 /\ Stands(p, n)
    BY <2>1, <2>2 DEF OrderInv, RowsHold, AuditRows
  <2>4. Order!Same(p, Order!Decode(Order!Stored(p)))
    BY <2>3, DecodedStored
  <2> QED BY <2>1, <2>3, <2>4 DEF Stands
<1> QED BY <1>1, <1>2, <1>3 DEF OrderInv, Order!OrdersAsAsked

\* The host takes the steps of the order parameters while they are its part.
LEMMA OrderHostStep ==
  (part = "orders" => OrderInv) /\ [Next]_hostVars => (part = "orders" => OrderInv)'
<1> SUFFICES ASSUME part = "orders" => OrderInv, [Next]_hostVars, part' = "orders"
             PROVE  OrderInv'
  OBVIOUS
<1>1. CASE OrderSteps
  BY <1>1, OrderStep DEF OrderSteps
<1>2. CASE UNCHANGED hostVars
  <2>1. UNCHANGED <<part, default, selected, documents, intended, shown, save, late, audit,
                    replaced, notified, writes>>
    BY <1>2 DEF hostVars, orderVars
  <2>2. SaveHolds'
    BY <2>1 DEF OrderInv, SaveHolds, HasRow, Stands
  <2> QED BY <2>1, <2>2, EditMoves DEF OrderInv, OrderTyped
<1>3. ASSUME \/ KlineSteps \/ IncomeSteps \/ RatesSteps \/ EarnSteps \/ WatchSteps
             \/ AccessSteps \/ ExchangeSteps \/ RulesSteps \/ TheorySteps \/ OverviewSteps
             \/ ChartsSteps
      PROVE  part # "orders" /\ part' = part
  BY <1>3 DEF KlineSteps, IncomeSteps, RatesSteps, EarnSteps, WatchSteps, AccessSteps,
              ExchangeSteps, RulesSteps, TheorySteps, OverviewSteps, ChartsSteps
<1> QED BY <1>1, <1>2, <1>3 DEF Next

\* What Exec runs is what was asked for: every symbol of a publish runs the template it
\* selects, an edit takes the place of the version its operator saw and of no other, its
\* row is true, and Exec told to reload finds that version or a later one, with another
\* writer at the Exec host, requests given up that arrive late, and lost answers
\* (order_config.rs from_templates, apply_to; web.rs save_order_parameters).
THEOREM OrdersDone == Spec => []OrdersAsAsked
<1>1. Init => (part = "orders" => OrderInv)
  BY OrderStart DEF Init
<1>2. (part = "orders" => OrderInv) /\ [Next]_hostVars => (part = "orders" => OrderInv)'
  BY OrderHostStep
<1>3. (part = "orders" => OrderInv) => OrdersAsAsked
  BY AsAsked DEF OrdersAsAsked
<1> QED BY <1>1, <1>2, <1>3, PTL DEF Spec

-----------------------------------------------------------------------------
(***************************************************************************)
(* Market rules: what a publish to a proxied account is projected with is  *)
(* the account's own, was written and read back, and its contracts traded  *)
(* when it was stamped; each input arrives once, at the exposure asked for.*)
(***************************************************************************)
\* Rules of Bybit say "Trading" of contracts that traded when the snapshot was stamped.
Traded(symbol, at) == symbol \in DOMAIN QuoteOf /\ traded[symbol] >= at
SnapshotTrue(s) ==
  s.venue = "bybit-futures" /\ s.backend = "native" =>
    /\ s.at \in Nat
    /\ \A r \in s.rules : r.status = "Trading" => Traded(r.symbol, s.at)

RulesTyped ==
  /\ host \in Hosts /\ ruleTime \in Nat \ {0}
  /\ traded \in [DOMAIN QuoteOf -> Nat] /\ \A s \in DOMAIN QuoteOf : traded[s] <= ruleTime
  /\ \A s \in DOMAIN QuoteOf : Rules!Trades(world, s) => traded[s] = ruleTime
  /\ world \in DOMAIN Worlds
  /\ DOMAIN stored = Rules!Keys /\ DOMAIN held = Rules!Keys /\ DOMAIN cache = Rules!Keys
  /\ catalog \in DOMAIN Inputs /\ shares \in [Rules!Ids -> Nat]
  /\ DOMAIN archived = Rules!Ids /\ DOMAIN executed = Rules!Ids
  /\ request = [input |-> request.input, plan |-> request.plan]
  /\ DOMAIN request.plan \subseteq Rules!Ids

\* What Redis holds it has held, and is the account's own; the copy was held, too.
RulesStored ==
  \A k \in Rules!Keys :
    /\ stored[k].at > 0 => stored[k] \in held[k]
    /\ cache[k].at > 0 => cache[k] \in held[k]
    /\ Rules!OwnRules(k, stored[k]) /\ Rules!OwnRules(k, cache[k]) /\ SnapshotTrue(cache[k])

\* The worker between two pages has read them in this unit of time; what it has for a
\* market is of that market's account, and what it keeps for others of none.
WorkerHolds(w) ==
  /\ DOMAIN w = DOMAIN Rules!Idle
  /\ w.page \in Nat \ {0} /\ (w.page = 1 => w.rules = {})
  /\ \A r \in w.rules : r.status = "Trading" => Traded(r.symbol, ruleTime)
  /\ \A s \in w.shared : s.backend = "native" /\ s.portfolio = "" /\ SnapshotTrue(s)
  /\ w.stage = "asked" => Rules!Backend(Rules!Account(Head(w.todo)[1]), Head(w.todo)[2]) = "ltp"
  /\ w.stage \in {"set", "confirm"} =>
       Rules!OwnRules(Head(w.todo), w.snapshot) /\ SnapshotTrue(w.snapshot)

StraysHold == \A w \in stray : Rules!OwnRules(w[1], w[2])

\* A projection under way was archived, speaks of contracts that traded when its rules
\* were stamped, and is the exposure of its input at the shares saved.
Exposes(p, i, n) == Rules!SameExposure([p |-> p, input |-> i, shares |-> n])
PlanHolds(id, p) ==
  /\ p.ok /\ p.projected /\ p.at \in Nat
  /\ p \in archived[id]
  /\ \A t \in p.targets : Traded(t.symbol, p.at)
  /\ Exposes(p, request.input, shares[id])
RequestHoldsRules ==
  \A id \in DOMAIN request.plan : Rules!Account(id).proxied => PlanHolds(id, request.plan[id])

ExecutedHolds ==
  \A id \in Rules!Ids : LET e == executed[id] IN
    Rules!Account(id).proxied /\ e.input > 0 =>
      /\ e.p \in archived[id]
      /\ e.age <= MaxRuleAge
      /\ \A t \in e.p.targets : e.when - e.seen[t.symbol] <= MaxRuleAge
      /\ Rules!SameExposure(e)

RulesInv == /\ RulesTyped /\ RulesStored /\ WorkerHolds(worker) /\ StraysHold
            /\ RequestHoldsRules /\ ExecutedHolds
-----------------------------------------------------------------------------
\* Accounts and their markets are those of the configuration.
LEMMA SameHost ==
  ASSUME host' = host
  PROVE  /\ Rules!Keys' = Rules!Keys /\ Rules!Ids' = Rules!Ids
         /\ \A id : Rules!Account(id)' = Rules!Account(id)
<1>1. Rules!Keys' = Rules!Keys
  BY DEF Rules!Keys, Rules!RoundOf
<1>2. Rules!Ids' = Rules!Ids
  BY DEF Rules!Ids
<1>3. \A id : Rules!Account(id)' = Rules!Account(id)
  BY DEF Rules!Account
<1> QED BY <1>1, <1>2, <1>3

\* Rules stay an account's own: its configuration does not change.
LEMMA OwnStays ==
  ASSUME host' = host, NEW k, NEW s
  PROVE  Rules!OwnRules(k, s)' <=> Rules!OwnRules(k, s)
BY SameHost DEF Rules!OwnRules

\* As time passes a contract was last trading no earlier than before.
LEMMA SnapshotStays ==
  ASSUME traded \in [DOMAIN QuoteOf -> Nat], traded' \in [DOMAIN QuoteOf -> Nat],
         \A s \in DOMAIN QuoteOf : traded[s] <= traded'[s], NEW s, SnapshotTrue(s)
  PROVE  SnapshotTrue(s)'
<1> SUFFICES ASSUME s.venue = "bybit-futures", s.backend = "native",
                    NEW r \in s.rules, r.status = "Trading"
             PROVE  s.at \in Nat /\ Traded(r.symbol, s.at)'
  BY DEF SnapshotTrue
<1>1. s.at \in Nat /\ Traded(r.symbol, s.at)
  BY DEF SnapshotTrue
<1>2. PICK n, q : n = s.at /\ q = r.symbol
  OBVIOUS
<1>3. traded[q] \in Nat /\ traded'[q] \in Nat /\ traded[q] <= traded'[q]
  BY <1>1, <1>2 DEF Traded
<1> QED BY <1>1, <1>2, <1>3 DEF Traded

\* What is not there, or is empty, is nobody else's.
LEMMA NoneOwned ==
  ASSUME NEW k
  PROVE  Rules!NoRules.at = 0 /\ Rules!OwnRules(k, Rules!NoRules) /\ SnapshotTrue(Rules!NoRules)
<1>1. Rules!NoRules.at = 0 /\ ~(Rules!NoRules.at > 0) /\ Rules!NoRules.venue = ""
  BY DEF Rules!NoRules
<1>2. SnapshotTrue(Rules!NoRules)
  BY <1>1 DEF SnapshotTrue
<1>3. Rules!OwnRules(k, Rules!NoRules)
  BY <1>1, Zenon DEF Rules!OwnRules
<1> QED BY <1>1, <1>2, <1>3

\* The idle worker holds nothing.
LEMMA IdleWorks == WorkerHolds(Rules!Idle) /\ Rules!Idle.shared = {}
BY DEF WorkerHolds, Rules!Idle

\* A worker that goes on to the next market keeps what the round shares and no page.
LEMMA AfterHolds ==
  ASSUME NEW w, WorkerHolds(w)
  PROVE  WorkerHolds(Rules!After(w))
<1>1. CASE Len(w.todo) = 1
  BY <1>1, IdleWorks DEF Rules!After
<1>2. CASE Len(w.todo) # 1
  <2> DEFINE v == [Rules!Idle EXCEPT !.stage = "fetch", !.todo = Tail(w.todo),
                                     !.shared = w.shared]
  <2>1. Rules!After(w) = v
    BY <1>2 DEF Rules!After
  <2>2. /\ v.stage = "fetch" /\ v.page = 1 /\ v.rules = {} /\ v.shared = w.shared
        /\ DOMAIN v = DOMAIN Rules!Idle
    BY DEF Rules!Idle
  <2> HIDE DEF v
  <2>3. v.page \in Nat \ {0} /\ v.stage # "asked" /\ v.stage \notin {"set", "confirm"}
    BY <2>2
  <2>4. WorkerHolds(v)
    <3>1. \A s \in w.shared : s.backend = "native" /\ s.portfolio = "" /\ SnapshotTrue(s)
      BY DEF WorkerHolds
    <3> QED BY <2>2, <2>3, <3>1 DEF WorkerHolds
  <2> QED BY <2>1, <2>4
<1> QED BY <1>1, <1>2

\* A step of the worker alone.
LEMMA WorkerMoves ==
  ASSUME RulesInv, NEW w, WorkerHolds(w), worker' = w,
         UNCHANGED <<host, world, traded, ruleTime, stored, held, cache, stray, catalog,
                     shares, request, archived, executed>>
  PROVE  RulesInv'
<1>1. /\ worker' = w
      /\ UNCHANGED <<host, world, traded, ruleTime, stored, held, cache, stray, catalog,
                     shares, request, archived, executed>>
  OBVIOUS
<1>2. /\ Rules!Keys' = Rules!Keys /\ Rules!Ids' = Rules!Ids
      /\ \A id : Rules!Account(id)' = Rules!Account(id)
  BY <1>1, SameHost
<1>3. RulesTyped'
  BY <1>1, <1>2 DEF RulesInv, RulesTyped
<1>4. RulesStored'
  BY <1>1, <1>2 DEF RulesInv, RulesStored, SnapshotTrue, Traded, Rules!OwnRules
<1>5. WorkerHolds(worker)'
  BY <1>1, <1>2 DEF WorkerHolds, SnapshotTrue, Traded, Rules!OwnRules
<1>6. StraysHold'
  BY <1>1, <1>2 DEF RulesInv, StraysHold, Rules!OwnRules
<1>7. RequestHoldsRules'
  BY <1>1, <1>2 DEF RulesInv, RequestHoldsRules, PlanHolds, Traded
<1>8. ExecutedHolds'
  BY <1>1, <1>2 DEF RulesInv, ExecutedHolds
<1> QED BY <1>3, <1>4, <1>5, <1>6, <1>7, <1>8 DEF RulesInv

\* A market is taken up, or given up, with what the round keeps.
LEMMA StartRoundKeeps == RulesInv /\ Rules!StartRound => RulesInv'
<1> SUFFICES ASSUME RulesInv, Rules!StartRound PROVE RulesInv'
  OBVIOUS
<1> DEFINE w == [Rules!Idle EXCEPT !.stage = "fetch", !.todo = Rules!RoundOf]
<1>1. WorkerHolds(w)
  BY DEF WorkerHolds, Rules!Idle
<1>2. /\ worker' = w
      /\ UNCHANGED <<host, world, traded, ruleTime, stored, held, cache, stray, catalog,
                     shares, request, archived, executed>>
  BY DEF Rules!StartRound, Rules!listing, Rules!publishing
<1> HIDE DEF w
<1> QED BY <1>1, <1>2, WorkerMoves

\* The worker takes a step that writes nothing.
LEMMA StepMoves ==
  ASSUME RulesInv, NEW w, WorkerHolds(w), Rules!Step(w)
  PROVE  RulesInv'
<1>1. /\ worker' = w
      /\ UNCHANGED <<host, world, traded, ruleTime, stored, held, cache, stray, catalog,
                     shares, request, archived, executed>>
  BY DEF Rules!Step, Rules!listing, Rules!publishing
<1> QED BY <1>1, WorkerMoves

\* A market is given up, or done, and the next one taken up.
LEMMA AfterMoves ==
  ASSUME RulesInv, Rules!Step(Rules!After(worker))
  PROVE  RulesInv'
<1>1. WorkerHolds(Rules!After(worker))
  BY AfterHolds DEF RulesInv
<1> QED BY <1>1, StepMoves

\* A snapshot of the round is reused for a market of the same venue only.
LEMMA ReuseKeeps == RulesInv /\ Rules!Reuse => RulesInv'
<1> SUFFICES ASSUME RulesInv, Rules!Reuse PROVE RulesInv'
  OBVIOUS
<1>1. PICK s \in Rules!Shared : Rules!Step([worker EXCEPT !.stage = "set", !.snapshot = s])
  BY DEF Rules!Reuse
<1> DEFINE w == [worker EXCEPT !.stage = "set", !.snapshot = s]
<1>2. /\ s \in worker.shared /\ s.venue = Head(worker.todo)[2]
      /\ Rules!Backend(Rules!Account(Head(worker.todo)[1]), Head(worker.todo)[2]) = "native"
  BY DEF Rules!Shared, Rules!Venue, Rules!Source
<1>3. s.backend = "native" /\ s.portfolio = "" /\ SnapshotTrue(s)
  BY <1>2 DEF RulesInv, WorkerHolds
<1>4. Rules!OwnRules(Head(worker.todo), s)
  BY <1>2, <1>3 DEF Rules!OwnRules
<1>5. WorkerHolds(w)
  BY <1>3, <1>4 DEF RulesInv, WorkerHolds, Rules!Idle
<1> HIDE DEF w
<1> QED BY <1>1, <1>5, StepMoves DEF w

\* A snapshot of a public venue is the account's own and kept for the round.
LEMMA FetchedKeeps ==
  ASSUME RulesInv, Rules!Fetching("native"), NEW rules, Rules!Fetched(rules),
         Rules!Venue = "bybit-futures" =>
           \A r \in rules : r.status = "Trading" => Traded(r.symbol, ruleTime)
  PROVE  RulesInv'
<1> DEFINE s == Rules!Snapshot("native", "", ruleTime, rules)
           w == [worker EXCEPT !.stage = "set", !.page = 1, !.rules = {}, !.snapshot = s,
                               !.shared = @ \union {s}]
<1>1. /\ s.venue = Head(worker.todo)[2] /\ s.backend = "native" /\ s.portfolio = ""
      /\ s.at = ruleTime /\ s.rules = rules
  BY DEF Rules!Snapshot, Rules!Venue
<1>2. Rules!Backend(Rules!Account(Head(worker.todo)[1]), Head(worker.todo)[2]) = "native"
  BY DEF Rules!Fetching, Rules!Source, Rules!Venue
<1>3. Rules!Step(Rules!After(worker)) \/ Rules!Step(w)
  BY DEF Rules!Fetched
<1> HIDE DEF s
<1>4. SnapshotTrue(s) /\ Rules!OwnRules(Head(worker.todo), s)
  BY <1>1, <1>2 DEF SnapshotTrue, Rules!OwnRules, Rules!Venue, RulesInv, RulesTyped
<1>5. WorkerHolds(w)
  <2>1. WorkerHolds(worker)
    BY DEF RulesInv
  <2>2. /\ DOMAIN w = DOMAIN worker /\ w.stage = "set" /\ w.page = 1 /\ w.rules = {}
        /\ w.snapshot = s /\ w.shared = worker.shared \union {s} /\ w.todo = worker.todo
    BY <2>1 DEF WorkerHolds, Rules!Idle
  <2> HIDE DEF w
  <2>3. w.page \in Nat \ {0} /\ w.stage # "asked"
    BY <2>2
  <2>4. \A x \in w.shared : x.backend = "native" /\ x.portfolio = "" /\ SnapshotTrue(x)
    BY <1>1, <1>4, <2>1, <2>2 DEF WorkerHolds
  <2>5. DOMAIN w = DOMAIN Rules!Idle
    BY <2>1, <2>2 DEF WorkerHolds
  <2> QED BY <1>4, <2>2, <2>3, <2>4, <2>5 DEF WorkerHolds
<1> HIDE DEF w
<1> QED BY <1>3, <1>5, StepMoves, AfterMoves

\* What a page of Bybit calls trading is trading now.
LEMMA PageTrades ==
  ASSUME RulesInv, NEW answer, answer = Rules!ParseBybitPage(Rules!PageOf(worker.page)),
         NEW r \in answer.rules, r.status = "Trading"
  PROVE  Traded(r.symbol, ruleTime)
<1> DEFINE page == Rules!PageOf(worker.page)
           kept == {x \in page : x.kind = "perp" /\ x.quote = "USDT"}
<1>1. answer = Rules!Parsed(kept) \/ answer = Rules!Failed
  BY DEF Rules!ParseBybitPage
<1>2. answer.rules \subseteq {Rules!Rule(x) : x \in kept}
  BY <1>1 DEF Rules!Parsed, Rules!Failed
<1>3. PICK x \in page : r = Rules!Rule(x)
  BY <1>2
<1>4. r.symbol = x.symbol /\ r.status = x.status
  BY <1>3 DEF Rules!Rule
<1>5. worker.page \in DOMAIN Worlds[world].bybit /\ x \in Worlds[world].bybit[worker.page]
  BY <1>3 DEF Rules!PageOf
<1>6. world \in DOMAIN Worlds /\ Rules!Trades(world, r.symbol)
  BY <1>4, <1>5 DEF Rules!Trades, RulesInv, RulesTyped
<1>7. r.symbol \in DOMAIN QuoteOf
  BY <1>4, <1>5, <1>6, RulesAssumption
<1>8. traded[r.symbol] = ruleTime /\ ruleTime \in Nat
  BY <1>6, <1>7 DEF RulesInv, RulesTyped
<1> QED BY <1>7, <1>8 DEF Traded

\* A page is read, and the last one makes the snapshot.
LEMMA BybitKeeps == RulesInv /\ Rules!FetchBybit => RulesInv'
<1> SUFFICES ASSUME RulesInv, Rules!FetchBybit PROVE RulesInv'
  OBVIOUS
<1> DEFINE answer == Rules!ParseBybitPage(Rules!PageOf(worker.page))
           read == worker.rules \union answer.rules
           w == [worker EXCEPT !.page = @ + 1, !.rules = read]
<1>1. \A r \in answer.rules : r.status = "Trading" => Traded(r.symbol, ruleTime)
  BY PageTrades
<1>2. Rules!Fetching("native") /\ worker.stage = "fetch"
  BY DEF Rules!FetchBybit, Rules!Fetching
<1>3. \/ Rules!Step(Rules!After(worker)) \/ Rules!Fetched(read)
      \/ Rules!Step([worker EXCEPT !.page = @ + 1, !.rules = @ \union answer.rules])
  BY DEF Rules!FetchBybit
<1> HIDE DEF answer
<1>4. \A r \in read : r.status = "Trading" => Traded(r.symbol, ruleTime)
  BY <1>1 DEF RulesInv, WorkerHolds
<1> HIDE DEF read
<1>5. WorkerHolds(w)
  <2>1. WorkerHolds(worker)
    BY DEF RulesInv
  <2>2. /\ DOMAIN w = DOMAIN worker /\ w.stage = "fetch" /\ w.page = worker.page + 1
        /\ w.rules = read /\ w.shared = worker.shared
    BY <1>2, <2>1 DEF WorkerHolds, Rules!Idle
  <2> HIDE DEF w
  <2>3. w.page \in Nat \ {0} /\ w.page # 1
    <3>1. worker.page \in Nat \ {0}
      BY <2>1 DEF WorkerHolds
    <3> QED BY <2>2, <3>1
  <2> QED BY <1>4, <2>1, <2>2, <2>3 DEF WorkerHolds
<1>6. w = [worker EXCEPT !.page = @ + 1, !.rules = @ \union answer.rules]
  BY DEF read
<1> HIDE DEF w
<1>7. CASE Rules!Fetched(read)
  BY <1>2, <1>4, <1>7, FetchedKeeps
<1> QED BY <1>3, <1>5, <1>6, <1>7, StepMoves, AfterMoves

\* The other public venues are read in one answer.
LEMMA PublicKeeps == RulesInv /\ Rules!FetchPublic => RulesInv'
<1> SUFFICES ASSUME RulesInv, Rules!FetchPublic PROVE RulesInv'
  OBVIOUS
<1>1. /\ Rules!Fetching("native") /\ Rules!Venue # "bybit-futures"
      /\ \/ \E rules : Rules!Fetched(rules)
         \/ Rules!Step(Rules!After(worker))
  BY DEF Rules!FetchPublic
<1> QED BY <1>1, FetchedKeeps, AfterMoves

\* RapidX is asked for an account's own portfolio.
LEMMA RapidXKeeps == RulesInv /\ (Rules!AskRapidX \/ Rules!RapidXAnswers) => RulesInv'
<1>1. ASSUME RulesInv, Rules!AskRapidX PROVE RulesInv'
  <2> DEFINE w == [worker EXCEPT !.stage = "asked", !.at = ruleTime]
  <2>1. /\ Rules!Backend(Rules!Account(Head(worker.todo)[1]), Head(worker.todo)[2]) = "ltp"
        /\ Rules!Step(Rules!After(worker)) \/ Rules!Step(w)
    BY <1>1 DEF Rules!AskRapidX, Rules!Fetching, Rules!Source, Rules!Venue
  <2>2. WorkerHolds(w)
    BY <1>1, <2>1 DEF RulesInv, WorkerHolds, Rules!Idle
  <2> HIDE DEF w
  <2> QED BY <1>1, <2>1, <2>2, StepMoves, AfterMoves
<1>2. ASSUME RulesInv, Rules!RapidXAnswers PROVE RulesInv'
  <2>1. PICK rules : \/ Rules!Step(Rules!After(worker))
                     \/ Rules!Step([worker EXCEPT !.stage = "set", !.snapshot =
                          Rules!Snapshot("ltp", Rules!Values(Rules!Source).portfolio,
                                         worker.at, rules)])
    BY <1>2 DEF Rules!RapidXAnswers
  <2> DEFINE s == Rules!Snapshot("ltp", Rules!Values(Rules!Source).portfolio, worker.at, rules)
             w == [worker EXCEPT !.stage = "set", !.snapshot = s]
  <2>2. /\ s.venue = Head(worker.todo)[2] /\ s.backend = "ltp"
        /\ s.portfolio = Rules!Values(Rules!Account(Head(worker.todo)[1])).portfolio
    BY DEF Rules!Snapshot, Rules!Venue, Rules!Source
  <2>3. Rules!Backend(Rules!Account(Head(worker.todo)[1]), Head(worker.todo)[2]) = "ltp"
    BY <1>2 DEF RulesInv, WorkerHolds, Rules!RapidXAnswers
  <2>4. Rules!Step(Rules!After(worker)) \/ Rules!Step(w)
    BY <2>1
  <2> HIDE DEF s
  <2>5. SnapshotTrue(s) /\ Rules!OwnRules(Head(worker.todo), s)
    BY <2>2, <2>3 DEF SnapshotTrue, Rules!OwnRules
  <2>6. WorkerHolds(w)
    BY <1>2, <2>5 DEF RulesInv, WorkerHolds, Rules!Idle
  <2> HIDE DEF w
  <2> QED BY <1>2, <2>4, <2>6, StepMoves, AfterMoves
<1> QED BY <1>1, <1>2

\* A market that cannot be read is given up for the round.
LEMMA FailsKeeps == RulesInv /\ Rules!FetchFails => RulesInv'
BY AfterMoves DEF Rules!FetchFails

-----------------------------------------------------------------------------
\* Rules written at Redis are rules of the market they are written for.
LEMMA StoreKeeps ==
  ASSUME RulesInv, NEW key, NEW s, Rules!OwnRules(key, s), Rules!Store(key, s),
         UNCHANGED <<host, traded, cache>>
  PROVE  RulesStored' /\ DOMAIN stored' = Rules!Keys' /\ DOMAIN held' = Rules!Keys'
<1>1. /\ Rules!Keys' = Rules!Keys
      /\ \A id : Rules!Account(id)' = Rules!Account(id)
  BY SameHost
<1>2. /\ stored' = [stored EXCEPT ![key] = s]
      /\ held' = [held EXCEPT ![key] = @ \union {s}]
      /\ DOMAIN stored = Rules!Keys /\ DOMAIN held = Rules!Keys
  BY DEF Rules!Store, RulesInv, RulesTyped
<1>3. ASSUME NEW k \in Rules!Keys
      PROVE  /\ stored'[k].at > 0 => stored'[k] \in held'[k]
             /\ cache[k].at > 0 => cache[k] \in held'[k]
             /\ Rules!OwnRules(k, stored'[k])
  <2>1. CASE k = key
    BY <1>2, <2>1 DEF RulesInv, RulesStored
  <2>2. CASE k # key
    BY <1>2, <2>2 DEF RulesInv, RulesStored
  <2> QED BY <2>1, <2>2
<1>4. ASSUME NEW k \in Rules!Keys
      PROVE  (Rules!OwnRules(k, stored[k]) /\ Rules!OwnRules(k, cache[k]) /\ SnapshotTrue(cache[k]))'
  <2>1. PICK a, c : a = stored'[k] /\ c = cache[k]
    OBVIOUS
  <2>2. Rules!OwnRules(k, a) /\ Rules!OwnRules(k, c) /\ SnapshotTrue(c)
    BY <1>3, <2>1 DEF RulesInv, RulesStored
  <2>3. (Rules!OwnRules(k, a) /\ Rules!OwnRules(k, c) /\ SnapshotTrue(c))'
    BY <2>2, OwnStays DEF SnapshotTrue, Traded
  <2> QED BY <2>1, <2>3
<1>5. RulesStored'
  BY <1>1, <1>3, <1>4 DEF RulesStored
<1> QED BY <1>1, <1>2, <1>5

\* The writes of the worker, those that are made later, and the read-back.
LEMMA WritesKeepRules ==
  RulesInv /\ (Rules!SetRules \/ Rules!ConfirmRules \/ Rules!SetLost \/ Rules!StrayLands)
    => RulesInv'
<1> SUFFICES ASSUME RulesInv, Rules!SetRules \/ Rules!ConfirmRules \/ Rules!SetLost
                              \/ Rules!StrayLands
             PROVE  RulesInv'
  OBVIOUS
<1> DEFINE key == Head(worker.todo)
           snap == worker.snapshot
<1>1. /\ UNCHANGED <<host, world, traded, ruleTime, catalog, shares, request, archived, executed>>
      /\ Rules!StrayLands => worker' = worker /\ cache' = cache
      /\ Rules!SetRules \/ Rules!SetLost => cache' = cache
      /\ Rules!SetRules \/ Rules!ConfirmRules => stray' = stray
  BY DEF Rules!SetRules, Rules!ConfirmRules, Rules!SetLost, Rules!StrayLands,
         Rules!listing, Rules!publishing
<1>2. /\ Rules!Keys' = Rules!Keys /\ Rules!Ids' = Rules!Ids
      /\ \A id : Rules!Account(id)' = Rules!Account(id)
  BY <1>1, SameHost
<1>3. worker.stage \in {"set", "confirm"} => Rules!OwnRules(key, snap) /\ SnapshotTrue(snap)
  BY DEF RulesInv, WorkerHolds
<1>4. WorkerHolds(worker)'
  <2>1. PICK w : w = worker'
    OBVIOUS
  <2>2. WorkerHolds(w)
    <3>1. CASE Rules!SetRules
      <4>1. w = [worker EXCEPT !.stage = "confirm"] /\ worker.stage = "set"
        BY <2>1, <3>1 DEF Rules!SetRules
      <4> QED BY <4>1 DEF RulesInv, WorkerHolds, Rules!Idle
    <3>2. CASE Rules!ConfirmRules \/ Rules!SetLost
      BY <2>1, <3>2, AfterHolds DEF RulesInv, Rules!ConfirmRules, Rules!SetLost
    <3>3. CASE Rules!StrayLands
      BY <1>1, <2>1, <3>3 DEF RulesInv
    <3> QED BY <3>1, <3>2, <3>3
  <2>3. WorkerHolds(w)'
    BY <1>1, <1>2, <2>2 DEF WorkerHolds, SnapshotTrue, Traded, Rules!OwnRules
  <2> QED BY <2>1, <2>3
<1>5. RulesStored' /\ DOMAIN stored' = Rules!Keys' /\ DOMAIN held' = Rules!Keys'
      /\ DOMAIN cache' = Rules!Keys'
  <2>1. DOMAIN stored = Rules!Keys /\ DOMAIN held = Rules!Keys /\ DOMAIN cache = Rules!Keys
    BY DEF RulesInv, RulesTyped
  <2>2. ASSUME NEW k, NEW s, Rules!OwnRules(k, s), Rules!Store(k, s), UNCHANGED cache
        PROVE  RulesStored' /\ DOMAIN stored' = Rules!Keys' /\ DOMAIN held' = Rules!Keys'
               /\ DOMAIN cache' = Rules!Keys'
    BY <1>1, <1>2, <2>1, <2>2, StoreKeeps
  <2>3. ASSUME UNCHANGED <<stored, held>>, NEW k, NEW s, Rules!OwnRules(k, s), SnapshotTrue(s),
               cache' = IF stored[k] = s THEN [cache EXCEPT ![k] = s] ELSE cache
        PROVE  RulesStored' /\ DOMAIN stored' = Rules!Keys' /\ DOMAIN held' = Rules!Keys'
               /\ DOMAIN cache' = Rules!Keys'
    <3>1. ASSUME NEW x \in Rules!Keys
          PROVE  /\ (stored[x].at > 0 => stored[x] \in held[x])'
                 /\ (cache[x].at > 0 => cache[x] \in held[x])'
                 /\ Rules!OwnRules(x, stored[x])' /\ Rules!OwnRules(x, cache[x])'
                 /\ SnapshotTrue(cache[x])'
      <4>1. PICK a, c : a = stored'[x] /\ c = cache'[x]
        OBVIOUS
      <4>2. a = stored[x] /\ (c = cache[x] \/ (c = s /\ x = k /\ stored[x] = s))
        BY <2>1, <2>3, <4>1
      <4>3. /\ a.at > 0 => a \in held[x]
            /\ c.at > 0 => c \in held[x]
            /\ Rules!OwnRules(x, a) /\ Rules!OwnRules(x, c) /\ SnapshotTrue(c)
        BY <2>3, <4>2 DEF RulesInv, RulesStored
      <4>4. Rules!OwnRules(x, a)' /\ Rules!OwnRules(x, c)' /\ SnapshotTrue(c)'
        BY <1>1, <4>3, OwnStays DEF SnapshotTrue, Traded
      <4> QED BY <2>3, <4>1, <4>3, <4>4
    <3>2. DOMAIN cache' = DOMAIN cache
      BY <2>3
    <3> QED BY <1>2, <2>1, <2>3, <3>1, <3>2 DEF RulesStored
  <2>4. CASE Rules!SetRules
    BY <1>1, <1>3, <2>2, <2>4 DEF Rules!SetRules, Rules!Key
  <2>5. CASE Rules!ConfirmRules
    BY <1>3, <2>3, <2>5 DEF Rules!ConfirmRules, Rules!Key
  <2>6. CASE Rules!StrayLands
    <3>1. PICK w \in stray : Rules!Store(w[1], w[2])
      BY <2>6 DEF Rules!StrayLands
    <3>2. Rules!OwnRules(w[1], w[2])
      BY DEF RulesInv, StraysHold
    <3> QED BY <1>1, <2>2, <2>6, <3>1, <3>2
  <2>7. CASE Rules!SetLost
    <3>1. /\ worker.stage = "set" /\ UNCHANGED cache
          /\ Rules!Store(key, snap) \/ UNCHANGED <<stored, held>>
      BY <2>7 DEF Rules!SetLost, Rules!Key
    <3>2. CASE UNCHANGED <<stored, held>>
      <4>1. RulesStored'
        BY <1>1, <1>2, <3>1, <3>2 DEF RulesInv, RulesStored, SnapshotTrue, Traded, Rules!OwnRules
      <4> QED BY <1>2, <2>1, <3>1, <3>2, <4>1
    <3> QED BY <1>3, <2>2, <3>1, <3>2
  <2> QED BY <2>4, <2>5, <2>6, <2>7
<1>6. StraysHold'
  <2>1. \A w \in stray' : Rules!OwnRules(w[1], w[2])
    <3>1. CASE Rules!SetLost
      BY <1>3, <3>1 DEF Rules!SetLost, Rules!Key, RulesInv, StraysHold
    <3>2. CASE Rules!StrayLands
      BY <3>2 DEF Rules!StrayLands, RulesInv, StraysHold
    <3> QED BY <1>1, <3>1, <3>2 DEF RulesInv, StraysHold
  <2> QED BY <1>1, <2>1, OwnStays DEF StraysHold
<1>7. RulesTyped'
  BY <1>1, <1>2, <1>5 DEF RulesInv, RulesTyped
<1>8. RequestHoldsRules' /\ ExecutedHolds'
  BY <1>1, <1>2 DEF RulesInv, RequestHoldsRules, PlanHolds, Traded, ExecutedHolds
<1> QED BY <1>4, <1>5, <1>6, <1>7, <1>8 DEF RulesInv
-----------------------------------------------------------------------------
\* Quantities the multipliers divide stay whole when scaled.
Fits(q, from, to) == (q * from) % to = 0
StaysWhole(q, from, to, n) == ((q * n * from) \div to) * to = q * n * from

\* A quantity that converts into whole contracts does so any number of times.
LEMMA WholeUnits ==
  ASSUME NEW q \in Int, NEW from \in Nat \ {0}, NEW to \in Nat \ {0}, Fits(q, from, to),
         NEW n \in Nat
  PROVE  StaysWhole(q, from, to, n)
<1> DEFINE x == q * from
           d == x \div to
           y == d * n
<1>1. x \in Int /\ d \in Int
  OBVIOUS
<1>2. x = to * d
  BY <1>1 DEF Fits
<1>3. y \in Int /\ q * n * from = x * n
  OBVIOUS
<1>4. x * n = to * y
  <2> HIDE DEF d, x
  <2>1. (to * d) * n = to * (d * n)
    BY <1>1
  <2> QED BY <1>2, <2>1
<1> HIDE DEF x, d, y
<1>5. (to * y) \div to = y
  BY <1>3
<1>6. y * to = to * y
  BY <1>3
<1> QED BY <1>3, <1>4, <1>5, <1>6 DEF StaysWhole

\* A mapping is between contracts quoted in USDT, with positive ratios.
LEMMA MappingFacts ==
  ASSUME NEW i \in DOMAIN Inputs, NEW key \in DOMAIN Inputs[i]
  PROVE  /\ Inputs[i][key].qty \in Int /\ Inputs[i][key].clear \in BOOLEAN
         /\ Rules!Mapping(key[2]).from \in Nat \ {0} /\ Rules!Mapping(key[2]).to \in Nat \ {0}
         /\ (Inputs[i][key].qty * Rules!Mapping(key[2]).from) % Rules!Mapping(key[2]).to = 0
         /\ QuoteOf[Rules!Mapping(key[2]).symbol] = "USDT" <=> QuoteOf[key[2]] = "USDT"
<1>1. Inputs[i][key].qty \in Int /\ Inputs[i][key].clear \in BOOLEAN
  BY RulesAssumption
<1>2. CASE key[2] \in DOMAIN Mappings
  <2>1. Rules!Mapping(key[2]) = Mappings[key[2]]
    BY <1>2 DEF Rules!Mapping
  <2>2. /\ {Mappings[key[2]].from, Mappings[key[2]].to} \subseteq Nat \ {0}
        /\ {key[2], Mappings[key[2]].symbol} \subseteq {q \in DOMAIN QuoteOf : QuoteOf[q] = "USDT"}
        /\ (Inputs[i][key].qty * Mappings[key[2]].from) % Mappings[key[2]].to = 0
    BY <1>2, RulesAssumption
  <2> QED BY <1>1, <2>1, <2>2
<1>3. CASE key[2] \notin DOMAIN Mappings
  <2>1. /\ Rules!Mapping(key[2]).from = 1 /\ Rules!Mapping(key[2]).to = 1
        /\ Rules!Mapping(key[2]).symbol = key[2]
    BY <1>3 DEF Rules!Mapping
  <2> QED BY <1>1, <2>1
<1> QED BY <1>2, <1>3

\* The count the market rules use is the cardinality of the standard module.
LEMMA CountingRules == \A S : Rules!Cardinality(S) = Cardinality(S)
BY DEF Rules!Cardinality, Cardinality

\* What the proxy projects from true rules speaks of contracts that traded when they
\* were stamped, and is in units of the underlying what was asked, each input once.
LEMMA ProjectHolds ==
  ASSUME NEW snapshot, SnapshotTrue(snapshot), NEW i \in DOMAIN Inputs, NEW n \in Nat,
         NEW p, p = Rules!Project(snapshot, Inputs[i], n), p.ok
  PROVE  /\ p.projected /\ p.at \in Nat
         /\ \A t \in p.targets : Traded(t.symbol, p.at)
         /\ Exposes(p, i, n)
<1> DEFINE vector == Inputs[i]
           kept == {key \in DOMAIN vector :
                      QuoteOf[key[2]] = "USDT" /\ Rules!Tradable(snapshot, key[2]) # {}}
           Into(key) == Rules!Mapping(key[2])
           Of(k) == Rules!Target(Into(k).symbol,
                      (Rules!Scaled(vector[k], n) * Into(k).from) \div Into(k).to, vector[k])
<1>1. /\ Rules!ForProxy(snapshot)
      /\ \A k, l \in kept : k # l => Into(k).symbol # Into(l).symbol
      /\ p = Rules!Projection(snapshot.at, {Of(k) : k \in kept})
  BY DEF Rules!Project, Rules!NoProjection
<1>2. p.projected /\ p.at = snapshot.at /\ p.targets = {Of(k) : k \in kept}
  BY <1>1 DEF Rules!Projection
<1>3. snapshot.at \in Nat /\ \A r \in snapshot.rules : r.status = "Trading" =>
                                Traded(r.symbol, snapshot.at)
  BY <1>1 DEF SnapshotTrue, Rules!ForProxy
<1>4. ASSUME NEW k \in kept
      PROVE  /\ Of(k).symbol = Into(k).symbol /\ Traded(Into(k).symbol, p.at)
             /\ Of(k).qty = (Rules!Scaled(vector[k], n) * Into(k).from) \div Into(k).to
  <2>1. PICK r \in snapshot.rules : r.symbol = Into(k).symbol /\ r.status = "Trading"
    BY DEF Rules!Tradable
  <2>2. Traded(Into(k).symbol, p.at)
    BY <1>2, <1>3, <2>1
  <2> QED BY <2>2 DEF Rules!Target
<1>5. ASSUME NEW t \in p.targets PROVE Traded(t.symbol, p.at)
  BY <1>2, <1>4
<1>6. Exposes(p, i, n)
  <2> DEFINE Same(x, key) ==
        /\ Rules!Mapping(key[2]).symbol = x.symbol
        /\ x.qty * Rules!Mapping(key[2]).to
             = (IF Inputs[i][key].clear THEN 0 ELSE Inputs[i][key].qty)
               * n * Rules!Mapping(key[2]).from
  <2>1. ASSUME NEW t \in p.targets
        PROVE  Rules!Cardinality({key \in DOMAIN Inputs[i] : Same(t, key)}) = 1
    <3>1. PICK k \in kept : t = Of(k)
      BY <1>2
    <3>2. t.symbol = Into(k).symbol
          /\ t.qty = (Rules!Scaled(vector[k], n) * Into(k).from) \div Into(k).to
      BY <1>4, <3>1
    <3>3. Same(t, k)
      <4>1. PICK q, from, to : q = vector[k].qty /\ from = Into(k).from /\ to = Into(k).to
        OBVIOUS
      <4>2. q \in Int /\ from \in Nat \ {0} /\ to \in Nat \ {0} /\ (q * from) % to = 0
            /\ vector[k].clear \in BOOLEAN
        BY <4>1, MappingFacts
      <4>3. CASE vector[k].clear
        <5>1. Rules!Scaled(vector[k], n) = 0
          BY <4>3 DEF Rules!Scaled
        <5>2. t.qty = 0
          BY <3>2, <4>1, <4>2, <5>1
        <5> QED BY <3>2, <4>1, <4>2, <4>3, <5>2
      <4>4. CASE ~vector[k].clear
        <5>1. Rules!Scaled(vector[k], n) = q * n
          BY <4>1, <4>2, <4>4 DEF Rules!Scaled
        <5>2. t.qty = (q * n * from) \div to
          BY <3>2, <4>1, <5>1
        <5>3. t.qty * to = q * n * from
          <6>1. ((q * n * from) \div to) * to = q * n * from
            <7>1. Fits(q, from, to)
              BY <4>2 DEF Fits
            <7>2. StaysWhole(q, from, to, n)
              BY <4>2, <7>1, WholeUnits
            <7> QED BY <7>2 DEF StaysWhole
          <6> QED BY <5>2, <6>1
        <5> QED BY <3>2, <4>1, <4>4, <5>3
      <4> QED BY <4>3, <4>4
    <3>4. ASSUME NEW l \in DOMAIN Inputs[i], Same(t, l) PROVE l = k
      <4>1. Into(l).symbol = Into(k).symbol
        BY <3>2, <3>4
      <4>2. QuoteOf[l[2]] = "USDT"
        <5>1. k \in DOMAIN Inputs[i] /\ QuoteOf[k[2]] = "USDT"
          OBVIOUS
        <5> QED BY <4>1, <5>1, MappingFacts
      <4>3. Rules!Tradable(snapshot, l[2]) = Rules!Tradable(snapshot, k[2])
        BY <4>1 DEF Rules!Tradable
      <4> QED BY <1>1, <4>1, <4>2, <4>3
    <3>5. {key \in DOMAIN Inputs[i] : Same(t, key)} = {k}
      BY <3>3, <3>4
    <3> HIDE DEF Same
    <3> QED BY <3>5, CountingRules, FS_Singleton
  <2> QED BY <2>1 DEF Exposes, Rules!SameExposure
<1> QED BY <1>2, <1>3, <1>5, <1>6

\* A publish to a proxied account is projected by the rules its market has in the copy.
LEMMA ProjectedHolds ==
  ASSUME RulesInv, NEW id \in Rules!Ids, Rules!Account(id).proxied, NEW i \in DOMAIN Inputs,
         NEW n \in Nat, NEW p, p = Rules!ProjectTargets(Rules!Account(id), Inputs[i], n), p.ok
  PROVE  /\ p.projected /\ p.at \in Nat
         /\ \A t \in p.targets : Traded(t.symbol, p.at)
         /\ Exposes(p, i, n)
<1> DEFINE a == Rules!Account(id)
           snapshot == Rules!RulesOf(<<a.id, a.venue>>)
<1>1. ~Rules!NoProjection.ok
  BY DEF Rules!NoProjection
<1>2. /\ ~Rules!Qualified(Inputs[i])
      /\ p = Rules!Project(snapshot, Inputs[i], n)
  BY <1>1 DEF Rules!ProjectTargets, Rules!TargetAllowed, Rules!Qualified
<1>3. SnapshotTrue(snapshot)
  <2>1. SnapshotTrue(Rules!NoRules)
    BY DEF SnapshotTrue, Rules!NoRules
  <2>2. \A k \in DOMAIN cache : SnapshotTrue(cache[k])
    BY DEF RulesInv, RulesTyped, RulesStored
  <2> QED BY <2>1, <2>2 DEF Rules!RulesOf
<1> HIDE DEF snapshot
<1> QED BY <1>2, <1>3, ProjectHolds

-----------------------------------------------------------------------------
\* A step of the publishes: what Redis, the exchanges and the worker have is left alone.
LEMMA PublishMoves ==
  ASSUME RulesInv, Rules!rulesSide' = Rules!rulesSide, catalog' \in DOMAIN Inputs,
         shares' \in [Rules!Ids -> Nat], DOMAIN archived' = Rules!Ids,
         DOMAIN executed' = Rules!Ids, NEW plan, DOMAIN plan \subseteq Rules!Ids, NEW i,
         request' = [input |-> i, plan |-> plan],
         \A id \in DOMAIN plan : Rules!Account(id).proxied => PlanHolds(id, plan[id])',
         ExecutedHolds'
  PROVE  RulesInv'
<1>1. UNCHANGED <<host, world, traded, ruleTime, stored, held, cache, worker, stray>>
  BY DEF Rules!rulesSide, Rules!listing
<1>2. /\ Rules!Keys' = Rules!Keys /\ Rules!Ids' = Rules!Ids
      /\ \A id : Rules!Account(id)' = Rules!Account(id)
  BY <1>1, SameHost
<1>3. RulesTyped'
  BY <1>1, <1>2 DEF RulesInv, RulesTyped
<1>4. RulesStored'
  BY <1>1, <1>2 DEF RulesInv, RulesStored, SnapshotTrue, Traded, Rules!OwnRules
<1>5. WorkerHolds(worker)'
  BY <1>1, <1>2 DEF RulesInv, WorkerHolds, SnapshotTrue, Traded, Rules!OwnRules
<1>6. StraysHold'
  BY <1>1, <1>2 DEF RulesInv, StraysHold, Rules!OwnRules
<1>7. RequestHoldsRules'
  <2>1. request'.plan = plan
    OBVIOUS
  <2> QED BY <1>2, <2>1 DEF RequestHoldsRules
<1> QED BY <1>3, <1>4, <1>5, <1>6, <1>7 DEF RulesInv

\* Archiving takes nothing away.
LEMMA ArchiveKeeps ==
  ASSUME RulesInv, NEW plan, DOMAIN plan \subseteq Rules!Ids, Rules!Archive(plan)
  PROVE  /\ DOMAIN archived' = Rules!Ids
         /\ \A id \in Rules!Ids : archived[id] \subseteq archived'[id]
         /\ \A id \in DOMAIN plan : plan[id] \in archived'[id]
BY DEF Rules!Archive

\* What was executed stays right while nothing of it changes and the archive only grows.
LEMMA ExecutedStays ==
  ASSUME RulesInv, UNCHANGED <<host, executed>>,
         \A id \in Rules!Ids : archived[id] \subseteq archived'[id]
  PROVE  ExecutedHolds'
BY SameHost DEF RulesInv, ExecutedHolds

\* A strategy publishes: the plan is archived and waits for its writes to Exec.
LEMMA PushKeeps ==
  ASSUME RulesInv, NEW i \in DOMAIN Inputs, Rules!Push(i)
  PROVE  RulesInv'
<1>1. PICK plan : /\ plan = [id \in {x \in Rules!Ids : shares[x] > 0} |->
                                Rules!ProjectTargets(Rules!Account(id), Inputs[i], shares[id])]
                  /\ IF \A id \in DOMAIN plan : plan[id].ok
                     THEN catalog' = i /\ Rules!Archive(plan) /\ Rules!Take(i, plan)
                     ELSE UNCHANGED <<catalog, archived, request>>
  BY DEF Rules!Push
<1>2. request = Rules!Free /\ Rules!rulesSide' = Rules!rulesSide
      /\ UNCHANGED <<host, shares, executed>>
  BY DEF Rules!Push, Rules!rulesSide, Rules!listing
<1>3. Rules!Free.plan = [x \in {} |-> Rules!NoProjection]
      /\ Rules!Free = [input |-> 0, plan |-> Rules!Free.plan]
  BY DEF Rules!Free
<1>4. DOMAIN plan = {x \in Rules!Ids : shares[x] > 0}
  BY <1>1
<1>5. DOMAIN executed = Rules!Ids /\ shares \in [Rules!Ids -> Nat] /\ catalog \in DOMAIN Inputs
      /\ DOMAIN archived = Rules!Ids
  BY DEF RulesInv, RulesTyped
<1>6. CASE \A id \in DOMAIN plan : plan[id].ok
  <2>1. catalog' = i /\ Rules!Archive(plan) /\ Rules!Take(i, plan)
    BY <1>1, <1>6
  <2>2. /\ DOMAIN archived' = Rules!Ids
        /\ \A id \in Rules!Ids : archived[id] \subseteq archived'[id]
        /\ \A id \in DOMAIN plan : plan[id] \in archived'[id]
    BY <1>4, <2>1, ArchiveKeeps
  <2>3. ExecutedHolds'
    BY <1>2, <2>2, ExecutedStays
  <2>4. CASE DOMAIN plan = {}
    <3>1. request' = [input |-> 0, plan |-> Rules!Free.plan] /\ DOMAIN Rules!Free.plan = {}
      BY <1>3, <2>1, <2>4 DEF Rules!Take
    <3> QED BY <1>2, <1>5, <2>1, <2>2, <2>3, <3>1, PublishMoves
  <2>5. CASE DOMAIN plan # {}
    <3>1. request' = [input |-> i, plan |-> plan]
      BY <2>1, <2>5 DEF Rules!Take
    <3>2. ASSUME NEW id \in DOMAIN plan, Rules!Account(id).proxied
          PROVE  PlanHolds(id, plan[id])'
      <4>1. PICK p, n : p = plan[id] /\ n = shares[id]
        OBVIOUS
      <4>2. n \in Nat /\ id \in Rules!Ids /\ p.ok
            /\ p = Rules!ProjectTargets(Rules!Account(id), Inputs[i], n)
        BY <1>1, <1>4, <1>5, <1>6, <4>1
      <4>3. /\ p.projected /\ p.at \in Nat
            /\ \A t \in p.targets : Traded(t.symbol, p.at)
            /\ Exposes(p, i, n)
        BY <3>2, <4>2, ProjectedHolds
      <4>4. UNCHANGED traded /\ shares'[id] = n /\ request'.input = i
        BY <1>2, <3>1, <4>1 DEF Rules!rulesSide, Rules!listing
      <4>5. PlanHolds(id, p)'
        BY <2>2, <4>1, <4>2, <4>3, <4>4 DEF PlanHolds, Traded
      <4> QED BY <4>1, <4>5
    <3> QED BY <1>2, <1>4, <1>5, <2>1, <2>2, <2>3, <3>1, <3>2, PublishMoves
  <2> QED BY <2>4, <2>5
<1>7. CASE ~(\A id \in DOMAIN plan : plan[id].ok)
  <2>1. UNCHANGED <<catalog, archived, request>>
    BY <1>1, <1>7
  <2>2. ExecutedHolds'
    BY <1>2, <2>1, ExecutedStays
  <2>3. request' = [input |-> 0, plan |-> Rules!Free.plan] /\ DOMAIN Rules!Free.plan = {}
    BY <1>2, <1>3, <2>1
  <2> QED BY <1>2, <1>5, <2>1, <2>2, <2>3, PublishMoves
<1> QED BY <1>6, <1>7

\* A publish by hand, with the shares that are saved.
LEMMA PublishHolds ==
  ASSUME RulesInv, NEW id \in Rules!Ids, NEW n \in Nat, request = Rules!Free,
         Rules!Publish(id, n), Rules!rulesSide' = Rules!rulesSide, UNCHANGED <<catalog, executed>>,
         shares' \in [Rules!Ids -> Nat], shares'[id] = n
  PROVE  RulesInv'
<1>1. PICK p : /\ p = Rules!ProjectTargets(Rules!Account(id), Inputs[catalog], n)
               /\ IF ~p.ok THEN UNCHANGED <<archived, request>>
                  ELSE \E plan \in {[x \in {id} |-> p]} :
                         /\ Rules!Take(catalog, plan)
                         /\ IF n = 0 \/ Rules!Account(id).proxied
                            THEN Rules!Archive(plan) ELSE UNCHANGED archived
  BY DEF Rules!Publish
<1>2. Rules!Free.plan = [x \in {} |-> Rules!NoProjection]
      /\ Rules!Free = [input |-> 0, plan |-> Rules!Free.plan]
  BY DEF Rules!Free
<1>3. DOMAIN executed = Rules!Ids /\ catalog \in DOMAIN Inputs /\ DOMAIN archived = Rules!Ids
  BY DEF RulesInv, RulesTyped
<1>4. UNCHANGED <<host, traded>>
  BY DEF Rules!rulesSide, Rules!listing
<1>5. CASE ~p.ok
  <2>1. UNCHANGED <<archived, request>>
    BY <1>1, <1>5
  <2>2. ExecutedHolds'
    BY <1>4, <2>1, ExecutedStays
  <2>3. request' = [input |-> 0, plan |-> Rules!Free.plan] /\ DOMAIN Rules!Free.plan = {}
    BY <1>2, <2>1
  <2> QED BY <1>3, <2>1, <2>2, <2>3, PublishMoves
<1>6. CASE p.ok
  <2> DEFINE plan == [x \in {id} |-> p]
  <2>1. /\ Rules!Take(catalog, plan)
        /\ IF n = 0 \/ Rules!Account(id).proxied THEN Rules!Archive(plan) ELSE UNCHANGED archived
    BY <1>1, <1>6
  <2>2. DOMAIN plan = {id} /\ plan[id] = p /\ request' = [input |-> catalog, plan |-> plan]
    BY <2>1 DEF Rules!Take
  <2> HIDE DEF plan
  <2>3. /\ DOMAIN archived' = Rules!Ids
        /\ \A x \in Rules!Ids : archived[x] \subseteq archived'[x]
        /\ Rules!Account(id).proxied => p \in archived'[id]
    BY <1>3, <2>1, <2>2, ArchiveKeeps
  <2>4. ExecutedHolds'
    BY <1>4, <2>3, ExecutedStays
  <2>5. ASSUME Rules!Account(id).proxied PROVE PlanHolds(id, p)'
    <3>1. /\ p.projected /\ p.at \in Nat
          /\ \A t \in p.targets : Traded(t.symbol, p.at)
          /\ Exposes(p, catalog, n)
      BY <1>1, <1>3, <1>6, <2>5, ProjectedHolds
    <3>2. request'.input = catalog
      BY <2>2
    <3> QED BY <1>4, <1>6, <2>3, <2>5, <3>1, <3>2 DEF PlanHolds, Traded
  <2>6. \A x \in DOMAIN plan : Rules!Account(x).proxied => PlanHolds(x, plan[x])'
    <3>1. ASSUME NEW x \in DOMAIN plan, Rules!Account(x).proxied
          PROVE  PlanHolds(x, plan[x])'
      <4>1. x = id /\ plan[x] = p
        BY <2>2
      <4> QED BY <2>5, <3>1, <4>1
    <3> QED BY <3>1
  <2> QED BY <1>3, <2>2, <2>3, <2>4, <2>6, PublishMoves
<1> QED BY <1>5, <1>6

\* A publish by hand, again or with new shares.
LEMMA HandKeeps ==
  ASSUME RulesInv, NEW id \in Rules!Ids, NEW n \in 0..2,
         Rules!PublishAgain(id) \/ Rules!SaveShares(id, n)
  PROVE  RulesInv'
<1>1. shares \in [Rules!Ids -> Nat] /\ catalog \in DOMAIN Inputs /\ DOMAIN executed = Rules!Ids
      /\ DOMAIN archived = Rules!Ids
  BY DEF RulesInv, RulesTyped
<1>2. /\ request = Rules!Free /\ Rules!rulesSide' = Rules!rulesSide
      /\ UNCHANGED <<catalog, executed>>
  BY DEF Rules!PublishAgain, Rules!SaveShares
<1>3. CASE Rules!PublishAgain(id)
  <2>1. Rules!Publish(id, shares[id]) /\ shares' = shares
    BY <1>3 DEF Rules!PublishAgain
  <2>2. PICK k : k = shares[id]
    OBVIOUS
  <2>3. k \in Nat /\ Rules!Publish(id, k) /\ shares'[id] = k /\ shares' \in [Rules!Ids -> Nat]
    BY <1>1, <2>1, <2>2
  <2> QED BY <1>2, <2>3, PublishHolds
<1>4. CASE Rules!SaveShares(id, n)
  <2>1. /\ shares' = [shares EXCEPT ![id] = n]
        /\ IF n = 0 THEN Rules!Publish(id, 0) ELSE UNCHANGED <<archived, request>>
    BY <1>4 DEF Rules!SaveShares
  <2>2. n \in Nat /\ shares' \in [Rules!Ids -> Nat] /\ shares'[id] = n
    BY <1>1, <2>1
  <2>3. CASE n = 0
    BY <1>2, <2>1, <2>2, <2>3, PublishHolds
  <2>4. CASE n # 0
    <3>1. UNCHANGED <<archived, request, host>>
      BY <1>2, <2>1, <2>4 DEF Rules!rulesSide, Rules!listing
    <3>2. ExecutedHolds'
      BY <1>2, <3>1, ExecutedStays
    <3>3. request' = [input |-> 0, plan |-> Rules!Free.plan] /\ DOMAIN Rules!Free.plan = {}
      BY <1>2, <3>1 DEF Rules!Free
    <3> QED BY <1>1, <1>2, <2>2, <3>1, <3>2, <3>3, PublishMoves
  <2> QED BY <2>3, <2>4
<1> QED BY <1>3, <1>4

\* A write to Exec, done or failed, takes the account from the request.
LEMMA RestHolds ==
  ASSUME RulesInv, NEW id, request' = Rules!Rest(id), Rules!rulesSide' = Rules!rulesSide,
         UNCHANGED <<catalog, shares, archived>>, DOMAIN executed' = Rules!Ids, ExecutedHolds'
  PROVE  RulesInv'
<1>1. UNCHANGED <<host, traded>>
  BY DEF Rules!rulesSide, Rules!listing
<1>2. /\ catalog \in DOMAIN Inputs /\ shares \in [Rules!Ids -> Nat] /\ DOMAIN archived = Rules!Ids
      /\ request = [input |-> request.input, plan |-> request.plan]
      /\ DOMAIN request.plan \subseteq Rules!Ids
  BY DEF RulesInv, RulesTyped
<1>3. PICK old, i : old = request.plan /\ i = request.input
  OBVIOUS
<1> DEFINE todo == DOMAIN old \ {id}
           plan == [x \in todo |-> old[x]]
<1>4. CASE todo = {}
  <2>1. request' = [input |-> 0, plan |-> Rules!Free.plan] /\ DOMAIN Rules!Free.plan = {}
    BY <1>3, <1>4 DEF Rules!Rest, Rules!Free
  <2> QED BY <1>2, <2>1, PublishMoves
<1>5. CASE todo # {}
  <2>1. request' = [request EXCEPT !.plan = plan]
    BY <1>3, <1>5 DEF Rules!Rest
  <2>2. request' = [input |-> i, plan |-> plan] /\ DOMAIN plan \subseteq Rules!Ids
    BY <1>2, <1>3, <2>1
  <2>3. ASSUME NEW x \in DOMAIN plan, Rules!Account(x).proxied PROVE PlanHolds(x, plan[x])'
    <3>1. PICK p : p = old[x]
      OBVIOUS
    <3>2. x \in DOMAIN request.plan /\ plan[x] = p /\ p = request.plan[x]
      BY <1>3, <3>1
    <3>3. PlanHolds(x, p)
      BY <2>3, <3>2 DEF RulesInv, RequestHoldsRules
    <3>4. PlanHolds(x, p)'
      BY <1>1, <1>3, <2>2, <3>3 DEF PlanHolds, Traded
    <3> QED BY <3>2, <3>4
  <2> HIDE DEF plan
  <2> QED BY <1>2, <2>2, <2>3, PublishMoves
<1> QED BY <1>4, <1>5

\* Exec takes what was archived for the account.
LEMMA ExecKeeps ==
  ASSUME RulesInv, NEW id \in Rules!Ids, Rules!WriteExec(id) \/ Rules!WriteFails(id)
  PROVE  RulesInv'
<1>1. /\ id \in DOMAIN request.plan /\ request' = Rules!Rest(id)
      /\ Rules!rulesSide' = Rules!rulesSide
      /\ UNCHANGED <<catalog, shares, archived, host, traded, ruleTime>>
  BY DEF Rules!WriteExec, Rules!WriteFails, Rules!rulesSide, Rules!listing
<1>2. DOMAIN executed = Rules!Ids /\ ruleTime \in Nat /\ traded \in [DOMAIN QuoteOf -> Nat]
  BY DEF RulesInv, RulesTyped
<1>3. PICK p : p = request.plan[id]
  OBVIOUS
<1> DEFINE e == [p |-> p, input |-> request.input, shares |-> shares[id],
                 age |-> ruleTime - p.at, seen |-> traded, when |-> ruleTime]
<1>4. \/ executed' = executed
      \/ executed' = [executed EXCEPT ![id] = e] /\ Rules!FreshEnough(p)
  BY <1>3 DEF Rules!WriteExec, Rules!WriteFails
<1>5. CASE executed' = executed
  <2>1. ExecutedHolds' /\ DOMAIN executed' = Rules!Ids
    BY <1>1, <1>2, <1>5, ExecutedStays
  <2> QED BY <1>1, <2>1, RestHolds
<1>6. CASE executed' = [executed EXCEPT ![id] = e] /\ Rules!FreshEnough(p)
  <2>1. ASSUME Rules!Account(id).proxied
        PROVE  /\ e.p \in archived[id] /\ e.age <= MaxRuleAge
               /\ \A t \in e.p.targets : e.when - e.seen[t.symbol] <= MaxRuleAge
               /\ Rules!SameExposure(e)
    <3>1. PlanHolds(id, p)
      BY <1>1, <1>3, <2>1 DEF RulesInv, RequestHoldsRules
    <3>2. p.at \in Nat /\ ruleTime - p.at <= MaxRuleAge /\ p \in archived[id]
      BY <1>2, <1>6, <3>1, RulesAssumption DEF PlanHolds, Rules!FreshEnough, Rules!Fresh
    <3>3. ASSUME NEW t \in p.targets PROVE ruleTime - traded[t.symbol] <= MaxRuleAge
      <4>1. PICK q : q = t.symbol
        OBVIOUS
      <4>2. q \in DOMAIN QuoteOf /\ traded[q] >= p.at
        BY <3>1, <4>1 DEF PlanHolds, Traded
      <4>3. traded[q] \in Nat /\ MaxRuleAge \in Nat
        BY <1>2, <4>2, RulesAssumption
      <4> QED BY <1>2, <3>2, <4>1, <4>2, <4>3
    <3>4. Rules!SameExposure(e)
      BY <3>1 DEF PlanHolds, Exposes, Rules!SameExposure
    <3> QED BY <3>2, <3>3, <3>4
  <2> HIDE DEF e
  <2>2. ExecutedHolds'
    <3>1. Rules!Ids' = Rules!Ids /\ \A x : Rules!Account(x)' = Rules!Account(x)
      BY <1>1, SameHost
    <3>2. ASSUME NEW x \in Rules!Ids, Rules!Account(x).proxied, NEW f, f = executed'[x], f.input > 0
          PROVE  /\ f.p \in archived[x] /\ f.age <= MaxRuleAge
                 /\ \A t \in f.p.targets : f.when - f.seen[t.symbol] <= MaxRuleAge
                 /\ Rules!SameExposure(f)
      <4>1. CASE x = id
        BY <1>2, <1>6, <2>1, <3>2, <4>1
      <4>2. CASE x # id
        BY <1>2, <1>6, <3>2, <4>2 DEF RulesInv, ExecutedHolds
      <4> QED BY <4>1, <4>2
    <3> QED BY <1>1, <3>1, <3>2 DEF ExecutedHolds
  <2>3. DOMAIN executed' = Rules!Ids
    BY <1>2, <1>6
  <2> QED BY <1>1, <2>2, <2>3, RestHolds
<1> QED BY <1>4, <1>5, <1>6
-----------------------------------------------------------------------------
\* As time passes, or the tables change, contracts were trading no earlier than before.
LEMMA SeenGrows ==
  ASSUME RulesInv, NEW w \in DOMAIN Worlds, NEW t \in Nat, ruleTime <= t,
         NEW seen, seen = Rules!Seen(w, t)
  PROVE  /\ seen \in [DOMAIN QuoteOf -> Nat]
         /\ \A s \in DOMAIN QuoteOf : traded[s] <= seen[s] /\ seen[s] <= t
         /\ \A s \in DOMAIN QuoteOf : Rules!Trades(w, s) => seen[s] = t
<1>1. /\ traded \in [DOMAIN QuoteOf -> Nat] /\ ruleTime \in Nat
      /\ \A s \in DOMAIN QuoteOf : traded[s] <= ruleTime
  BY DEF RulesInv, RulesTyped
<1>2. seen = [s \in DOMAIN QuoteOf |-> IF Rules!Trades(w, s) THEN t ELSE traded[s]]
  BY DEF Rules!Seen
<1> QED BY <1>1, <1>2

\* Time passes, or the exchanges list and delist contracts.
LEMMA WorldKeeps == RulesInv /\ (Rules!ListingChanges \/ Rules!Tick) => RulesInv'
<1> SUFFICES ASSUME RulesInv, Rules!ListingChanges \/ Rules!Tick PROVE RulesInv'
  OBVIOUS
<1>1. /\ UNCHANGED <<host, stored, held, cache, worker, stray, catalog, shares, request,
                     archived, executed>>
      /\ traded' = Rules!Seen(world', ruleTime')
      /\ \/ ruleTime' = ruleTime /\ world < Len(Worlds) /\ world' = world + 1
         \/ ruleTime' = ruleTime + 1 /\ world' = world /\ worker.page = 1
  BY DEF Rules!ListingChanges, Rules!Tick, Rules!publishing
<1>2. /\ ruleTime \in Nat \ {0} /\ world \in DOMAIN Worlds
      /\ traded \in [DOMAIN QuoteOf -> Nat]
  BY DEF RulesInv, RulesTyped
<1>3. ruleTime' \in Nat \ {0} /\ ruleTime <= ruleTime' /\ world' \in DOMAIN Worlds
  <2>1. DOMAIN Worlds = 1..Len(Worlds) /\ Len(Worlds) \in Nat
    BY RulesAssumption
  <2> QED BY <1>1, <1>2, <2>1
<1>4. PICK w, t, seen : w = world' /\ t = ruleTime' /\ seen = traded'
  OBVIOUS
<1>5. /\ seen \in [DOMAIN QuoteOf -> Nat]
      /\ \A s \in DOMAIN QuoteOf : traded[s] <= seen[s] /\ seen[s] <= t
      /\ \A s \in DOMAIN QuoteOf : Rules!Trades(w, s) => seen[s] = t
  BY <1>1, <1>3, <1>4, SeenGrows
<1>6. /\ Rules!Keys' = Rules!Keys /\ Rules!Ids' = Rules!Ids
      /\ \A id : Rules!Account(id)' = Rules!Account(id)
  BY <1>1, SameHost
<1>7. \A s : SnapshotTrue(s) => SnapshotTrue(s)'
  BY <1>2, <1>4, <1>5, SnapshotStays
<1>8. ASSUME NEW q, NEW n \in Nat, Traded(q, n) PROVE Traded(q, n)'
  BY <1>2, <1>4, <1>5, <1>8 DEF Traded
<1>9. RulesTyped'
  <2>1. \A s \in DOMAIN QuoteOf : Rules!Trades(world, s)' <=> Rules!Trades(w, s)
    BY <1>4 DEF Rules!Trades
  <2> QED BY <1>1, <1>3, <1>4, <1>5, <1>6, <2>1 DEF RulesInv, RulesTyped
<1>10. RulesStored'
  <2>1. ASSUME NEW k \in Rules!Keys
        PROVE  Rules!OwnRules(k, stored[k])' /\ Rules!OwnRules(k, cache[k])'
               /\ SnapshotTrue(cache[k])'
    <3>1. PICK a, c : a = stored[k] /\ c = cache[k]
      OBVIOUS
    <3>2. Rules!OwnRules(k, a) /\ Rules!OwnRules(k, c) /\ SnapshotTrue(c)
      BY <3>1 DEF RulesInv, RulesStored
    <3>3. Rules!OwnRules(k, a)' /\ Rules!OwnRules(k, c)' /\ SnapshotTrue(c)'
      BY <1>1, <1>7, <3>2, OwnStays
    <3> QED BY <1>1, <3>1, <3>3
  <2> QED BY <1>1, <1>6, <2>1 DEF RulesInv, RulesStored
<1>11. WorkerHolds(worker)'
  <2>1. PICK v : v = worker
    OBVIOUS
  <2>2. WorkerHolds(v)
    BY <2>1 DEF RulesInv
  <2>3. \A r \in v.rules : r.status = "Trading" => Traded(r.symbol, ruleTime)'
    <3>1. CASE v.page = 1
      BY <2>2, <3>1 DEF WorkerHolds
    <3>2. CASE v.page # 1
      <4>1. ruleTime' = ruleTime
        BY <1>1, <2>1, <3>2
      <4>2. ASSUME NEW r \in v.rules, r.status = "Trading" PROVE Traded(r.symbol, ruleTime)'
        <5>1. PICK q, n : q = r.symbol /\ n = ruleTime
          OBVIOUS
        <5>2. Traded(q, n) /\ n \in Nat
          BY <1>2, <2>2, <4>2, <5>1 DEF WorkerHolds
        <5>3. Traded(q, n)'
          BY <1>8, <5>2
        <5> QED BY <4>1, <5>1, <5>3
      <4> QED BY <4>2
    <3> QED BY <3>1, <3>2
  <2>4. WorkerHolds(v)'
    <3>1. v.stage \in {"set", "confirm"} =>
            (Rules!OwnRules(Head(v.todo), v.snapshot) /\ SnapshotTrue(v.snapshot))'
      BY <1>1, <1>7, <2>2, OwnStays DEF WorkerHolds
    <3>2. \A s \in v.shared : (s.backend = "native" /\ s.portfolio = "" /\ SnapshotTrue(s))'
      BY <1>7, <2>2 DEF WorkerHolds
    <3> QED BY <1>6, <2>2, <2>3, <3>1, <3>2 DEF WorkerHolds
  <2> QED BY <1>1, <2>1, <2>4
<1>12. StraysHold'
  BY <1>1, OwnStays DEF RulesInv, StraysHold
<1>13. RequestHoldsRules'
  <2>1. ASSUME NEW id \in DOMAIN request.plan, Rules!Account(id).proxied
        PROVE  PlanHolds(id, request.plan[id])'
    <3>1. PICK p : p = request.plan[id]
      OBVIOUS
    <3>2. PlanHolds(id, p)
      BY <2>1, <3>1 DEF RulesInv, RequestHoldsRules
    <3>3. \A x \in p.targets : Traded(x.symbol, p.at)'
      BY <1>8, <3>2 DEF PlanHolds
    <3>4. PlanHolds(id, p)'
      BY <1>1, <3>2, <3>3 DEF PlanHolds
    <3> QED BY <1>1, <3>1, <3>4
  <2> QED BY <1>1, <1>6, <2>1 DEF RequestHoldsRules
<1>14. ExecutedHolds'
  BY <1>1, ExecutedStays
<1> QED BY <1>9, <1>10, <1>11, <1>12, <1>13, <1>14 DEF RulesInv

\* A restart loses the copy, the round and the request.
LEMMA RestartForgets == RulesInv /\ Rules!Restart => RulesInv'
<1> SUFFICES ASSUME RulesInv, Rules!Restart PROVE RulesInv'
  OBVIOUS
<1>1. /\ UNCHANGED <<host, world, traded, ruleTime, stored, held, stray, catalog, shares,
                     archived, executed>>
      /\ cache' = [k \in Rules!Keys |-> Rules!NoRules] /\ worker' = Rules!Idle
      /\ request' = Rules!Free
  BY DEF Rules!Restart, Rules!listing
<1>2. /\ Rules!Keys' = Rules!Keys /\ Rules!Ids' = Rules!Ids
      /\ \A id : Rules!Account(id)' = Rules!Account(id)
  BY <1>1, SameHost
<1>3. Rules!NoRules.at = 0 /\ SnapshotTrue(Rules!NoRules)
  BY DEF Rules!NoRules, SnapshotTrue
<1>4. Rules!Free = [input |-> 0, plan |-> Rules!Free.plan] /\ DOMAIN Rules!Free.plan = {}
  BY DEF Rules!Free
<1>5. RulesTyped'
  BY <1>1, <1>2, <1>4 DEF RulesInv, RulesTyped
<1>6. RulesStored'
  <2>1. PICK none : none = Rules!NoRules
    OBVIOUS
  <2>2. none.at = 0 /\ SnapshotTrue(none)' /\ \A k \in Rules!Keys : cache'[k] = none
    BY <1>1, <1>3, <2>1 DEF SnapshotTrue, Traded
  <2>3. \A k : Rules!OwnRules(k, none)'
    BY <1>1, <2>1, NoneOwned, OwnStays
  <2>4. ASSUME NEW k \in Rules!Keys PROVE Rules!OwnRules(k, stored[k])'
    <3>1. PICK a : a = stored[k]
      OBVIOUS
    <3>2. Rules!OwnRules(k, a)'
      BY <1>1, <3>1, OwnStays DEF RulesInv, RulesStored
    <3> QED BY <1>1, <3>1, <3>2
  <2>5. ASSUME NEW k \in Rules!Keys
        PROVE  Rules!OwnRules(k, cache[k])' /\ SnapshotTrue(cache[k])'
    <3>1. cache'[k] = none
      BY <2>2
    <3> QED BY <2>2, <2>3, <3>1
  <2>6. \A k \in Rules!Keys : cache'[k].at = 0 /\ (stored'[k].at > 0 => stored'[k] \in held'[k])
    BY <1>1, <2>2 DEF RulesInv, RulesStored
  <2> QED BY <1>2, <2>4, <2>5, <2>6 DEF RulesStored
<1>7. WorkerHolds(worker)'
  <2>1. PICK w : w = Rules!Idle
    OBVIOUS
  <2>2. WorkerHolds(w)' /\ worker' = w
    BY <1>1, <2>1 DEF WorkerHolds, Rules!Idle
  <2> QED BY <2>2
<1>8. StraysHold'
  BY <1>1, OwnStays DEF RulesInv, StraysHold
<1>9. RequestHoldsRules'
  BY <1>1, <1>4 DEF RequestHoldsRules
<1>10. ExecutedHolds'
  BY <1>1, ExecutedStays
<1> QED BY <1>5, <1>6, <1>7, <1>8, <1>9, <1>10 DEF RulesInv

\* At the start nothing is stored, held or executed.
LEMMA RulesStart == Rules!RulesInit => RulesInv
<1> SUFFICES ASSUME Rules!RulesInit PROVE RulesInv
  OBVIOUS
<1> USE DEF Rules!RulesInit
<1>1. Rules!NoRules.at = 0 /\ SnapshotTrue(Rules!NoRules)
  BY DEF Rules!NoRules, SnapshotTrue
<1>2. Rules!Free = [input |-> 0, plan |-> Rules!Free.plan] /\ DOMAIN Rules!Free.plan = {}
  BY DEF Rules!Free
<1>3. \A id \in Rules!Ids : Rules!Account(id).shares \in Nat
  <2>1. ASSUME NEW id \in Rules!Ids PROVE Rules!Account(id).shares \in Nat
    <3>1. PICK i \in DOMAIN host : host[i].id = id
      BY DEF Rules!Ids
    <3>2. PICK j \in DOMAIN host : Rules!Account(id) = host[j]
      BY <3>1 DEF Rules!Account
    <3> QED BY <3>2, RulesAssumption
  <2> QED BY <2>1
<1>4. RulesTyped
  <2>1. world \in DOMAIN Worlds /\ catalog \in DOMAIN Inputs
    BY RulesAssumption
  <2> QED BY <1>2, <1>3, <2>1 DEF RulesTyped
<1>5. RulesStored
  <2>1. ASSUME NEW k \in Rules!Keys PROVE stored[k] = Rules!NoRules /\ cache[k] = Rules!NoRules
    OBVIOUS
  <2>2. ASSUME NEW k \in Rules!Keys
        PROVE  /\ stored[k].at = 0 /\ cache[k].at = 0 /\ SnapshotTrue(cache[k])
               /\ Rules!OwnRules(k, stored[k]) /\ Rules!OwnRules(k, cache[k])
    BY <2>1, NoneOwned
  <2> QED BY <2>2 DEF RulesStored
<1>6. WorkerHolds(worker)
  BY IdleWorks
<1>7. StraysHold /\ RequestHoldsRules /\ ExecutedHolds
  BY <1>2 DEF StraysHold, RequestHoldsRules, ExecutedHolds
<1> QED BY <1>4, <1>5, <1>6, <1>7 DEF RulesInv

\* Every step of the market rules keeps the invariant.
LEMMA RulesStep == RulesInv /\ Rules!RulesNext => RulesInv'
<1> SUFFICES ASSUME RulesInv, Rules!RulesNext PROVE RulesInv'
  OBVIOUS
<1>1. ASSUME NEW i \in DOMAIN Inputs, Rules!Push(i) PROVE RulesInv'
  BY <1>1, PushKeeps
<1>2. ASSUME NEW id \in Rules!Ids, Rules!PublishAgain(id) PROVE RulesInv'
  <2>1. 0 \in 0..2
    OBVIOUS
  <2> QED BY <1>2, <2>1, HandKeeps
<1>3. ASSUME NEW id \in Rules!Ids, NEW n \in 0..2, Rules!SaveShares(id, n) PROVE RulesInv'
  BY <1>3, HandKeeps
<1>4. ASSUME NEW id \in Rules!Ids, Rules!WriteExec(id) \/ Rules!WriteFails(id) PROVE RulesInv'
  BY <1>4, ExecKeeps
<1> QED BY <1>1, <1>2, <1>3, <1>4, StartRoundKeeps, ReuseKeeps, BybitKeeps, PublicKeeps,
           RapidXKeeps, FailsKeeps, WritesKeepRules, WorldKeeps, RestartForgets
        DEF Rules!RulesNext

\* The invariant says what the run checks.
LEMMA RulesSaySo == RulesInv => Rules!RulesHold
BY DEF RulesInv, RulesStored, ExecutedHolds, Rules!RulesHold

\* Every step of the host keeps the invariant.
LEMMA RulesHostStep ==
  (part = "rules" => RulesInv) /\ [Next]_hostVars => (part = "rules" => RulesInv)'
<1> SUFFICES ASSUME part = "rules" => RulesInv, [Next]_hostVars, part' = "rules"
             PROVE  RulesInv'
  OBVIOUS
<1>1. CASE RulesSteps
  BY <1>1, RulesStep DEF RulesSteps
<1>2. CASE UNCHANGED hostVars
  <2>1. UNCHANGED <<part, host, world, traded, ruleTime, stored, held, cache, worker, stray,
                    catalog, shares, request, archived, executed>>
    BY <1>2 DEF hostVars, rulesVars
  <2>2. PICK w : w = worker
    OBVIOUS
  <2>3. WorkerHolds(w) /\ worker' = w
    BY <2>1, <2>2 DEF RulesInv
  <2> QED BY <2>1, <2>3, WorkerMoves
<1>3. ASSUME \/ KlineSteps \/ IncomeSteps \/ RatesSteps \/ EarnSteps \/ WatchSteps
             \/ AccessSteps \/ ExchangeSteps \/ OrderSteps \/ TheorySteps \/ OverviewSteps
             \/ ChartsSteps
      PROVE  part # "rules" /\ part' = part
  BY <1>3 DEF KlineSteps, IncomeSteps, RatesSteps, EarnSteps, WatchSteps, AccessSteps,
              ExchangeSteps, OrderSteps, TheorySteps, OverviewSteps, ChartsSteps
<1> QED BY <1>1, <1>2, <1>3 DEF Next

\* What is projected is the account's own and young: the rules a publish may use were read
\* back from Redis and belong to the account, and what Exec was given of a proxied account
\* was archived before, with rules young enough at the write, in contracts that traded no
\* longer ago, at the exposure asked for, each input once (market_rules.rs refresh_all,
\* redis_runtime.rs publish_market_rules, target_proxy.rs project, web/target_state.rs
\* publish).
THEOREM RulesObeyed == Spec => []RulesHold
<1>1. Init => (part = "rules" => RulesInv)
  BY RulesStart DEF Init
<1>2. (part = "rules" => RulesInv) /\ [Next]_hostVars => (part = "rules" => RulesInv)'
  BY RulesHostStep
<1>3. (part = "rules" => RulesInv) => RulesHold
  BY RulesSaySo DEF RulesHold
<1> QED BY <1>1, <1>2, <1>3, PTL DEF Spec
=============================================================================
