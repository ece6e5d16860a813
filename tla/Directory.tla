----------------------------- MODULE Directory -----------------------------
(***************************************************************************)
(* Users, grants, strategies and templates in PostgreSQL, and the copy of  *)
(* them publishes are decided by (auth.rs, strategy_catalog.rs, the        *)
(* handlers of web.rs, web/target_state.rs).                               *)
(*                                                                         *)
(* A configuration request is let in by the middleware with the user and   *)
(* the account access of that moment, then waits for the configuration     *)
(* lock. Its handler runs alone: the lock closes the copy (edit), the      *)
(* handler changes the database, and a reload opens the copy again.        *)
(* Logins, logouts and registrations read the user under the lock.         *)
(* Account grants are not in the copy and take no lock.                    *)
(* A publish takes its session from the copy when it arrives and is        *)
(* decided by the copy when its lease is granted.                          *)
(*                                                                         *)
(* A value that may be missing is a set of at most one element. Passwords, *)
(* names and notes are left out; so is the experimental-algorithm header,  *)
(* an input every request may carry.                                       *)
(***************************************************************************)
EXTENDS Naturals, FiniteSets

CONSTANTS
  Users, Cookies, Tokens, Strategies, Templates, Accounts, Fees,
  Viewers,     \* [Accounts -> SUBSET SUBSET Users]: who a host limits an account to
  MaxEdits,    \* bound: configuration requests let in
  MaxPublishes \* bound: publishes that arrive

VARIABLES
  roles,       \* [Users -> "none", "user" or "admin"]
  sessions,    \* cookie -> user, the stored sessions
  lapsed,      \* cookies past their time
  grants,      \* <<user, account, level>>
  rows,        \* position strategy -> its row, access and override
  templates,   \* order strategy -> who created it
  bound,       \* <<account, position strategy, order strategy>>
  fallback,    \* publish tokens that open every strategy
  fees,        \* [Accounts -> Fees]
  directory,   \* the copy
  live,        \* position strategy -> override of its live target
  ready,       \* the copy may be used
  reload,      \* a reload is due
  waiting,     \* configuration requests before the lock
  arrived,     \* publishes before their lease
  used         \* [edits, publishes]: requests so far

Levels == {"view", "configure"}
AtMostOne(S) == {s \in SUBSET S : Cardinality(s) <= 1}
Lookup(f, k) == IF k \in DOMAIN f THEN {f[k]} ELSE {}

RowType == [by: AtMostOne(Users), token: AtMostOne(Tokens), open: BOOLEAN,
            managers: SUBSET Users, grants: SUBSET (Users \X Levels),
            override: AtMostOne(Templates)]
Kinds == {"user", "role", "token", "managers", "grants", "fallback", "delete",
          "template", "bind", "fees", "sources", "account"}

database == <<roles, sessions, lapsed, grants, rows, templates, bound, fallback, fees>>

----------------------------------------------------------------------------
(* Who may do what.                                                         *)

Existing == {u \in Users : roles[u] # "none"}
Admins == {u \in Users : roles[u] = "admin"}

\* load_session: the user behind a cookie that is stored and not past its time.
SessionUser(cookie) == IF cookie \in lapsed THEN {} ELSE Lookup(sessions, cookie)

\* The accounts no host hides from a user.
Boundary(u) == {x \in Accounts : \A names \in Viewers[x] : u \in names}

\* Accounts u may read, and those u may also write.
ViewAccess(u) ==
  {x \in Boundary(u) : u \in Admins \/ \E l \in Levels : <<u, x, l>> \in grants}
ConfigureAccess(u) ==
  {x \in Boundary(u) : u \in Admins \/ <<u, x, "configure">> \in grants}

CanPublish(row, u) == u \in row.by \cup row.managers
CanConfigure(row, u) == CanPublish(row, u) \/ <<u, "configure">> \in row.grants

\* A publish: its session as the middleware found it, or a token; a strategy
\* without a token is open to machines.
Allowed(p, row, common) ==
  \/ \E who \in p.who : who.admin \/ CanConfigure(row, who.user)
  \/ \E t \in p.token : t \in row.token \cup common
  \/ p.who = {} /\ row.token = {}

----------------------------------------------------------------------------
(* The copy.                                                                *)

\* The database as a load copies it: sessions with their users' roles.
Loaded(newRows) ==
  [sessions |-> [c \in DOMAIN sessions \ lapsed |->
                   [user |-> sessions[c], admin |-> roles[sessions[c]] = "admin"]],
   entries |-> newRows, templates |-> DOMAIN templates, bound |-> bound,
   fallback |-> fallback, fees |-> fees]

\* A load never replaces a live target by the row behind it.
Recovered(newRows) ==
  [s \in DOMAIN newRows |-> IF s \in DOMAIN live THEN live[s] ELSE newRows[s].override]

\* Fault: the handler takes the configuration lock without closing the copy.
EditedOpen == UNCHANGED <<ready, reload>>

\* The guard of an edit closes the copy and asks for a reload when it is dropped.
Edited == ready' = FALSE /\ reload' = TRUE

\* The reload runs under the lock and is repeated until it succeeds.
Reload ==
  /\ reload
  /\ reload' = FALSE /\ ready' = TRUE
  /\ directory' = Loaded(rows) /\ live' = Recovered(rows)
  /\ UNCHANGED <<database, waiting, arrived, used>>

\* The live target reaches its row.
Mirror(s) ==
  /\ s \in DOMAIN live /\ s \in DOMAIN rows /\ rows[s].override # live[s]
  /\ rows' = [rows EXCEPT ![s].override = live[s]]
  /\ UNCHANGED <<roles, sessions, lapsed, grants, templates, bound, fallback, fees,
                 directory, live, ready, reload, waiting, arrived, used>>

----------------------------------------------------------------------------
(* Publishes.                                                               *)

PublishArrives(s, cookie, token, override) ==
  /\ used.publishes < MaxPublishes
  /\ cookie # {} => ready
  /\ used' = [used EXCEPT !.publishes = @ + 1]
  /\ LET who == UNION {Lookup(directory.sessions, c) : c \in cookie \ lapsed}
     IN arrived' = arrived \cup {[strategy |-> s, who |-> who, token |-> token,
                                  override |-> override]}
  /\ UNCHANGED <<database, directory, live, ready, reload, waiting>>

Published(p, row, known, common) ==
  Allowed(p, row, common) /\ p.override \subseteq known

\* A name the copy does not know: a user creates it, an existing row is kept.
Created(p) ==
  [s \in DOMAIN rows \cup {p.strategy} |->
     IF s \in DOMAIN rows THEN rows[s]
     ELSE [by |-> {who.user : who \in p.who}, token |-> {}, open |-> FALSE,
           managers |-> {}, grants |-> {}, override |-> p.override]]

PublishCreates(p) ==
  /\ p \in arrived /\ arrived' = arrived \ {p}
  /\ ready /\ p.strategy \notin DOMAIN directory.entries
  /\ p.who # {} /\ p.override \subseteq directory.templates
  /\ rows' = Created(p)
  /\ \/ UNCHANGED <<directory, live>>    \* the load failed: an error is answered
     \/ /\ directory' = Loaded(rows')
        /\ live' = IF Published(p, rows'[p.strategy], directory'.templates, fallback)
                   THEN [Recovered(rows') EXCEPT ![p.strategy] = p.override]
                   ELSE Recovered(rows')
  /\ UNCHANGED <<roles, sessions, lapsed, grants, templates, bound, fallback, fees,
                 ready, reload, waiting, used>>

PublishTo(p) ==
  /\ p \in arrived /\ arrived' = arrived \ {p}
  /\ ready /\ p.strategy \in DOMAIN directory.entries
  /\ Published(p, directory.entries[p.strategy], directory.templates, directory.fallback)
  /\ live' = [live EXCEPT ![p.strategy] = p.override]
  /\ UNCHANGED <<database, directory, ready, reload, waiting, used>>

\* Forbidden, a bad override, or the configuration is changing.
PublishRefused(p) ==
  /\ p \in arrived /\ arrived' = arrived \ {p}
  /\ IF ~ready THEN TRUE
     ELSE IF p.strategy \in DOMAIN directory.entries
     THEN ~Published(p, directory.entries[p.strategy], directory.templates, directory.fallback)
     ELSE p.who = {} \/ ~(p.override \subseteq directory.templates)
  /\ UNCHANGED <<database, directory, live, ready, reload, waiting, used>>

----------------------------------------------------------------------------
(* Requests and their edits.                                                *)

\* The writes an account's path guards, and those any user may attempt.
OnAccount == {"bind", "fees", "account"}
AnyUser == {"template", "grants"}

\* The middleware: the session's user, with the access of this moment.
Request(cookie, kind, x) ==
  /\ used.edits < MaxEdits /\ used' = [used EXCEPT !.edits = @ + 1]
  /\ \E u \in SessionUser(cookie) :
       /\ kind \in OnAccount => x \in ViewAccess(u) /\ x \in ConfigureAccess(u)
       /\ kind \notin OnAccount \cup AnyUser => u \in Admins
       /\ waiting' = waiting \cup {[user |-> u, admin |-> u \in Admins, kind |-> kind,
                                    account |-> x, visible |-> ViewAccess(u)]}
  /\ UNCHANGED <<database, directory, live, ready, reload, arrived>>

Taken(r, kind) == r \in waiting /\ r.kind = kind /\ waiting' = waiting \ {r}

\* The handler answers an error and changes nothing; the copy is reloaded all
\* the same.
Refused(r) ==
  /\ r \in waiting /\ waiting' = waiting \ {r}
  /\ IF r.kind \in {"sources", "account"} THEN UNCHANGED <<ready, reload>> ELSE Edited
  /\ UNCHANGED <<database, directory, live, arrived, used>>

\* A session is stored; those past their time are removed.
NewSession(u, cookie) ==
  /\ sessions' = [c \in (DOMAIN sessions \ lapsed) \cup {cookie} |->
                    IF c = cookie THEN u ELSE sessions[c]]
  /\ lapsed' = lapsed \ {cookie}

\* Registration creates the first administrator; once users exist only an
\* administrator registers more. The session may fail after the user is stored.
Register(u, cookie, own) ==
  /\ used.edits < MaxEdits /\ used' = [used EXCEPT !.edits = @ + 1]
  /\ roles[u] = "none" /\ cookie \notin DOMAIN sessions
  /\ Existing # {} => \E c \in own : SessionUser(c) \cap Admins # {}
  /\ roles' = [roles EXCEPT ![u] = IF Existing = {} THEN "admin" ELSE "user"]
  /\ \/ UNCHANGED <<sessions, lapsed>>
     \/ NewSession(u, cookie)
  /\ Edited
  /\ UNCHANGED <<grants, rows, templates, bound, fallback, fees, directory,
                 live, waiting, arrived>>

Login(u, cookie) ==
  /\ used.edits < MaxEdits /\ used' = [used EXCEPT !.edits = @ + 1]
  /\ u \in Existing /\ cookie \notin DOMAIN sessions
  /\ NewSession(u, cookie)
  /\ Edited
  /\ UNCHANGED <<roles, grants, rows, templates, bound, fallback, fees, directory,
                 live, waiting, arrived>>

Logout(cookie) ==
  /\ used.edits < MaxEdits /\ used' = [used EXCEPT !.edits = @ + 1]
  /\ cookie \in DOMAIN sessions
  /\ sessions' = [c \in DOMAIN sessions \ {cookie} |-> sessions[c]]
  /\ Edited
  /\ UNCHANGED <<roles, lapsed, grants, rows, templates, bound, fallback, fees,
                 directory, live, waiting, arrived>>

Lapse(cookie) ==
  /\ cookie \in DOMAIN sessions \ lapsed
  /\ lapsed' = lapsed \cup {cookie}
  /\ UNCHANGED <<roles, sessions, grants, rows, templates, bound, fallback, fees,
                 directory, live, ready, reload, waiting, arrived, used>>

CreateUser(r, u, role) ==
  /\ Taken(r, "user") /\ r.admin /\ roles[u] = "none"
  /\ roles' = [roles EXCEPT ![u] = role]
  /\ Edited
  /\ UNCHANGED <<sessions, lapsed, grants, rows, templates, bound, fallback, fees,
                 directory, live, arrived, used>>

\* The last administrator cannot be demoted.
Demotable(u) == Cardinality(Admins) > 1

SetRole(r, u, role) ==
  /\ Taken(r, "role") /\ r.admin /\ u \in Existing
  /\ u \in Admins /\ role = "user" => Demotable(u)
  /\ roles' = [roles EXCEPT ![u] = role]
  /\ Edited
  /\ UNCHANGED <<sessions, lapsed, grants, rows, templates, bound, fallback, fees,
                 directory, live, arrived, used>>

\* A user's grants on the accounts the administrator sees; hidden ones survive.
SetSources(r, u, given) ==
  /\ Taken(r, "sources") /\ r.admin /\ u \in Existing
  /\ \A g \in given : g[1] \in r.visible
  /\ grants' = {g \in grants : g[1] # u \/ g[2] \notin r.visible}
                 \cup {<<u, g[1], g[2]>> : g \in given}
  /\ UNCHANGED <<roles, sessions, lapsed, rows, templates, bound, fallback, fees,
                 directory, live, ready, reload, arrived, used>>

\* All grants of an account; its manager stays one.
SetAccountGrants(r, given) ==
  /\ Taken(r, "account")
  /\ r.admin \/ <<r.user, "configure">> \in given
  /\ \A g \in given : g[1] \in Existing
  /\ grants' = {g \in grants : g[2] # r.account}
                 \cup {<<g[1], r.account, g[2]>> : g \in given}
  /\ UNCHANGED <<roles, sessions, lapsed, rows, templates, bound, fallback, fees,
                 directory, live, ready, reload, arrived, used>>

\* An edit of one strategy's row.
Row(s, new) ==
  /\ s \in DOMAIN rows /\ rows' = [rows EXCEPT ![s] = new]
  /\ Edited
  /\ UNCHANGED <<roles, sessions, lapsed, grants, templates, bound, fallback, fees,
                 directory, live, arrived, used>>

SetPublishToken(r, s, token) ==
  /\ Taken(r, "token") /\ s \in DOMAIN rows
  /\ Row(s, [rows[s] EXCEPT !.token = token])

SetManagers(r, s, managers) ==
  /\ Taken(r, "managers") /\ s \in DOMAIN rows /\ managers \subseteq Existing
  /\ Row(s, [rows[s] EXCEPT !.managers = managers])

\* Holders of the strategy's configure grant hand it on, but neither change its
\* visibility nor drop their own grant.
MayGrant(r, row, given, open) ==
  r.admin \/ /\ CanConfigure(row, r.user) /\ open = row.open
             /\ CanPublish(row, r.user) \/ <<r.user, "configure">> \in given

SetGrants(r, s, given, open) ==
  /\ Taken(r, "grants") /\ s \in DOMAIN rows
  /\ \A g \in given : g[1] \in Existing
  /\ MayGrant(r, rows[s], given, open)
  /\ Row(s, [rows[s] EXCEPT !.grants = given, !.open = open])

DeleteStrategy(r, s) ==
  /\ Taken(r, "delete") /\ s \in DOMAIN rows
  /\ \A b \in bound : b[2] # s
  /\ rows' = [q \in DOMAIN rows \ {s} |-> rows[q]]
  /\ Edited
  /\ UNCHANGED <<roles, sessions, lapsed, grants, templates, bound, fallback, fees,
                 directory, live, arrived, used>>

AddFallback(r, token) ==
  /\ Taken(r, "fallback") /\ token \notin fallback
  /\ fallback' = fallback \cup {token}
  /\ Edited
  /\ UNCHANGED <<roles, sessions, lapsed, grants, rows, templates, bound, fees,
                 directory, live, arrived, used>>

DeleteFallback(r, token) ==
  /\ Taken(r, "fallback") /\ token \in fallback
  /\ fallback' = fallback \ {token}
  /\ Edited
  /\ UNCHANGED <<roles, sessions, lapsed, grants, rows, templates, bound, fees,
                 directory, live, arrived, used>>

\* A template belongs to who created it, and to all administrators.
Owns(r, t) == \A owner \in Lookup(templates, t) : r.admin \/ r.user = owner

SaveTemplate(r, t) ==
  /\ Taken(r, "template") /\ Owns(r, t)
  /\ templates' = [n \in DOMAIN templates \cup {t} |->
                     IF n \in DOMAIN templates THEN templates[n] ELSE r.user]
  /\ Edited
  /\ UNCHANGED <<roles, sessions, lapsed, grants, rows, bound, fallback, fees,
                 directory, live, arrived, used>>

\* Fault: only the stored targets are asked whether they use the template.
UsedByRows(t) == \E s \in DOMAIN rows : t \in rows[s].override

\* A target uses the template: the live one where there is one, and the row.
Used(t) ==
  \E s \in DOMAIN rows :
    t \in rows[s].override \cup UNION Lookup(live, s)

DeleteTemplate(r, t) ==
  /\ Taken(r, "template") /\ Owns(r, t) /\ t \in DOMAIN templates
  /\ ~Used(t) /\ \A b \in bound : b[3] # t
  /\ templates' = [n \in DOMAIN templates \ {t} |-> templates[n]]
  /\ Edited
  /\ UNCHANGED <<roles, sessions, lapsed, grants, rows, bound, fallback, fees,
                 directory, live, arrived, used>>

BoundTo(x) == {b \in bound : b[1] = x}

\* A new binding needs the strategy's configure grant; an existing one keeps its
\* strategy.
MayBind(r, s) ==
  IF BoundTo(r.account) = {} THEN r.admin \/ CanConfigure(rows[s], r.user)
  ELSE \A b \in BoundTo(r.account) : b[2] = s

Bind(r, s, t) ==
  /\ Taken(r, "bind") /\ s \in DOMAIN rows /\ t \in DOMAIN templates
  /\ MayBind(r, s)
  /\ bound' = (bound \ BoundTo(r.account)) \cup {<<r.account, s, t>>}
  /\ Edited
  /\ UNCHANGED <<roles, sessions, lapsed, grants, rows, templates, fallback, fees,
                 directory, live, arrived, used>>

\* A binding without shares is deleted.
Unbind(r) ==
  /\ Taken(r, "bind")
  /\ bound' = bound \ BoundTo(r.account)
  /\ Edited
  /\ UNCHANGED <<roles, sessions, lapsed, grants, rows, templates, fallback, fees,
                 directory, live, arrived, used>>

SaveFees(r, rate) ==
  /\ Taken(r, "fees") /\ fees' = [fees EXCEPT ![r.account] = rate]
  /\ Edited
  /\ UNCHANGED <<roles, sessions, lapsed, grants, rows, templates, bound, fallback,
                 directory, live, arrived, used>>

\* The process restarts: requests are gone, live targets are in RocksDB.
Restart ==
  /\ waiting' = {} /\ arrived' = {} /\ ready' = FALSE /\ reload' = TRUE
  /\ UNCHANGED <<database, directory, live, used>>

----------------------------------------------------------------------------

\* An empty database, or one an administrator has set up and published to; users
\* differ in nothing but their names, so it is always the same one.
DirectoryInit ==
  /\ \E admin \in AtMostOne(Users), cookie \in Cookies :
       /\ \A u \in admin : u = CHOOSE first \in Users : TRUE
       /\ roles = [u \in Users |-> IF u \in admin THEN "admin" ELSE "none"]
       /\ sessions = [c \in {c \in {cookie} : admin # {}} |-> CHOOSE u \in admin : TRUE]
       /\ templates = [t \in {t \in Templates : admin # {}} |-> CHOOSE u \in admin : TRUE]
  /\ fees = [x \in Accounts |-> CHOOSE rate \in Fees : TRUE]
  /\ rows \in {<<>>, [s \in Strategies |-> [by |-> Admins, token |-> {}, open |-> FALSE,
                                           managers |-> {}, grants |-> {}, override |-> {}]]}
  /\ rows # <<>> => Admins # {}
  /\ grants = {} /\ bound = {} /\ fallback = {} /\ lapsed = {}
  /\ directory = [sessions |-> <<>>, entries |-> <<>>, templates |-> {}, bound |-> {},
                  fallback |-> {}, fees |-> <<>>]
  /\ live = <<>> /\ ready = FALSE /\ reload = TRUE
  /\ waiting = {} /\ arrived = {} /\ used = [edits |-> 0, publishes |-> 0]

Sessions ==
  \/ \E u \in Users, c \in Cookies : Login(u, c)
  \/ \E u \in Users, c \in Cookies, own \in AtMostOne(Cookies) : Register(u, c, own)
  \/ \E c \in Cookies : Logout(c) \/ Lapse(c)

UserEdits(r) ==
  \/ \E u \in Users, role \in {"user", "admin"} : CreateUser(r, u, role) \/ SetRole(r, u, role)
  \/ \E u \in Users, given \in SUBSET (Accounts \X Levels) : SetSources(r, u, given)

StrategyEdits(r) ==
  \E s \in Strategies :
    \/ DeleteStrategy(r, s)
    \/ \E token \in AtMostOne(Tokens) : SetPublishToken(r, s, token)
    \/ \E managers \in SUBSET Users : SetManagers(r, s, managers)
    \/ /\ r.kind = "grants"
       /\ \E given \in SUBSET (Users \X Levels), open \in BOOLEAN : SetGrants(r, s, given, open)

FallbackEdits(r) == \E token \in Tokens : AddFallback(r, token) \/ DeleteFallback(r, token)

TemplateEdits(r) == \E t \in Templates : SaveTemplate(r, t) \/ DeleteTemplate(r, t)

AccountEdits(r) ==
  \/ Unbind(r)
  \/ r.kind = "account" /\ \E given \in SUBSET (Users \X Levels) : SetAccountGrants(r, given)
  \/ \E s \in Strategies, t \in Templates : Bind(r, s, t)
  \/ \E rate \in Fees : SaveFees(r, rate)

Edits(r) ==
  \/ Refused(r) \/ UserEdits(r) \/ StrategyEdits(r) \/ FallbackEdits(r)
  \/ TemplateEdits(r) \/ AccountEdits(r)

Publishes ==
  \/ \E p \in arrived : PublishCreates(p) \/ PublishTo(p) \/ PublishRefused(p)
  \/ \E s \in Strategies, cookie \in AtMostOne(Cookies), token \in AtMostOne(Tokens),
        override \in AtMostOne(Templates) : PublishArrives(s, cookie, token, override)

DirectoryNext ==
  \/ Reload \/ Restart \/ Sessions \/ Publishes
  \/ \E s \in Strategies : Mirror(s)
  \/ \E c \in Cookies, kind \in Kinds, x \in Accounts : Request(c, kind, x)
  \/ \E r \in waiting : Edits(r)

DirectoryTypeOK ==
  /\ roles \in [Users -> {"none", "user", "admin"}]
  /\ DOMAIN sessions \subseteq Cookies /\ lapsed \subseteq Cookies
  /\ \A c \in DOMAIN sessions : sessions[c] \in Existing
  /\ grants \subseteq Users \X Accounts \X Levels
  /\ \A s \in DOMAIN rows : rows[s] \in RowType
  /\ \A s \in DOMAIN live : live[s] \in AtMostOne(Templates)
  /\ ready \in BOOLEAN /\ reload \in BOOLEAN

----------------------------------------------------------------------------

\* While publishes are decided by the copy it says what the database says: no
\* session, grant, token, template, binding or fee that was revoked or changed by
\* an answered request. A strategy whose creation failed to load may be missing.
DirectoryCurrent ==
  ready =>
    LET now == Loaded(rows)
    IN /\ [now EXCEPT !.entries = {}, !.sessions = {}] =
          [directory EXCEPT !.entries = {}, !.sessions = {}]
       /\ \A c \in DOMAIN directory.sessions \ lapsed :
            Lookup(now.sessions, c) = {directory.sessions[c]}
       /\ \A s \in DOMAIN directory.entries :
            /\ s \in DOMAIN rows
            /\ [rows[s] EXCEPT !.override = {}] = [directory.entries[s] EXCEPT !.override = {}]

\* Every override, live or stored, names a template that exists, and where there
\* are users there is an administrator.
NothingDangles ==
  /\ \A s \in DOMAIN rows :
       rows[s].override \cup UNION Lookup(live, s) \subseteq DOMAIN templates
  /\ Existing # {} => Admins # {}
============================================================================
