------------------------------ MODULE AccountRows ------------------------------
(***************************************************************************)
(* Account rows and their recovery files: import (import/service.ts,       *)
(* ipc.ts), the routing form and removal (vault/ipc.ts), the consent to a  *)
(* proxy (net/proxy-consent.ts) and the publication of recovery files      *)
(* (vault/recovery-state.ts, recovery.ts).  A version of the secrets is an *)
(* authenticator, with or without its revocation code.  Saves of the vault *)
(* and every call on the recovery directory are synchronous: what waits is *)
(* a dialog.  The reservation a change needs (KeyCoordinator) is taken and *)
(* given back inside its step; a change it refuses is one not taken.       *)
(***************************************************************************)
EXTENDS Naturals, Functions

CONSTANTS
  Accounts,   \* SteamIDs
  Proxies,    \* the proxies a file or the user may name
  Direct,     \* the route that uses none
  Torn,       \* a file cut short
  None,
  Versions,   \* the secrets of an account: numbers, read by Auth and HasCode
  MaxFaults,  \* bound: failed calls and crashes
  MaxCopies   \* bound: files beside the first one of an authenticator

VARIABLES
  unlocked,
  row,       \* per account, its secrets, route and recovery marker, or None
  files,     \* the recovery directory: what is published, by name
  stages,    \* complete stages: what is to be published, by name
  approved,  \* ProxyConsent.approved
  asked,     \* what waits for a dialog about a proxy, or None
  faults,
  allowed,   \* history: what was agreed to, while it is approved or stored
  safe       \* history: versions reported backed up since a vault was replaced

disk == <<files, stages>>
consent == <<approved, allowed>>
vars == <<unlocked, row, disk, consent, asked, faults, safe>>

Routes == Proxies \cup {Direct}
Auth(v) == v \div 2
HasCode(v) == v % 2 = 1
Version(auth, code) == 2 * auth + IF code THEN 1 ELSE 0

Name(a, v, copy) == [account |-> a, auth |-> Auth(v), copy |-> copy]
SameAuth(r, s) == Auth(r.of) = Auth(s.of)
Body(r) == [of |-> r.of, route |-> r.route]
Stored(a) == row[a] # None
NeedsAttention(r) == r.state \in {"pending", "stale"}

(* The types of the records.                                               *)
Names == [account : Accounts, auth : Nat, copy : Nat]
Bodies == [of : Versions, route : Routes]
Staged == [body : Bodies, out : BOOLEAN]
Row ==
  [of : Versions, route : Routes, state : {"none", "pending", "stale", "current"},
   file : Names \cup {None}, exact : BOOLEAN]
Question ==
  [account : Accounts, of : Versions \cup {None}, route : Routes,
   replace : BOOLEAN, own : BOOLEAN, late : BOOLEAN]

(* The sentinels are told apart from what they stand beside, and each      *)
(* authenticator may be had with its revocation code.                      *)
ConstantsFit ==
  /\ MaxFaults \in Nat /\ Versions \subseteq Nat
  /\ \A v \in Versions : Version(Auth(v), TRUE) \in Versions
  /\ None \notin Names \cup Versions \cup Row \cup Question
  /\ Torn \notin Bodies

With(f, n, x) == [m \in DOMAIN f \cup {n} |-> IF m = n THEN x ELSE f[m]]

(* The history of a step: what it allows, what it forgets.                 *)
RoutesIn(rows) == {rows[a].route : a \in {b \in Accounts : rows[b] # None}}
Allow(more) ==
  allowed' = (allowed \cup more) \cap ({Direct} \cup approved' \cup RoutesIn(row'))

-----------------------------------------------------------------------------
(* Each call on the directory, as the outcomes it may have: the files and  *)
(* stages it leaves, the name it returns or None, and the faults it took.  *)
Outcome(fs, ss, name, cost) == [files |-> fs, stages |-> ss, name |-> name, cost |-> cost]

(* A stage knows whether its target is its own publication: two encrypted  *)
(* copies of one row are not the same bytes.                               *)
Stage(body, out) == [body |-> body, out |-> out]

(* durably: staged, linked or copied, and the stage removed.  Without      *)
(* links, two failures leave a torn file under the name.                   *)
Durably(n, body) ==
  LET put == With(files, n, body)
      kept(out) == With(stages, n, Stage(body, out)) IN
  { Outcome(put, stages, n, 0),
    Outcome(files, stages, None, 1), Outcome(files, kept(FALSE), None, 1),
    Outcome(put, kept(TRUE), None, 1), Outcome(With(files, n, Torn), kept(FALSE), None, 2) }

(* reconcileRecoveryDirectory, for one name: a stage is published, or its  *)
(* publication confirmed.  Beside any other file it is left alone.         *)
Published(n) == n \in DOMAIN files
Resumable(n) == n \in DOMAIN stages /\ (Published(n) => stages[n].out)
Without(n) == Restrict(stages, DOMAIN stages \ {n})

Resume(n) ==
  LET put == With(files, n, stages[n].body)
      kept == [stages EXCEPT ![n].out = TRUE] IN
  { Outcome(put, Without(n), n, 0), Outcome(files, stages, None, 1), Outcome(put, kept, None, 1) }
    \cup IF Published(n) THEN {} ELSE { Outcome(With(files, n, Torn), stages, None, 2) }

(* Faulty: the first name is used again, over the file it has.             *)
TargetOverwritten(a, v) == {Name(a, v, 0)}

(* supersededPath: beside a file that is there.  One fresh name is enough. *)
Target(a, v) ==
  IF ~Published(Name(a, v, 0)) THEN {Name(a, v, 0)}
  ELSE LET unused == {c \in 1..MaxCopies : Name(a, v, c) \notin DOMAIN files \cup DOMAIN stages}
       IN  {Name(a, v, c) : c \in {d \in unused : \A e \in unused : d <= e}}

(* writeRecoveryFile                                                       *)
Write(a, r) ==
  IF Resumable(Name(a, r.of, 0)) THEN Resume(Name(a, r.of, 0))
  ELSE UNION {Durably(n, Body(r)) : n \in Target(a, r.of)}

(* updateRecoveryFile: the owned file is replaced whole, or is as it was.  *)
Update(n, body) ==
  LET put == [files EXCEPT ![n] = body]
      others == [m \in DOMAIN stages |-> [stages[m] EXCEPT !.out = @ /\ m # n]] IN
  { Outcome(put, others, n, 0), Outcome(files, stages, None, 1), Outcome(put, others, None, 1) }

Publishing(a, r) ==
  IF r.state = "stale" /\ Published(r.file) THEN Update(r.file, Body(r)) ELSE Write(a, r)

Pending(r) == [r EXCEPT !.state = "pending", !.file = None, !.exact = FALSE]

(* Faulty: only another authenticator makes the recovery file out of date. *)
MarkedIfReplaced(r, before) ==
  IF before # None /\ SameAuth(r, before) THEN r ELSE Pending(r)

(* markRecoveryBackupNeeded, in the save that changes the row.             *)
Marked(r, before) ==
  IF before # None /\ SameAuth(r, before) /\ r.file # None
  THEN [r EXCEPT !.state = "stale", !.exact = FALSE]
  ELSE Pending(r)

(* finishRecoveryBackup: the file, then the save that marks it current.    *)
Finishes(a, r) ==
  \E o \in Publishing(a, r), saved \in BOOLEAN :
    LET done == saved /\ o.name # None
        exact == o.files[o.name] = Body(r)
        cost == o.cost + IF saved \/ o.name = None THEN 0 ELSE 1 IN
    /\ saved \/ o.name # None
    /\ faults + cost <= MaxFaults /\ faults' = faults + cost
    /\ files' = o.files /\ stages' = o.stages
    /\ row' = [row EXCEPT ![a] =
         IF ~done THEN r ELSE [r EXCEPT !.state = "current", !.file = o.name, !.exact = exact]]
    /\ safe' = IF ~done THEN safe
               ELSE IF exact THEN safe \cup {<<a, r.of>>}
               ELSE {w \in safe : w[1] # a \/ Auth(w[2]) # Auth(r.of)}

Unfinished(a, r) ==
  row' = [row EXCEPT ![a] = r] /\ UNCHANGED <<disk, faults, safe>>

-----------------------------------------------------------------------------
(* ProxyConsent.require: nothing is asked twice, and every other question  *)
(* is a dialog.  What waits for it is the route form or an import, whose   *)
(* staging a lock, time or a discard may take away meanwhile.  Bound: one  *)
(* dialog at a time, opened while nothing is published yet.                *)
Ask(what) ==
  /\ unlocked /\ asked = None /\ files = <<>> /\ asked' = what
  /\ UNCHANGED <<unlocked, row, disk, consent, faults, safe>>

(* Faulty: an answer counts whenever it comes.                             *)
CountsLate(what) == what # None

(* Not if the vault locked under the dialog.                               *)
Counts(what) == ~what.late

Agreed ==
  /\ asked # None /\ Counts(asked) /\ asked' = None
  /\ approved' = IF asked.own THEN approved \cup {asked.route} ELSE approved

AllowAsked == Allow(IF asked.late THEN {} ELSE {asked.route})

Fails ==
  /\ asked # None /\ asked' = None
  /\ UNCHANGED <<unlocked, row, disk, consent, faults, safe>>

(* The user agreed, and what follows is refused: a reservation of another, *)
(* an account with unfinished work or already stored, a save that fails.   *)
AgreedInVain ==
  Agreed /\ UNCHANGED <<unlocked, row, disk, faults, safe>> /\ AllowAsked

-----------------------------------------------------------------------------
(* importCommit: proxiesToAdopt asks what the vault says now, and dialogs  *)
(* about other files of the same import may be up as long.  The route of a *)
(* file is Direct unless it has a proxy and somebody chose to adopt it.    *)
Duplicate(a, replace) == Stored(a) /\ ~replace

MustAsk(a, route, replace) ==
  /\ route # Direct /\ ~Duplicate(a, replace)
  /\ ~(Stored(a) /\ row[a].route = route)
  /\ route \notin approved

AskImport(a, v, route, replace) ==
  LET own == MustAsk(a, route, replace) IN
  \E others \in BOOLEAN :
    /\ own \/ others
    /\ Ask([account |-> a, of |-> v, route |-> route, replace |-> replace,
            own |-> own, late |-> FALSE])

(* newAccount, and mergeAccount: a code the row had is kept.               *)
RouteAfter(a, route) ==
  IF route = Direct /\ Stored(a) THEN row[a].route ELSE route

Incoming(a, v, route) ==
  IF ~Stored(a)
  THEN [of |-> v, route |-> route, state |-> "none", file |-> None, exact |-> FALSE]
  ELSE [row[a] EXCEPT !.of = Version(Auth(v), HasCode(v) \/ HasCode(@)), !.route = route]

(* commit, with the publication it ends in.                                *)
Take(a, v, route, replace) ==
  LET r == Incoming(a, v, RouteAfter(a, route)) IN
  /\ unlocked /\ ~Duplicate(a, replace)
  /\ IF r = row[a] THEN Unfinished(a, r) ELSE Finishes(a, Marked(r, row[a]))
  /\ UNCHANGED unlocked

Import(a) ==
  \E v \in Versions, route \in Routes :
    /\ ~MustAsk(a, route, TRUE) /\ Take(a, v, route, TRUE)
    /\ UNCHANGED <<approved, asked>> /\ Allow({})

ImportAgreed(a) ==
  /\ asked # None /\ asked.of # None /\ asked.account = a
  /\ Agreed /\ Take(a, asked.of, asked.route, asked.replace) /\ AllowAsked

-----------------------------------------------------------------------------
(* accountSetProxy: what must be agreed to, and the save.                  *)
AskRoute(a, r) ==
  /\ r # Direct /\ r \notin approved
  /\ Stored(a) => row[a].route # r
  /\ Ask([account |-> a, of |-> None, route |-> r, replace |-> TRUE,
          own |-> TRUE, late |-> FALSE])

(* The save takes no reservation.  The refresh of the recovery file does,  *)
(* and is left out when another handler has one.                           *)
Reroutes(a, r) ==
  /\ unlocked /\ Stored(a) /\ row[a].route # r
  /\ LET m == Marked([row[a] EXCEPT !.route = r], row[a]) IN
     Finishes(a, m) \/ Unfinished(a, m)
  /\ UNCHANGED unlocked

RouteSaved(a, r) ==
  /\ r = Direct \/ r \in approved
  /\ Reroutes(a, r) /\ UNCHANGED <<approved, asked>> /\ Allow({})

RouteAgreed ==
  /\ asked # None /\ asked.of = None
  /\ Agreed /\ Reroutes(asked.account, asked.route) /\ AllowAsked

-----------------------------------------------------------------------------
(* accountRemove, and Steam's removal of an authenticator.  Files stay.    *)
Remove(a) ==
  /\ unlocked /\ Stored(a) /\ row' = [row EXCEPT ![a] = None]
  /\ UNCHANGED <<unlocked, disk, approved, asked, faults, safe>> /\ Allow({})

(* Enrollment and transfer store what Steam issued, with its code.         *)
SteamStores(a) ==
  /\ unlocked
  /\ \E v \in Versions :
       /\ HasCode(v) /\ (Stored(a) => Auth(v) # Auth(row[a].of))
       /\ LET r == [Incoming(a, v, RouteAfter(a, Direct)) EXCEPT !.of = v] IN
          Finishes(a, Marked(r, row[a]))
  /\ UNCHANGED <<unlocked, approved, asked>> /\ Allow({})

(* "Finish recovery backup", and its form under another's reservation.     *)
FinishRecovery(a) ==
  /\ unlocked /\ Stored(a) /\ NeedsAttention(row[a]) /\ Finishes(a, row[a])
  /\ UNCHANGED <<unlocked, consent, asked>>

(* A restore or an adoption, locked: rows as some other vault had them.    *)
(* Bound: before anything was published.                                   *)
Replaced ==
  /\ ~unlocked /\ files = <<>>
  /\ \E old \in [Accounts -> Versions \cup {None}], route \in Routes, marked \in BOOLEAN :
       row' = [a \in Accounts |->
         IF old[a] = None THEN None
         ELSE [of |-> old[a], route |-> route, exact |-> FALSE,
               state |-> IF marked THEN "current" ELSE "none",
               file |-> IF marked THEN Name(a, old[a], 0) ELSE None]]
  /\ safe' = {}
  /\ UNCHANGED <<unlocked, disk, approved, asked, faults>> /\ Allow(RoutesIn(row'))

-----------------------------------------------------------------------------
(* A lock clears what was agreed to and disowns the dialog on screen.      *)
Lock ==
  /\ unlocked /\ unlocked' = FALSE /\ approved' = {}
  /\ asked' = IF asked = None THEN None ELSE [asked EXCEPT !.late = TRUE]
  /\ UNCHANGED <<row, disk, faults, safe>> /\ Allow({})

Unlock ==
  /\ ~unlocked /\ unlocked' = TRUE
  /\ approved' = RoutesIn(row) \ {Direct}
  /\ UNCHANGED <<row, disk, allowed, asked, faults, safe>>

(* The process ends, at rest or inside a publication.  Names whose entry   *)
(* was not flushed may be lost; the next start reconciles what is left.    *)
Cut ==
  {Outcome(files, stages, None, 0)} \cup
  UNION {Publishing(a, row[a]) :
           a \in {b \in Accounts : unlocked /\ Stored(b) /\ NeedsAttention(row[b])}}

Reconciled(fs, ss) ==
  LET absent == {n \in DOMAIN ss : n \notin DOMAIN fs}
      twins == {n \in DOMAIN ss : n \in DOMAIN fs /\ ss[n].out} IN
  /\ files' = [n \in absent \cup DOMAIN fs |-> IF n \in absent THEN ss[n].body ELSE fs[n]]
  /\ stages' = Restrict(ss, DOMAIN ss \ (absent \cup twins))

Crash ==
  /\ faults < MaxFaults /\ faults' = faults + 1
  /\ \E o \in Cut : \E lost \in SUBSET DOMAIN o.stages :
       LET named == {n \in lost : n \in DOMAIN o.files /\ o.stages[n].out} IN
       Reconciled(Restrict(o.files, DOMAIN o.files \ named),
                  Restrict(o.stages, DOMAIN o.stages \ lost))
  /\ unlocked' = FALSE /\ approved' = {} /\ asked' = None
  /\ UNCHANGED <<row, safe>> /\ Allow({})

-----------------------------------------------------------------------------
Init ==
  /\ unlocked = FALSE /\ row = [a \in Accounts |-> None]
  /\ files = <<>> /\ stages = <<>>
  /\ approved = {} /\ allowed = {Direct}
  /\ asked = None /\ faults = 0 /\ safe = {}

Next ==
  \/ Lock \/ Unlock \/ Crash \/ Replaced
  \/ Fails \/ AgreedInVain \/ RouteAgreed
  \/ \E a \in Accounts :
       \/ Import(a) \/ ImportAgreed(a)
       \/ Remove(a) \/ SteamStores(a) \/ FinishRecovery(a)
       \/ \E r \in Routes : AskRoute(a, r) \/ RouteSaved(a, r)
       \/ \E v \in Versions, r \in Routes, replace \in BOOLEAN : AskImport(a, v, r, replace)

Spec == Init /\ [][Next]_vars

-----------------------------------------------------------------------------
(* Every variable keeps its type.                                          *)
TypeOK ==
  /\ unlocked \in BOOLEAN /\ faults \in 0..MaxFaults
  /\ row \in [Accounts -> Row \cup {None}]
  /\ DOMAIN files \subseteq Names /\ files \in [DOMAIN files -> Bodies \cup {Torn}]
  /\ DOMAIN stages \subseteq Names /\ stages \in [DOMAIN stages -> Staged]
  /\ approved \subseteq Proxies /\ allowed \subseteq Routes
  /\ asked \in Question \cup {None}
  /\ asked # None /\ asked.own => asked.route \in Proxies
  /\ safe \subseteq Accounts \X Versions

(* A row that needs no attention has a recovery file that holds exactly    *)
(* what the row holds, whatever failed, was cut short, overtaken by a save *)
(* or removed and stored again: but for a row a whole vault brought, and   *)
(* for one whose publication was finished from the stage of an older try.  *)
BackupHoldsWhatTheVaultDoes ==
  \A a \in Accounts : Stored(a) /\ row[a].state = "current" /\ row[a].exact =>
    Published(row[a].file) /\ files[row[a].file] = Body(row[a])

(* What was once backed up stays so: an authenticator, and the revocation  *)
(* code if it was there, outlive removals, poorer imports of the same      *)
(* authenticator, replacements by another, failures and stops: but for an  *)
(* authenticator whose row took over a publication some older try staged.  *)
NoBackupIsLost ==
  \A a \in Accounts, v \in Versions : <<a, v>> \in safe =>
    \E n \in DOMAIN files :
      /\ n.account = a /\ n.auth = Auth(v) /\ files[n] # Torn
      /\ HasCode(v) => HasCode(files[n].of)

(* The two promises about recovery files: a backup holds what the vault    *)
(* does, and stays.                                                        *)
BackupsAreKept == BackupHoldsWhatTheVaultDoes /\ NoBackupIsLost

(* A row's route was agreed to under a vault that stayed open until the    *)
(* answer, and has been approved or stored ever since: but for a route a   *)
(* whole vault brought, and for that of a file which needed no dialog when *)
(* its import began, and waited for the dialog of another.                 *)
RoutesAreAgreed == \A a \in Accounts : Stored(a) => row[a].route \in allowed
=============================================================================
