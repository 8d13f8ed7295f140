--------------------------- MODULE AccountBrowsers ---------------------------
(***************************************************************************)
(* AccountBrowsers, openAccountBrowser and the handler that calls them     *)
(* (src/main/browser/window.ts, ipc.ts), for one account: presses of the   *)
(* browser buttons, each on its way to a signed-in window, against a lock, *)
(* a change of route, the policy that requires proxies, and the user. All  *)
(* of them share one partition: its proxy, its cookie jar and its wipes.   *)
(* An action is the code between two awaits; callers whose await is over   *)
(* run before anything new happens (Calm).                                 *)
(***************************************************************************)
EXTENDS Naturals, Sequences, FiniteSets, Functions

CONSTANTS
  Presses,   \* presses of a button that may be under way or have a window
  Proxies,   \* the proxies the account may be given
  Direct,    \* the route that uses none
  None,
  WipesFail, \* whether clearStorageData may fail
  MaxSweeps  \* bound: what closes windows, as generations and epochs count it

ASSUME RouteAssumption ==
  Direct \notin Proxies /\ None \notin Presses \cup Proxies \cup {Direct} /\ WipesFail \in BOOLEAN
ASSUME BoundAssumption == MaxSweeps \in Nat

VARIABLES
  unlocked, stored, requireProxies,  \* the vault: open, its proxy or Direct, its policy
  generation, epoch,
  windows,   \* the press whose window is this account's browser, or None
  building,  \* the press whose window is still loading, or None
  opening,   \* the press one may join, or None
  settling,  \* the press whose work is not over, or None
  owner,     \* partitionOwners: the press that may empty the jar, or None
  retired,   \* ownerCleanups: the presses whose retirement has begun
  requested, \* the route asked for last, or None
  wipes,     \* clearing: each wipe waits for the one before it
  seeded, dirty,
  screen,    \* per press, the route of its window, or None
  config,    \* the route Chromium applies to the partition
  jar,       \* the presses whose Steam cookie is in the partition
  call,      \* what each press is doing
  bare       \* history: a loading window was closed with no wipe of its jar begun

vault == <<unlocked, stored, requireProxies>>
counters == <<generation, epoch>>
maps == <<windows, building, opening, settling, owner, retired, requested>>
partition == <<wipes, seeded, dirty, config, jar>>
vars == <<vault, counters, maps, partition, screen, call, bare>>

Routes == Proxies \cup {Direct}
Idle == [pc |-> "idle", created |-> FALSE]
FullyRouted(route) == route # Direct

At(a, pc) == call[a].pc = pc
Becomes(a, next) == call' = [call EXCEPT ![a] = next]
Moves(a, pc) == Becomes(a, [call[a] EXCEPT !.pc = pc])
Cleared(held, a) == IF held = a THEN None ELSE held

(* open's finally.                                                         *)
Ends(a) ==
  /\ Becomes(a, Idle)
  /\ requested' = IF requested = call[a].route THEN None ELSE requested

stillWanted(a) == call[a].since = generation /\ call[a].epoch = epoch
Forbidden(route) == requireProxies /\ ~FullyRouted(route)
CanStillBeUnmade(a) == call[a].created
Sweepable == generation + epoch < MaxSweeps
Pending(tag) == \E i \in DOMAIN wipes : wipes[i].tag = tag

(* The open waits out every wipe of the partition still running.           *)
NothingClearing == wipes = <<>>

(* The callers whose await is over.                                        *)
Resumed == {a \in Presses :
  \/ At(a, "asking")
  \/ At(a, "waiting") /\ settling # call[a].wait
  \/ At(a, "joining") /\ opening # call[a].wait
  \/ At(a, "tearing") /\ ~Pending(call[a].wait)
  \/ At(a, "clearing") /\ NothingClearing
  \/ At(a, "retrying") /\ ~Pending(a)
  \/ At(a, "retiring") /\ ~Pending(a)}
Calm == Resumed = {}

-----------------------------------------------------------------------------
(* wipe, for a caller that will wait for it, or for nobody.                *)
Wiping(tag) == wipes' = Append(wipes, [tag |-> tag, retires |-> FALSE])

MayEmpty(a) == owner = a

(* cleanupOwned: once for each press, and only by the owner of the jar.    *)
Retirement(a) ==
  IF a \in retired THEN UNCHANGED <<retired, wipes>>
  ELSE /\ retired' = retired \cup {a}
       /\ wipes' = IF MayEmpty(a) THEN Append(wipes, [tag |-> a, retires |-> TRUE]) ELSE wipes

(* closeAccount: what it closes, whom it disowns and what it waits for.    *)
Retiring == IF windows # None THEN windows ELSE building
ByRetirement == owner # None /\ (settling = None \/ CanStillBeUnmade(settling))
TagOf(by) == IF ByRetirement THEN owner ELSE by

CloseAccount(by) ==
  /\ Sweepable /\ epoch' = epoch + 1 /\ seeded' = FALSE
  /\ windows' = None /\ building' = None /\ opening' = None
  /\ screen' = IF Retiring = None THEN screen ELSE [screen EXCEPT ![Retiring] = None]
  /\ IF ByRetirement THEN Retirement(owner)
     ELSE Wiping(by) /\ UNCHANGED retired
  /\ UNCHANGED <<generation, settling, owner, dirty, config, jar>>

-----------------------------------------------------------------------------
(* The handler, until the token is minted: the account's route and the     *)
(* counters are those of the press.                                        *)
Press(a, route) ==
  /\ Calm /\ At(a, "idle") /\ screen[a] = None /\ owner # a /\ ~Pending(a)
  /\ unlocked /\ ~Forbidden(route) /\ route \in {stored, Direct}
  /\ Becomes(a, [pc |-> "minting", route |-> route, since |-> generation, epoch |-> epoch,
                 first |-> epoch, wait |-> None, joined |-> None, created |-> FALSE])
  /\ retired' = retired \ {a}
  /\ UNCHANGED <<vault, counters, windows, building, opening, settling, owner, requested,
                 partition, screen>>

Minted(a) ==
  /\ Calm /\ At(a, "minting") /\ unlocked /\ ~Forbidden(call[a].route)
  /\ Moves(a, "asking") /\ requested' = call[a].route
  /\ UNCHANGED <<vault, counters, windows, building, opening, settling, owner, retired,
                 partition, screen>>

MintFails(a) ==
  /\ Calm /\ At(a, "minting") /\ Becomes(a, Idle)
  /\ UNCHANGED <<vault, counters, maps, partition, screen>>

(* Everything an attempt refuses before it has touched the partition.      *)
Gone(a) ==
  /\ Ends(a)
  /\ opening' = Cleared(opening, a) /\ settling' = Cleared(settling, a)
  /\ UNCHANGED <<vault, counters, windows, building, owner, retired, partition, screen>>

AsksLate(a) == At(a, "asking") /\ ~stillWanted(a) /\ Gone(a)

(* Faulty: what a sweep gave up on is not waited for.                      *)
MustWaitNever == FALSE

(* A press that a sweep has given up and that may still write cookies.     *)
MustWait == settling # None /\ opening = None /\ ~CanStillBeUnmade(settling)

Waits(a) ==
  /\ At(a, "asking") /\ stillWanted(a) /\ MustWait
  /\ Becomes(a, [call[a] EXCEPT !.pc = "waiting", !.wait = settling])
  /\ UNCHANGED <<vault, counters, maps, partition, screen>>

Waited(a) ==
  /\ At(a, "waiting") /\ settling # call[a].wait /\ Moves(a, "asking")
  /\ UNCHANGED <<vault, counters, maps, partition, screen>>

Focus(a) ==
  /\ At(a, "asking") /\ stillWanted(a) /\ ~MustWait
  /\ windows # None /\ screen[windows] = call[a].route
  /\ Gone(a)

(* The other button: the window goes first, and its wipe is waited for.    *)
Switch(a) ==
  /\ At(a, "asking") /\ stillWanted(a) /\ ~MustWait
  /\ windows # None /\ screen[windows] # call[a].route
  /\ CloseAccount(a)
  /\ Becomes(a, [call[a] EXCEPT !.pc = "tearing", !.wait = TagOf(a), !.epoch = epoch'])
  /\ UNCHANGED <<vault, requested>>

Asks(a) ==
  \/ At(a, "asking") /\ stillWanted(a) /\ ~MustWait /\ windows = None
  \/ /\ At(a, "tearing") /\ ~Pending(call[a].wait)
     /\ call[a].epoch = epoch /\ ~Forbidden(call[a].route)

TornLate(a) ==
  /\ At(a, "tearing") /\ ~Pending(call[a].wait)
  /\ call[a].epoch # epoch \/ Forbidden(call[a].route)
  /\ Gone(a)

Join(a) ==
  /\ Asks(a) /\ opening # None
  /\ Becomes(a, [call[a] EXCEPT !.pc = "joining", !.wait = opening,
                                !.joined = call[opening].route])
  /\ UNCHANGED <<vault, counters, maps, partition, screen>>

(* The one joined has a window, has failed or was given up.  On another    *)
(* route, this press asks again, as of when it was made.                   *)
Joined(a) ==
  /\ At(a, "joining") /\ opening # call[a].wait
  /\ IF call[a].joined = call[a].route THEN Gone(a)
     ELSE /\ Becomes(a, [call[a] EXCEPT !.pc = "asking", !.epoch = call[a].first])
          /\ requested' = call[a].route
          /\ UNCHANGED <<vault, counters, windows, building, opening, settling, owner, retired,
                         partition, screen>>

Begin(a) ==
  /\ Asks(a) /\ opening = None
  /\ IF Forbidden(call[a].route) \/ ~stillWanted(a) THEN Gone(a)
     ELSE /\ opening' = a /\ settling' = a /\ Moves(a, "clearing")
          /\ UNCHANGED <<vault, counters, windows, building, owner, retired, requested,
                         partition, screen>>

-----------------------------------------------------------------------------
(* Any wipe still running is over; a jar it could not empty is tried once  *)
(* more.                                                                   *)
Unwanted(a) ==
  /\ \/ At(a, "clearing") /\ NothingClearing /\ ~stillWanted(a)
     \/ At(a, "retrying") /\ ~Pending(a) /\ (~stillWanted(a) \/ dirty)
  /\ Gone(a)

Usable == ~dirty

Retry(a) ==
  /\ At(a, "clearing") /\ NothingClearing /\ stillWanted(a) /\ ~Usable
  /\ Wiping(a) /\ Moves(a, "retrying")
  /\ UNCHANGED <<vault, counters, maps, seeded, dirty, config, jar, screen>>

Claim(a) ==
  /\ \/ At(a, "clearing") /\ NothingClearing
     \/ At(a, "retrying") /\ ~Pending(a)
  /\ stillWanted(a) /\ Usable
  /\ owner' = a /\ seeded' = TRUE /\ Moves(a, "preparing")
  /\ UNCHANGED <<vault, counters, windows, building, opening, settling, retired, requested,
                 wipes, dirty, config, jar, screen>>

(* A failure with the partition claimed: the window goes, and the jar.     *)
Retire(a, contents) ==
  /\ Retirement(a) /\ Moves(a, "retiring")
  /\ jar' = contents /\ screen' = [screen EXCEPT ![a] = None]
  /\ UNCHANGED <<vault, counters, windows, building, opening, settling, owner, requested,
                 seeded, dirty, config>>

(* setProxy, closeAllConnections and the routes asked of Chromium.         *)
Prepared(a) ==
  /\ Calm /\ At(a, "preparing") /\ stillWanted(a)
  /\ config' = call[a].route /\ Moves(a, "signing")
  /\ UNCHANGED <<vault, counters, maps, wipes, seeded, dirty, jar, screen>>

PrepareFails(a) == Calm /\ At(a, "preparing") /\ Retire(a, jar)

(* Faulty: a lock is looked for before the cookie and after the page.      *)
StillWantedThen(a) == a \in Presses

StillWantedNow(a) == stillWanted(a)

(* The cookie is set, for the hosts of Steam, and the window made.         *)
SignedIn(a) ==
  /\ Calm /\ At(a, "signing") /\ StillWantedNow(a)
  /\ jar' = jar \cup {a}
  /\ screen' = [screen EXCEPT ![a] = call[a].route] /\ building' = a
  /\ Becomes(a, [call[a] EXCEPT !.pc = "loading", !.created = TRUE])
  /\ UNCHANGED <<vault, counters, windows, opening, settling, owner, retired, requested,
                 wipes, seeded, dirty, config>>

SignInFails(a) ==
  /\ Calm /\ At(a, "signing")
  /\ \E contents \in {jar, jar \cup {a}} : Retire(a, contents)

(* The first page: it does not come, or it is Steam's sign-in form.        *)
LoadFails(a) == Calm /\ At(a, "loading") /\ Retire(a, jar)

Landed(a) ==
  /\ Calm /\ At(a, "loading") /\ screen[a] # None /\ stillWanted(a)
  /\ windows' = a /\ building' = Cleared(building, a)
  /\ opening' = Cleared(opening, a) /\ settling' = Cleared(settling, a)
  /\ Ends(a)
  /\ UNCHANGED <<vault, counters, owner, retired, partition, screen>>

(* The failure is reported once its retirement is over.                    *)
Retired(a) ==
  /\ At(a, "retiring") /\ ~Pending(a)
  /\ building' = Cleared(building, a)
  /\ opening' = Cleared(opening, a) /\ settling' = Cleared(settling, a)
  /\ seeded' = (seeded /\ ~(owner = None /\ ~dirty))
  /\ Ends(a)
  /\ UNCHANGED <<vault, counters, windows, owner, retired, wipes, dirty, config, jar, screen>>

-----------------------------------------------------------------------------
(* The oldest wipe settles.  A retirement gives up the jar with it.        *)
Wiped(cleared) ==
  /\ Calm /\ wipes # <<>> /\ wipes' = Tail(wipes)
  /\ dirty' = ~cleared /\ jar' = IF cleared THEN {} ELSE jar
  /\ owner' = IF Head(wipes).retires THEN Cleared(owner, Head(wipes).tag) ELSE owner
  /\ UNCHANGED <<vault, counters, windows, building, opening, settling, retired, requested,
                 seeded, config, screen, call>>

WipeFails == WipesFail /\ Wiped(FALSE)

(* The user closes the window, or the page left Steam's session.           *)
Closed ==
  /\ Calm /\ windows # None
  /\ screen' = [screen EXCEPT ![windows] = None] /\ windows' = None
  /\ Retirement(windows)
  /\ UNCHANGED <<vault, counters, building, opening, settling, owner, requested,
                 seeded, dirty, config, jar, call>>

(* dropAccountRouting, without waiting.                                    *)
SaveProxy(r) ==
  /\ Calm /\ unlocked /\ stored' = r /\ CloseAccount(None)
  /\ UNCHANGED <<unlocked, requireProxies, requested, call>>

(* Faulty: the windows still loading are left to finish.                   *)
SweptFinished == {windows}

Swept == {windows, building}

(* closeAll *)
Lock ==
  /\ Calm /\ unlocked /\ unlocked' = FALSE
  /\ Sweepable /\ generation' = generation + 1
  /\ windows' = None /\ building' = None /\ opening' = None /\ seeded' = FALSE
  /\ screen' = [a \in Presses |-> IF a \in Swept THEN None ELSE screen[a]]
  /\ IF windows = None /\ ~seeded /\ ~dirty THEN UNCHANGED <<retired, wipes>>
     ELSE IF {windows, building} # {None} /\ owner # None THEN Retirement(owner)
     ELSE Wiping(None) /\ UNCHANGED retired
  /\ UNCHANGED <<stored, requireProxies, epoch, settling, owner, requested,
                 dirty, config, jar, call>>

Unlock ==
  /\ Calm /\ ~unlocked /\ unlocked' = TRUE
  /\ UNCHANGED <<stored, requireProxies, counters, maps, partition, screen, call>>

(* closeNotFullyRouted, when the policy is switched on: what was asked     *)
(* for, what is opening and what is open, each if it is not routed.        *)
RequireProxies ==
  /\ Calm /\ unlocked /\ ~requireProxies /\ requireProxies' = TRUE
  /\ IF windows # None /\ ~FullyRouted(screen[windows]) 
     THEN CloseAccount(None) /\ UNCHANGED bare
     ELSE LET unrouted == opening # None /\ ~FullyRouted(call[opening].route) IN
          /\ Sweepable
          /\ epoch' = IF unrouted \/ requested = Direct THEN epoch + 1 ELSE epoch
          /\ IF unrouted
             THEN /\ opening' = None /\ building' = None
                  /\ bare' = (bare \/ building # None)
                  /\ screen' = [a \in Presses |-> IF a = building THEN None ELSE screen[a]]
                  /\ dirty' = (dirty \/ building # None)
             ELSE UNCHANGED <<opening, building, screen, dirty, bare>>
          /\ UNCHANGED <<generation, windows, settling, owner, retired, wipes, seeded,
                         config, jar>>
  /\ UNCHANGED <<unlocked, stored, requested, call>>

AllowDirect ==
  /\ Calm /\ unlocked /\ requireProxies /\ requireProxies' = FALSE
  /\ UNCHANGED <<unlocked, stored, counters, maps, partition, screen, call>>

-----------------------------------------------------------------------------
Init ==
  /\ unlocked = TRUE /\ stored \in Routes /\ requireProxies = FALSE
  /\ generation = 0 /\ epoch = 0
  /\ windows = None /\ building = None /\ opening = None /\ settling = None
  /\ owner = None /\ retired = {} /\ requested = None
  /\ wipes = <<>> /\ seeded = FALSE /\ dirty = FALSE /\ bare = FALSE
  /\ screen = [a \in Presses |-> None] /\ config = Direct /\ jar = {}
  /\ call = [a \in Presses |-> Idle]

Works(a) ==
  \/ Minted(a) \/ MintFails(a) \/ AsksLate(a) \/ Waits(a) \/ Waited(a) \/ Focus(a)
  \/ Switch(a) \/ TornLate(a) \/ Join(a) \/ Joined(a) \/ Begin(a) \/ Unwanted(a)
  \/ Retry(a) \/ Claim(a) \/ Prepared(a) \/ PrepareFails(a) \/ SignedIn(a)
  \/ SignInFails(a) \/ LoadFails(a) \/ Landed(a) \/ Retired(a)

Happens ==
  \/ \E a \in Presses : Works(a) \/ \E route \in Routes : Press(a, route)
  \/ Wiped(TRUE) \/ WipeFails \/ Closed \/ Lock \/ Unlock
  \/ \E r \in Routes : SaveProxy(r)
  \/ AllowDirect

Next == RequireProxies \/ (Happens /\ UNCHANGED bare)

Spec == Init /\ [][Next]_vars

-----------------------------------------------------------------------------
(* Every variable keeps its type; an account has one window at most, and   *)
(* it is either its browser or still being built.                          *)
TypeOK ==
  /\ {unlocked, requireProxies, seeded, dirty, bare} \subseteq BOOLEAN
  /\ stored \in Routes /\ config \in Routes
  /\ {generation, epoch} \subseteq 0..MaxSweeps
  /\ {windows, building, opening, settling, owner} \subseteq Presses \cup {None}
  /\ {w.tag : w \in Range(wipes)} \subseteq Presses \cup {None}
  /\ jar \subseteq Presses /\ retired \subseteq Presses
  /\ requested \in Routes \cup {None}
  /\ {a \in Presses : screen[a] # None} \subseteq {windows, building}
  /\ Cardinality({windows, building} \ {None}) <= 1

(* No signed-in window is on screen but for an open vault, on a route the  *)
(* account and the policy allow now, and which the partition still has.    *)
OnScreenAsConfigured ==
  \A a \in Presses : screen[a] # None =>
    /\ unlocked /\ screen[a] \in {stored, Direct} /\ ~Forbidden(screen[a])
    /\ config = screen[a]

(* A browser works on its own cookie: no older session is in the jar with  *)
(* it, and no cleanup takes its cookie away.  The second holds but after a *)
(* loading window was closed by the policy: a retry of its wipe may then   *)
(* let a newer press claim the jar while its own retirement is queued.     *)
BrowserHasItsOwnSession ==
  windows # None => jar \subseteq {windows} /\ (~bare => windows \in jar)

(* Once everything a lock interrupted is over, no Steam session is left    *)
(* behind but in a jar known to be dirty.                                  *)
Quiet == wipes = <<>> /\ \A a \in Presses : call[a].pc \in {"idle", "minting"}
LockLeavesNoSession == ~unlocked /\ Quiet => jar = {} \/ dirty

=============================================================================
