------------------------ MODULE AccountBrowsersProofs ------------------------
(***************************************************************************)
(* Proofs about AccountBrowsers for any presses, proxies and bound: what   *)
(* is on screen is what the vault allows, a browser works on its own       *)
(* cookie, and a lock leaves no session behind; and in the second half     *)
(* about Foreground, beside it in MCAccountBrowsers, for any bounds.       *)
(***************************************************************************)
EXTENDS MCAccountBrowsers, FiniteSetTheorems, TLAPS

Early == {"minting", "asking", "waiting", "tearing", "joining", "clearing", "retrying"}
Claiming == {"preparing", "signing"}
Attempting == {"clearing", "retrying", "preparing", "signing", "loading"}
Steps == Early \cup Claiming \cup {"loading", "retiring"}

Wipe == [tag : Presses \cup {None}, retires : BOOLEAN]
Call == [pc : Steps, route : Routes, since : Nat, epoch : Nat, first : Nat,
         wait : Presses \cup {None}, joined : Routes \cup {None}, created : BOOLEAN]

Types ==
  /\ unlocked \in BOOLEAN /\ requireProxies \in BOOLEAN
  /\ seeded \in BOOLEAN /\ dirty \in BOOLEAN /\ bare \in BOOLEAN
  /\ stored \in Routes /\ config \in Routes
  /\ generation \in 0..MaxSweeps /\ epoch \in 0..MaxSweeps
  /\ windows \in Presses \cup {None} /\ building \in Presses \cup {None}
  /\ opening \in Presses \cup {None} /\ settling \in Presses \cup {None}
  /\ owner \in Presses \cup {None} /\ requested \in Routes \cup {None}
  /\ jar \subseteq Presses /\ retired \subseteq Presses
  /\ wipes \in Seq(Wipe)
  /\ screen \in [Presses -> Routes \cup {None}]
  /\ call \in [Presses -> Call \cup {Idle}]

InStep(a, steps) == call[a].pc \in steps
InAttempt(a) == InStep(a, Attempting \cup {"retiring"})

(* A call is of its time: what closes windows makes it unwanted.           *)
Dated(a) ==
  ~At(a, "idle") =>
    /\ call[a].since <= generation /\ (call[a].since = generation => unlocked)
    /\ call[a].epoch <= epoch /\ call[a].first <= epoch
    /\ epoch \in {call[a].epoch, call[a].first} => call[a].route \in {stored, Direct}

(* Where a press is in its attempt.                                        *)
Placed(a) ==
  /\ call[a].created => InStep(a, {"loading", "retiring"})
  /\ At(a, "loading") => call[a].created
  /\ InStep(a, Early) => owner # a /\ a \notin retired
  /\ At(a, "retiring") => a \in retired
  /\ InAttempt(a) /\ ~call[a].created => settling = a
  /\ InStep(a, Claiming) => owner = a /\ a \notin retired

(* An attempt that is wanted is the one that others join.                  *)
Wanted(a) ==
  InStep(a, Attempting) /\ stillWanted(a) =>
    /\ opening = a /\ ~Forbidden(call[a].route)
    /\ InStep(a, {"signing", "loading"}) => config = call[a].route

(* What is on screen is the browser, or a window that is loading.          *)
Shown(a) ==
  screen[a] # None =>
    /\ a = windows \/ (a = building /\ At(a, "loading") /\ call[a].route = screen[a])
    /\ unlocked /\ screen[a] \in {stored, Direct} /\ ~Forbidden(screen[a])
    /\ config = screen[a]

Places ==
  /\ building # None => opening = building /\ call[building].created
  /\ opening # None => settling = opening /\ InAttempt(opening)
  /\ settling # None => InAttempt(settling)
  /\ windows # None =>
       /\ At(windows, "idle") /\ screen[windows] # None
       /\ opening = None /\ settling = None

(* A retirement in the queue has begun.                                    *)
Queued == \A i \in DOMAIN wipes : wipes[i].retires => wipes[i].tag \in retired

(* The jar is of the attempt that claimed it, or of its browser.           *)
Owns(a) == owner = a /\ a \notin retired /\ jar \subseteq {a} /\ (~bare => wipes = <<>>)
Opened(a) ==
  opening = a =>
    /\ InStep(a, Claiming \cup {"loading"}) => Owns(a) /\ seeded
    /\ At(a, "loading") => building = a /\ (~bare => a \in jar)
    /\ At(a, "retrying") /\ ~bare => \A i \in DOMAIN wipes : wipes[i].tag = a
BrowserOwns == windows # None => Owns(windows) /\ (~bare => windows \in jar)
LeftIsRetired ==
  ~bare => \A a \in Presses : At(a, "loading") /\ opening # a => a \in retired \/ owner # a

(* A cookie is somebody's, or on its way out.                              *)
InUse ==
  /\ owner # None
  /\ owner = windows \/ At(owner, "signing") \/ (At(owner, "loading") /\ opening = owner)
CookiesAreKnown == jar # {} => dirty \/ wipes # <<>> \/ InUse
Retried(a) == At(a, "retrying") /\ ~Pending(a) => jar = {} \/ dirty

(* Who has closed a window and waits for its wipe is the next to open one. *)
Tearing(a) ==
  At(a, "tearing") =>
    /\ call[a].wait = a \/ call[a].wait \in retired
    /\ call[a].epoch = epoch => windows = None
    /\ stillWanted(a) => ~MustWait
    /\ \A b \in Presses :
         InStep(b, Attempting \ {"clearing"}) /\ stillWanted(b) /\ call[a].epoch = epoch =>
           ~Pending(call[a].wait)

PressOK(a) ==
  /\ Dated(a) /\ Placed(a) /\ Wanted(a) /\ Shown(a)
  /\ Opened(a) /\ Retried(a) /\ Tearing(a)

IInv ==
  /\ Types /\ Places /\ Queued /\ BrowserOwns /\ LeftIsRetired /\ CookiesAreKnown
  /\ \A a \in Presses : PressOK(a)

-----------------------------------------------------------------------------
(* A press that is under way has a record.                                 *)
LEMMA CallKinds ==
  ASSUME Types, NEW a \in Presses
  PROVE  /\ call[a] \in Call \cup {Idle}
         /\ call[a].created \in BOOLEAN
         /\ ~At(a, "idle") => call[a] \in Call
         /\ At(a, "idle") => call[a] = Idle
         /\ call[a].pc \in Steps => call[a] \in Call
<1>1. call[a] \in Call \cup {Idle}
  BY DEF Types
<1>2. Idle.pc = "idle" /\ Idle.created = FALSE /\ "idle" \notin Steps
  BY DEF Idle, Steps, Early, Claiming
<1>3. ASSUME NEW c \in Call PROVE c.pc \in Steps /\ c.created \in BOOLEAN
  BY <1>3 DEF Call
<1> QED BY <1>1, <1>2, <1>3 DEF At

LEMMA BecomesOnly ==
  ASSUME Types, NEW a \in Presses, NEW next \in Call \cup {Idle}, Becomes(a, next)
  PROVE  /\ call' \in [Presses -> Call \cup {Idle}] /\ call'[a] = next
         /\ \A b \in Presses \ {a} : call'[b] = call[b]
BY DEF Types, Becomes

(* What one more wipe, a retirement and the end of a wipe do to the queue. *)
LEMMA AppendOnly ==
  ASSUME Types, NEW w \in Wipe, wipes' = Append(wipes, w)
  PROVE  /\ wipes' \in Seq(Wipe) /\ wipes' # <<>>
         /\ DOMAIN wipes' = DOMAIN wipes \cup {Len(wipes) + 1}
         /\ \A i \in DOMAIN wipes : wipes'[i] = wipes[i]
         /\ wipes'[Len(wipes) + 1] = w
         /\ \A tag : Pending(tag)' <=> Pending(tag) \/ tag = w.tag
<1>1. wipes \in Seq(Wipe)
  BY DEF Types
<1>2. /\ wipes' \in Seq(Wipe) /\ wipes' # <<>>
      /\ DOMAIN wipes' = DOMAIN wipes \cup {Len(wipes) + 1}
      /\ \A i \in DOMAIN wipes : wipes'[i] = wipes[i]
      /\ wipes'[Len(wipes) + 1] = w
  BY <1>1
<1> QED BY <1>2 DEF Pending

LEMMA WipingOnly ==
  ASSUME Types, Queued, NEW tag \in Presses \cup {None}, Wiping(tag), retired \subseteq retired'
  PROVE  /\ wipes' \in Seq(Wipe) /\ wipes' # <<>> /\ Queued'
         /\ \A i \in DOMAIN wipes' : (i \in DOMAIN wipes /\ wipes'[i] = wipes[i]) \/ wipes'[i].tag = tag
         /\ \A t : Pending(t)' <=> Pending(t) \/ t = tag
<1>1. [tag |-> tag, retires |-> FALSE] \in Wipe
  BY DEF Wipe
<1> QED BY <1>1, AppendOnly DEF Wiping, Queued

LEMMA RetirementOnly ==
  ASSUME Types, Queued, NEW a \in Presses, Retirement(a)
  PROVE  /\ retired' = retired \cup {a} /\ wipes' \in Seq(Wipe) /\ Queued'
         /\ owner = a /\ a \notin retired => wipes' # <<>>
         /\ owner # a \/ a \in retired => wipes' = wipes
         /\ wipes # <<>> => wipes' # <<>>
         /\ \A t : Pending(t) => Pending(t)'
         /\ \A t : Pending(t)' => Pending(t) \/ (t = a /\ owner = a /\ a \notin retired)
<1>1. CASE owner = a /\ a \notin retired
  <2>1. [tag |-> a, retires |-> TRUE] \in Wipe
    BY DEF Wipe
  <2>2. retired' = retired \cup {a} /\ wipes' = Append(wipes, [tag |-> a, retires |-> TRUE])
    BY <1>1 DEF Retirement, MayEmpty
  <2> QED BY <1>1, <2>1, <2>2, AppendOnly DEF Queued
<1>2. CASE owner # a \/ a \in retired
  <2>1. retired' = retired \cup {a} /\ wipes' = wipes
    BY <1>2 DEF Retirement, MayEmpty
  <2> QED BY <1>2, <2>1 DEF Queued, Pending, Types
<1> QED BY <1>1, <1>2

-----------------------------------------------------------------------------
(* An attempt that ends before it has claimed the jar.                     *)
LEMMA GoneKeeps ==
  ASSUME IInv, NEW a \in Presses, InStep(a, Early), Becomes(a, Idle),
         opening' = Cleared(opening, a), settling' = Cleared(settling, a),
         requested' \in Routes \cup {None},
         UNCHANGED <<vault, counters, windows, building, owner, retired, partition, screen, bare>>
  PROVE  IInv'
<1>1. Types /\ call[a] \in Call
  BY CallKinds DEF IInv, InStep, Steps
<1>2. /\ call' \in [Presses -> Call \cup {Idle}] /\ call'[a] = Idle
      /\ \A b \in Presses \ {a} : call'[b] = call[b]
  BY <1>1, BecomesOnly
<1>3. Types'
  BY <1>1, <1>2 DEF Types, Cleared, vault, counters, partition
<1>4. Places'
  BY <1>1, <1>2 DEF IInv, Places, Cleared, Call, InAttempt, InStep, Attempting, Early, At,
     Types,
     PressOK, Placed, Idle, Shown
<1>5. Queued'
  BY <1>1, <1>2 DEF IInv, Queued, partition
<1>6. BrowserOwns' /\ LeftIsRetired' /\ CookiesAreKnown'
  BY <1>1, <1>2 DEF IInv, BrowserOwns, LeftIsRetired, CookiesAreKnown, Owns, InUse, Cleared,
     partition, InStep, At, Early, Idle, PressOK, Placed, Types, Places
<1>7. ASSUME NEW b \in Presses PROVE PressOK(b)'
  <2>1. Dated(b)' /\ Placed(b)'
    BY <1>1, <1>2 DEF IInv, PressOK, Dated, Placed, At, vault, counters, Idle, InStep,
       InAttempt,
       Early, Claiming, Attempting, Cleared
  <2>2. Wanted(b)' /\ Shown(b)'
    BY <1>1, <1>2 DEF IInv, PressOK, Wanted, Shown, At, vault, counters, partition, Idle,
       InStep,
       Attempting, Early, Cleared, stillWanted, Forbidden
  <2>3. Opened(b)' /\ Retried(b)'
    BY <1>1, <1>2, RouteAssumption DEF IInv, PressOK, Opened, Retried, At, partition, Idle,
       InStep, Early, Cleared,
       Owns, Pending, Types, Claiming
  <2>4. Tearing(b)'
    BY <1>1, <1>2 DEF IInv, PressOK, Tearing, At, counters, partition, Idle, InStep, Attempting,
       Early, Cleared, stillWanted, MustWait, CanStillBeUnmade, Pending, Places, Types
  <2> QED BY <2>1, <2>2, <2>3, <2>4 DEF PressOK
<1> QED BY <1>3, <1>4, <1>5, <1>6, <1>7 DEF IInv

LEMMA MovesOnly ==
  ASSUME Types, NEW a \in Presses, call[a] \in Call, NEW pc \in Steps, Moves(a, pc)
  PROVE  /\ call' \in [Presses -> Call \cup {Idle}] /\ call'[a] \in Call
         /\ call'[a].pc = pc /\ call'[a].created = call[a].created
         /\ call'[a].route = call[a].route /\ call'[a].since = call[a].since
         /\ call'[a].epoch = call[a].epoch /\ call'[a].first = call[a].first
         /\ call'[a].wait = call[a].wait
         /\ \A b \in Presses \ {a} : call'[b] = call[b]
<1>1. [call[a] EXCEPT !.pc = pc] \in Call
  BY DEF Call
<1>2. Becomes(a, [call[a] EXCEPT !.pc = pc])
  BY DEF Moves
<1>3. /\ call' \in [Presses -> Call \cup {Idle}] /\ call'[a] = [call[a] EXCEPT !.pc = pc]
      /\ \A b \in Presses \ {a} : call'[b] = call[b]
  BY <1>1, <1>2, BecomesOnly
<1> QED BY <1>1, <1>3 DEF Call

(* A press that asks, waits or joins has touched nothing.                  *)
LEMMA AskingKeeps ==
  ASSUME IInv, NEW a \in Presses,
         InStep(a, {"minting", "asking", "waiting", "tearing", "joining"}),
         NEW next \in Call, Becomes(a, next), next.pc \in {"asking", "waiting", "joining"},
         next.since = call[a].since, next.route = call[a].route, next.first = call[a].first,
         next.epoch \in {call[a].epoch, call[a].first}, ~next.created,
         requested' \in Routes \cup {None},
         UNCHANGED <<vault, counters, windows, building, opening, settling, owner, retired,
                     partition, screen, bare>>
  PROVE  IInv'
<1>1. Types /\ call[a] \in Call
  BY CallKinds DEF IInv, InStep, Steps, Early
<1>2. /\ call' \in [Presses -> Call \cup {Idle}] /\ call'[a] = next
      /\ \A b \in Presses \ {a} : call'[b] = call[b]
  BY <1>1, BecomesOnly
<1>3. Types'
  BY <1>1, <1>2 DEF Types, vault, counters, partition
<1>4. Places' /\ Queued'
  BY <1>1, <1>2 DEF IInv, Places, Queued, InAttempt, InStep, Attempting, Early, At, Types,
     PressOK, Placed, Shown, partition
<1>5. BrowserOwns' /\ LeftIsRetired' /\ CookiesAreKnown'
  BY <1>1, <1>2 DEF IInv, BrowserOwns, LeftIsRetired, CookiesAreKnown, Owns, InUse,
     partition, InStep, At, Early, PressOK, Placed, Types, Places
<1>6. ASSUME NEW b \in Presses PROVE PressOK(b)'
  <2>1. Dated(b)' /\ Placed(b)'
    BY <1>1, <1>2 DEF IInv, PressOK, Dated, Placed, At, vault, counters, InStep, InAttempt,
       Early, Claiming, Attempting
  <2>2. Wanted(b)' /\ Shown(b)'
    BY <1>1, <1>2 DEF IInv, PressOK, Wanted, Shown, At, vault, counters, partition, InStep,
       Attempting, Early, stillWanted, Forbidden
  <2>3. Opened(b)' /\ Retried(b)'
    BY <1>1, <1>2 DEF IInv, PressOK, Opened, Retried, At, partition, InStep, Early,
       Owns, Pending, Types, Claiming
  <2>4. Tearing(b)'
    BY <1>1, <1>2 DEF IInv, PressOK, Tearing, At, counters, partition, InStep, Attempting,
       Early, stillWanted, MustWait, CanStillBeUnmade, Pending, Places, Types, InAttempt
  <2> QED BY <2>1, <2>2, <2>3, <2>4 DEF PressOK
<1> QED BY <1>3, <1>4, <1>5, <1>6 DEF IInv

(* The attempt that others join; nobody's work is over its head.           *)
LEMMA BeginKeeps ==
  ASSUME IInv, NEW a \in Presses, Asks(a), opening = None, ~Forbidden(call[a].route),
         stillWanted(a), opening' = a, settling' = a, Moves(a, "clearing"),
         UNCHANGED <<vault, counters, windows, building, owner, retired, requested,
                     partition, screen, bare>>
  PROVE  IInv'
<1>1. /\ Types /\ call[a] \in Call /\ windows = None /\ ~MustWait
      /\ InStep(a, {"asking", "tearing"})
  BY CallKinds DEF IInv, Asks, At, Steps, Early, PressOK, Tearing, InStep
<1>2. /\ call' \in [Presses -> Call \cup {Idle}] /\ call'[a] \in Call
      /\ call'[a].pc = "clearing" /\ call'[a].created = call[a].created
      /\ call'[a].route = call[a].route /\ call'[a].since = call[a].since
      /\ call'[a].epoch = call[a].epoch /\ call'[a].first = call[a].first
      /\ \A b \in Presses \ {a} : call'[b] = call[b]
  BY <1>1, MovesOnly DEF Steps, Early
<1>3. Types'
  BY <1>1, <1>2, RouteAssumption DEF Types, vault, counters, partition
<1>4. Places' /\ Queued'
  BY <1>1, <1>2, RouteAssumption DEF IInv, Places, Queued, InAttempt, InStep, Attempting, At,
     Types,
     PressOK, Placed, partition
<1>5. BrowserOwns' /\ LeftIsRetired' /\ CookiesAreKnown'
  BY <1>1, <1>2, RouteAssumption DEF IInv, BrowserOwns, LeftIsRetired, CookiesAreKnown, Owns,
     InUse,
     partition, InStep, At, Early, PressOK, Placed, Types, Places
<1>6. ASSUME NEW b \in Presses PROVE PressOK(b)'
  <2>1. Dated(b)' /\ Placed(b)'
    BY <1>1, <1>2, RouteAssumption DEF IInv, PressOK, Dated, Placed, At, vault, counters,
       InStep, InAttempt,
       Early, Claiming, Attempting, MustWait, CanStillBeUnmade
  <2>2. Wanted(b)' /\ Shown(b)'
    BY <1>1, <1>2, RouteAssumption DEF IInv, PressOK, Wanted, Shown, At, vault, counters,
       partition, InStep,
       Attempting, Early, stillWanted, Forbidden
  <2>3. Opened(b)' /\ Retried(b)'
    BY <1>1, <1>2, RouteAssumption DEF IInv, PressOK, Opened, Retried, At, partition, InStep,
       Early,
       Owns, Pending, Types, Claiming
  <2>4. Tearing(b)'
    BY <1>1, <1>2, RouteAssumption DEF IInv, PressOK, Tearing, At, counters, partition,
       InStep, Attempting,
       Early, stillWanted, MustWait, CanStillBeUnmade, Pending, Places, Types
  <2> QED BY <2>1, <2>2, <2>3, <2>4 DEF PressOK
<1> QED BY <1>3, <1>4, <1>5, <1>6 DEF IInv

(* A jar that could not be emptied is tried once more, the queue being     *)
(* empty.                                                                  *)
LEMMA RetryKeeps ==
  ASSUME IInv, NEW a \in Presses, Retry(a), UNCHANGED bare
  PROVE  IInv'
<1>1. Types /\ call[a] \in Call /\ opening = a /\ settling = a /\ wipes = <<>> /\ Queued
      /\ windows = None
  BY CallKinds, RouteAssumption DEF IInv, Retry, At, Steps, Early, PressOK, Wanted, InStep,
     Attempting, Places,
     NothingClearing
<1>2. /\ call' \in [Presses -> Call \cup {Idle}] /\ call'[a] \in Call
      /\ call'[a].pc = "retrying" /\ call'[a].created = call[a].created
      /\ call'[a].route = call[a].route /\ call'[a].since = call[a].since
      /\ call'[a].epoch = call[a].epoch /\ call'[a].first = call[a].first
      /\ \A b \in Presses \ {a} : call'[b] = call[b]
  BY <1>1, MovesOnly DEF Steps, Early, Retry
<1>3. /\ wipes' \in Seq(Wipe) /\ wipes' # <<>> /\ Queued'
      /\ \A i \in DOMAIN wipes' : wipes'[i].tag = a
      /\ \A t : Pending(t)' <=> t = a
  BY <1>1, WipingOnly DEF Retry, maps, Pending
<1>4. Types'
  BY <1>1, <1>2, <1>3, RouteAssumption DEF Types, Retry, vault, counters, maps
<1>5. Places'
  BY <1>1, <1>2, RouteAssumption DEF IInv, Places, Retry, InAttempt, InStep, Attempting, At,
     Types, maps,
     PressOK, Placed
<1>6. BrowserOwns' /\ LeftIsRetired' /\ CookiesAreKnown'
  BY <1>1, <1>2, <1>3, RouteAssumption DEF IInv, BrowserOwns, LeftIsRetired, CookiesAreKnown,
     At, Retry, maps
<1>7. ASSUME NEW b \in Presses PROVE PressOK(b)'
  <2>1. Dated(b)' /\ Placed(b)'
    BY <1>1, <1>2, RouteAssumption DEF IInv, PressOK, Dated, Placed, At, Retry, vault,
       counters, InStep, InAttempt,
       Early, Claiming, Attempting, maps
  <2>2. Wanted(b)' /\ Shown(b)'
    BY <1>1, <1>2, RouteAssumption DEF IInv, PressOK, Wanted, Shown, At, Retry, vault,
       counters, InStep,
       Attempting, Early, stillWanted, Forbidden, maps
  <2>3. Opened(b)' /\ Retried(b)'
    BY <1>1, <1>2, <1>3, RouteAssumption DEF IInv, PressOK, Opened, Retried, Placed, At,
       Retry, InStep, InAttempt, Attempting, Types, Claiming, maps
  <2>4. Tearing(b)'
    BY <1>1, <1>2, <1>3, RouteAssumption DEF IInv, PressOK, Tearing, At, Retry, counters,
       InStep, Attempting,
       Early, stillWanted, MustWait, CanStillBeUnmade, Places, Types, maps, Wanted, Placed
  <2> QED BY <2>1, <2>2, <2>3, <2>4 DEF PressOK
<1> QED BY <1>3, <1>4, <1>5, <1>6, <1>7 DEF IInv

(* The jar is claimed empty.                                               *)
LEMMA ClaimKeeps ==
  ASSUME IInv, NEW a \in Presses, Claim(a), UNCHANGED bare
  PROVE  IInv'
<1>1. /\ Types /\ call[a] \in Call /\ InStep(a, {"clearing", "retrying"})
      /\ opening = a /\ settling = a /\ windows = None /\ owner # a /\ a \notin retired
      /\ ~call[a].created
  BY CallKinds, RouteAssumption DEF IInv, Claim, At, Steps, Early, PressOK, Wanted, InStep,
     Attempting, Places, Placed
<1>2. /\ call' \in [Presses -> Call \cup {Idle}] /\ call'[a] \in Call
      /\ call'[a].pc = "preparing" /\ call'[a].created = call[a].created
      /\ call'[a].route = call[a].route /\ call'[a].since = call[a].since
      /\ call'[a].epoch = call[a].epoch /\ call'[a].first = call[a].first
      /\ \A b \in Presses \ {a} : call'[b] = call[b]
  BY <1>1, MovesOnly DEF Steps, Early, Claiming, Claim
<1>3. jar = {} /\ ~dirty /\ (~bare => wipes = <<>>)
  <2>1. CASE At(a, "clearing") /\ NothingClearing
    <3>1. ~InUse
      BY <1>1, <2>1, RouteAssumption DEF InUse, IInv, PressOK, Placed, InAttempt, InStep,
         Attempting, Claiming, At, Types
    <3> QED BY <2>1, <3>1 DEF IInv, CookiesAreKnown, Claim, Usable, NothingClearing
  <2>2. CASE At(a, "retrying") /\ ~Pending(a)
    <3>1. ~bare => wipes = <<>>
      BY <1>1, <2>2 DEF IInv, PressOK, Opened, Pending, Types
    <3> QED BY <2>2, <3>1 DEF IInv, PressOK, Retried, Claim, Usable
  <2> QED BY <2>1, <2>2 DEF Claim
<1>4. Types'
  BY <1>1, <1>2 DEF Types, Claim, vault, counters
<1>5. Places' /\ Queued'
  BY <1>1, <1>2, RouteAssumption DEF IInv, Places, Queued, Claim, InAttempt, InStep, Attempting,
     At, Types, PressOK, Placed
<1>6. BrowserOwns' /\ LeftIsRetired' /\ CookiesAreKnown'
  BY <1>1, <1>2, <1>3, RouteAssumption DEF IInv, BrowserOwns, LeftIsRetired, CookiesAreKnown,
     At,
     Claim, InStep
<1>7. ASSUME NEW b \in Presses PROVE PressOK(b)'
  <2>1. Dated(b)' /\ Placed(b)'
    BY <1>1, <1>2, RouteAssumption DEF IInv, PressOK, Dated, Placed, At, Claim, vault, counters,
       InStep, InAttempt, Early, Claiming, Attempting
  <2>2. Wanted(b)' /\ Shown(b)'
    BY <1>1, <1>2 DEF IInv, PressOK, Wanted, Shown, At, Claim, vault, counters, InStep,
       Attempting, Early, stillWanted, Forbidden
  <2>3. Opened(b)' /\ Retried(b)'
    BY <1>1, <1>2, <1>3 DEF IInv, PressOK, Opened, Retried, Owns, At, Claim, InStep, Pending
  <2>4. Tearing(b)'
    <3>1. At(b, "tearing") /\ call[b].epoch = epoch => ~Pending(call[b].wait)
      BY <1>1 DEF Claim, NothingClearing, Pending, IInv, PressOK, Tearing, InStep, Attempting,
         At
    <3> QED BY <1>1, <1>2, <3>1 DEF IInv, PressOK, Tearing, At, Claim, counters, InStep,
       Attempting,
         stillWanted, MustWait, CanStillBeUnmade, Pending
  <2> QED BY <2>1, <2>2, <2>3, <2>4 DEF PressOK
<1> QED BY <1>4, <1>5, <1>6, <1>7 DEF IInv

(* The route is set, for the one attempt that is wanted.                   *)
LEMMA PreparedKeeps ==
  ASSUME IInv, NEW a \in Presses, Prepared(a), UNCHANGED bare
  PROVE  IInv'
<1>1. /\ Types /\ call[a] \in Call /\ At(a, "preparing")
      /\ opening = a /\ settling = a /\ windows = None /\ owner = a /\ a \notin retired
  BY CallKinds, RouteAssumption DEF IInv, Prepared, At, Steps, PressOK, Wanted, InStep,
     Attempting, Places, Placed, Claiming
<1>2. /\ call' \in [Presses -> Call \cup {Idle}] /\ call'[a] \in Call
      /\ call'[a].pc = "signing" /\ call'[a].created = call[a].created
      /\ call'[a].route = call[a].route /\ call'[a].since = call[a].since
      /\ call'[a].epoch = call[a].epoch /\ call'[a].first = call[a].first
      /\ \A b \in Presses \ {a} : call'[b] = call[b]
  BY <1>1, MovesOnly DEF Steps, Early, Claiming, Prepared
<1>3. Types'
  BY <1>1, <1>2 DEF Types, Prepared, vault, counters, maps, Call
<1>4. Places' /\ Queued'
  BY <1>1, <1>2, RouteAssumption DEF IInv, Places, Queued, Prepared, InAttempt, InStep,
     Attempting,
     At, Types, PressOK, Placed, maps
<1>5. BrowserOwns' /\ LeftIsRetired' /\ CookiesAreKnown'
  BY <1>1, <1>2, RouteAssumption DEF IInv, BrowserOwns, LeftIsRetired, CookiesAreKnown, At,
     Prepared, maps, InUse
<1>6. ASSUME NEW b \in Presses PROVE PressOK(b)'
  <2>1. Dated(b)' /\ Placed(b)'
    BY <1>1, <1>2 DEF IInv, PressOK, Dated, Placed, At, Prepared, vault, counters, maps,
       InStep, InAttempt, Early, Claiming, Attempting
  <2>2. Wanted(b)' /\ Shown(b)'
    BY <1>1, <1>2, RouteAssumption DEF IInv, PressOK, Wanted, Shown, At, Prepared, vault,
       counters,
       maps, InStep, Attempting, stillWanted, Forbidden, Places
  <2>3. Opened(b)' /\ Retried(b)'
    BY <1>1, <1>2 DEF IInv, PressOK, Opened, Retried, Owns, At, Prepared, maps, InStep, Pending,
       Claiming
  <2>4. Tearing(b)'
    BY <1>1, <1>2 DEF IInv, PressOK, Tearing, At, Prepared, counters, maps, InStep, Attempting,
       stillWanted, MustWait, CanStillBeUnmade, Pending
  <2> QED BY <2>1, <2>2, <2>3, <2>4 DEF PressOK
<1> QED BY <1>3, <1>4, <1>5, <1>6 DEF IInv

(* An attempt that fails with the jar claimed: its wipe is queued if the   *)
(* jar is its own, which it is unless the policy or a sweep let another    *)
(* in.                                                                     *)
LEMMA RetireKeeps ==
  ASSUME IInv, NEW a \in Presses, InStep(a, Claiming \cup {"loading"}), NEW contents,
         Retire(a, contents), contents = jar \/ (At(a, "signing") /\ contents = jar \cup {a}),
         UNCHANGED bare
  PROVE  IInv'
<1>1. Types /\ call[a] \in Call /\ Queued
  BY CallKinds DEF IInv, Steps, InStep, Claiming
<1>2. /\ call' \in [Presses -> Call \cup {Idle}] /\ call'[a] \in Call
      /\ call'[a].pc = "retiring" /\ call'[a].created = call[a].created
      /\ call'[a].route = call[a].route /\ call'[a].since = call[a].since
      /\ call'[a].epoch = call[a].epoch /\ call'[a].first = call[a].first
      /\ \A b \in Presses \ {a} : call'[b] = call[b]
  BY <1>1, MovesOnly DEF Steps, Early, Claiming, Retire
<1>3. /\ retired' = retired \cup {a} /\ wipes' \in Seq(Wipe) /\ Queued'
      /\ owner = a /\ a \notin retired => wipes' # <<>>
      /\ owner # a \/ a \in retired => wipes' = wipes
      /\ wipes # <<>> => wipes' # <<>>
      /\ \A t : Pending(t) => Pending(t)'
      /\ \A t : Pending(t)' => Pending(t) \/ (t = a /\ owner = a /\ a \notin retired)
  BY <1>1, RetirementOnly DEF Retire
<1>4. /\ screen' \in [Presses -> Routes \cup {None}] /\ screen'[a] = None
      /\ \A b \in Presses \ {a} : screen'[b] = screen[b]
  BY <1>1 DEF Types, Retire
<1>5. settling = a \/ contents = jar
  BY DEF IInv, PressOK, Placed, InAttempt, InStep, Attempting, At
<1>6. opening # a /\ ~bare => settling = a \/ wipes' = wipes
  BY <1>3 DEF IInv, LeftIsRetired, PressOK, Placed, InAttempt, InStep, Attempting, At, Claiming
<1>7. Types'
  BY <1>1, <1>2, <1>3, <1>4 DEF Types, Retire, vault, counters
<1>8. Places'
  BY <1>1, <1>2, <1>4, RouteAssumption DEF IInv, Places, Retire, InAttempt, InStep, Attempting,
     At, Types, PressOK, Placed, Claiming
<1>9. BrowserOwns'
  BY <1>1, <1>2, <1>3, <1>5, <1>6, RouteAssumption DEF IInv, BrowserOwns, Owns, Places,
     Retire, At,
     InStep, Claiming, Types
<1>10. LeftIsRetired'
  BY <1>1, <1>2, <1>3 DEF IInv, LeftIsRetired, Retire, At
<1>11. CookiesAreKnown'
  <2>1. CASE owner = a /\ a \notin retired
    BY <1>3, <2>1 DEF CookiesAreKnown
  <2>2. CASE owner # a \/ a \in retired
    <3>1. InUse => InUse'
      BY <1>1, <1>2, <1>3, <2>2 DEF IInv, InUse, Retire, At, PressOK, Placed, Opened, Owns,
         InStep,
         Claiming, Types, Places
    <3>2. contents = jar
      BY <2>2 DEF IInv, PressOK, Placed, InStep, Claiming, At
    <3> QED BY <1>3, <2>2, <3>1, <3>2 DEF IInv, CookiesAreKnown, Retire
  <2> QED BY <2>1, <2>2
<1>12. ASSUME NEW b \in Presses PROVE PressOK(b)'
  <2>1. Dated(b)' /\ Placed(b)'
    BY <1>1, <1>2, <1>3 DEF IInv, PressOK, Dated, Placed, At, Retire, vault, counters,
       InStep, InAttempt, Early, Claiming, Attempting
  <2>2. Wanted(b)' /\ Shown(b)'
    BY <1>1, <1>2, <1>4 DEF IInv, PressOK, Wanted, Shown, At, Retire, vault, counters,
       InStep, Attempting, stillWanted, Forbidden
  <2>3. Opened(b)' /\ Retried(b)'
    BY <1>1, <1>2, <1>3, <1>5, <1>6 DEF IInv, PressOK, Opened, Retried, Owns, Placed, At,
       Retire,
       InStep, InAttempt, Attempting, Claiming, Places
  <2>4. Tearing(b)'
    <3> SUFFICES ASSUME At(b, "tearing")' PROVE Tearing(b)'
      BY DEF Tearing
    <3>1. b # a /\ At(b, "tearing") /\ Tearing(b) /\ call'[b] = call[b]
      BY <1>2 DEF At, IInv, PressOK
    <3>2. call[b].wait \in {b} \cup retired
      BY <3>1 DEF Tearing
    <3>3. ~MustWait => ~MustWait'
      BY <1>1, <1>2 DEF MustWait, CanStillBeUnmade, Retire, Types
    <3>4. ~Pending(call[b].wait) => ~Pending(call[b].wait)'
      BY <1>3, <3>1, <3>2 DEF Pending
    <3>5. \A c \in Presses : InStep(c, Attempting \ {"clearing"})' /\ stillWanted(c)' =>
            InStep(c, Attempting \ {"clearing"}) /\ stillWanted(c)
      BY <1>2 DEF InStep, Attempting, stillWanted, Retire, counters
    <3> QED BY <1>3, <3>1, <3>2, <3>3, <3>4, <3>5 DEF Tearing, Retire, counters, stillWanted
  <2> QED BY <2>1, <2>2, <2>3, <2>4 DEF PressOK
<1> QED BY <1>3, <1>7, <1>8, <1>9, <1>10, <1>11, <1>12 DEF IInv

(* The cookie is set and the window made, under what was wanted a moment   *)
(* ago.                                                                    *)
LEMMA SignedInKeeps ==
  ASSUME IInv, NEW a \in Presses, SignedIn(a), UNCHANGED bare
  PROVE  IInv'
<1>1. /\ Types /\ call[a] \in Call /\ At(a, "signing") /\ stillWanted(a)
      /\ opening = a /\ settling = a /\ windows = None /\ owner = a /\ a \notin retired
      /\ jar \subseteq {a} /\ seeded /\ (~bare => wipes = <<>>)
  BY CallKinds, RouteAssumption DEF IInv, SignedIn, StillWantedNow, At, Steps, PressOK, Wanted,
     InStep, Attempting, Places, Placed, Claiming, Opened, Owns
<1>2. /\ unlocked /\ call[a].route \in {stored, Direct} /\ ~Forbidden(call[a].route)
      /\ config = call[a].route /\ call[a].route \in Routes
  BY <1>1 DEF IInv, PressOK, Dated, Wanted, stillWanted, At, InStep, Attempting, Call
<1>3. \A b \in Presses : screen[b] = None
  BY <1>1, RouteAssumption DEF IInv, PressOK, Shown, Places, Types, At
<1>4. [call[a] EXCEPT !.pc = "loading", !.created = TRUE] \in Call
  BY <1>1 DEF Call, Steps
<1>5. /\ call' \in [Presses -> Call \cup {Idle}]
      /\ call'[a].pc = "loading" /\ call'[a].created
      /\ call'[a].route = call[a].route /\ call'[a].since = call[a].since
      /\ call'[a].epoch = call[a].epoch /\ call'[a].first = call[a].first
      /\ \A b \in Presses \ {a} : call'[b] = call[b]
  <2>1. /\ call' \in [Presses -> Call \cup {Idle}]
        /\ call'[a] = [call[a] EXCEPT !.pc = "loading", !.created = TRUE]
        /\ \A b \in Presses \ {a} : call'[b] = call[b]
    BY <1>1, <1>4, BecomesOnly DEF SignedIn
  <2> QED BY <1>1, <2>1 DEF Call
<1>6. /\ screen' \in [Presses -> Routes \cup {None}] /\ screen'[a] = call[a].route
      /\ \A b \in Presses \ {a} : screen'[b] = None
  BY <1>1, <1>2, <1>3 DEF Types, SignedIn
<1>7. Types'
  BY <1>1, <1>5, <1>6 DEF Types, SignedIn, vault, counters
<1>8. Places' /\ Queued'
  BY <1>1, <1>5, RouteAssumption DEF IInv, Places, Queued, SignedIn, InAttempt, InStep,
     Attempting
<1>9. BrowserOwns' /\ LeftIsRetired' /\ CookiesAreKnown'
  BY <1>1, <1>5, RouteAssumption DEF IInv, BrowserOwns, LeftIsRetired, CookiesAreKnown, InUse,
     At,
     SignedIn
<1>10. ASSUME NEW b \in Presses PROVE PressOK(b)'
  <2>1. Dated(b)' /\ Placed(b)'
    BY <1>1, <1>5 DEF IInv, PressOK, Dated, Placed, At, SignedIn, vault, counters,
       InStep, InAttempt, Early, Claiming, Attempting
  <2>2. Wanted(b)' /\ Shown(b)'
    BY <1>1, <1>2, <1>5, <1>6 DEF IInv, PressOK, Wanted, Shown, At, SignedIn, vault, counters,
       InStep, Attempting, stillWanted, Forbidden
  <2>3. Opened(b)' /\ Retried(b)'
    BY <1>1, <1>5 DEF IInv, PressOK, Opened, Owns, Retried, Placed, At, SignedIn, InStep,
       InAttempt, Attempting, Claiming
  <2>4. Tearing(b)'
    BY <1>1, <1>5, RouteAssumption DEF IInv, PressOK, Tearing, At, SignedIn, counters, InStep,
       Attempting, stillWanted, MustWait, Pending
  <2> QED BY <2>1, <2>2, <2>3, <2>4 DEF PressOK
<1> QED BY <1>7, <1>8, <1>9, <1>10 DEF IInv

(* The window becomes the browser; nobody who closed the one before it for *)
(* another route is still waiting, or Calm would be false.                 *)
LEMMA LandedKeeps ==
  ASSUME IInv, NEW a \in Presses, Landed(a), UNCHANGED bare
  PROVE  IInv'
<1>1. /\ Types /\ call[a] \in Call /\ At(a, "loading") /\ stillWanted(a)
      /\ opening = a /\ settling = a /\ building = a /\ windows = None
      /\ Owns(a) /\ (~bare => a \in jar)
  BY CallKinds, RouteAssumption DEF IInv, Landed, At, Steps, PressOK, Wanted,
     InStep, Attempting, Places, Opened
<1>2. /\ call' \in [Presses -> Call \cup {Idle}] /\ call'[a] = Idle
      /\ \A b \in Presses \ {a} : call'[b] = call[b]
  BY <1>1, BecomesOnly DEF Landed, Ends
<1>3. \A b \in Presses : At(b, "tearing") => call[b].epoch # epoch
  <2> SUFFICES ASSUME NEW b \in Presses, At(b, "tearing"), call[b].epoch = epoch PROVE FALSE
    OBVIOUS
  <2>1. Pending(call[b].wait)
    BY DEF Landed, Calm, Resumed
  <2>2. ~Pending(call[b].wait)
    BY <1>1 DEF IInv, PressOK, Tearing, InStep, Attempting, At
  <2> QED BY <2>1, <2>2
<1>4. Types'
  BY <1>1, <1>2 DEF Types, Landed, Ends, Cleared, vault, counters, partition
<1>5. Places' /\ Queued'
  BY <1>1, <1>2, RouteAssumption DEF IInv, Places, Queued, Landed, Cleared, InAttempt, InStep,
     Attempting, At, Idle, partition
<1>6. BrowserOwns' /\ LeftIsRetired' /\ CookiesAreKnown'
  BY <1>1, <1>2, RouteAssumption DEF IInv, BrowserOwns, Owns, LeftIsRetired, CookiesAreKnown,
     InUse, At, Landed, partition, Cleared, Idle
<1>7. ASSUME NEW b \in Presses PROVE PressOK(b)'
  <2>1. Dated(b)' /\ Placed(b)'
    BY <1>1, <1>2 DEF IInv, PressOK, Dated, Placed, At, Landed, vault, counters, Idle, Cleared,
       InStep, InAttempt, Early, Claiming, Attempting
  <2>2. Wanted(b)' /\ Shown(b)'
    BY <1>1, <1>2, RouteAssumption DEF IInv, PressOK, Wanted, Shown, At, Landed, vault,
       counters, partition, Idle,
       InStep, Attempting, stillWanted, Forbidden, Cleared
  <2>3. Opened(b)' /\ Retried(b)'
    BY <1>1, <1>2, RouteAssumption DEF IInv, PressOK, Opened, Retried, At, Landed, partition,
       Idle, Cleared, Pending
  <2>4. Tearing(b)'
    BY <1>1, <1>2, <1>3 DEF IInv, PressOK, Tearing, At, Landed, counters, partition, Idle,
       Cleared,
       InStep, Attempting, stillWanted, MustWait, Pending
  <2> QED BY <2>1, <2>2, <2>3, <2>4 DEF PressOK
<1> QED BY <1>4, <1>5, <1>6, <1>7 DEF IInv

(* The failed attempt is over.                                             *)
LEMMA RetiredKeeps ==
  ASSUME IInv, NEW a \in Presses, Retired(a), UNCHANGED bare
  PROVE  IInv'
<1>1. Types /\ call[a] \in Call /\ At(a, "retiring")
  BY CallKinds DEF IInv, Retired, At, Steps
<1>2. /\ call' \in [Presses -> Call \cup {Idle}] /\ call'[a] = Idle
      /\ \A b \in Presses \ {a} : call'[b] = call[b]
  BY <1>1, BecomesOnly DEF Retired, Ends
<1>3. Types'
  BY <1>1, <1>2 DEF Types, Retired, Ends, Cleared, vault, counters
<1>4. Places' /\ Queued'
  BY <1>1, <1>2, RouteAssumption DEF IInv, Places, Queued, Retired, Cleared, InAttempt, InStep,
     Attempting, At, Idle, Types
<1>5. BrowserOwns' /\ LeftIsRetired' /\ CookiesAreKnown'
  BY <1>1, <1>2, RouteAssumption DEF IInv, BrowserOwns, Owns, LeftIsRetired, CookiesAreKnown,
     InUse, At, Retired, Cleared, Idle, Types, PressOK, Opened
<1>6. ASSUME NEW b \in Presses PROVE PressOK(b)'
  <2>1. Dated(b)' /\ Placed(b)'
    BY <1>1, <1>2 DEF IInv, PressOK, Dated, Placed, At, Retired, vault, counters, Idle, Cleared,
       InStep, InAttempt, Early, Claiming, Attempting
  <2>2. Wanted(b)' /\ Shown(b)'
    BY <1>1, <1>2 DEF IInv, PressOK, Wanted, Shown, At, Retired, vault, counters, Idle,
       InStep, Attempting, stillWanted, Forbidden, Cleared
  <2>3. Opened(b)'
    <3>1. owner # None /\ seeded => seeded'
      BY DEF Retired
    <3> QED BY <1>1, <1>2, <3>1, RouteAssumption DEF IInv, PressOK, Opened, Owns, At, Retired,
         InStep, Claiming, Idle, Cleared
  <2>5. Retried(b)'
    BY <1>1, <1>2 DEF IInv, PressOK, Retried, At, Retired, Idle, Pending
  <2>4. Tearing(b)'
    BY <1>1, <1>2, RouteAssumption DEF IInv, PressOK, Tearing, At, Retired, counters, Idle,
       Cleared,
       InStep, Attempting, stillWanted, MustWait, CanStillBeUnmade, Pending, Places, Types
  <2> QED BY <2>1, <2>2, <2>3, <2>4, <2>5 DEF PressOK
<1> QED BY <1>3, <1>4, <1>5, <1>6 DEF IInv

(* A press takes its route and the counters of the moment.                 *)
LEMMA PressKeeps ==
  ASSUME IInv, NEW a \in Presses, NEW route \in Routes, Press(a, route), UNCHANGED bare
  PROVE  IInv'
<1> DEFINE new == [pc |-> "minting", route |-> route, since |-> generation, epoch |-> epoch,
                   first |-> epoch, wait |-> None, joined |-> None, created |-> FALSE]
<1>1. Types /\ At(a, "idle") /\ call[a] = Idle /\ ~Pending(a) /\ owner # a /\ screen[a] = None
  BY CallKinds DEF IInv, Press
<1>2. new \in Call
  BY <1>1, BoundAssumption DEF Types, Call, Steps, Early
<1>3. /\ call' \in [Presses -> Call \cup {Idle}] /\ call'[a] = new
      /\ \A b \in Presses \ {a} : call'[b] = call[b]
  BY <1>1, <1>2, BecomesOnly DEF Press
<1>4. Types'
  BY <1>1, <1>3 DEF Types, Press, vault, counters, partition
<1>5. Places'
  BY <1>1, <1>3 DEF IInv, Places, Press, InAttempt, InStep, Attempting, At, Idle, Types
<1>6. Queued'
  BY <1>1 DEF IInv, Queued, Press, partition, Pending
<1>7. BrowserOwns' /\ LeftIsRetired' /\ CookiesAreKnown'
  BY <1>1, <1>3, RouteAssumption DEF IInv, BrowserOwns, Owns, LeftIsRetired, CookiesAreKnown,
     InUse, At, Press, partition, Idle, Types, Places
<1>8. ASSUME NEW b \in Presses PROVE PressOK(b)'
  <2>1. Dated(b)' /\ Placed(b)'
    BY <1>1, <1>3, BoundAssumption DEF IInv, PressOK, Dated, Placed, At, Press, vault, counters,
       Idle, InStep, InAttempt, Early, Claiming, Attempting, Types
  <2>2. Wanted(b)' /\ Shown(b)'
    BY <1>1, <1>3 DEF IInv, PressOK, Wanted, Shown, At, Press, vault, counters, Idle, partition,
       InStep, Attempting, stillWanted, Forbidden
  <2>3. Opened(b)' /\ Retried(b)'
    BY <1>1, <1>3 DEF IInv, PressOK, Opened, Owns, Retried, At, Press, InStep,
       Claiming, Idle, Pending, partition
  <2>4. Tearing(b)'
    <3>1. At(b, "tearing") => call[b].wait # a
      BY <1>1 DEF Press, Calm, Resumed
    <3> QED BY <1>1, <1>3, <3>1 DEF IInv, PressOK, Tearing, At, Press, counters, Idle,
       partition,
         InStep, InAttempt, Attempting, stillWanted, MustWait, CanStillBeUnmade, Pending, Places,
         Types
  <2> QED BY <2>1, <2>2, <2>3, <2>4 DEF PressOK
<1> QED BY <1>4, <1>5, <1>6, <1>7, <1>8 DEF IInv

LEMMA TailOnly ==
  ASSUME Types, wipes # <<>>, wipes' = Tail(wipes)
  PROVE  /\ wipes' \in Seq(Wipe) /\ Head(wipes) \in Wipe
         /\ \E i \in DOMAIN wipes : Head(wipes) = wipes[i]
         /\ \A i \in DOMAIN wipes' : \E j \in DOMAIN wipes : wipes'[i] = wipes[j]
         /\ \A t : Pending(t)' => Pending(t)
<1>1. wipes \in Seq(Wipe) /\ Len(wipes) \in Nat \ {0}
  BY DEF Types
<1>2. /\ wipes' \in Seq(Wipe) /\ Head(wipes) \in Wipe
      /\ 1 \in DOMAIN wipes /\ Head(wipes) = wipes[1]
      /\ \A i \in DOMAIN wipes' : i + 1 \in DOMAIN wipes /\ wipes'[i] = wipes[i + 1]
  BY <1>1
<1> QED BY <1>2 DEF Pending

(* A wipe is over: the jar is empty, or known to be dirty.                 *)
LEMMA WipedKeeps ==
  ASSUME IInv, NEW cleared \in BOOLEAN, Wiped(cleared), UNCHANGED bare
  PROVE  IInv'
<1>1. /\ Types /\ Queued /\ wipes # <<>> /\ call' = call
      /\ wipes' \in Seq(Wipe)
      /\ \A i \in DOMAIN wipes' : \E j \in DOMAIN wipes : wipes'[i] = wipes[j]
      /\ \A t : Pending(t)' => Pending(t)
  BY TailOnly DEF IInv, Wiped
<1>2. owner' = owner \/ (owner' = None /\ owner \in retired)
  BY <1>1, TailOnly DEF Wiped, Queued, Cleared
<1>3. jar' \subseteq jar /\ (jar' = {} \/ dirty')
  BY DEF Wiped
<1>4. Types'
  BY <1>1, <1>2, <1>3 DEF Types, Wiped, vault, counters
<1>5. Places' /\ Queued'
  BY <1>1 DEF IInv, Places, Queued, Wiped, InAttempt, InStep, At
<1>6. BrowserOwns' /\ LeftIsRetired' /\ CookiesAreKnown'
  BY <1>1, <1>2, <1>3, RouteAssumption DEF IInv, BrowserOwns, Owns, LeftIsRetired,
     CookiesAreKnown,
     At, Wiped
<1>7. ASSUME NEW b \in Presses PROVE PressOK(b)'
  <2>1. Dated(b)' /\ Placed(b)'
    BY <1>1, <1>2, RouteAssumption DEF IInv, PressOK, Dated, Placed, At, Wiped, vault, counters,
       InStep, InAttempt
  <2>2. Wanted(b)' /\ Shown(b)'
    BY <1>1 DEF IInv, PressOK, Wanted, Shown, At, Wiped, vault, counters, InStep, stillWanted,
       Forbidden
  <2>3. Opened(b)' /\ Retried(b)'
    BY <1>1, <1>2, <1>3 DEF IInv, PressOK, Opened, Owns, Retried, At, Wiped, InStep
  <2>4. Tearing(b)'
    BY <1>1 DEF IInv, PressOK, Tearing, At, Wiped, counters, InStep, stillWanted, MustWait,
       CanStillBeUnmade, Pending
  <2> QED BY <2>1, <2>2, <2>3, <2>4 DEF PressOK
<1> QED BY <1>4, <1>5, <1>6, <1>7 DEF IInv

(* The browser is closed, and its jar given up.                            *)
LEMMA ClosedKeeps ==
  ASSUME IInv, Closed, UNCHANGED bare
  PROVE  IInv'
<1>1. /\ Types /\ Queued /\ windows \in Presses /\ At(windows, "idle") /\ building = None
      /\ opening = None /\ settling = None /\ owner = windows /\ windows \notin retired
  BY RouteAssumption DEF IInv, Closed, Places, BrowserOwns, Owns, Types
<1>2. /\ retired' = retired \cup {windows} /\ wipes' \in Seq(Wipe) /\ wipes' # <<>> /\ Queued'
      /\ \A t : Pending(t) => Pending(t)'
  BY <1>1, RetirementOnly DEF Closed
<1>3. screen' \in [Presses -> Routes \cup {None}] /\ \A b \in Presses : screen'[b] = None
  BY <1>1, RouteAssumption DEF IInv, PressOK, Shown, Types, Closed
<1>4. Types'
  BY <1>1, <1>2, <1>3 DEF Types, Closed, vault, counters
<1>5. Places'
  BY <1>1 DEF Places, Closed
<1>6. BrowserOwns' /\ LeftIsRetired' /\ CookiesAreKnown'
  BY <1>1, <1>2 DEF IInv, BrowserOwns, LeftIsRetired, CookiesAreKnown, At, Closed
<1>7. ASSUME NEW b \in Presses PROVE PressOK(b)'
  <2>1. Dated(b)' /\ Placed(b)'
    BY <1>1, <1>2 DEF IInv, PressOK, Dated, Placed, At, Closed, vault, counters, InStep,
       InAttempt,
       Early, Claiming
  <2>2. Wanted(b)' /\ Shown(b)'
    BY <1>1, <1>3 DEF IInv, PressOK, Wanted, Shown, Closed, vault, counters, InStep,
       stillWanted,
       Forbidden
  <2>3. Opened(b)' /\ Retried(b)'
    BY <1>1, <1>2, RouteAssumption DEF IInv, PressOK, Opened, Retried, At, Closed, Pending
  <2>4. Tearing(b)'
    BY <1>1, <1>2, RouteAssumption DEF IInv, PressOK, Tearing, Wanted, At, Closed, counters,
       InStep,
       stillWanted, MustWait
  <2> QED BY <2>1, <2>2, <2>3, <2>4 DEF PressOK
<1> QED BY <1>2, <1>4, <1>5, <1>6, <1>7 DEF IInv

(* What allows more: an unlocked vault, a policy that was lifted.          *)
LEMMA AllowsKeeps ==
  ASSUME IInv, unlocked' \in BOOLEAN, requireProxies' \in BOOLEAN, unlocked => unlocked',
         requireProxies' => requireProxies, UNCHANGED <<stored, counters, maps, partition, screen,
         call, bare>>
  PROVE  IInv'
<1>1. Types'
  BY DEF IInv, Types, counters, maps, partition
<1>2. Places' /\ Queued' /\ BrowserOwns' /\ LeftIsRetired' /\ CookiesAreKnown'
  BY DEF IInv, Places, Queued, BrowserOwns, Owns, LeftIsRetired, CookiesAreKnown, InUse, At,
     InAttempt, InStep, maps, partition
<1>3. ASSUME NEW b \in Presses PROVE PressOK(b)'
  <2>1. Dated(b)' /\ Wanted(b)' /\ Shown(b)'
    BY DEF IInv, PressOK, Dated, Wanted, Shown, At, InStep, stillWanted, Forbidden, counters,
       maps,
       partition
  <2>2. Placed(b)' /\ Opened(b)' /\ Retried(b)' /\ Tearing(b)'
    BY DEF IInv, PressOK, Placed, Opened, Owns, Retried, Tearing, At, InStep, InAttempt,
       Pending,
       stillWanted, MustWait, CanStillBeUnmade, counters, maps, partition
  <2> QED BY <2>1, <2>2 DEF PressOK
<1> QED BY <1>1, <1>2, <1>3 DEF IInv

-----------------------------------------------------------------------------
(* What closes the windows: a lock, a new route, the other button.         *)

(* The other button's press, which goes on once the jar is wiped.          *)
Tears(a) ==
  /\ At(a, "asking") /\ stillWanted(a) /\ windows # None
  /\ Becomes(a, [call[a] EXCEPT !.pc = "tearing", !.wait = TagOf(a), !.epoch = epoch'])

(* Nothing is open, opening or wanted, and the owner's jar goes unless its *)
(* attempt has still to set the cookie.                                    *)
Sweeps ==
  /\ windows' = None /\ building' = None /\ opening' = None /\ seeded' = FALSE
  /\ \A a \in Presses : screen'[a] = None
  /\ wipes' \in Seq(Wipe) /\ Queued'
  /\ retired' = retired \/ (owner \in Presses /\ retired' = retired \cup {owner})
  /\ \A t : Pending(t) => Pending(t)'
  /\ wipes # <<>> => wipes' # <<>>
  /\ owner # None /\ retired' # retired => ~InStep(owner, Claiming)
  /\ InUse => wipes' # <<>> \/ At(owner, "signing")
  /\ owner # None /\ opening = owner /\ At(owner, "loading") => owner \in retired'
  /\ UNCHANGED <<settling, owner, dirty, config, jar, bare>>

(* What is known of the press that tears, before and after.                *)
Torn(a) ==
  /\ At(a, "asking") /\ stillWanted(a) /\ windows # None
  /\ call'[a].pc = "tearing" /\ call'[a].wait = TagOf(a) /\ call'[a].epoch = epoch'
  /\ call'[a].since = call[a].since /\ call'[a].route = call[a].route
  /\ call'[a].first = call[a].first /\ call'[a].created = call[a].created

LEMMA TearsOnly ==
  ASSUME Types, epoch' \in Nat, NEW a \in Presses, Tears(a)
  PROVE  /\ Torn(a) /\ call' \in [Presses -> Call \cup {Idle}]
         /\ \A b \in Presses \ {a} : call'[b] = call[b]
<1> DEFINE next == [call[a] EXCEPT !.pc = "tearing", !.wait = TagOf(a), !.epoch = epoch']
<1>1. call[a] \in Call
  BY CallKinds DEF Tears, At, Steps, Early
<1>2. TagOf(a) \in Presses \cup {None}
  BY DEF TagOf, Types
<1>3. /\ next \in Call /\ next.pc = "tearing" /\ next.wait = TagOf(a) /\ next.epoch = epoch'
      /\ next.since = call[a].since /\ next.route = call[a].route
      /\ next.first = call[a].first /\ next.created = call[a].created
  BY <1>1, <1>2 DEF Call, Steps, Early
<1> QED BY <1>3, BecomesOnly DEF Tears, Torn

(* Whatever closed the windows, nothing that was under way is wanted.      *)
LEMMA SweepKeeps ==
  ASSUME IInv, Sweeps, Types', generation <= generation', epoch <= epoch',
         ~(generation' = generation /\ epoch' = epoch),
         generation' = generation => unlocked' = unlocked,
         epoch' = epoch => stored' = stored,
         \A b \in Presses :
           \/ call'[b] = call[b]
           \/ Torn(b) /\ UNCHANGED <<generation, stored>> /\ TagOf(b) \in {b} \cup retired'
  PROVE  IInv'
<1>1. Types /\ generation \in Nat /\ epoch \in Nat /\ generation' \in Nat /\ epoch' \in Nat
  BY BoundAssumption DEF IInv, Types
<1>2. ASSUME NEW b \in Presses, ~At(b, "idle"), call'[b] = call[b] PROVE ~stillWanted(b)'
  <2>1. /\ call[b] \in Call /\ call[b].since \in Nat /\ call[b].epoch \in Nat
        /\ call[b].since <= generation /\ call[b].epoch <= epoch
    BY <1>1, <1>2, CallKinds DEF IInv, PressOK, Dated, Call
  <2> QED BY <1>1, <1>2, <2>1 DEF stillWanted
<1>3. \A b \in Presses : (InAttempt(b)' <=> InAttempt(b)) /\ call'[b].created = call[b].created
  BY DEF InAttempt, InStep, Attempting, Torn, At
<1>4. Places'
  BY <1>3, <1>1 DEF IInv, Places, Sweeps, Types
<1>5. BrowserOwns' /\ LeftIsRetired'
  BY DEF IInv, BrowserOwns, LeftIsRetired, Sweeps, At, Torn
<1>6. CookiesAreKnown'
  <2>1. CASE InUse /\ At(owner, "signing")
    BY <1>1, <2>1, RouteAssumption DEF InUse, CookiesAreKnown, Sweeps, At, Torn, Types
  <2>2. CASE ~(InUse /\ At(owner, "signing"))
    BY <2>2 DEF IInv, CookiesAreKnown, Sweeps
  <2> QED BY <2>1, <2>2
<1>7. ASSUME NEW b \in Presses PROVE PressOK(b)'
  <2>1. Dated(b)'
    <3>1. CASE call'[b] = call[b] /\ ~At(b, "idle")
      <4>1. /\ call[b].since \in Nat /\ call[b].epoch \in Nat /\ call[b].first \in Nat
            /\ Dated(b)
        BY <1>1, <3>1, CallKinds DEF IInv, PressOK, Call
      <4> QED BY <1>1, <3>1, <4>1 DEF Dated, At
    <3>2. CASE Torn(b) /\ UNCHANGED <<generation, stored>>
      <4>1. /\ call[b].since \in Nat /\ call[b].epoch \in Nat /\ call[b].first \in Nat
            /\ Dated(b) /\ ~At(b, "idle")
        BY <1>1, <3>2, CallKinds DEF IInv, PressOK, Call, Torn, At
      <4> QED BY <1>1, <3>2, <4>1 DEF Dated, At, Torn, stillWanted
    <3> QED BY <3>1, <3>2 DEF Dated, At
  <2>2. Placed(b)'
    <3>1. CASE call'[b] = call[b]
      BY <1>3, <3>1, RouteAssumption DEF IInv, PressOK, Placed, Sweeps, InStep, At, Early
    <3>2. CASE Torn(b)
      BY <1>3, <3>2, RouteAssumption DEF IInv, PressOK, Placed, Sweeps, InStep, At, Early, Torn,
         InAttempt, Attempting, Claiming
    <3> QED BY <3>1, <3>2
  <2>3. Wanted(b)' /\ Shown(b)'
    BY <1>2 DEF Wanted, Shown, Sweeps, InStep, Attempting, At, Torn
  <2>4. Opened(b)' /\ Retried(b)'
    BY RouteAssumption DEF IInv, PressOK, Opened, Retried, At, Sweeps, Torn, Pending
  <2>5. Tearing(b)'
    <3>1. \A c \in Presses : ~(InStep(c, Attempting \ {"clearing"})' /\ stillWanted(c)')
      BY <1>2 DEF InStep, Attempting, At, Torn
    <3>2. CASE call'[b] = call[b]
      BY <1>2, <3>1, <3>2 DEF IInv, PressOK, Tearing, At, Sweeps
    <3>3. CASE Torn(b) /\ TagOf(b) \in {b} \cup retired'
      BY <3>1, <3>3 DEF IInv, Places, Tearing, At, Sweeps, Torn, MustWait
    <3> QED BY <3>2, <3>3
  <2> QED BY <2>1, <2>2, <2>3, <2>4, <2>5 DEF PressOK
<1> QED BY <1>4, <1>5, <1>6, <1>7 DEF IInv, Sweeps

(* Whoever still has its cookie to set is the one whose work is not over,  *)
(* and there is no window then.                                            *)
LEMMA ClaimingAlone ==
  ASSUME IInv, owner # None, InStep(owner, Claiming)
  PROVE  settling = owner /\ ~call[owner].created /\ windows = None /\ building = None
<1>1. Types /\ owner \in Presses
  BY DEF IInv, Types
<1>2. settling = owner /\ ~call[owner].created
  BY <1>1 DEF IInv, PressOK, Placed, InStep, InAttempt, Attempting, Claiming
<1> QED BY <1>1, <1>2, RouteAssumption DEF IInv, Places

(* A jar in use is not yet given up, and the sweep will know of it.        *)
LEMMA InUseIsOwned ==
  ASSUME IInv, InUse
  PROVE  /\ owner \in Presses /\ owner \notin retired
         /\ At(owner, "signing") \/ (owner = windows \/ (building = owner /\ opening = owner /\ seeded))
<1>1. Types /\ owner \in Presses
  BY DEF IInv, Types, InUse
<1>2. CASE At(owner, "signing")
  BY <1>1, <1>2 DEF IInv, PressOK, Placed, InStep, Claiming, At
<1>3. CASE owner = windows
  BY <1>1, <1>3, RouteAssumption DEF IInv, BrowserOwns, Owns
<1>4. CASE At(owner, "loading") /\ opening = owner
  BY <1>1, <1>4 DEF IInv, PressOK, Opened, Owns, InStep, At
<1> QED BY <1>2, <1>3, <1>4, <1>1 DEF InUse

LEMMA ScreenIsDark ==
  ASSUME IInv, NEW a \in Presses, screen[a] # None
  PROVE  a = windows \/ (a = building /\ windows = None)
BY RouteAssumption DEF IInv, PressOK, Shown, Places, Types

LEMMA CloseAccountSweeps ==
  ASSUME IInv, NEW by \in Presses \cup {None}, CloseAccount(by), UNCHANGED bare
  PROVE  /\ Sweeps /\ epoch' = epoch + 1 /\ epoch' \in 0..MaxSweeps
         /\ screen' \in [Presses -> Routes \cup {None}]
         /\ ByRetirement => owner \in retired'
<1>1. Types /\ Queued /\ epoch \in Nat /\ generation \in Nat /\ (ByRetirement => owner \in Presses)
  BY BoundAssumption DEF IInv, Types, ByRetirement
<1>2. epoch' = epoch + 1 /\ epoch' \in 0..MaxSweeps
  BY <1>1, BoundAssumption DEF CloseAccount, Sweepable
<1>3. /\ wipes' \in Seq(Wipe) /\ Queued' /\ (wipes # <<>> => wipes' # <<>>)
      /\ \A t : Pending(t) => Pending(t)'
      /\ retired' = IF ByRetirement THEN retired \cup {owner} ELSE retired
      /\ ~ByRetirement \/ owner \notin retired => wipes' # <<>>
  <2>1. CASE ByRetirement
    BY <1>1, <2>1, RetirementOnly DEF CloseAccount
  <2>2. CASE ~ByRetirement
    BY <1>1, <2>2, WipingOnly DEF CloseAccount
  <2> QED BY <2>1, <2>2
<1>4. /\ screen' \in [Presses -> Routes \cup {None}]
      /\ \A a \in Presses : screen'[a] = None
  BY <1>1, ScreenIsDark, RouteAssumption DEF Types, CloseAccount, Retiring
<1>5. owner # None /\ ByRetirement => ~InStep(owner, Claiming)
  BY ClaimingAlone, RouteAssumption DEF ByRetirement, CanStillBeUnmade
<1>6. InUse => wipes' # <<>>
  BY <1>3, InUseIsOwned
<1>7. owner # None /\ opening = owner /\ At(owner, "loading") => ByRetirement
  BY <1>1 DEF IInv, PressOK, Placed, Places, Types, ByRetirement, CanStillBeUnmade
<1> QED BY <1>1, <1>2, <1>3, <1>4, <1>5, <1>6, <1>7 DEF Sweeps, CloseAccount

LEMMA SwitchKeeps ==
  ASSUME IInv, NEW a \in Presses, Switch(a), UNCHANGED bare
  PROVE  IInv'
<1>1. Types /\ Tears(a) /\ CloseAccount(a)
  BY DEF IInv, Switch, Tears
<1>2. /\ Sweeps /\ epoch' = epoch + 1 /\ epoch' \in 0..MaxSweeps
      /\ screen' \in [Presses -> Routes \cup {None}]
      /\ TagOf(a) \in {a} \cup retired'
  BY <1>1, CloseAccountSweeps DEF TagOf
<1>3. /\ Torn(a) /\ call' \in [Presses -> Call \cup {Idle}]
      /\ \A b \in Presses \ {a} : call'[b] = call[b]
  BY <1>1, <1>2, BoundAssumption, TearsOnly
<1>4. Types'
  BY <1>1, <1>2, <1>3 DEF Types, Sweeps, Switch, CloseAccount, vault
<1> QED BY <1>1, <1>2, <1>3, <1>4, BoundAssumption, SweepKeeps DEF Types, Switch,
   CloseAccount, vault

LEMMA SaveProxyKeeps ==
  ASSUME IInv, NEW r \in Routes, SaveProxy(r), UNCHANGED bare
  PROVE  IInv'
<1>1. Types /\ CloseAccount(None)
  BY DEF IInv, SaveProxy
<1>2. /\ Sweeps /\ epoch' = epoch + 1 /\ epoch' \in 0..MaxSweeps
      /\ screen' \in [Presses -> Routes \cup {None}]
  BY <1>1, CloseAccountSweeps
<1>3. Types'
  BY <1>1, <1>2 DEF Types, Sweeps, SaveProxy, CloseAccount
<1> QED BY <1>1, <1>2, <1>3, BoundAssumption, SweepKeeps DEF Types, SaveProxy, CloseAccount

LEMMA LockKeeps ==
  ASSUME IInv, Lock, UNCHANGED bare
  PROVE  IInv'
<1>1. Types /\ Queued
  BY DEF IInv
<1>2. generation' = generation + 1 /\ generation' \in 0..MaxSweeps /\ epoch' = epoch
  BY <1>1, BoundAssumption DEF Lock, Sweepable, Types
<1>3. /\ screen' \in [Presses -> Routes \cup {None}]
      /\ \A a \in Presses : screen'[a] = None
  BY <1>1, ScreenIsDark DEF Types, Lock, Swept
<1>4. /\ wipes' \in Seq(Wipe) /\ Queued' /\ (wipes # <<>> => wipes' # <<>>)
      /\ \A t : Pending(t) => Pending(t)'
      /\ \/ windows = None /\ ~seeded /\ ~dirty /\ retired' = retired
         \/ /\ {windows, building} # {None} /\ owner \in Presses /\ retired' = retired \cup {owner}
            /\ owner \notin retired => wipes' # <<>>
         \/ /\ {windows, building} = {None} \/ owner = None
            /\ retired' = retired /\ wipes' # <<>>
  <2>1. CASE windows = None /\ ~seeded /\ ~dirty
    BY <1>1, <2>1 DEF Lock, Queued, Types, Pending
  <2>2. CASE ~(windows = None /\ ~seeded /\ ~dirty) /\ {windows, building} # {None} /\ owner # None
    <3>1. owner \in Presses /\ Retirement(owner)
      BY <1>1, <2>2 DEF Lock, Types
    <3> QED BY <1>1, <2>2, <3>1, RetirementOnly
  <2>3. CASE ~(windows = None /\ ~seeded /\ ~dirty) /\ ({windows, building} = {None} \/ owner = None)
    <3>1. Wiping(None) /\ retired' = retired
      BY <2>3 DEF Lock
    <3> QED BY <1>1, <2>3, <3>1, WipingOnly
  <2> QED BY <2>1, <2>2, <2>3
<1>5. owner # None /\ retired' # retired => ~InStep(owner, Claiming)
  BY <1>4, ClaimingAlone
<1>6. InUse => wipes' # <<>> \/ At(owner, "signing")
  BY <1>4, InUseIsOwned, RouteAssumption
<1>7. owner # None /\ opening = owner /\ At(owner, "loading") => owner \in retired'
  BY <1>1, <1>4, RouteAssumption DEF IInv, PressOK, Opened, InStep, At, Types
<1>8. Sweeps
  BY <1>3, <1>4, <1>5, <1>6, <1>7 DEF Sweeps, Lock
<1>9. Types'
  BY <1>1, <1>2, <1>3, <1>4 DEF Types, Lock
<1>10. /\ UNCHANGED <<call, stored>> /\ ~(generation' = generation /\ epoch' = epoch)
       /\ generation <= generation' /\ epoch <= epoch'
  BY <1>1, <1>2, BoundAssumption DEF Types, Lock
<1> QED BY <1>2, <1>8, <1>9, <1>10, SweepKeeps

(* The policy spares what is routed; what is loading without is left to    *)
(* its own retirement, with a jar that counts as dirty.                    *)
LEMMA RequireProxiesKeeps ==
  ASSUME IInv, RequireProxies
  PROVE  IInv'
<1> DEFINE unrouted == opening # None /\ ~FullyRouted(call[opening].route)
<1>1. Types /\ Queued /\ epoch \in Nat /\ generation \in Nat
  BY BoundAssumption DEF IInv, Types
<1>2. CASE windows # None /\ ~FullyRouted(screen[windows])
  <2>1. CloseAccount(None) /\ UNCHANGED bare
    BY <1>2 DEF RequireProxies
  <2>2. /\ Sweeps /\ epoch' = epoch + 1 /\ epoch' \in 0..MaxSweeps
        /\ screen' \in [Presses -> Routes \cup {None}]
    BY <2>1, CloseAccountSweeps
  <2>3. Types'
    BY <1>1, <2>1, <2>2 DEF Types, Sweeps, RequireProxies, CloseAccount
  <2> QED BY <1>1, <2>1, <2>2, <2>3, SweepKeeps DEF RequireProxies, CloseAccount
<1>3. CASE /\ windows = None \/ FullyRouted(screen[windows])
           /\ unrouted
  <2>1. windows = None /\ opening \in Presses
    BY <1>1, <1>3 DEF IInv, Places, Types
  <2>2. /\ opening' = None /\ building' = None /\ bare' = (bare \/ building # None)
        /\ dirty' = (dirty \/ building # None) /\ epoch' = epoch + 1
        /\ screen' = [a \in Presses |-> IF a = building THEN None ELSE screen[a]]
        /\ requireProxies' \in BOOLEAN /\ epoch' \in 0..MaxSweeps
        /\ UNCHANGED <<generation, windows, settling, owner, retired, wipes, seeded, config,
                       jar, unlocked, stored, requested, call>>
    BY <1>1, <1>3, BoundAssumption DEF RequireProxies, Sweepable, Types
  <2>3. \A b \in Presses : screen'[b] = None
    BY <2>1, <2>2, ScreenIsDark, RouteAssumption DEF Types
  <2>4. Types'
    BY <1>1, <2>2 DEF Types
  <2>5. ASSUME NEW b \in Presses, ~At(b, "idle") PROVE ~stillWanted(b)' /\ epoch' # call[b].epoch
    <3>1. call[b].epoch \in Nat /\ call[b].epoch <= epoch
      BY <1>1, <2>5, CallKinds DEF IInv, PressOK, Dated, Call
    <3> QED BY <1>1, <2>2, <3>1 DEF stillWanted
  <2>6. Places' /\ Queued' /\ BrowserOwns'
    BY <2>1, <2>2 DEF IInv, Places, Queued, BrowserOwns, InAttempt, InStep
  <2>7. ~bare' => ~bare /\ \A a \in Presses : ~(At(a, "loading") /\ opening = a)
    BY <1>1, <2>2, RouteAssumption DEF IInv, PressOK, Opened, Types
  <2>8. LeftIsRetired'
    BY <2>2, <2>7 DEF IInv, LeftIsRetired, At
  <2>9. CookiesAreKnown'
    <3>1. CASE InUse
      BY <2>1, <2>2, <3>1, InUseIsOwned, RouteAssumption DEF CookiesAreKnown, InUse, At
    <3>2. CASE ~InUse
      BY <2>2, <3>2 DEF IInv, CookiesAreKnown
    <3> QED BY <3>1, <3>2
  <2>10. ASSUME NEW b \in Presses PROVE PressOK(b)'
    <3>1. Dated(b)'
      <4>1. ~At(b, "idle") => call[b].epoch \in Nat /\ call[b].first \in Nat
        BY <1>1, CallKinds DEF Call
      <4> QED BY <1>1, <2>2, <4>1 DEF IInv, PressOK, Dated, At
    <3>2. Placed(b)' /\ Wanted(b)' /\ Shown(b)'
      BY <2>2, <2>3, <2>5 DEF IInv, PressOK, Placed, Wanted, Shown, At, InStep, InAttempt,
         Attempting
    <3>3. Opened(b)' /\ Retried(b)'
      BY <2>2, RouteAssumption DEF IInv, PressOK, Opened, Retried, At, Pending
    <3>4. Tearing(b)'
      BY <2>1, <2>2, <2>5 DEF IInv, PressOK, Tearing, At
    <3> QED BY <3>1, <3>2, <3>3, <3>4 DEF PressOK
  <2> QED BY <2>4, <2>6, <2>8, <2>9, <2>10 DEF IInv
<1>4. CASE /\ windows = None \/ FullyRouted(screen[windows])
           /\ ~unrouted
  <2>1. /\ epoch' \in 0..MaxSweeps /\ epoch' \in {epoch, epoch + 1}
        /\ requireProxies' \in BOOLEAN
        /\ UNCHANGED <<generation, windows, opening, building, settling, owner, retired, wipes, bare,
                       dirty, seeded, config, jar, screen, unlocked, stored, requested, call>>
    BY <1>1, <1>4, BoundAssumption DEF RequireProxies, Sweepable, Types
  <2>2. Types'
    BY <1>1, <2>1 DEF Types
  <2>3. Places' /\ Queued' /\ BrowserOwns' /\ LeftIsRetired' /\ CookiesAreKnown'
    BY <2>1 DEF IInv, Places, Queued, BrowserOwns, Owns, LeftIsRetired, CookiesAreKnown,
       InUse, At,
       InAttempt, InStep
  <2>4. ASSUME NEW b \in Presses PROVE PressOK(b)'
    <3>1. ~At(b, "idle") => call[b].epoch \in Nat /\ call[b].first \in Nat /\ call[b].epoch <= epoch
      BY <1>1, CallKinds DEF Call, IInv, PressOK, Dated
    <3>2. Dated(b)'
      BY <1>1, <2>1, <3>1 DEF IInv, PressOK, Dated, At
    <3>3. ~At(b, "idle") /\ stillWanted(b)' => epoch' = epoch /\ stillWanted(b)
      BY <1>1, <2>1, <3>1 DEF stillWanted
    <3>4. Placed(b)' /\ Opened(b)' /\ Retried(b)'
      BY <2>1 DEF IInv, PressOK, Placed, Opened, Owns, Retried, At, InStep, InAttempt, Pending
    <3>5. Wanted(b)'
      BY <1>4, <2>1, <3>3, RouteAssumption DEF IInv, PressOK, Wanted, At, InStep, Attempting,
         Forbidden, FullyRouted
    <3>6. Shown(b)'
      BY <1>4, <2>1, RouteAssumption DEF IInv, PressOK, Shown, Places, At, Forbidden,
         FullyRouted
    <3>7. Tearing(b)'
      <4>1. \A c \in Presses : InStep(c, Attempting \ {"clearing"})' /\ stillWanted(c)' =>
              InStep(c, Attempting \ {"clearing"}) /\ stillWanted(c) /\ epoch' = epoch
        <5> SUFFICES ASSUME NEW c \in Presses, InStep(c, Attempting \ {"clearing"})', stillWanted(c)'
                     PROVE  InStep(c, Attempting \ {"clearing"}) /\ stillWanted(c) /\ epoch' = epoch
          OBVIOUS
        <5>1. InStep(c, Attempting \ {"clearing"}) /\ ~At(c, "idle")
          BY <2>1 DEF InStep, Attempting, At
        <5>2. call[c].epoch \in Nat /\ call[c].epoch <= epoch
          BY <1>1, <5>1, CallKinds DEF Call, IInv, PressOK, Dated
        <5> QED BY <1>1, <2>1, <5>1, <5>2 DEF stillWanted
      <4> QED BY <1>1, <2>1, <3>1, <3>3, <4>1 DEF IInv, PressOK, Tearing, At, stillWanted,
         MustWait,
           CanStillBeUnmade, Pending
    <3> QED BY <3>2, <3>4, <3>5, <3>6, <3>7 DEF PressOK
  <2> QED BY <2>2, <2>3, <2>4 DEF IInv
<1> QED BY <1>2, <1>3, <1>4

-----------------------------------------------------------------------------
LEMMA Initially == Init => IInv
<1> SUFFICES ASSUME Init PROVE IInv
  OBVIOUS
<1>1. Types
  <2>1. <<>> \in Seq(Wipe) /\ 0 \in 0..MaxSweeps
    BY BoundAssumption
  <2>2. /\ screen \in [Presses -> Routes \cup {None}]
        /\ call \in [Presses -> Call \cup {Idle}]
    BY DEF Init
  <2> QED BY <2>1, <2>2 DEF Init, Types, Routes
<1>2. \A a \in Presses : call[a] = Idle /\ screen[a] = None
  BY DEF Init
<1>3. Places /\ Queued /\ BrowserOwns /\ LeftIsRetired /\ CookiesAreKnown
  BY <1>2 DEF Init, Places, Queued, BrowserOwns, LeftIsRetired, CookiesAreKnown, At, Idle
<1>4. ASSUME NEW a \in Presses PROVE PressOK(a)
  BY <1>2, RouteAssumption DEF Init, PressOK, Dated, Placed, Wanted, Shown, Opened, Retried,
     Tearing, At, Idle, InStep, InAttempt, Early, Claiming, Attempting
<1> QED BY <1>1, <1>3, <1>4 DEF IInv

LEMMA WorksKeep ==
  ASSUME IInv, NEW a \in Presses, Works(a), UNCHANGED bare
  PROVE  IInv'
<1>1. Types /\ (~At(a, "idle") => call[a] \in Call)
  BY CallKinds DEF IInv
<1>2. CASE Minted(a)
  <2>1. [call[a] EXCEPT !.pc = "asking"] \in Call /\ call[a].route \in Routes /\ ~call[a].created
    BY <1>1, <1>2 DEF Minted, At, Call, Steps, Early, IInv, PressOK, Placed, InStep
  <2> QED BY <1>1, <1>2, <2>1, AskingKeeps DEF Minted, Moves, At, InStep, Call
<1>3. CASE MintFails(a)
  <2>1. opening # a /\ settling # a
    BY <1>3, RouteAssumption DEF MintFails, IInv, Places, InAttempt, InStep, Attempting, At
  <2> QED BY <1>1, <1>3, <2>1, GoneKeeps DEF MintFails, At, InStep, Early, maps, Cleared, Types
<1>4. ASSUME Gone(a), InStep(a, Early) PROVE IInv'
  BY <1>1, <1>4, GoneKeeps DEF Gone, Ends, Types
<1>5. CASE AsksLate(a) \/ Focus(a) \/ TornLate(a) \/ Unwanted(a)
  BY <1>4, <1>5 DEF AsksLate, Focus, TornLate, Unwanted, At, InStep, Early
<1>6. CASE Waits(a)
  <2>1. [call[a] EXCEPT !.pc = "waiting", !.wait = settling] \in Call /\ ~call[a].created
    BY <1>1, <1>6 DEF Waits, At, Call, Steps, Early, Types, IInv, PressOK, Placed, InStep
  <2> QED BY <1>1, <1>6, <2>1, AskingKeeps DEF Waits, At, InStep, Call, maps, Types
<1>7. CASE Waited(a)
  <2>1. [call[a] EXCEPT !.pc = "asking"] \in Call /\ ~call[a].created
    BY <1>1, <1>7 DEF Waited, At, Call, Steps, Early, IInv, PressOK, Placed, InStep
  <2> QED BY <1>1, <1>7, <2>1, AskingKeeps DEF Waited, Moves, At, InStep, Call, maps, Types
<1>8. CASE Join(a)
  <2>1. InStep(a, {"asking", "tearing"}) /\ call[a] \in Call
    BY <1>1, <1>8 DEF Join, Asks, At, InStep
  <2>2. opening \in Presses /\ call[opening].route \in Routes
    BY <1>1, <1>8, CallKinds DEF Join, Types, IInv, Places, InAttempt, InStep, Attempting,
       Call, At
  <2>3. [call[a] EXCEPT !.pc = "joining", !.wait = opening, !.joined = call[opening].route] \in Call
        /\ ~call[a].created
    BY <1>1, <2>1, <2>2 DEF Call, Steps, Early, Types, IInv, PressOK, Placed, InStep
  <2> QED BY <1>1, <1>8, <2>1, <2>3, AskingKeeps DEF Join, InStep, Call, maps, Types
<1>9. CASE Joined(a)
  <2>1. CASE call[a].joined = call[a].route
    BY <1>4, <1>9, <2>1 DEF Joined, At, InStep, Early
  <2>2. CASE call[a].joined # call[a].route
    <3>1. [call[a] EXCEPT !.pc = "asking", !.epoch = call[a].first] \in Call /\ ~call[a].created
          /\ call[a].route \in Routes
      BY <1>1, <1>9 DEF Joined, At, Call, Steps, Early, IInv, PressOK, Placed, InStep
    <3> QED BY <1>1, <1>9, <2>2, <3>1, AskingKeeps DEF Joined, At, InStep, Call
  <2> QED BY <2>1, <2>2
<1>10. CASE Begin(a)
  <2>1. CASE Forbidden(call[a].route) \/ ~stillWanted(a)
    BY <1>4, <1>10, <2>1 DEF Begin, Asks, At, InStep, Early
  <2>2. CASE ~(Forbidden(call[a].route) \/ ~stillWanted(a))
    BY <1>10, <2>2, BeginKeeps DEF Begin
  <2> QED BY <2>1, <2>2
<1>11. CASE PrepareFails(a) \/ LoadFails(a)
  BY <1>11, RetireKeeps DEF PrepareFails, LoadFails, At, InStep, Claiming
<1>12. CASE SignInFails(a)
  BY <1>12, RetireKeeps DEF SignInFails, At, InStep, Claiming
<1> QED BY <1>2, <1>3, <1>5, <1>6, <1>7, <1>8, <1>9, <1>10, <1>11, <1>12, SwitchKeeps,
   RetryKeeps,
         ClaimKeeps, PreparedKeeps, SignedInKeeps, LandedKeeps, RetiredKeeps DEF Works

LEMMA Inductive == IInv /\ [Next]_vars => IInv'
<1> SUFFICES ASSUME IInv, [Next]_vars PROVE IInv'
  OBVIOUS
<1>1. CASE UNCHANGED vars
  BY <1>1, AllowsKeeps DEF vars, vault, IInv, Types
<1>2. CASE RequireProxies
  BY <1>2, RequireProxiesKeeps
<1>3. CASE Happens /\ UNCHANGED bare
  <2>1. CASE \E a \in Presses : Works(a) \/ \E route \in Routes : Press(a, route)
    BY <1>3, <2>1, WorksKeep, PressKeeps
  <2>2. CASE Wiped(TRUE) \/ WipeFails
    BY <1>3, <2>2, WipedKeeps DEF WipeFails
  <2>3. CASE Unlock
    <3>1. /\ unlocked' = TRUE /\ requireProxies' = requireProxies
          /\ UNCHANGED <<stored, counters, maps, partition, screen, call, bare>>
      BY <1>3, <2>3 DEF Unlock
    <3> QED BY <3>1, AllowsKeeps DEF IInv, Types
  <2>5. CASE AllowDirect
    <3>1. /\ unlocked' = unlocked /\ requireProxies' = FALSE
          /\ UNCHANGED <<stored, counters, maps, partition, screen, call, bare>>
      BY <1>3, <2>5 DEF AllowDirect
    <3> QED BY <3>1, AllowsKeeps DEF IInv, Types
  <2>4. CASE Closed \/ Lock \/ \E r \in Routes : SaveProxy(r)
    BY <1>3, <2>4, ClosedKeeps, LockKeeps, SaveProxyKeeps
  <2> QED BY <1>3, <2>1, <2>2, <2>3, <2>4, <2>5 DEF Happens
<1> QED BY <1>1, <1>2, <1>3 DEF Next

(* Everything above, in every state of every behaviour.                    *)
THEOREM Invariant == Spec => []IInv
BY Initially, Inductive, PTL DEF Spec

(* Every variable keeps its type, and the account never has two windows.   *)
THEOREM TypeCorrect == Spec => []TypeOK
<1>1. IInv => TypeOK
  <2> SUFFICES ASSUME IInv PROVE TypeOK
    OBVIOUS
  <2>1. Types
    BY DEF IInv
  <2>2. {w.tag : w \in Range(wipes)} \subseteq Presses \cup {None}
    <3>1. \A i \in DOMAIN wipes : wipes[i] \in Wipe
      BY <2>1 DEF Types
    <3>2. \A w \in Range(wipes) : w \in Wipe
      BY <3>1 DEF Range
    <3> QED BY <3>2 DEF Wipe
  <2>3. windows = None \/ building = None
    BY DEF IInv, Places
  <2>4. Cardinality({windows, building} \ {None}) <= 1
    <3>1. CASE {windows, building} \ {None} = {}
      BY <3>1, FS_EmptySet
    <3>2. CASE \E b : {windows, building} \ {None} = {b}
      BY <3>2, FS_Singleton
    <3> QED BY <2>3, <3>1, <3>2
  <2> QED BY <2>1, <2>2, <2>4, ScreenIsDark DEF Types, TypeOK
<1> QED BY <1>1, Invariant, PTL

(* For any number of presses of both buttons, over locks, saved routes and *)
(* the policy: no signed-in window is on screen but for an open vault, on  *)
(* a route that the account and the policy allow now and that the          *)
(* partition has.                                                          *)
THEOREM ScreenAsConfigured == Spec => []OnScreenAsConfigured
<1>1. IInv => OnScreenAsConfigured
  BY DEF IInv, PressOK, Shown, OnScreenAsConfigured
<1> QED BY <1>1, Invariant, PTL

(* A browser's jar holds no session but its own, and its own until the     *)
(* window goes, unless the policy has closed a window that was loading.    *)
THEOREM OwnSession == Spec => []BrowserHasItsOwnSession
<1>1. IInv => BrowserHasItsOwnSession
  BY DEF IInv, BrowserOwns, Owns, BrowserHasItsOwnSession
<1> QED BY <1>1, Invariant, PTL

(* When all that a lock interrupted is over, the jar is empty or known to  *)
(* be dirty.                                                               *)
THEOREM NoSessionLeft == Spec => []LockLeavesNoSession
<1>1. IInv => LockLeavesNoSession
  BY DEF IInv, PressOK, Shown, Places, CookiesAreKnown, InUse, Types, At, LockLeavesNoSession,
     Quiet
<1> QED BY <1>1, Invariant, PTL

-----------------------------------------------------------------------------
(* What the window may be, whoever can see it.                             *)
Prompt == Nat \cup {None}
Sight ==
  [view : Window!Views, overlay : Window!Overlays, signIn : Prompt, opening : Prompt, busy : BOOLEAN]
WindowTypes ==
  /\ ui \in Sight /\ shown \in Sight /\ presses \in Nat /\ calls \subseteq Nat
  /\ {interrupted, deferredRecovery, owed} \subseteq SUBSET Window!Both
  /\ queuedRecoveryView \in BOOLEAN /\ accountHomeOwnsForeground \in BOOLEAN
  /\ raced \in BOOLEAN /\ open \in BOOLEAN
  /\ query \in {None, "fresh", "stale"}

(* Nothing asks the user for a password or reports an opening.             *)
Unprompted(w) == w.signIn = None /\ w.opening = None

(* A locked window, and one whose question is fresh, is untouched.         *)
LockedIsAnew ==
  ~open => /\ query = None /\ owed = {} /\ deferredRecovery = {}
               /\ ~queuedRecoveryView /\ accountHomeOwnsForeground /\ uiGeneration = None
Untouched ==
  ~open \/ query = "fresh" => ui = Window!Bare /\ shown = Window!Bare /\ calls = {} /\ jobs = {}

(* Whatever prompts, or may, is the last press's.                          *)
LastPress ==
  /\ {ui.signIn, ui.opening, shown.signIn, shown.opening} \subseteq {None, intent}
  /\ uiGeneration \in calls => uiGeneration = intent
  /\ ui.signIn # None => ui.opening = None /\ ui.signIn \notin calls

(* Only the bare list prompts; what leaves it gives up its claim.          *)
ListPrompts ==
  /\ shown.overlay # None \/ shown.view # "accounts" => Unprompted(shown) /\ uiGeneration = None
  /\ ui.overlay # None => Unprompted(ui) /\ uiGeneration = None
  /\ ui.view = shown.view /\ shown.view # "accounts" => Unprompted(ui)
  /\ accountHomeOwnsForeground =>
       ui.view = "accounts" /\ ui.overlay = None /\ shown.view = "accounts" /\ shown.overlay = None
  /\ ui.overlay # None => ui.view = "accounts"
  /\ shown.overlay # None => shown.view = "accounts"

(* What is owed is announced, about to be shown, or next in the queue.     *)
OwedIsInSight ==
  \A kind \in owed :
    \/ kind \in deferredRecovery
    \/ kind = ui.view /\ ui.overlay = None /\ ui.view # shown.view
    \/ /\ kind = "move" /\ queuedRecoveryView
       /\ ui.view \in {"enroll", "resume"} \/ ui.overlay = "backup"

(* The ways into the window, together; while an answer and its frame are   *)
(* raced by a press, only the types are claimed.                           *)
WindowInv ==
  /\ WindowTypes /\ LockedIsAnew /\ Untouched
  /\ ~raced => LastPress /\ ListPrompts /\ OwedIsInSight

-----------------------------------------------------------------------------
(* What a render does to what was asked for.                               *)
LEMMA RenderedSight ==
  ASSUME WindowTypes, NEW w \in Sight
  PROVE  /\ Window!Rendered(w) \in Sight
         /\ Window!Rendered(w).view = w.view /\ Window!Rendered(w).overlay = w.overlay
         /\ w.view # shown.view => Unprompted(Window!Rendered(w))
         /\ w.view = shown.view => Window!Rendered(w) = w
BY DEF Window!Rendered, WindowTypes, Sight, Unprompted, Prompt

LEMMA BareSight == Window!Bare \in Sight
BY DEF Window!Bare, Sight, Window!Views, Window!Overlays, Prompt

(* What a press may ask for: whatever is not bare gives up its claim, and  *)
(* what was owed is announced, shown or queued.                            *)
Asked(w, claim) ==
  /\ {w.signIn, w.opening} \subseteq {None, intent'} \/ w.view # shown.view
  /\ w.signIn # None => w.opening = None /\ w.signIn \notin calls'
  /\ claim \in calls' => claim = intent' \/ Window!Abandons(w)
  /\ w.overlay # None \/ (w.view # "accounts" /\ w.view = shown.view) =>
       Unprompted(w) /\ (claim = None \/ Window!Abandons(w))
  /\ w.overlay # None => w.view = "accounts"
  /\ accountHomeOwnsForeground' => w.view = "accounts" /\ w.overlay = None
  /\ \A kind \in owed :
       \/ kind \in deferredRecovery'
       \/ kind = w.view /\ w.overlay = None
       \/ /\ kind = "move" /\ queuedRecoveryView'
          /\ w.view \in {"enroll", "resume"} \/ w.overlay = "backup"

(* Every press is rendered at once, and keeps what it asked for.           *)
LEMMA PressKeepsWindow ==
  ASSUME WindowInv, Window!ConstantsFit, NEW w \in Sight, NEW claim,
         open, Window!Renders(w, claim), raced' = (raced \/ Window!InFrame),
         UNCHANGED Window!session, calls' \subseteq Nat,
         presses' = presses \/ presses' = presses + 1, deferredRecovery' \subseteq Window!Both,
         queuedRecoveryView' \in BOOLEAN, accountHomeOwnsForeground' \in BOOLEAN,
         query' \in {None, "stale"},
         ~raced /\ ui = shown => Asked(w, claim)
  PROVE  WindowInv'
<1>1. WindowTypes /\ open
  BY DEF WindowInv
<1>2. /\ ui' = Window!Rendered(w) /\ shown' = Window!Rendered(w) /\ owed' \subseteq owed
      /\ (w.overlay = None => w.view \notin owed')
      /\ uiGeneration' = IF Window!Abandons(w) THEN None ELSE claim
      /\ (~raced' => ~raced /\ ui = shown) /\ raced' \in BOOLEAN
      /\ UNCHANGED <<open, unlocks, interrupted>>
  BY <1>1 DEF Window!Renders, Window!InFrame, WindowTypes, Window!session
<1>3. /\ Window!Rendered(w) \in Sight /\ Window!Rendered(w).view = w.view
      /\ Window!Rendered(w).overlay = w.overlay
      /\ w.view # shown.view => Unprompted(Window!Rendered(w))
      /\ w.view = shown.view => Window!Rendered(w) = w
  BY <1>1, RenderedSight
<1>4. WindowTypes'
  BY <1>1, <1>2, <1>3 DEF WindowTypes
<1>5. LockedIsAnew' /\ Untouched'
  BY <1>1, <1>2, Window!ConstantsFit DEF LockedIsAnew, Untouched, Window!ConstantsFit
<1>6. ASSUME ~raced' PROVE LastPress' /\ ListPrompts' /\ OwedIsInSight'
  <2>1. Asked(w, claim)
    BY <1>2, <1>6
  <2>2. LastPress'
    <3>1. {w.signIn, w.opening} \subseteq {None, intent'} \/ w.view # shown.view
      BY <2>1 DEF Asked
    <3>2. {Window!Rendered(w).signIn, Window!Rendered(w).opening} \subseteq {None, intent'}
      BY <1>3, <3>1 DEF Unprompted
    <3>3. uiGeneration' \in calls' => uiGeneration' = intent'
      BY <1>2, <1>4, <2>1, Window!ConstantsFit DEF Asked, Window!ConstantsFit, WindowTypes
    <3>4. Window!Rendered(w).signIn # None =>
            Window!Rendered(w).opening = None /\ Window!Rendered(w).signIn \notin calls'
      BY <1>3, <2>1 DEF Asked, Unprompted
    <3> QED BY <1>2, <3>2, <3>3, <3>4 DEF LastPress
  <2>3. ListPrompts'
    BY <1>1, <1>2, <1>3, <2>1 DEF Asked, ListPrompts, Unprompted, Window!Abandons
  <2>4. OwedIsInSight'
    BY <1>2, <1>3, <2>1 DEF Asked, OwedIsInSight
  <2> QED BY <2>2, <2>3, <2>4
<1> QED BY <1>4, <1>5, <1>6 DEF WindowInv

LEMMA OpenBrowserKeeps ==
  ASSUME WindowInv, Window!ConstantsFit, Window!onOpenBrowser
  PROVE  WindowInv'
<1>1. WindowTypes /\ Window!AccountList(shown) /\ presses + 1 \in Nat /\ query' \in {None, "stale"}
  BY DEF WindowInv, WindowTypes, Window!onOpenBrowser, Window!leaveAccountHome,
     Window!Superseded
<1>2. ~raced /\ ui = shown => Asked(ui, presses + 1)
  BY <1>1, Window!ConstantsFit DEF WindowInv, Asked, Window!onOpenBrowser,
     Window!leaveAccountHome, Window!AccountList, Window!Bare,
     OwedIsInSight, Window!ConstantsFit
<1> QED BY <1>1, <1>2, PressKeepsWindow DEF Window!onOpenBrowser, Window!leaveAccountHome,
   WindowTypes

LEMMA PromptPressKeeps ==
  ASSUME WindowInv, Window!ConstantsFit, Window!Retry \/ Window!CancelPrompt
  PROVE  WindowInv'
<1>1. WindowTypes
  BY DEF WindowInv
<1>2. ~Unprompted(shown) /\ query' = query /\ query \in {None, "stale"}
  BY <1>1 DEF WindowInv, WindowTypes, Untouched, Unprompted, Window!Retry,
     Window!CancelPrompt, Window!Bare
<1>3. CASE Window!Retry
  <2> DEFINE w == [ui EXCEPT !.signIn = None, !.busy = TRUE]
  <2>1. w \in Sight /\ shown.opening \in Nat
    BY <1>1, <1>3 DEF WindowTypes, Sight, Prompt, Window!Retry
  <2>2. ~raced /\ ui = shown => Asked(w, shown.opening)
    BY <1>1, <1>2, <1>3, <2>1 DEF WindowInv, WindowTypes, Sight, Asked, Window!Retry,
       OwedIsInSight, LastPress,
       ListPrompts, Unprompted
  <2> QED BY <1>1, <1>2, <1>3, <2>1, <2>2, PressKeepsWindow DEF Window!Retry, Window!Press,
     WindowTypes
<1>4. CASE Window!CancelPrompt
  <2>1. CASE shown.signIn # None /\ Window!Press([ui EXCEPT !.signIn = None], uiGeneration)
    <3>1. [ui EXCEPT !.signIn = None] \in Sight
      BY <1>1 DEF WindowTypes, Sight, Prompt
    <3>2. ~raced /\ ui = shown => Asked([ui EXCEPT !.signIn = None], uiGeneration)
      BY <1>1, <1>2, <1>4, <2>1 DEF WindowInv, WindowTypes, Sight, Asked, Window!CancelPrompt,
         OwedIsInSight,
         LastPress, ListPrompts, Unprompted
    <3> QED BY <1>1, <1>2, <1>4, <2>1, <3>1, <3>2, PressKeepsWindow DEF Window!CancelPrompt,
       Window!Press, WindowTypes
  <2>2. CASE shown.opening # None /\ Window!Press([ui EXCEPT !.opening = None, !.busy = FALSE], None)
    <3>1. [ui EXCEPT !.opening = None, !.busy = FALSE] \in Sight
      BY <1>1 DEF WindowTypes, Sight, Prompt
    <3>2. None \notin calls
      BY <1>1, Window!ConstantsFit DEF WindowTypes, Window!ConstantsFit
    <3>3. ~raced /\ ui = shown => Asked([ui EXCEPT !.opening = None, !.busy = FALSE], None)
      BY <1>1, <1>2, <1>4, <2>2, <3>2 DEF WindowInv, WindowTypes, Sight, Asked,
         Window!CancelPrompt,
         OwedIsInSight, LastPress, ListPrompts, Unprompted
    <3> QED BY <1>1, <1>2, <1>4, <2>2, <3>1, <3>3, PressKeepsWindow DEF Window!CancelPrompt,
       Window!Press, WindowTypes
  <2> QED BY <1>4, <2>1, <2>2 DEF Window!CancelPrompt
<1> QED BY <1>3, <1>4

LEMMA OpenOverlayKeeps ==
  ASSUME WindowInv, Window!ConstantsFit, NEW o \in {"account", "backup"}, Window!OpenOverlay(o)
  PROVE  WindowInv'
<1> DEFINE w == Window!openAccountOverlay(ui, o)
<1>1. WindowTypes /\ query' \in {None, "stale"}
  BY DEF WindowInv, Window!OpenOverlay, Window!leaveAccountHome, Window!Superseded
<1>2. w \in Sight /\ w = [Window!Bare EXCEPT !.overlay = o] /\ Window!Abandons(w)
  BY BareSight, Window!ConstantsFit DEF Window!openAccountOverlay, Sight, Window!Overlays,
     Window!Bare, Window!Abandons, Window!OpenOverlay,
     Window!ConstantsFit
<1>3. ~raced /\ ui = shown => Asked(w, None)
  BY <1>1, <1>2, Window!ConstantsFit DEF WindowInv, WindowTypes, Asked, Window!OpenOverlay,
     Window!leaveAccountHome, OwedIsInSight,
     Window!Bare, Unprompted, Window!AccountList, ListPrompts, Window!ConstantsFit
<1> QED BY <1>1, <1>2, <1>3, PressKeepsWindow DEF Window!OpenOverlay, Window!leaveAccountHome,
   Window!Press, WindowTypes

LEMMA NavigateKeeps ==
  ASSUME WindowInv, Window!ConstantsFit, NEW v \in Window!Views, Window!navigateFromAccountHome(v)
  PROVE  WindowInv'
<1> DEFINE w == [ui EXCEPT !.view = v]
<1>1. WindowTypes /\ query' \in {None, "stale"} /\ Window!AccountList(shown) /\ v # "accounts"
  BY DEF WindowInv, Window!navigateFromAccountHome, Window!leaveAccountHome, Window!Superseded
<1>2. w \in Sight
  BY <1>1 DEF WindowTypes, Sight
<1>3. ~raced /\ ui = shown => Asked(w, uiGeneration)
  BY <1>1, <1>2 DEF WindowInv, WindowTypes, Asked, Window!navigateFromAccountHome,
     Window!leaveAccountHome,
     OwedIsInSight, Window!Bare, Unprompted, Window!AccountList, Window!Abandons, Sight
<1> QED BY <1>1, <1>2, <1>3, PressKeepsWindow DEF Window!navigateFromAccountHome,
   Window!leaveAccountHome, Window!Press, WindowTypes

LEMMA CloseScreenKeeps ==
  ASSUME WindowInv, Window!ConstantsFit, Window!CloseScreen
  PROVE  WindowInv'
<1>1. WindowTypes /\ query' \in {None, "stale"}
  BY DEF WindowInv, Window!CloseScreen, Window!returnToAccountHome, Window!Superseded
<1>2. Window!Home(ui) \in Sight
  BY <1>1 DEF WindowTypes, Sight, Window!Home, Window!Views, Window!Overlays
<1>3. ~raced /\ ui = shown => Asked(Window!Home(ui), uiGeneration)
  BY <1>1, <1>2, Window!ConstantsFit DEF WindowInv, WindowTypes, Asked, Window!CloseScreen,
     Window!returnToAccountHome, Window!Home,
     OwedIsInSight, LastPress, ListPrompts, Unprompted, Window!Abandons, Sight, Window!ConstantsFit
<1> QED BY <1>1, <1>2, <1>3, PressKeepsWindow DEF Window!CloseScreen,
   Window!returnToAccountHome, Window!Press, WindowTypes

LEMMA EnrollmentKeeps ==
  ASSUME WindowInv, Window!ConstantsFit, Window!CloseEnrollment \/ Window!MoveInstead
  PROVE  WindowInv'
<1>1. WindowTypes /\ query' \in {None, "stale"}
  BY DEF WindowInv, Window!CloseEnrollment, Window!leaveEnrollmentRecovery,
     Window!MoveInstead, Window!leaveAccountHome,
     Window!returnToAccountHome, Window!Superseded
<1>2. CASE Window!CloseEnrollment /\ queuedRecoveryView
  <2> DEFINE w == [ui EXCEPT !.view = "move", !.overlay = None]
  <2>1. w \in Sight
    BY <1>1 DEF WindowTypes, Sight, Window!Views, Window!Overlays
  <2>2. ~raced /\ ui = shown => Asked(w, uiGeneration)
    BY <1>1, <1>2, <2>1, Window!ConstantsFit DEF WindowInv, WindowTypes, Asked,
       Window!CloseEnrollment, Window!leaveEnrollmentRecovery,
       Window!leaveAccountHome, OwedIsInSight, LastPress, ListPrompts, Unprompted,
       Window!Abandons, Sight, Window!ConstantsFit
  <2> QED BY <1>1, <1>2, <2>1, <2>2, PressKeepsWindow DEF Window!CloseEnrollment,
     Window!leaveEnrollmentRecovery,
         Window!leaveAccountHome, Window!Press, WindowTypes
<1>3. CASE Window!CloseEnrollment /\ ~queuedRecoveryView
  <2>1. Window!Home(ui) \in Sight
    BY <1>1 DEF WindowTypes, Sight, Window!Home, Window!Views, Window!Overlays
  <2>2. ~raced /\ ui = shown => Asked(Window!Home(ui), uiGeneration)
    BY <1>1, <1>3, <2>1, Window!ConstantsFit DEF WindowInv, WindowTypes, Asked,
       Window!CloseEnrollment, Window!leaveEnrollmentRecovery,
       Window!returnToAccountHome, Window!Home, OwedIsInSight, LastPress, ListPrompts, Unprompted,
       Window!Abandons, Sight, Window!ConstantsFit
  <2> QED BY <1>1, <1>3, <2>1, <2>2, PressKeepsWindow DEF Window!CloseEnrollment,
     Window!leaveEnrollmentRecovery,
         Window!returnToAccountHome, Window!Press, WindowTypes
<1>4. CASE Window!MoveInstead
  <2> DEFINE w == [ui EXCEPT !.view = "move"]
  <2>1. w \in Sight
    BY <1>1 DEF WindowTypes, Sight, Window!Views
  <2>2. ~raced /\ ui = shown => Asked(w, uiGeneration)
    BY <1>1, <1>4, <2>1, Window!ConstantsFit DEF WindowInv, WindowTypes, Asked,
       Window!MoveInstead,
       Window!leaveAccountHome, OwedIsInSight, LastPress, ListPrompts, Unprompted,
       Window!Abandons, Sight, Window!ConstantsFit
  <2> QED BY <1>1, <1>4, <2>1, <2>2, PressKeepsWindow DEF Window!MoveInstead,
     Window!leaveAccountHome, Window!Press, WindowTypes
<1> QED BY <1>2, <1>3, <1>4

(* Of two kinds of work the enrollment comes first, and the other is next. *)
LEMMA OneIsNext ==
  ASSUME NEW works \in SUBSET Window!Both, NEW kind \in works
  PROVE  \/ kind = Window!Destination(works)
         \/ kind = "move" /\ works = Window!Both /\ Window!Destination(works) = "enroll"
BY DEF Window!Both, Window!Destination

LEMMA DeferredKeeps ==
  ASSUME WindowInv, Window!ConstantsFit, Window!openDeferredRecovery
  PROVE  WindowInv'
<1> DEFINE w == [ui EXCEPT !.view = Window!Destination(deferredRecovery)]
<1>1. WindowTypes /\ query' \in {None, "stale"} /\ Window!AccountList(shown)
  BY DEF WindowInv, Window!openDeferredRecovery, Window!leaveAccountHome, Window!Superseded
<1>2. w \in Sight
  BY <1>1 DEF WindowTypes, Sight, Window!Destination, Window!Views
<1>3. ~raced /\ ui = shown => Asked(w, uiGeneration)
  <2> SUFFICES ASSUME ~raced, ui = shown PROVE Asked(w, uiGeneration)
    OBVIOUS
  <2>1. /\ ui = Window!Bare /\ Window!Destination(deferredRecovery) \in {"enroll", "move"}
        /\ w.view = Window!Destination(deferredRecovery) /\ w.overlay = None /\ Unprompted(w)
        /\ w.view # shown.view
    BY <1>1 DEF Window!AccountList, Window!Bare, Window!Destination, Unprompted
  <2>2. \A kind \in owed : kind \in deferredRecovery
    BY <2>1, Window!ConstantsFit DEF WindowInv, OwedIsInSight, Window!Bare, Window!ConstantsFit
  <2>3. /\ queuedRecoveryView' = (deferredRecovery = Window!Both)
        /\ \A kind \in deferredRecovery :
             \/ kind = w.view
             \/ kind = "move" /\ deferredRecovery = Window!Both /\ w.view = "enroll"
    BY <1>1, <2>1, OneIsNext DEF WindowTypes, Window!openDeferredRecovery
  <2> QED BY <2>1, <2>2, <2>3 DEF Asked, Window!openDeferredRecovery, Window!leaveAccountHome,
     Unprompted, Window!Abandons
<1> QED BY <1>1, <1>2, <1>3, PressKeepsWindow DEF Window!openDeferredRecovery,
   Window!leaveAccountHome, Window!Press, WindowTypes

LEMMA StartJobKeeps ==
  ASSUME WindowInv, Window!ConstantsFit, NEW j, Window!StartJob(j)
  PROVE  WindowInv'
<1>1. WindowTypes /\ query' \in {None, "stale"} /\ Window!AccountList(shown)
  BY DEF WindowInv, Window!StartJob, Window!leaveAccountHome, Window!Superseded
<1>2. ~raced /\ ui = shown => Asked(ui, uiGeneration)
  BY <1>1, Window!ConstantsFit DEF WindowInv, Asked, Window!StartJob, Window!leaveAccountHome,
     LastPress, OwedIsInSight, Window!Bare,
     Window!AccountList, Window!ConstantsFit
<1> QED BY <1>1, <1>2, PressKeepsWindow DEF Window!StartJob, Window!leaveAccountHome,
   Window!Press, WindowTypes

-----------------------------------------------------------------------------
(* What an answer changed is rendered a frame later.                       *)
LEMMA FrameKeeps ==
  ASSUME WindowInv, Window!ConstantsFit, Window!Frame
  PROVE  WindowInv'
<1>1. WindowTypes /\ open /\ query # "fresh"
  BY DEF WindowInv, WindowTypes, Untouched, Window!Frame, Window!InFrame
<1>2. /\ ui' = Window!Rendered(ui) /\ shown' = Window!Rendered(ui) /\ owed' \subseteq owed
      /\ (ui.overlay = None => ui.view \notin owed')
      /\ uiGeneration' = IF Window!Abandons(ui) THEN None ELSE uiGeneration
      /\ UNCHANGED <<open, unlocks, interrupted, calls, accountHomeOwnsForeground, query,
                     deferredRecovery, queuedRecoveryView, jobs, presses, intent, raced>>
  BY <1>1 DEF Window!Frame, Window!Renders, WindowTypes, Window!session
<1>3. /\ Window!Rendered(ui) \in Sight /\ Window!Rendered(ui).view = ui.view
      /\ Window!Rendered(ui).overlay = ui.overlay
      /\ ui.view # shown.view => Unprompted(Window!Rendered(ui))
      /\ ui.view = shown.view => Window!Rendered(ui) = ui
  BY <1>1, RenderedSight DEF WindowTypes
<1>4. WindowTypes' /\ LockedIsAnew' /\ Untouched'
  BY <1>1, <1>2, <1>3 DEF WindowTypes, LockedIsAnew, Untouched
<1>5. ASSUME ~raced' PROVE LastPress' /\ ListPrompts' /\ OwedIsInSight'
  <2>1. LastPress /\ ListPrompts /\ OwedIsInSight
    BY <1>2, <1>5 DEF WindowInv
  <2>2. LastPress'
    BY <1>1, <1>2, <1>3, <2>1, Window!ConstantsFit DEF LastPress, Unprompted, WindowTypes,
       Window!ConstantsFit
  <2>3. ListPrompts'
    BY <1>2, <1>3, <2>1 DEF ListPrompts, Unprompted, Window!Abandons
  <2>4. OwedIsInSight'
    BY <1>2, <1>3, <2>1 DEF OwedIsInSight
  <2> QED BY <2>2, <2>3, <2>4
<1> QED BY <1>4, <1>5 DEF WindowInv

(* An answer changes prompts only; what was asked for stays in its view.   *)
LEMMA PromptAnswersKeep ==
  ASSUME WindowInv, Window!ConstantsFit, WindowTypes', ui'.view = ui.view, ui'.overlay = ui.overlay,
         query # "fresh", open,
         ~raced => LastPress',
         uiGeneration = None /\ Unprompted(ui) => uiGeneration' = None /\ Unprompted(ui'),
         uiGeneration = None /\ Unprompted(shown) => uiGeneration' = None,
         UNCHANGED <<Window!session, shown, accountHomeOwnsForeground, Window!recovery, raced>>
  PROVE  WindowInv'
<1>1. LockedIsAnew' /\ Untouched'
  BY DEF WindowInv, LockedIsAnew, Untouched, Window!session, Window!recovery
<1>2. ASSUME ~raced PROVE ListPrompts' /\ OwedIsInSight'
  BY <1>2 DEF WindowInv, ListPrompts, OwedIsInSight, Unprompted, Window!recovery
<1> QED BY <1>1, <1>2 DEF WindowInv

LEMMA BrowserAnswersKeeps ==
  ASSUME WindowInv, Window!ConstantsFit, NEW p \in calls, NEW yes \in BOOLEAN,
         Window!BrowserAnswers(p, yes)
  PROVE  WindowInv'
<1>1. WindowTypes /\ p \in Nat /\ query # "fresh" /\ open
  BY DEF WindowInv, WindowTypes, Untouched
<1>2. \/ UNCHANGED ui
      \/ uiGeneration = p /\ ui' = [ui EXCEPT !.signIn = p]
  BY DEF Window!BrowserAnswers, Window!claimSignInScreen
<1>3. WindowTypes'
  BY <1>1, <1>2 DEF WindowTypes, Sight, Prompt, Window!BrowserAnswers, Window!session,
     Window!recovery
<1>4. ui'.view = ui.view /\ ui'.overlay = ui.overlay
  BY <1>1, <1>2 DEF WindowTypes, Sight
<1>5. ASSUME ~raced PROVE LastPress'
  BY <1>1, <1>2, <1>5, Window!ConstantsFit DEF WindowInv, WindowTypes, Sight, LastPress,
     Window!BrowserAnswers, Window!ConstantsFit
<1> QED BY <1>1, <1>2, <1>3, <1>4, <1>5, PromptAnswersKeep,
   Window!ConstantsFit DEF Window!BrowserAnswers, Window!ConstantsFit

LEMMA SignedInKeepsWindow ==
  ASSUME WindowInv, Window!ConstantsFit, Window!SignedIn
  PROVE  WindowInv'
<1>1. WindowTypes /\ query # "fresh" /\ open /\ ui.signIn \in Nat /\ ~Unprompted(shown)
  BY DEF WindowInv, WindowTypes, Untouched, Window!SignedIn, Window!Bare, Sight, Prompt,
     Unprompted
<1>2. /\ ui'.view = ui.view /\ ui'.overlay = ui.overlay /\ ui'.signIn = None
      /\ ui'.opening = ui.signIn /\ ui' \in Sight
  BY <1>1 DEF WindowTypes, Sight, Prompt, Window!SignedIn
<1>3. WindowTypes'
  BY <1>1, <1>2 DEF WindowTypes, Window!SignedIn, Window!session, Window!recovery
<1>4. ASSUME ~raced PROVE LastPress'
  BY <1>1, <1>2, <1>4 DEF WindowInv, LastPress, Window!SignedIn
<1>5. ~Unprompted(ui)
  BY DEF Window!SignedIn, Unprompted
<1> QED BY <1>1, <1>2, <1>3, <1>4, <1>5, PromptAnswersKeep DEF Window!SignedIn

LEMMA OpenedKeeps ==
  ASSUME WindowInv, Window!ConstantsFit, NEW p \in calls, NEW yes \in BOOLEAN,
         Window!OpenedAfterSignIn(p, yes)
  PROVE  WindowInv'
<1>1. WindowTypes /\ p \in Nat /\ query # "fresh" /\ open
  BY DEF WindowInv, WindowTypes, Untouched
<1>2. /\ ui' \in Sight /\ ui'.view = ui.view /\ ui'.overlay = ui.overlay /\ ui'.signIn = ui.signIn
      /\ ui'.opening \in {ui.opening, None}
  BY <1>1 DEF WindowTypes, Sight, Prompt, Window!OpenedAfterSignIn
<1>3. WindowTypes'
  BY <1>1, <1>2 DEF WindowTypes, Window!OpenedAfterSignIn, Window!session, Window!recovery
<1>4. ASSUME ~raced PROVE LastPress'
  BY <1>1, <1>2, <1>4 DEF WindowInv, LastPress, Window!OpenedAfterSignIn
<1> QED BY <1>1, <1>2, <1>3, <1>4, PromptAnswersKeep DEF Window!OpenedAfterSignIn, Unprompted

LEMMA QuietKeeps ==
  ASSUME WindowInv, Window!ConstantsFit, Window!NothingInterrupted \/ \E j : Window!JobEnds(j)
  PROVE  WindowInv'
<1>1. WindowTypes /\ WindowTypes'
  BY DEF WindowInv, WindowTypes, Window!NothingInterrupted, Window!JobEnds, Window!window,
     Window!session, Window!recovery
<1>2. LockedIsAnew' /\ Untouched'
  BY Window!ConstantsFit DEF WindowInv, LockedIsAnew, Untouched, Window!NothingInterrupted,
     Window!JobEnds, Window!window, Window!session, Window!recovery,
     Window!ConstantsFit
<1>3. ~raced => LastPress' /\ ListPrompts' /\ OwedIsInSight'
  BY DEF WindowInv, LastPress, ListPrompts, OwedIsInSight, Unprompted,
     Window!NothingInterrupted, Window!JobEnds, Window!window,
     Window!recovery
<1> QED BY <1>1, <1>2, <1>3 DEF WindowInv, Window!NothingInterrupted, Window!JobEnds

LEMMA DeliverKeeps ==
  ASSUME WindowInv, Window!ConstantsFit, Window!deliverRecoveryAttention
  PROVE  WindowInv'
<1>1. WindowTypes /\ open
  BY DEF WindowInv, LockedIsAnew, Window!deliverRecoveryAttention
<1>2. CASE query = "fresh" /\ accountHomeOwnsForeground
  <2>1. /\ ui = Window!Bare /\ shown = Window!Bare /\ calls = {} /\ jobs = {}
        /\ Window!Destination(interrupted) \in {"enroll", "move"} /\ owed' = interrupted
        /\ ui' = [Window!Bare EXCEPT !.view = Window!Destination(interrupted)] /\ query' = None
        /\ accountHomeOwnsForeground' = FALSE /\ deferredRecovery' = {}
        /\ queuedRecoveryView' = (interrupted = Window!Both)
        /\ UNCHANGED <<Window!session, shown, uiGeneration, calls, jobs, presses, intent, raced>>
    BY <1>2 DEF WindowInv, Untouched, Window!deliverRecoveryAttention, Window!Destination
  <2>2. /\ ui' \in Sight /\ ui'.view = Window!Destination(interrupted)
        /\ ui'.overlay = None /\ Unprompted(ui')
    BY <2>1, BareSight DEF Sight, Window!Bare, Window!Views, Unprompted
  <2>3. WindowTypes' /\ LockedIsAnew' /\ Untouched'
    BY <1>1, <2>1, <2>2, Window!ConstantsFit DEF WindowTypes, LockedIsAnew, Untouched,
       Window!session, Window!ConstantsFit
  <2>4. ~raced => LastPress' /\ ListPrompts'
    BY <1>1, <2>1, <2>2, Window!ConstantsFit DEF WindowInv, LastPress, ListPrompts,
       Unprompted, Window!Bare, Window!ConstantsFit
  <2>5. OwedIsInSight'
    <3>1. \A kind \in interrupted :
            \/ kind = Window!Destination(interrupted)
            \/ kind = "move" /\ interrupted = Window!Both /\ Window!Destination(interrupted) = "enroll"
      BY <1>1, OneIsNext DEF WindowTypes
    <3> QED BY <2>1, <2>2, <3>1 DEF OwedIsInSight, Window!Bare
  <2> QED BY <2>1, <2>3, <2>4, <2>5 DEF WindowInv
<1>3. CASE ~(query = "fresh" /\ accountHomeOwnsForeground)
  <2>1. /\ owed' = interrupted /\ deferredRecovery' = interrupted /\ query' = None
        /\ UNCHANGED <<Window!session, shown, ui, accountHomeOwnsForeground, queuedRecoveryView,
                       uiGeneration, calls, jobs, presses, intent, raced>>
    BY <1>3 DEF Window!deliverRecoveryAttention
  <2>2. WindowTypes' /\ LockedIsAnew' /\ Untouched' /\ OwedIsInSight'
    BY <1>1, <2>1, Window!ConstantsFit DEF WindowTypes, LockedIsAnew, Untouched,
       OwedIsInSight, Window!session, Window!ConstantsFit
  <2>3. ~raced => LastPress' /\ ListPrompts'
    BY <2>1 DEF WindowInv, LastPress, ListPrompts, Unprompted
  <2> QED BY <2>1, <2>2, <2>3 DEF WindowInv
<1> QED BY <1>2, <1>3

LEMMA NotificationKeeps ==
  ASSUME WindowInv, Window!ConstantsFit, Window!openConfirmationsFor
  PROVE  WindowInv'
<1>1. WindowTypes /\ query' \in {None, "stale"}
  BY DEF WindowInv, Window!openConfirmationsFor, Window!leaveAccountHome, Window!Superseded
<1>2. /\ ui' \in Sight /\ ui'.view = "accounts" /\ ui'.overlay = "account" /\ Unprompted(ui')
  BY BareSight DEF Window!openConfirmationsFor, Sight, Window!Bare, Unprompted, Window!Overlays
<1>3. WindowTypes' /\ LockedIsAnew' /\ Untouched'
  BY <1>1, <1>2, Window!ConstantsFit DEF WindowTypes, LockedIsAnew, Untouched,
     Window!openConfirmationsFor, Window!leaveAccountHome,
     Window!session, Window!InFrame, Window!ConstantsFit
<1>4. ASSUME ~raced' PROVE LastPress' /\ ListPrompts' /\ OwedIsInSight'
  <2>1. ~raced /\ ui = shown /\ LastPress /\ ListPrompts /\ OwedIsInSight
    BY <1>1, <1>4 DEF WindowInv, WindowTypes, Window!openConfirmationsFor, Window!InFrame
  <2>2. LastPress'
    BY <1>1, <1>2, <2>1, Window!ConstantsFit DEF WindowTypes, LastPress,
       Window!openConfirmationsFor, Unprompted,
       Window!notificationMayTakeOver, Window!ConstantsFit
  <2>3. ListPrompts'
    BY <1>2, <2>1, Window!ConstantsFit DEF ListPrompts, Window!openConfirmationsFor,
       Unprompted, Window!leaveAccountHome,
       Window!notificationMayTakeOver, Window!ConstantsFit
  <2>4. OwedIsInSight'
    BY <1>2, <2>1, Window!ConstantsFit DEF OwedIsInSight, Window!openConfirmationsFor,
       Window!notificationMayTakeOver, Window!ConstantsFit
  <2> QED BY <2>2, <2>3, <2>4
<1> QED BY <1>3, <1>4 DEF WindowInv

LEMMA LockKeepsWindow ==
  ASSUME WindowInv, Window!ConstantsFit, Window!Lock \/ Window!Unlock
  PROVE  WindowInv'
<1>1. CASE Window!Lock
  <2>1. WindowTypes'
    BY <1>1, BareSight DEF WindowInv, WindowTypes, Window!Lock, Window!Anew
  <2>2. LockedIsAnew' /\ Untouched' /\ LastPress' /\ ListPrompts' /\ OwedIsInSight'
    BY <1>1, Window!ConstantsFit DEF LockedIsAnew, Untouched, LastPress, ListPrompts,
       OwedIsInSight, Unprompted, Window!Lock, Window!Anew, Window!Bare,
       Window!ConstantsFit
  <2> QED BY <2>1, <2>2 DEF WindowInv
<1>2. CASE Window!Unlock
  <2>1. WindowTypes'
    BY <1>2 DEF WindowInv, WindowTypes, Window!Unlock, Window!window
  <2>2. LockedIsAnew' /\ Untouched'
    BY <1>2, Window!ConstantsFit DEF WindowInv, LockedIsAnew, Untouched, Window!Unlock,
       Window!window, Window!ConstantsFit
  <2>3. ~raced => LastPress' /\ ListPrompts' /\ OwedIsInSight'
    BY <1>2 DEF WindowInv, LastPress, ListPrompts, OwedIsInSight, Unprompted, Window!Unlock,
       Window!window
  <2> QED BY <1>2, <2>1, <2>2, <2>3 DEF WindowInv, Window!Unlock
<1> QED BY <1>1, <1>2

-----------------------------------------------------------------------------
(* It holds at the start, through every step, and says what is promised.   *)
LEMMA WindowStarts ==
  ASSUME Window!ConstantsFit, Window!Init PROVE WindowInv
<1>1. WindowTypes
  BY BareSight DEF Window!Init, WindowTypes
<1>2. LockedIsAnew /\ Untouched /\ LastPress /\ ListPrompts /\ OwedIsInSight
  BY DEF Window!Init, LockedIsAnew, Untouched, LastPress, ListPrompts, OwedIsInSight,
     Unprompted, Window!Bare
<1> QED BY <1>1, <1>2 DEF WindowInv

LEMMA WindowStutters ==
  ASSUME WindowInv, UNCHANGED (Window!vars) PROVE WindowInv'
BY DEF WindowInv, WindowTypes, LockedIsAnew, Untouched, LastPress, ListPrompts, OwedIsInSight,
   Unprompted, Window!vars, Window!session, Window!window, Window!recovery

LEMMA WindowStep ==
  ASSUME Window!ConstantsFit, WindowInv, [Window!Next]_(Window!vars) PROVE WindowInv'
BY FrameKeeps, BrowserAnswersKeeps, OpenedKeeps, DeliverKeeps, QuietKeeps, NotificationKeeps,
   OpenBrowserKeeps, SignedInKeepsWindow, PromptPressKeeps, OpenOverlayKeeps, NavigateKeeps,
   CloseScreenKeeps, EnrollmentKeeps, DeferredKeeps, StartJobKeeps, LockKeepsWindow,
   WindowStutters DEF Window!Next, Window!Answers

(* The question is answered, and the window taken, in one step only.       *)
LEMMA TakenOverUntouched ==
  ASSUME Window!ConstantsFit, WindowInv,
         [Window!Next]_(Window!vars) PROVE Window!OnlyTheUntouchedList
<1> SUFFICES ASSUME Window!TakesOver PROVE Window!AccountList(shown) /\ calls = {} /\ jobs = {}
  BY DEF Window!OnlyTheUntouchedList
<1>1. CASE Window!deliverRecoveryAttention
  BY <1>1 DEF WindowInv, Untouched, Window!deliverRecoveryAttention, Window!TakesOver,
     Window!AccountList
<1>2. ASSUME query' \in {query, "stale", "fresh"} PROVE FALSE
  BY <1>2, Window!ConstantsFit DEF Window!TakesOver, Window!ConstantsFit
<1>3. CASE Window!NothingInterrupted \/ Window!Lock \/ Window!Unlock
  BY <1>3, Window!ConstantsFit DEF Window!NothingInterrupted, Window!Lock, Window!Unlock,
     Window!TakesOver, Window!window, Window!ConstantsFit
<1>4. CASE Window!Answers /\ ~Window!deliverRecoveryAttention /\ ~Window!NothingInterrupted
  <2>1. query' \in {query, "stale"}
    BY <1>4 DEF Window!Answers, Window!BrowserAnswers, Window!OpenedAfterSignIn,
       Window!openConfirmationsFor, Window!leaveAccountHome,
       Window!Superseded, Window!recovery
  <2> QED BY <1>2, <2>1
<1>5. CASE Window!Frame \/ Window!SignedIn \/ Window!Retry \/ Window!CancelPrompt
           \/ UNCHANGED (Window!vars)
  BY <1>2, <1>5 DEF Window!Frame, Window!SignedIn, Window!Retry, Window!CancelPrompt,
     Window!vars, Window!recovery
<1>6. CASE Window!onOpenBrowser \/ (\E o \in {"account", "backup"} : Window!OpenOverlay(o))
           \/ (\E v \in Window!Views : Window!navigateFromAccountHome(v))
           \/ Window!openDeferredRecovery
           \/ (\E j \in {"export", "recoveryBackup"} : Window!StartJob(j) \/ Window!JobEnds(j))
  <2>1. query' \in {query, "stale"}
    BY <1>6 DEF Window!onOpenBrowser, Window!OpenOverlay, Window!navigateFromAccountHome,
       Window!openDeferredRecovery, Window!StartJob,
       Window!JobEnds, Window!leaveAccountHome, Window!Superseded, Window!recovery
  <2> QED BY <1>2, <2>1
<1>7. CASE Window!CloseScreen \/ Window!CloseEnrollment \/ Window!MoveInstead
  <2>1. query' \in {query, "stale"}
    BY <1>7 DEF Window!CloseScreen, Window!CloseEnrollment, Window!MoveInstead,
       Window!leaveEnrollmentRecovery,
       Window!leaveAccountHome, Window!returnToAccountHome, Window!Superseded
  <2> QED BY <1>2, <2>1
<1> QED BY <1>1, <1>3, <1>4, <1>5, <1>6, <1>7 DEF Window!Next

LEMMA WindowShows ==
  ASSUME Window!ConstantsFit, WindowInv PROVE Window!PromptIsForTheLastPress /\ Window!InSight
<1>1. Window!PromptIsForTheLastPress
  BY DEF WindowInv, LastPress, Window!PromptIsForTheLastPress
<1>2. Window!InSight
  BY DEF WindowInv, ListPrompts, OwedIsInSight, Window!InSight, Window!InFrame
<1> QED BY <1>1, <1>2

(* For any number of browsers asked for and unlocks: an answer takes the   *)
(* window only where it is still wanted.  A password is asked for, and a   *)
(* browser's opening reported, only for the last press; interrupted work   *)
(* stays in sight until it is visited, and opens itself only over an       *)
(* account list that nobody has begun to use.                              *)
THEOREM WindowKept == Both => WindowIsTheUsers
<1>1. Start => WindowInv
  BY WindowAssumption, WindowStarts DEF Start
<1>2. [Step]_<<part, vars, window>> => [Window!Next]_(Window!vars)
  BY DEF Step, window, Window!vars, Window!session, Window!window, Window!recovery
<1>3. WindowInv /\ [Window!Next]_(Window!vars) => WindowInv' /\ Window!OnlyTheUntouchedList
  BY WindowAssumption, WindowStep, TakenOverUntouched
<1>4. WindowInv => Window!PromptIsForTheLastPress /\ Window!InSight
  BY WindowAssumption, WindowShows
<1>5. Window!OnlyTheUntouchedList => [Window!OnlyTheUntouchedList]_(Window!vars)
  OBVIOUS
<1> QED BY <1>1, <1>2, <1>3, <1>4, <1>5, PTL
    DEF Both, WindowIsTheUsers, Window!WindowIsTheUsers, Window!RecoveryKeepsItsPlace
=============================================================================
