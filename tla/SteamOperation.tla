--------------------------- MODULE SteamOperation ---------------------------
(***************************************************************************)
(* Activation and removal of an account's authenticator on Steam, and the  *)
(* user's answer when the outcome of one is not known                      *)
(* (src/main/steam/enrollment-ipc.ts, the parts of enrollment.ts it calls, *)
(* operation-journal.ts and account-mutation-guard.ts), for one account.   *)
(*                                                                         *)
(* Before a request goes out a note is published in the operation journal. *)
(* After an outcome that is not plain, the same record is also latched on  *)
(* the account's row in the vault.  The row lives in the vault file and an *)
(* older row in its backup, which every save replaces and a restore brings *)
(* back; the journal knows nothing of that.                                *)
(***************************************************************************)
EXTENDS Naturals, FiniteSets

CONSTANTS
  Authenticators,  \* fingerprints the account may have, one after another
  None,
  MaxOperations,   \* bound: notes written in a behaviour
  MaxFaults        \* bound: failed or lost writes and crashes

ASSUME BoundsAssumption == MaxOperations \in Nat /\ MaxFaults \in Nat

Kinds == {"activate", "deactivate"}
Ids == 1..MaxOperations

(* A note, and the latch written from it: `id' is the record identity both *)
(* carry (operationId), `certain' that Steam is known to have accepted.    *)
Record == [id : Ids, kind : Kinds, auth : Authenticators, certain : BOOLEAN]
Row == [auth : Authenticators, status : {"pendingActivation", "active"},
        latch : Record \cup {None}]
Request == [id : Ids, kind : Kinds, auth : Authenticators]

ASSUME SentinelAssumption ==
  None \notin Row /\ None \notin Record /\ None \notin BOOLEAN

VARIABLES
  row,       \* the account in the vault file, or None
  bak,       \* the account in the backup, or None
  unlocked,
  notes,     \* the journal's live records for the account
  torn,      \* a record was cut while being published: nothing can be read
  op,        \* the handler that is asking Steam, or None
  answer,    \* the handler that is applying the user's answer, or None
  used,      \* record identities drawn so far
  faults

(* History variables: what Steam did and what anybody was told.            *)
VARIABLES
  sent,      \* every request that went out
  acted,     \* those Steam carried out
  open,      \* those of which neither Steam nor the user told the outcome
  known,     \* acceptances reported as durably recorded
  mistaken,  \* the user has told an outcome that is not what Steam did
  restored,  \* the backup has been restored
  forgot     \* and that took the only record of an acceptance with it

disk == <<row, bak, notes, torn>>
told == <<sent, acted, open, known, mistaken, restored, forgot>>
vars == <<disk, unlocked, op, answer, used, faults, told>>

Steps == {"noted", "sent", "refused", "accepted", "mark", "latch", "clear"}
Flight == [rec : Record, step : Steps]
Source == {"vault", "journal"}
Located == [source : Source, rec : Record]
Answer == [held : Located, said : {"acted", "nothing", "stale"},
           step : {"save", "clear"}]

Fault == faults < MaxFaults /\ faults' = faults + 1
Requested(rec) == [id |-> rec.id, kind |-> rec.kind, auth |-> rec.auth]
WithId(records, i) == {r \in records : r.id = i}

-----------------------------------------------------------------------------
(* The vault file.  A save puts the old file in the backup first.          *)
Saved(new) ==
  /\ unlocked
  /\ row' = new /\ bak' = row
  /\ UNCHANGED <<unlocked, faults>>

(* Locked, failed cleanly, or of uncertain outcome: then the vault locks.  *)
NotSaved(new) ==
  \/ ~unlocked /\ UNCHANGED <<row, bak, unlocked, faults>>
  \/ /\ unlocked /\ Fault
     /\ bak' \in {bak, row} /\ UNCHANGED <<row, unlocked>>
  \/ /\ unlocked /\ Fault
     /\ row' \in {row, new} /\ bak' = row /\ unlocked' = FALSE

(* The journal.  A publication that fails may have reached the disk all    *)
(* the same, as a stage the next reading promotes; without hard links it   *)
(* may have been cut, and from then on no reading succeeds.                *)
Published(after) ==
  /\ ~torn /\ notes' = after /\ UNCHANGED <<torn, faults>>

NotPublished(after) ==
  \/ torn /\ UNCHANGED <<notes, torn, faults>>
  \/ ~torn /\ Fault /\ notes' \in {notes, after} /\ UNCHANGED torn
  \/ ~torn /\ Fault /\ torn' = TRUE /\ UNCHANGED notes

-----------------------------------------------------------------------------
(* What is recorded about the account, and what of it applies to the       *)
(* authenticator it has now (locatedRecords, recordFor, exactCompanion).   *)
Latched == row # None /\ row.latch # None
Evidence ==
  {[source |-> "journal", rec |-> n] : n \in notes}
    \cup {[source |-> "vault", rec |-> r] : r \in IF Latched THEN {row.latch} ELSE {}}

Applies(e) == row # None /\ e.rec.auth = row.auth
Applicable == {e \in Evidence : Applies(e)}

Companions(e) ==
  {f \in Evidence : f.source # e.source /\ f.rec.id = e.rec.id}

KnownAccepted(e) == \E f \in {e} \cup Companions(e) : f.rec.certain
Others(e) == Applicable \ ({e} \cup Companions(e))

(* Nobody else is changing the account (the key operation coordinator).    *)
Free == op = None /\ answer = None

(* accountMutationBlockedByDurableState: an import, a removal or a recovery *)
(* file may not overtake an unfinished operation.                          *)
Blocked == torn \/ Applicable # {}

-----------------------------------------------------------------------------
(* enrollActivate and accountDeactivate.  Any record about the account,    *)
(* applicable or stale, refuses the request (heldBack); otherwise a note   *)
(* is published before anything is sent.                                   *)
NewRecord(kind) ==
  [id |-> used + 1, kind |-> kind, auth |-> row.auth, certain |-> FALSE]

(* Faulty: only the vault's own latch is looked at.                        *)
MayAskLatchOnly == Free /\ unlocked /\ row # None /\ ~torn /\ row.latch = None

MayAsk == Free /\ unlocked /\ row # None /\ ~torn /\ Evidence = {}

NoteRequest(kind) ==
  /\ MayAsk /\ used < MaxOperations
  /\ Published(notes \cup {NewRecord(kind)})
  /\ used' = used + 1
  /\ op' = [rec |-> NewRecord(kind), step |-> "noted"]
  /\ UNCHANGED <<row, bak, unlocked, answer, told>>

NoteFails(kind) ==
  /\ MayAsk /\ used < MaxOperations
  /\ NotPublished(notes \cup {NewRecord(kind)})
  /\ used' = used + 1
  /\ UNCHANGED <<row, bak, unlocked, op, answer, told>>

At(step) == op # None /\ op.step = step
Goto(step) == op' = [op EXCEPT !.step = step]
Asked == Requested(op.rec)

(* A wrong passphrase, no session, no route, a missing revocation code.    *)
RefusedBeforeSend ==
  /\ At("noted") /\ Goto("refused")
  /\ UNCHANGED <<disk, unlocked, answer, used, faults, told>>

(* An account that is not waiting for it is not activated.  Steam decides  *)
(* before anybody looks.                                                   *)
Send ==
  /\ At("noted") /\ row # None
  /\ op.rec.kind = "activate" => row.status = "pendingActivation"
  /\ Goto("sent")
  /\ sent' = sent \cup {Asked} /\ open' = open \cup {Asked}
  /\ acted' \in {acted, acted \cup {Asked}}
  /\ UNCHANGED <<disk, unlocked, answer, used, faults, known, mistaken, restored, forgot>>

Learned(r) == open' = open \ {r}

(* Steam says no, or asks for another code.                                *)
SteamRefuses ==
  /\ At("sent") /\ Asked \notin acted
  /\ Goto("refused") /\ Learned(Asked)
  /\ UNCHANGED <<disk, unlocked, answer, used, faults, sent, acted, known,
                 mistaken, restored, forgot>>

SteamAccepts ==
  /\ At("sent") /\ Asked \in acted
  /\ Goto("accepted")
  /\ UNCHANGED <<disk, unlocked, answer, used, faults, told>>

(* No answer: a time limit, a closed route, a lock that dropped the wire.  *)
NoAnswer ==
  /\ At("sent") /\ Goto("latch")
  /\ UNCHANGED <<disk, unlocked, answer, used, faults, told>>

(* finishActivation, deactivateOnce: the vault is brought into line.       *)
Carried(kind) ==
  IF kind = "deactivate" THEN None ELSE [row EXCEPT !.status = "active"]

StoreAccepted ==
  /\ At("accepted") /\ Saved(Carried(op.rec.kind))
  /\ Goto("clear") /\ Learned(Asked)
  /\ UNCHANGED <<notes, torn, answer, used, sent, acted, known, mistaken,
                 restored, forgot>>

StoreFails ==
  /\ At("accepted") /\ NotSaved(Carried(op.rec.kind))
  /\ Goto("mark")
  /\ UNCHANGED <<notes, torn, answer, used, told>>

(* persistOperationOutcome: the journal is marked and the row latched,     *)
(* neither for the lack of the other.                                      *)
Certain(rec) == [rec EXCEPT !.certain = TRUE]
Marked(rec) == (notes \ WithId(notes, rec.id)) \cup {Certain(rec)}

MarkCertain ==
  /\ At("mark") /\ Published(Marked(op.rec))
  /\ op' = [rec |-> Certain(op.rec), step |-> "latch"]
  /\ known' = known \cup {Asked}
  /\ UNCHANGED <<row, bak, unlocked, answer, used, sent, acted, open, mistaken,
                 restored, forgot>>

MarkFails ==
  /\ At("mark") /\ NotPublished(Marked(op.rec))
  /\ op' = [rec |-> Certain(op.rec), step |-> "latch"]
  /\ UNCHANGED <<row, bak, unlocked, answer, used, told>>

(* On the row whose authenticator the request was about, if it is there.   *)
LatchOn(rec) ==
  IF row # None /\ row.auth = rec.auth THEN [row EXCEPT !.latch = rec] ELSE row

Latch ==
  /\ At("latch") /\ Saved(LatchOn(op.rec))
  /\ op' = None
  /\ known' = IF op.rec.certain /\ LatchOn(op.rec) # row THEN known \cup {Asked} ELSE known
  /\ UNCHANGED <<notes, torn, answer, used, sent, acted, open, mistaken, restored, forgot>>

LatchFails ==
  /\ At("latch") /\ NotSaved(LatchOn(op.rec))
  /\ op' = None
  /\ UNCHANGED <<notes, torn, answer, used, told>>

(* The outcome is plain: the note has done its work.                       *)
ClearNote ==
  /\ op # None /\ op.step \in {"refused", "clear"}
  /\ Published(notes \ WithId(notes, op.rec.id))
  /\ op' = None
  /\ UNCHANGED <<row, bak, unlocked, answer, used, told>>

ClearFails ==
  /\ op # None /\ op.step \in {"refused", "clear"}
  /\ NotPublished(notes \ WithId(notes, op.rec.id))
  /\ op' = None
  /\ UNCHANGED <<row, bak, unlocked, answer, used, told>>

-----------------------------------------------------------------------------
(* accountResolveOperation.                                                *)
(* Faulty: an operation known to be accepted may be denied.                *)
AcceptsAnything(e, said) == Applies(e) /\ (said = "acted" => Others(e) = {})

Accepts(e, said) ==
  /\ Applies(e)
  /\ said = "acted" => Others(e) = {}
  /\ said = "nothing" => ~KnownAccepted(e)

ToldAbout(e) == Requested(e.rec)
TouchesVault(e, said) ==
  said = "acted" \/ \E f \in {e} \cup Companions(e) : f.source = "vault"

Begun(e, said) ==
  /\ Free /\ unlocked /\ row # None /\ ~torn
  /\ answer' = [held |-> e, said |-> said,
                step |-> IF TouchesVault(e, said) THEN "save" ELSE "clear"]
  /\ Learned(ToldAbout(e))
  /\ UNCHANGED <<disk, unlocked, op, used, faults, sent, acted, known, restored, forgot>>

Resolve(e, said) ==
  /\ said # "stale" /\ Accepts(e, said) /\ Begun(e, said)
  /\ mistaken' = (mistaken \/ (said = "acted") # (ToldAbout(e) \in acted))

(* A record about an authenticator that is no longer there says nothing    *)
(* about the one that is.                                                  *)
DiscardStale(e) == ~Applies(e) /\ Begun(e, "stale") /\ UNCHANGED mistaken

Answering(step) == answer # None /\ answer.step = step

(* resolutionMayConsume: asked again at the write, after a passphrase check. *)
MayConsume ==
  Latched =>
    row.latch.id = answer.held.rec.id
      \/ (answer.held.source = "journal" /\ row.latch.auth # row.auth)

(* reconcileActivated, reconcileDetached, clearVaultEvidence.              *)
Unlatched ==
  IF row.latch # None /\ row.latch.id = answer.held.rec.id
  THEN [row EXCEPT !.latch = None] ELSE row

(* Faulty: an activation the user confirms leaves the row waiting.         *)
ReconciledLatchOnly ==
  IF answer.said = "acted" /\ answer.held.rec.kind = "deactivate" THEN None
  ELSE Unlatched

Reconciled ==
  IF answer.said # "acted" THEN Unlatched
  ELSE IF answer.held.rec.kind = "deactivate" THEN None
  ELSE [Unlatched EXCEPT !.status = "active"]

ResolveSave ==
  /\ Answering("save") /\ row # None /\ MayConsume
  /\ Saved(Reconciled)
  /\ answer' = [answer EXCEPT !.step = "clear"]
  /\ UNCHANGED <<notes, torn, op, used, told>>

ResolveSaveFails ==
  /\ Answering("save") /\ row # None
  /\ NotSaved(Reconciled)
  /\ answer' = None
  /\ UNCHANGED <<notes, torn, op, used, told>>

(* The vault first, then the note of the same operation, if there is one.  *)
Settled == WithId(notes, answer.held.rec.id)
ResolveClear ==
  /\ Answering("clear")
  /\ IF Settled = {} THEN UNCHANGED <<notes, torn, faults>> ELSE Published(notes \ Settled)
  /\ answer' = None
  /\ UNCHANGED <<row, bak, unlocked, op, used, told>>

ResolveClearFails ==
  /\ Answering("clear") /\ Settled # {}
  /\ NotPublished(notes \ Settled)
  /\ answer' = None
  /\ UNCHANGED <<row, bak, unlocked, op, used, told>>

-----------------------------------------------------------------------------
(* Everything else that touches the row.                                   *)
Lock ==
  /\ unlocked /\ unlocked' = FALSE
  /\ UNCHANGED <<disk, op, answer, used, faults, told>>

Unlock ==
  /\ ~unlocked /\ unlocked' = TRUE
  /\ UNCHANGED <<disk, op, answer, used, faults, told>>

(* A save that has nothing to do with the account.                         *)
OtherSave ==
  /\ Saved(row)
  /\ UNCHANGED <<notes, torn, op, answer, used, told>>

(* An import of an authenticator that still works, over the row or anew.   *)
Detached(a) == \E r \in acted : r.kind = "deactivate" /\ r.auth = a
Import(a) ==
  /\ Free /\ ~Blocked /\ ~Detached(a)
  /\ Saved([auth |-> a, status |-> "active",
            latch |-> IF row = None THEN None ELSE row.latch])
  /\ UNCHANGED <<notes, torn, op, answer, used, told>>

(* accountRemove: here only, not on Steam.                                 *)
Remove ==
  /\ Free /\ ~Blocked /\ row # None
  /\ Saved(None)
  /\ UNCHANGED <<notes, torn, op, answer, used, told>>

(* The backup is put in the place of the vault, and opened.                *)
OnlyInTheLatch ==
  Latched /\ row.latch.certain /\ ~\E n \in WithId(notes, row.latch.id) : n.certain
Restore ==
  /\ ~unlocked /\ Free
  /\ row' = bak /\ unlocked' = TRUE
  /\ restored' = TRUE /\ forgot' = (forgot \/ OnlyInTheLatch)
  /\ UNCHANGED <<bak, notes, torn, op, answer, used, faults, sent, acted, open,
                 known, mistaken>>

(* The process stops: what a handler knew is gone.                         *)
Crash ==
  /\ ~Free /\ Fault
  /\ op' = None /\ answer' = None /\ unlocked' = FALSE
  /\ UNCHANGED <<disk, used, told>>

-----------------------------------------------------------------------------
Init ==
  /\ \E a \in Authenticators, s \in {"pendingActivation", "active"} :
       row = [auth |-> a, status |-> s, latch |-> None]
  /\ bak \in {None, row}
  /\ unlocked = FALSE /\ notes = {} /\ torn = FALSE
  /\ op = None /\ answer = None /\ used = 0 /\ faults = 0
  /\ sent = {} /\ acted = {} /\ open = {} /\ known = {}
  /\ mistaken = FALSE /\ restored = FALSE /\ forgot = FALSE

Asking ==
  \/ \E kind \in Kinds : NoteRequest(kind) \/ NoteFails(kind)
  \/ RefusedBeforeSend \/ Send \/ SteamRefuses \/ SteamAccepts \/ NoAnswer
Recording ==
  \/ StoreAccepted \/ StoreFails \/ MarkCertain \/ MarkFails
  \/ Latch \/ LatchFails \/ ClearNote \/ ClearFails
Resolving ==
  \/ \E e \in Evidence :
       DiscardStale(e) \/ \E said \in {"acted", "nothing"} : Resolve(e, said)
  \/ ResolveSave \/ ResolveSaveFails \/ ResolveClear \/ ResolveClearFails
Environment ==
  \/ Lock \/ Unlock \/ OtherSave \/ Remove \/ Restore \/ Crash
  \/ \E a \in Authenticators : Import(a)

Next == Asking \/ Recording \/ Resolving \/ Environment

Spec == Init /\ [][Next]_vars

-----------------------------------------------------------------------------
(* Every variable keeps its type.                                          *)
TypeOK ==
  /\ row \in Row \cup {None} /\ bak \in Row \cup {None}
  /\ unlocked \in BOOLEAN /\ torn \in BOOLEAN
  /\ notes \in SUBSET Record
  /\ op \in Flight \cup {None} /\ answer \in Answer \cup {None}
  /\ used \in 0..MaxOperations /\ faults \in 0..MaxFaults
  /\ sent \in SUBSET Request /\ acted \in SUBSET sent /\ open \in SUBSET sent
  /\ known \in SUBSET acted
  /\ mistaken \in BOOLEAN /\ restored \in BOOLEAN /\ forgot \in BOOLEAN

(* While nobody knows what became of a request, its note is in the journal: *)
(* no lock, crash, failed write, import or restored backup, and no answer  *)
(* about another operation, takes the last evidence away.                  *)
OpenIsNoted == \A r \in open : \E n \in notes : Requested(n) = r

(* A request is sent once, and none while the outcome of one is unknown.   *)
Promise == INSTANCE IrreversibleRequests
  WITH Requests <- Request, asked <- sent, unknown <- open
KeepsPromise == Promise!Spec

(* Once an acceptance is reported as recorded, and until the user confirms *)
(* it, the word that Steam did nothing is never taken, unless a restore    *)
(* lost the only record of it.                                             *)
AcceptanceIsNotDenied ==
  [][\A e \in Evidence :
       Resolve(e, "nothing") /\ ToldAbout(e) \in known \cap open => forgot]_vars

(* With nothing left to resolve, and users who told what Steam did, the    *)
(* vault agrees with Steam about the authenticator it holds.               *)
Clean == Free /\ Evidence = {} /\ ~torn /\ ~mistaken /\ ~restored
SettledVaultMatchesSteam ==
  Clean /\ row # None =>
    /\ ~Detached(row.auth)
    /\ row.status = "pendingActivation"
         => ~\E r \in acted : r.kind = "activate" /\ r.auth = row.auth

(* Whoever is held back is shown a record whose true answer is accepted.   *)
(* The screens name the latch while there is one (recordFor), else a note. *)
Shown ==
  LET held == {e \in Applicable : e.source = "vault"} IN
  IF held # {} THEN held ELSE IF Applicable # {} THEN Applicable ELSE Evidence
Truth(e) == IF ToldAbout(e) \in acted THEN "acted" ELSE "nothing"
=============================================================================
