# Open Desktop Authenticator, in TLA+

Open Desktop Authenticator is an Electron program that keeps Steam Guard
authenticators in one encrypted vault, shows their codes, answers trade
confirmations, and enrols, activates, transfers and removes authenticators on
Steam. A mistake in it is seldom a wrong number on a screen: it is a vault that
opens with no passphrase anybody knows, secrets that Steam sends once and nobody
wrote down, an irreversible request sent twice, a request that leaves over a route
its owner has forbidden. This directory models the parts where such a mistake needs
several steps of several actors, model-checks them with TLC, and proves the most
important results with TLAPS.

Paths below are relative to the repository (`src/main/...` is
`src/src/main/...` in `PROJECT.json`, whose paths start at the checkout).

## Inventory

What the program consists of, the state each part keeps and what makes it correct.

| part | state | operations | hard behaviour | module |
|---|---|---|---|---|
| vault files `vault/storage.ts` | `vault.json`, `.bak`, `.bak.previous-*`, `.superseded-*`, `.rotating` | write, backup write, restore in place, journal, set aside | any call fails, the machine stops between or inside calls | `VaultStorage` |
| vault session `vault/service.ts`, `recovery-state.ts` | unlocked contents and key, `generation`, `fileGeneration`, `reconcileFailed`, `backupSuspect` | create, unlock, lock, mutate, changePassphrase, reconcile, restoreFromBackup, adoptFrom, verifyPassphrase | each derives a key with scrypt and awaits it: locks, saves and other operations come between | `VaultService` |
| key operation coordinator `vault/key-operation-coordinator.ts`, `accountExport` and `import/export.ts` | one Steam operation, one mutation, a replacement flag, counted snapshots | reserve, release | handlers hold reservations across awaits and release them from several paths | `KeyCoordinator` |
| rows and recovery files `vault/recovery.ts`, `recovery-state.ts`, `import/service.ts`, `import/ipc.ts`, `vault/ipc.ts`, `net/proxy-consent.ts` | account rows with their recovery marker, one file per authenticator, stages, approved proxies | import, route, remove, publish, resume, update, reconcile | publication beside the vault's own save; a dialog a person answers later | `AccountRows` |
| operation journal `steam/operation-journal.ts` and the activation, removal and resolve handlers of `steam/enrollment-ipc.ts` | immutable note, certain and cleared files per account and kind, a latch in the vault row | record, markCertain, clear, inspect; send, settle | an irreversible request whose answer never came, a restored backup older than the latch, torn publication | `SteamOperation` |
| workflow journal `steam/workflow-journal.ts` | encrypted notes of enrolment and transfer attempts, their stages, a publication debt | create, replace, remove, reconcile | failed flushes: what a power loss brings back | `WorkflowJournal` |
| enrolment `steam/enrollment.ts`, `enroll.ts` | the sign-in, the attempt, a reply no record holds, what is known to be attached | begin, code, send, retry, resolve, forget | the reply carries secrets that exist nowhere else | `Enrollment` |
| transfer `steam/transfer*.ts` | the sign-in, the challenge, the record, proofs, secrets not saved yet | authenticate, challenge, complete, retry, resolve, cancel | a failure after the code was submitted | `Transfer`, `Workflows` |
| confirmations service `confirmations/service.ts`, `client.ts`, `policy.ts` | per-account queue, tokens, pending nonces, eras | list, act, approve, sign in, forget | consent given before a lock or a change of route, used after it | `Confirmations` |
| automatic confirmation `confirmations/auto.ts` | per-account due time, failures, backoff, halts, requests in the air, epochs and generation | start, stop, tick, runOne, reset, forgetAccount, policyChanged | locks and settings saves while a sweep or a request awaits | `AutoConfirm` |
| notifier `confirmations/notify.ts` | what was seen, claims, counts, sign-in and halt notices | pending, signInNeeded, halted, and the end of each toast | the host reports a toast late, after a poll, a lock or another toast | `Notifier`, `Announcements` |
| transports `net/transport.ts` | cached sessions, partitions, wipes, generations and epochs | forAccount, perform, forget, forgetAll | a request prepared under a route that is no longer allowed; wipes that fail | `Egress`, `Grants` |
| account browsers `browser/window.ts`, `browser/ipc.ts` | windows, openings, retirements, wipes per partition | open, join, close, sweep, retire | wiping what is being opened | `AccountBrowsers` |
| clock and codes `steam/clock.ts`, `time.ts`, `codes/service.ts` | offset, one query in the air, cooldown, rotation | ensureSynced, code, copy | the machine's clock is set; a dead route; a lock during the query | `Codes` |
| clipboard courier `codes/clipboard.ts` | what was written, one timer | copy, clearIfOurs, cancel | the clipboard is everybody's; calls fail | `ClipboardCourier` |
| issue tracker `tickets/server.mjs` | a database and a directory of attachments | file, reply, attach, withdraw, decide, sweep, stop | two stores and no transaction across them; bodies that take their time | `Tickets` |
| activity log `confirmations/activity.ts`, `screens/Activity.tsx` | a bounded list per account, what was reported, how far it was read | record, evict, list, acknowledge | a warning that falls off in the middle of a batch; an acknowledgement late | `ActivityLog` |
| notification clicks `confirmations/toast-click.ts`, `shared/notification-click.ts`, `App.tsx` | the newest click, what the document observed, handled and acknowledged | click, push, ask, navigate, refresh, acknowledge | two deliveries of one click; a lock that reloads the document | `ToastClicks` |
| the window `App.tsx`, `recovery-navigation.ts`, `shared/recovery-view.ts` | which screen is on top, whose answer may still take it | press, answer, defer, come back | answers that want a screen after the user went on | `Foreground` |
| sign-in `steam/login.ts`, `system-login-transport.ts` | one session of a library | start, submit code, cancel | its uses are in `Transfer`, `Enrollment`, `Confirmations` | by use |
| shell `index.ts`, `ipc/*`, `security.ts`, `tray.ts` | callbacks between the parts | `onLock`, settings saves, start and stop | its wiring is part of the modules it wires | by use |
| update check, crypto, parsers, schemas, the other screens, preload, site, tools | - | - | sequential, pure, or I/O | no |

How they interact. All state lives in the main process, one JavaScript thread:
code between two awaits is never interleaved, and an await is where everything
else may happen. The renderer only sends IPC requests. The shell (`index.ts`) wires
the parts together by callbacks: `onLock` discards staged imports, takes the code
off the clipboard, forgets tokens and grants, closes browsers and stops the
confirmation engine; `beforeMutationCommit` asks the coordinator whether a save
disturbs an export; a settings save resets the engine and drops transports; the
engine's outcomes reach the notifier. Two kinds of fact cross a restart: files, and
what Steam did. The issue tracker is a process of its own, which shares nothing with
the program.

## Plan

In order of what a mistake costs; all of it is done.

1. `VaultStorage`, the file routines, one action per call, with faults; `VaultService`
   extends it with the session and its awaits; `VaultServiceProofs`.
2. `SteamOperation` implements `IrreversibleRequests`; `SteamOperationProofs`.
3. `WorkflowJournal`; `Transfer` and `Enrollment` over it; `Workflows` composes them
   with the rest of the program and implements `IrreversibleRequests` too;
   `WorkflowsProofs`.
4. `KeyCoordinator` and `AccountRows`; `KeyCoordinatorProofs` proves about both.
5. `Egress` implements `Grants`, `EgressProofs`; `Confirmations` uses `Grants` as its
   transports, `ConfirmationsProofs`.
6. `AutoConfirm`; `Notifier`; `Announcements` composes the two.
7. `AccountBrowsers`, `AccountBrowsersProofs`; `ClipboardCourier` under `Codes`; `Tickets`.
   `ServicesProofs` proves about these two and `Announcements`, one after the other.
8. `ActivityLog`, `ToastClicks` and `Foreground`: what the window does with all of it;
   `AccountBrowsersProofs` proves about `Foreground` too.

What would come next: the recovery file a removal asks for.

| run | modules | property | bounds |
|---|---|---|---|
| `vault_core` | `VaultStorage`, `VaultService` | `SessionAgreesWithFile`, `NothingStaleTakesEffect` | one fault, two operations awaiting |
| `vault_faults` | same | `FileKeepsPromise`, `ButForLostEvidence`, `LastGoodCopySurvives`, `RotationDebtIsPaid` | three faults, one operation awaiting |
| `key_coordinator` | `KeyCoordinator`, `AccountRows` | `OneWriter`, `ExportedBytesHold`; `BackupsAreKept`, `RoutesAreAgreed` | three handlers, two accounts; one account, one fault |
| `steam_operation` | `SteamOperation`, `IrreversibleRequests` | `SettledVaultMatchesSteam`, `KeepsPromise`, `AcceptanceIsNotDenied` | three operations, two faults |
| `workflows` | `WorkflowJournal`, `Transfer`, `Enrollment`, `Workflows`, `IrreversibleRequests` | `KeepsPromise`, `ReplySurvives`, `OnlyTheObsoleteGoes` | two attempts, two faults |
| `workflows_live` | same | `ReplyIsStored` | one attempt, two faults |
| `egress` | `Egress`, `Grants` | `FliesAsConfigured`, `CookiesAreOfThisGrant`, `NoOlderRouteLands`, `KeepsGrants` | two callers, three forgets, one failed wipe |
| `confirmations` | `Confirmations`, `Grants`, `ActivityLog`, `ToastClicks` | `NothingKeptFromBefore`, `AnswersAsConsented`; `WarningsReachTheUser`; `ClicksAreServed` | two calls, one new era; a list of one entry, four entries ever; two clicks, one failure |
| `auto_confirm` | `AutoConfirm`, `Notifier`, `Announcements` | `PolledAsConfigured`, `NothingIsLost`, `ToldOnce`, `PolledAgainUnlessOvertaken` | one account, two toasts in the air |
| `browsers` | `AccountBrowsers`, `Foreground` | `OnScreenAsConfigured`, `BrowserHasItsOwnSession`, `LockLeavesNoSession`; `WindowIsTheUsers` | two presses, three sweeps; two presses, two unlocks |
| `codes` | `ClipboardCourier`, `Codes` | `CodeIsWatched`, `VerifiedIsRight`, `SyncedAtLast` | two accounts, two codes |
| `tickets` | `Tickets` | `EvidenceStays`, `StoredWithinLimit`, `StatusIsTheLastWord`, `RetentionIsKept` | two requests, three files, two faults |

All runs hold. Each property has a mutant in `PROJECT.json`: a faulty form of one
operation, kept beside the right one, under which the run fails.

## The vault: VaultStorage and VaultService

`VaultStorage` has the five kinds of file as variables. A file is absent, torn
(present and unparseable) or an envelope: key (salt and passphrase together), nonce,
body. A synchronous run of the code over the files is a *job*; its `step` is the next
file-system call, one action each, with a second action for the call that fails. So
`writeEnvelope` is copy, publish (or fall back to an exclusive copy and place), verify,
and on failure rollback, restore from the copy; `writeBackupEnvelope` is stage, set
aside, swap, check, revert, sweep. Temporary files are left out: no routine reads one
an earlier run left. The retry around a rename (`atomic-replace.ts`) is part of the
publishing call.

`VaultService` starts jobs and reads their results. An operation that awaits scrypt is
split at the await: `XBegin` captures in `pending[op]` what the code captures
(`generation`, `fileGeneration`, the envelope, the state object), the second half
compares it. What a mutation changes inside the accounts is one fresh `body`; a wrong
passphrase is `XRefused`. The history variables say what the user has been told:
`promised` the contents the file may hold (two while a run that was cut may have ended
either way), `assured` the last reported success, `retired` the keys they know to be
replaced, `evidenceLost` that a rotation overwrote the record of an unpaid one.

Create, adopt, restore and passphrase change exclude each other, as their IPC handlers'
`duringVaultReplacement` makes them; unlock, saves and the passphrase proof do not ask
it. `FilesVanish` lets something else delete `vault.json`, except while an unlock or a
restore derives its key: there a `create` may follow at once, and which of the two
sessions stays is a race the code does not settle (`service.ts:514-540` and `596`).

Bounds. `MaxFaults` counts failed calls, crashes and vanished files together: 1 for
the wide run, 3 where failures of failure handling are the question (a write, its
rollback and the rollback's copy can all fail). The two are not one run: with two
operations awaiting and two faults, an unlock that derives while a restore's write and
its rollback both fail opens a file no one promised, which `FileKeepsPromise` refutes;
in the program the person would have to type a passphrase into one dialog while another
reports a double disk failure. `MaxStamp` bounds the salts, nonces
and edits drawn after the five the initial files use; a rotation draws four, so 9
lets a rotation and a save or a restore interleave, 8 a rotation alone among the
rest. `MaxGeneration` is 1, since generations are only compared for equality with a
captured one: one lock is enough to make it differ. `MaxPending` of 2 takes every
pair of operations at their awaits.

Fairness. `RunGoesOn` is weakly fair: a synchronous run ends, because nothing in it
waits. Nothing is assumed of the user or of derivations. The debt property assumes
inside its own formula that the program keeps being restarted, since payment is
retried at start only.

Proved in `VaultServiceProofs`, for any bounds and whatever fails: `TypeOK`,
`LockCancelsOpening` and `RestoreReplacesWhatItSaw`. Under `MaxFaults <= 1` or
`MaxPending <= 1`, which takes in the bounds of both runs: `FileKeepsPromise`,
`SessionAgreesWithFile`, `NothingStaleTakesEffect` and `LastGoodCopySurvives`. The hypothesis is the scenario of
two awaits and two faults above, which refutes the first of these, and nothing else. The
invariant has two halves. `Structure` holds whatever fails: `JobShape` (which steps the
run of each caller is made of, and what it may write), `VaultStands` (what vault file and
copy are at each step of a write: what was there before, what is being written, or
between the two), `OneAtATime` (replacements exclude each other), `JobIsTheSessions`,
`FlightsArePast` (what an operation captured before its await is no newer than what there
is now) and `RestoreSawHome`. `Agreement` needs the hypothesis. It speaks of `Home`, the
vault file as the run in progress found it and leaves it unless it succeeds: with it,
what was promised can be stated in the middle of a run (`PromiseIsKept`), where vault file
and session legitimately differ, and what an unlock read before its await is compared with
it (`UnlockSeesHome`). Neither of the checked invariants says anything while a run is in
progress, so neither is inductive.

`LastGoodCopySurvives` adds `Safekeeping`. A copy of what was promised may be removed or
overwritten only while the vault file itself parses (`CopyIsKept` states it of `Home`, so
it holds inside a run too), and a run that is cut leaves either such a file or such a copy
(`CopiesStand`: what the run has set aside, and where, at each of its steps). Two runs
break the rule. A restore over a damaged file renames that file away, and the one it took
its contents from is among the superseded files until the run ends. A save of an open
session over a file torn under it has no copy to make; `TornIsTheEnd` shows that the file
was torn by the last failure there was to come, so the save goes through.

`ButForLostEvidence` is not proved, and cannot be under that hypothesis alone: with
`FilesVanish` and two faults TLC refutes it even for one operation at a time. A rotation
is cut after its write and before its backup, the user unlocks with the new passphrase,
something outside deletes `vault.json`, a new vault is created under an unrelated
passphrase, and the next start finds the rotation's record to be of another file and
clears it: the backup under the replaced passphrase is offered without suspicion. It
holds on the run's own bounds, where files do not vanish, and with one fault (11 million
states, two operations awaiting and vanishing files); a theorem would assume one of the
two and is left to later work.

## The coordinator: KeyCoordinator and KeyCoordinatorProofs

A *task* is a handler between its reservation and its end. `held` is the closure's
`released` flag inverted, so calling a release twice is a step of the model. The four
roles take the guards of `beginSteamOperation`, `beginAccountMutation`,
`duringVaultReplacement` and `beginAccountSnapshot`. Commits are separate actions:
while a task holds its reservation it may change the secrets it is allowed to, and a
save through `mutate` passes `assertAccountSnapshotsUnchanged`. The export's steps are
those of `accountExport`: staged, published after a check of lock and bytes, checked
again, reported.

The run takes three handlers over two accounts (both symmetric): with three, a
release of one, the begin of a second and the commit of a third can interleave, and no
guard looks at more than two others. `MaxVersion` 1 distinguishes changed secrets from
unchanged ones. A create finds no vault file and hence no accounts; a file removed from
outside under a running export is outside this module.

Proved for any number of handlers and accounts: type correctness (so a counter never
goes below zero), `OneWriter`, `ExportsUndisturbed` and `ExportedBytesHold`.
The inductive invariant ties the coordinator's four fields to
the tasks: the steam field is set exactly when one task holds it, the same for the
mutation and the replacement, and each snapshot counter is the number of tasks that
export the account (`CounterMeaning`). Without it, a counter says nothing about who is
exporting, and the guards, which read only the fields, would protect nobody.

## Rows, routes and recovery files: AccountRows

A row holds an authenticator's secrets, a route and the marker of its recovery file. A
version of the secrets is an authenticator with or without its revocation code, for the
code is what a poorer import can lose. The recovery directory is `files`, by name, and
`stages`, complete copies whose publication was not confirmed. `Durably`, `Resume` and
`Update` give for each call on the directory its possible outcomes: the files and
stages it leaves, the name it returns, the faults it took (a failed link or copy, a
failed flush, a torn copy where links do not exist). `Finishes` is
`finishRecoveryBackup`: the outcome, then the save that marks the row current. `Marked`
is `markRecoveryBackupNeeded`, part of every save that changes a row. `Crash` may cut a
publication anywhere, may lose a name whose entry was not flushed, and ends in the
reconciliation of the next start.

Saves and directory calls are synchronous, so only dialogs wait. `asked` is what waits
for one: the route form or a file of an import, with `own` if the question is about its
own proxy, and `late` once a lock has come between. `allowed` is history: the routes
somebody agreed to, while they are approved or stored.

The run explores this module beside the coordinator, in one run: what the two share is
the reservation, and a row's change takes and returns it within one step, so `part` is
chosen once and nothing is interleaved. The handlers' part starts from accounts with
secrets, the rows' part from an empty vault. One account, one proxy, one authenticator
with and without its code and another with it (versions 0, 1 and 3), one fault: a torn
copy needs two failures and is then not reached by `Durably` alone but by a stop inside
it. `MaxCopies` 1, since a name beside the first is chosen fresh and a second such name
would be treated the same. A dialog opens, and a whole vault is replaced, before
anything is published; later ones would only add approved routes and older rows.

Two exceptions are part of the properties and worth knowing. `writeRecoveryFile`
returns the path of an older stage it resumed (`recovery.ts:372-378`), and
`finishRecoveryBackup` marks the row current though that file holds an older state of
the row, which `import/service.ts` (951-956) says cannot be. With a poorer import of the
same authenticator in between, the row then owns the richer file, and a later in-place
update replaces it: the revocation code in it is gone. `BackupsAreKept`
holds but for that path. And an account that needed no dialog when
its import began (stored with the same route, or a duplicate to be skipped), and was
changed while another file's dialog was up, is stored with a route nobody was asked
about (`import/ipc.ts:171-195`, `import/service.ts:722`); `RoutesAreAgreed` says so.
`mergeAccount` keeps the revocation code of the authenticator it replaces when the file
has none (`service.ts:1254`): `Incoming` does the same, so a version's code may belong
to an older authenticator.

Proved in `KeyCoordinatorProofs`, for any accounts, proxies, authenticators, faults and copies:
both properties, of the specification the run checks. The inductive invariant `RowsInv` says beside the types that a row's recovery
file bears the name of its account and authenticator (`FilesAreOwned`); that the file of a
current row is *secure*, which means that no stage is left under its name whose publication it
is, so that no stop takes the name away and no resumed stage is put in its place
(`CurrentIsSecure`); that what was backed up lies in a secure file, and if the account's row
owns that file, the row has the code as well (`SafeIsSecure`); and that what is approved is
allowed (`ApprovedIsAllowed`). The first lemmas say of each call on the directory that it
spares every secure file, but for the one the row owns, which it may replace by what the row
holds; all else follows from that. `RowsAssumption` is the assumption: the sentinels are none of
the records, and each authenticator may be had with its revocation code. The run evaluates it.

Left out: two complete stages of one name (one process cannot leave them, so the
`ambiguous` branch is unreachable here), choosing a recovery file to restore from, and
the route a transfer or enrolment brings, which was asked for when its sign-in began.

## Irreversible requests: SteamOperation and IrreversibleRequests

Activating an authenticator on Steam and removing one cannot be undone, and the answer
may be lost. `SteamOperation` follows one account through `enrollActivate`,
`accountDeactivate` and `accountResolveOperation`. `row` is the account in the vault
file and `bak` the one in its backup: a save moves the old row there, a restore brings
it back. `notes` are the journal's live records. A publication in the journal is one
step with the outcomes its files can end in: done, failed and absent, failed and
present (a stage the next reading promotes), or cut, after which nothing is readable
(`torn`). `op` is a handler on its way to Steam and back, one action per await: note,
request, Steam's answer or none, the vault's save, then the mark and the latch of an
outcome that is not plain (`persistOperationOutcome`), or the clearing of the note.
`answer` is a handler that applies what the user said. `Evidence`, `Applies`,
`Companions` and `Accepts` are the tests of `accountResolveOperation`; `Shown` is the
record the screens name. Every save and publication has an action that fails, and a
handler that dies leaves its evidence where it was.

History: `sent`, `acted` (Steam decides when the request arrives, whoever learns of
it), `open` (nobody has told the outcome), `known` (acceptances reported as durably
recorded). The user may be wrong (`mistaken`).

`IrreversibleRequests` knows only what was sent and what is unknown. `KeepsPromise` is
that the detailed module implements it under `asked <- sent, unknown <- open`.

Bounds. Two authenticators, interchangeable: the account's own and one that replaces
it, which is what makes a record stale. Three operations: two whose records meet, and
one after them. Two faults: an acceptance whose save fails and whose mark or latch
fails as well, or a lost write and a crash.

Proved, for any number of authenticators, operations and faults: types, `OpenIsNoted`,
`KeepsPromise`, `AcceptanceIsNotDenied`, `SettledVaultMatchesSteam`. The inductive invariant `IInv` adds what these
rest on. `IdsAreUnique`: an identity is drawn once, and everything that speaks of it,
in notes, row, backup or a handler, speaks of the same request; without it, clearing
one operation's note could clear another's. `FlightKnows`: what each step of a handler
implies about the request, among it that nothing was open when the note was written.
`AnswerKnows` and `LatchFits`: the row a settled operation rewrites carries no other
operation's latch. `AcceptanceIsRecorded`: a recorded acceptance is certain in the
journal or in the row. Which steps can change which variable is stated once
(`ChangesOfNotes` and its like), so that each conjunct is argued on those steps only.
`SettledVaultMatchesSteam` speaks of states with no evidence left and needs
`DisputesAreWitnessed`, which speaks of all: where the row disagrees with what Steam
carried out there is a note or a latch of that very operation, and a handler or an answer
that is about to clear one either has stored the outcome or knows there was none.

Left out: notes of the journal's first version and the guard against an older program,
the workflow journal's own hold, and the recovery file a removal asks for.

## Getting an authenticator: WorkflowJournal, Transfer, Enrollment, Workflows

Steam sends an authenticator's secrets once, in the reply to a request that cannot be
taken back. Both services publish a note before the request, seal the reply into it,
write the vault row and its recovery file, and clear the note.

`WorkflowJournal` gives each operation as a set of outcomes: the directory the process
sees, the directories a power loss may bring back because they were not flushed away
(`older`), and whether the call returned. `createDurably`, `replaceDurably` and
`reconcileStaged` are `Publishing`, `Renaming` and `Reconciling`; `debt` is
`publicationDebt`. A first note that was published and does not read back fails the call
and stays (`workflow-journal.ts:460-462`): nothing was sent for it, but the transfer
service, which reads the journal only when it starts, may publish another beside it, and
two are ambiguous to every later reading. A record is its attempt, kind, state, the verdict on its reply, the
fingerprint it replaces and whether the recovery file was published. `Transfer` has one
action per method of `TransferService` between two awaits; a synchronous run over
journal and vault is a `job`, one action per step, with a failing form, so a crash may
come between any two. `Enrollment` is the same for `EnrollmentService`, which keeps no
copy of its note and reads the journal each time it is asked. `Workflows` adds the rest:
locks, imports, removals, restores from the backup, adopting another vault, crashes,
Steam Support taking an authenticator away, and another device moving it on.

`KeepsPromise` is the same abstract specification that `SteamOperation` implements:
no request goes out while the outcome of an earlier one of either kind is unknown.
`ReplySurvives` is about memory and disk together, for every directory a power loss may
leave. `OnlyTheObsoleteGoes` has two halves, `CurrentIsKept` and `UsableIsSaved`: a
workflow never removes the authenticator Steam accepts, nor lets go of a reply that can
be used. `ReplyIsStored` is liveness: a reply that waits is stored in the end.

Bounds. Two attempts, of any kinds and up to renaming: what one leaves is what the
other finds. Four fingerprints: theirs, the phone's, and one of another device. Two
faults: a failed call and a crash, or two failed calls of one run. The liveness run
takes one attempt, for attempts exclude each other by then, but for a note that did not
read back; with two attempts and one fault `ReplyIsStored` was found to hold too.

Fairness. Weak for a synchronous run, which ends, and for requests, which time out. The
liveness run assumes a person who keeps asking: who opens the vault again and again,
retries with the right passphrase, answers the proof, and answers "stored here" when
that is so (strong fairness, for a lock or a failure disables each of these for a
while). This is an assumption about the user, not about the code, and it is what the
property is about: whoever keeps asking gets it. Its exceptions are a record torn while it was
written, another vault adopted, and an enrolment whose row is by then another
authenticator (restored or adopted): that record can neither be stored nor resolved; and a second
transfer's note beside one that did not read back.

Proved in `WorkflowsProofs`, for any finite set of attempts and any number of faults: the
types, `ReplySurvives`, `KeepsPromise` and `OnlyTheObsoleteGoes`. None is inductive alone,
and all follow from one invariant, `IInv`, which says of every pair of a directory and
what a power loss may make of it:

* `Sound`: every directory holds one record and one stage of it at most, all versions of
  the same record, and a stage gives up no reply of the record it would replace;
* `Transfers` and `Enrolments`: what a service remembers is a version of that record, so
  that only one of the two services has anything to remember;
* `Opened`: the one request whose outcome is unknown has a trace in every directory, torn
  or whole, or its row is in the vault. This is what makes a restarted process refuse the
  next request, hence `KeepsPromise`;
* `RepliesKept`: the reply is held in memory, in every directory, or in the row, which
  gives `ReplySurvives`;
* `World`: a usable reply superseded the authenticator it was to replace, which gives
  `OnlyTheObsoleteGoes`;
* `Phases`, `AtStep` and `EnrollAtStep`: what each step of a run may rely on, from the
  steps before it and from what nobody else could do meanwhile.

The journal's operations are argued once, apart from the services (`ReadHappens` and its
like for updates, removals and first publications): for whatever outcome happens, the
part of the invariant about the journal, `Core`, stands. Then each action has its lemma,
and `Inductive` collects them. `PrintsAssumption`, `NoneAssumption`, `ReplyAssumption` and
`JournalAssumption` are the assumptions: `None` is no value of the program, the
fingerprints are those of the attempts and two more, and attempts are finitely many.
TLC finds `IInv` to hold on the instance of the run `workflows` too, with
`ReadBackFails` FALSE: the theorems assume that a published note reads back, for without
it the journal may hold two records, and `Sound` says one.

## Routes: Egress and Grants

`Egress` is `SteamTransportFactory` for one account, cut at every await: `setProxy`,
`clearStorageData`, `resolveProxy` and the request itself answer later, in the order
Electron allows (`queue` is the code's own `proxyOrder`). `config` is the proxy Chromium
really has, `appliedProxy` the factory's record of it; `jar` says under which grants the
cookies of a partition were set; `spoiled` is part of a partition's name, as in the
code. `Grants` is what it promises its callers: a permission handed out while the vault
is open, checked when a request leaves, withdrawn for all at once. `KeepsGrants` is the
refinement, with the sum of `generation` and `epoch` for the permission.

Two callers: one that holds a session and one that asks meanwhile. Three forgets and
one failed wipe: a partition that is wiped, spoiled, replaced and wiped again. The
properties that need it say where the code stops promising. `CookiesAreOfThisGrant`
holds while no wipe failed: after a restart of the count, or once the account is off and
on again, a spoiled partition is used once more, although the comment at
`transport.ts:227-230` says it is never handed back. `NoOlderRouteLands` holds while no
wipe overtakes an older one.

Proved in `EgressProofs`, for any number of callers, routes and forgets: `TypeOK`, the
three properties and `KeepsGrants`. What is in flight is right only because of how the
pieces of the factory fit together, and that is the inductive invariant:
`InForceIsAsConfigured` (the session in the cache was built under the route of the vault,
and the partition has it), `SessionIsCached` (whoever sends under a live permission uses
that session), `OnePartition` (callers with one permission use one partition),
`WaitedForTheWipe` (whoever builds has waited for every wipe of its partition that was
under way), `CookiesAreCovered` (a cookie of an older permission has a wipe still to
come), `GrantsArePast` (nothing carries a permission, a wait or a wipe from the future)
and `InTurn` (the queue of applications follows the order of the permissions). No
conjunct holds alone: that a wipe covers the cookies is what a new build relies on when it
waits, and that a build waited is why its cookies are its own. Each action is first shown
to be a withdrawal (a forget, which takes back permissions and starts wipes) or a
continuation of one caller, and each conjunct is argued for those two.

## Answers: Confirmations

`Confirmations` is the service and its client for one account, over transports that are
`Grants`: it is composed with the promise, not with the detail. `queue` is `serialise`;
`era` is generation and epoch of the service; `sessions`, `pending` and `login` are what
is kept between calls, each with the era it was obtained in, and `since` is history: the
era that began with the account's present route. The stored login outlives a lock and
goes with its route, whether a proxy is saved (`applyProxyChange`) or an import brings
one (`mergeAccount`, `import/service.ts:1299-1321`, where the comment at
`index.ts:646-650` still says that an import leaves the login alone). `Call` takes the kinds of
operation: a list, an answer by hand, the poll that approves, a sign-in. Steam's side is
what waits and what is gone, and the user's other devices settle confirmations too.

`NothingKeptFromBefore` is about what is kept: a session and a list of this era, a login
no older than the route, which its mutant breaks with an import that keeps the login
whatever it does to the route. `AnswersAsConsented` is about the moment an answer leaves: with consent for every confirmation in it then, and in the era of its
call. Two calls, one confirmation of a type that may be approved, one new era. The
service does not tell types apart but through `mayAutoConfirm`, and eras are compared for
equality. `Listings` and `Critical` are empty in the run: the sets differ in
`mayAutoConfirm` alone.

Proved in `ConfirmationsProofs`, for any number of calls, confirmations and eras:
`TypeOK`, `NothingKeptFromBefore` and `AnswersAsConsented`. The second part of the
inductive invariant says what a call on its way knows: the permission it holds is one
that was given (`CallsAreTimed`), only the head of the queue has started
(`CallsAreInOrder`), what it holds between two awaits was fetched under that permission
(`HeldIsTimed`, `AnswersAreTimed`), and a list it passed on is one of its own era
(`ListIsOfEveryCall`). `NothingKeptFromBefore` is not inductive without these: a call that
began before a lock would store what it brings back after it, and only the comparison
with its own era, which must therefore be its own, keeps it from doing so.

## The confirmation engine and what the user hears: AutoConfirm, Notifier, Announcements

One beat of the ticker is the unit of time and due times are kept relative, so a due
time that was reached is 0. `Beat` is the tick up to its await of the Steam clock,
`Sweep` the rest of it, which starts every due account's request in one synchronous
run; `PollSucceeds`, `PollNeedsSignIn`, `PollFails` are `runOne` after its await.
`owned` stands for the comparison of generation and epoch: a stop, reset or
forgetAccount clears it. Two parked sweeps of one generation merge: the second finds
nothing due that the first left. A save of settings and the reset after it are one
step, for the save is synchronous. `Plan` is one account's settings; routing matters
as "has a proxy".

`Notifier` keeps, for one account, which confirmations were said by which toast, the
count of unreadable ones with its claims, and the notices about sign-in and halts. A
toast's end is an action of its own, shown or not, at any later time, and a rollback must
touch only what its own toast marked. Counters that are only compared for equality are
drawn as the least number nothing holds any more. `heard` and its like are history: what
the user was told since it appeared. `Announcements` wires the engine's outcomes to it as
`index.ts` does: a lock forgets, a halt speaks again at the beat if its toast failed.

The run takes one account, switched off or polled each beat with everything on,
`HaltAfter` 2 (a failure that counts and one that halts), one confirmation, security
critical, and one unreadable entry; `MaxToasts` 2, so that a rollback meets a later
toast. `MaxToasts` is a bound of the model only: a poll that finds no room waits for an
answer of the host, which comes. What siblings do to one another's schedule is in the
proofs, which hold for any number of accounts.

Fairness. The ticker beats while the vault is open; a sweep's clock query and each poll
end, for both have time limits; the host answers for its toasts. Nothing is assumed of
the user.

`PolledAgainUnlessOvertaken` excludes one window: a save disowns a request in the air,
the next beat skips the account because it is in flight, clears `scheduleDirty` and
recomputes the soonest time without it; the disowned request then lands and writes
nothing. With a halted sibling nothing is ever due again.

Proved in `ServicesProofs`, for any number of accounts and any plans: the inductive
invariant `IInv`, which is `TypeOK`, `EarlyOutIsExact` (the one deadline the tick
compares is the soonest entry, or 0 while an invalidation is pending), `HaltsAgree` (the
accounts announced as halted are those whose due time is `Never`), `PolledAsConfigured`,
`HaltedIsLeftAlone` and `EntriesAreOn` (an account with an entry is one that may be
polled). The deadline is a minimum over a set, so the proof needs that a set of naturals
has a least element, from `NaturalsInduction`'s well-foundedness. `PolledAsConfigured` needs
`EntriesAreOn` and the parked sweep's meaning: what a beat found due may have been
switched off while the sweep waited. Each step of the composition is a step of the engine or
leaves it alone, so the theorem holds there.

It also proves `NothingIsLost` and `ToldOnce`, for any number of accounts, confirmations,
unreadable entries and toasts. The inductive invariant `Hears` says that marks and toasts
answer to one another: no two calls on their way have one number (`ToldApart`; a new
number is one nothing holds, and the numbers stay few enough for the type); each mark in
`seen` is the user's knowledge or the mark of a toast on its way that says it, and what
the user knows is marked as known (`MarksBut`); each claim is that of a toast on its way
which counts as many (`Claimed`, `ClaimsCount`); what was delivered, what is due and what
the list counts balance with what the user heard (`Balanced`); a toast that may still
cover what is due belongs to the present episode (`EpochsHold`). Neither property is
inductive alone: that the rollback of one toast spares the mark of a later one rests on
their numbers being apart, and that the count it gives back was not delivered rests on
the claim being its own. The assumption is that the sentinel `None` is no record
(`NoticeAssumption`). TLC found `Hears` to hold on the run's bounds and on wider ones
(three toasts, two confirmations, two unreadable entries) before it was proved.

## Browsers: AccountBrowsers

Each press of the button is a process: it asks for the route, waits for the press before
it, tears down what is there, waits for wipes, signs in, seeds the cookie, loads, shows.
`windows`, `building`, `opening`, `settling`, `owner`, `retired` and `requested` are the
maps of the class; `wipes` is the chain of clears of one partition, `config` the proxy
the partition has, `jar` the presses whose Steam cookie it holds, `dirty` and `seeded`
the factory's record. `Calm` makes callers whose await is over run before anything new
happens, as the microtask queue does.

Two presses: the one whose browser retires and the one that waits for it. Three sweeps:
a route change, a lock and a policy, in any order, at each await. Wipes may fail.
`LockLeavesNoSession` is about what is left when everything has ended. In
`BrowserHasItsOwnSession` the exception `bare` is real: after a window that was still
loading is closed by the policy, the retry of its wipe (`window.ts:1494-1496`) may end
while its retirement's wipe is queued; the next press claims the jar and that wipe then
takes its cookie. The comment at 1506-1508 describes the order that avoids it.

Proved in `AccountBrowsersProofs`, for any presses, proxies and number of sweeps, whether
wipes fail or not: the types and all three properties, from one invariant `IInv`. Of each
press it says that what closes windows has made it unwanted (`Dated`), where it is in its
attempt and what it holds there (`Placed`), that a wanted attempt is the one that others
join, on a route that is allowed (`Wanted`), and that a window on screen is the browser or
a wanted one that is loading (`Shown`); of the maps, that each names a press in the step
that entered it (`Places`). `Opened`, `BrowserOwns` and `LeftIsRetired` say that the jar is
of the attempt that claimed it and no wipe is waiting for it; `CookiesAreKnown` that a
cookie is somebody's, in the queue of the wipes or noted as dirty; `Retried` and `Tearing`
what the two waits in the middle of an attempt may count on, of which `Tearing` is the
subtle one: who has closed a window and waits for its wipe is the next to open one, unless a
sweep came, so that no wipe is appended behind its back. The assumptions are
`RouteAssumption`, that the sentinels are no routes and no presses, and `BoundAssumption`.

## The log, the clicks and the window: ActivityLog, ToastClicks, Foreground

These three are explored beside another module of their run, never interleaved with it:
nothing one of them keeps is read by the other.

`ActivityLog` writes what a pass found and it had not written before; the list is
bounded and drops what is not urgent first. What falls off must be written again when
it is still there, but not within the batch it fell out of, or two warnings in a list of
one would push each other out. A list of one entry and two confirmations that are held
back is that case. The screen's listing and its acknowledgement each take their time;
an acknowledgement says how far it read. `WarningsReachTheUser` puts the two together.

`ToastClicks` delivers a click twice: it is pushed, and the document asks for it when it
could navigate. `newest`, `handled` and `acknowledged` are the document's claims, which
a lock forgets with the document. `MaxFailures` bounds the calls between the two processes
that fail: the document's question for a click (`PeekFails`), or an acknowledgement with
its retries. `ClicksAreServed` is that a click that could take the window to its account,
and has not yet, is on its way to do so, and that none does twice or is forgotten for
having been served when it was not. It admits a question that failed: `App.tsx:1180-1183`
swallows the rejection and nothing asks again until the user goes somewhere or the
accounts change, so that the click lies there meanwhile.

`Foreground` tells what was asked for (`ui`) from what can be seen (`shown`): an answer
is rendered a frame later, and takes presses until then. `WindowIsTheUsers` is that a
prompt for a password belongs to the last press, and that interrupted work stays in
sight until it was visited and takes the window from nobody who uses it; it excepts the
frame in which a press overtakes an answer (`raced`).

`WindowKept`, in `AccountBrowsersProofs`, proves `WindowIsTheUsers` for any number of
presses and unlocks. Its invariant says that a locked window, and one whose question after
interrupted work is fresh, is as a new document is (`LockedIsAnew`, `Untouched`); and while
nothing raced, that every prompt and every claim still under way is the last press's
(`LastPress`), that only the bare account list prompts and whatever leaves it gives up its
claim (`ListPrompts`), and that what is owed is announced, about to be shown or next
(`OwedIsInSight`). Every press is shown to keep it by one lemma, `PressKeepsWindow`, from
what it asks for. `WindowAssumption` is the assumption, and the run evaluates it.

## Clock, codes and clipboard: Codes, ClipboardCourier

The clipboard is one cell that any program writes at any moment. `BeginClear` is
`clearIfOurs` up to its comparison and `EndClear` the clear, so that another program
may write in between, which the file documents as its one edge. `Lock` stands for
`onLock`, quitting and the end of the desktop session, which all call it. A process
that is killed takes nothing back; that is not modelled.

`Codes` is the clock that its codes are made for: `skew` is what Steam's clock is ahead
of the machine's, which somebody may set; `offset` was measured when the skew was
`measured`. A query takes the route of some routed account in turn, or none, may be
answered late, fail, or be revoked by a lock or a change of that route; a failure rotates
the route and cools down. A code's handler that awaits the measurement goes on before
anything else happens. `VerifiedIsRight` is that a code shown without a warning is right
to within the tolerance, `SyncedAtLast` that one dead route does not leave the clock
unverified for good.

Fairness. The renderer asks for codes each second while the vault is open; queries end;
the cooldown's timer and the clipboard's fire. `SyncedAtLast` assumes in its formula that
routes and clock are left alone in the end and some routed account reaches Steam.

Two accounts suffice to rotate between a dead and a live one; skews of -1, 0 and 2 with a
tolerance of 2 lie on both sides of it. Reads of the clipboard may fail (`ReadFails`): the
field and the timer are dropped before the read (`clipboard.ts:106`), so a clear that was
tried and failed is not tried again, and the code stays until something else is copied.
`missed` is the history of that, and the one exception of `CodeIsWatched`. A lock during a query aborts
it and starts the cooldown; with no routed account the first account is asked directly,
which under "require proxies" fails each time.

Proved in `ServicesProofs`, for any accounts, skews, tolerance and latency: `VerifiedIsRight`,
from the invariant `Measured` (a verified offset is the skew it was measured at, less the
time its answer took) and the triangle inequality, and `CodeIsWatched`, whether reads fail
or not: the clock's steps leave the courier alone and the other way round, so each is
argued alone.

## The issue tracker: Tickets

Reports and attachment rows are tables, the attachments' bytes a directory; nothing ties
a change of one to a change of the other. `Attach` to `Dropped` is an upload whose body
is awaited; `Submits`, `Replies` and their ends are forms; `Act` is an administrator's
decision, `Withdraw` the reporter's, `SweepHourly` the timer with its three sweeps,
`SweepFails` the same when some files cannot be removed. `ServerStops`, `Closes` and
`Forced` are the shutdown, `Crash` a stop inside any of these, `ServerStarts` what follows. History: the operator's last `decided`
status, which reports were `replied` to since, and `strays`, bytes no row could be
written for.

Two requests, one report, three files under a limit of two, two faults. Fairness: the
hourly timer fires, a stopped server is started again, a shutdown's deadline comes and
its callback runs; nobody has to visit.

Proved in `ServicesProofs`, for any requests, reports, files, limit and faults: the types,
`StoredWithinLimit`, `StatusIsTheLastWord` and `EvidenceStays`. The invariant `Budgeted`
is what the limit rests on: every file on disk has a row or is a stray, no stray has a
row, and the rows are within the limit, which is what an upload counts. A sweep keeps it
when removals fail, because a row goes only with its file (`SweepsOnly`).
`StatusIsTheLastWord` is inductive as it stands: a claim made while a reply's form was
on its way stands, a resolution or a question asked then does not (see below). `TicketsAssumption` is the assumption.
What `Announcements`, `Codes` and `Tickets` would all name alike carries the name of its
service in the last two (`CodesNext`, `TrackerNext`), so that one module can extend them.

What the properties leave open: a sweep that failed in part followed by a reply reopens
a report some of whose pictures are gone; a withdrawal cut between removing the bytes
and the row leaves a row that can be claimed without bytes.

## Where the code differs from what it says

Found while modelling, each confirmed by a counterexample of TLC; the properties above
state these as their exceptions.

* The record of a rotation is overwritten by the next rotation while unpaid
  (`service.ts:995`). A stop before the new vault write leaves a record that says nothing
  is owed, and a backup that opens with a retired passphrase is offered.
  `ButForLostEvidence` shows that this is the only way.
* "Never a truncated one" (`storage.ts:33`): the exclusive copy (always on Windows) and
  the rollback copy write onto the live name; a stop inside leaves a truncated vault.
  `LastGoodCopySurvives` says what remains true.
* A rotation's record whose unlink failed, beside a torn vault, keeps the backup suspect
  and refuses the restore that the error message recommends.
* The uncertain branch of `changePassphrase` (`service.ts:1035`) does not bump
  `fileGeneration`, which a restore in the air compares; in the running program the
  coordinator keeps the two apart.
* A latch of a settled operation sits in the backup, a second operation leaves a note,
  and the backup is restored: the screens show the latch, and "Steam acted" is refused
  because of the note, which nobody can reach while the latch is shown.
* A workflow record whose removal was not flushed is updated to say that nothing
  happened, and the rename fails: after a power loss the journal holds a stage without
  its record and nothing can be read again.
* An ordinary failure schedules the next poll after the backoff alone, which is sooner
  than a long interval: a failing account is polled faster than a healthy one.
* A beat that skips an account in flight clears the invalidation (see
  `PolledAgainUnlessOvertaken`).
* A toast in the air when the count of unreadable entries drops and rises again can
  cover the later rise (`notify.ts:541-547` and `604-620`). A poll that was disowned still
  reports that it succeeded, for a removed account too. The mutant `NextAttemptHere` is
  the earlier defect that `notify.ts:274-294` describes.
* A click for one account observed while its screen shows the prompt to sign in, left by
  "Not now", is taken up by the screen of the next account, which settles it without its
  own account having been asked for (`App.tsx:1033-1036`, `notification-click.ts:13-14`
  say that the list of that account answers it). `AnsweredByItsAccount` of `ToastClicks`
  states what fails; `ClickIsActedOnOnce` admits it as `strayed`.
* A reply of the reporter is said never to pull a report "out of one an admin just chose"
  (`server.mjs:2201-2203`). The status is read again after the form was awaited, but only
  a claim made meanwhile stands: a report resolved, or set to wait for the reporter, in
  that time is opened again (`server.mjs:2204`). `StatusIsTheLastWord` states both halves.
* The answer about interrupted work takes the untouched list, and a press or a
  notification in the frame before it is rendered overtakes it: the work is then neither
  shown nor announced, although `App.tsx:1354-1356` means that nothing can hide it.
* The paths above in the sections on recovery files, import consent, routes and
  browsers.

## What is proved and what is only checked

Proved with TLAPS, for all values of the constants, from the named ASSUMEs on constants
and the hypotheses a theorem states: those listed in `PROJECT.json`, in
`VaultServiceProofs`, `KeyCoordinatorProofs`, `SteamOperationProofs`, `WorkflowsProofs`,
`ServicesProofs`, `EgressProofs`, `ConfirmationsProofs` and `AccountBrowsersProofs`. Two
hypotheses exclude what the code may meet. `FileAsPromised`, `SessionAndFileAgree`,
`NothingStale` and `LastCopySurvives` assume one fault or one operation deriving at a
time; TLC has a counterexample to the first of these without either. The theorems of
`WorkflowsProofs` assume that a published note reads back (`ReadBackFails = FALSE`),
because their invariant rests on the journal's holding one record at a time; the runs
`workflows` and `workflows_live` check the properties without that assumption.

Model-checked only: `ButForLostEvidence` of the vault (see there for why);
`WarningsReachTheUser`, which is about what a fold over the findings of a pass computes;
`ClicksAreServed`, a safety property of a module explored beside another;
and every liveness property (`RotationDebtIsPaid`, `ReplyIsStored`,
`SyncedAtLast`, `PolledAgainUnlessOvertaken`, `RetentionIsKept`), whose
fairness and ENABLED are out of the prover's reach. Each module states its types as
`TypeOK`; where a module has proofs these are theorems.

Symmetry is used where the code treats the members alike (handlers, accounts, presses,
callers, calls, attempts, authenticators) and never in a run with a liveness property.

## What is not modelled

Cryptography is its contract: a sealed body opens under its key only. Parsing, wire
formats and wording (`mafile`, `sda-crypto`, `jsonspan`, `transfer-proto`, `enroll`,
`transfer-api`, `confirmations/protocol`, addresses and redirects in `net/egress.ts`,
schemas and IPC types in `src/shared`) are the models' inputs: their verdict is chosen,
not computed. The renderer's forms, the preload bridge, the tray, window
identity and Electron's host objects keep no state that outlives a screen; what they send
is any request at any time. The
sign-in's own protocol is a library's. Records of earlier builds are not modelled, and with
them the second check of a held authenticator's secrets (`transfer.ts:1720-1762`): it
repeats what `validateReplacement` found in order (`transfer-store.ts:77-92`) before the
same bytes were sealed. The update check is one stateless request. The
website, the release tools, the smoke tests and the prototype under `spike/` are not part
of the running program, and with the renderer and the pure modules they are more than
half of the lines of the repository.

## Running

    tlc -workers 2 -config VaultService_core.cfg MCVaultService
    tlapm VaultServiceProofs.tla
    tlapm KeyCoordinatorProofs.tla
    tlapm SteamOperationProofs.tla
    tlapm WorkflowsProofs.tla
    tlapm ServicesProofs.tla
    tlapm EgressProofs.tla
    tlapm ConfirmationsProofs.tla
    tlapm AccountBrowsersProofs.tla

Each run of `PROJECT.json` names its module and configuration; `mutants` names, for
each property, a faulty definition kept beside the right one (its comment starts with
"Faulty") that makes the run fail.
