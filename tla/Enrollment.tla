----------------------------- MODULE Enrollment -----------------------------
(***************************************************************************)
(* Adding an authenticator to an account that has none                     *)
(* (src/main/steam/enrollment.ts and enrollment-ipc.ts), beside the        *)
(* transfer of the same account: both share the journal, the vault row and *)
(* the reservation of the coordinator.                                     *)
(*                                                                         *)
(* Steam sends the secrets once, in the reply to AddAuthenticator.  A note *)
(* goes first, the reply is sealed into it, then the vault and the         *)
(* recovery file are written and the note is cleared.  Unlike a transfer,  *)
(* this service keeps no copy of its note: it reads the journal whenever   *)
(* it is asked.                                                            *)
(***************************************************************************)
EXTENDS Transfer

VARIABLES
  login,    \* the sign-in: no, signing, code (one is awaited), routing, asked
  erec,     \* the record a request or a run is at work on, or None
  staged,   \* stagedRecovery: a reply no record holds yet, or None
  known     \* knownAttachedAttempts

enrollment == <<login, erec, staged, known>>

Reply == [attempt : Attempts, usable : BOOLEAN]

ASSUME ReplyAssumption == None \notin Reply

(* beginning or submittingEmailCode: a sign-in, its route or the request.  *)
Busy == login \in {"signing", "routing", "asked"}

-----------------------------------------------------------------------------
(* Signing in.                                                             *)

(* ensureNoUnresolvedEnrollment                                            *)
Unrecorded == Merged(dir).files = {} /\ enrollOwed = None /\ owed = None

SignIn(to) ==
  /\ login' = to
  /\ UNCHANGED <<erec, staged, known, service, vault, world>>

EnrollBegin ==
  /\ Idle /\ unlocked /\ ~Busy /\ ReadsWell /\ Unrecorded
  /\ SignIn("signing")
EnrollAsksCode ==
  Idle /\ login = "signing" /\ SignIn("code") /\ UNCHANGED journalVars
EnrollCode ==
  Idle /\ unlocked /\ login = "code" /\ SignIn("signing") /\ UNCHANGED journalVars
EnrollSignedIn ==
  /\ Idle /\ login = "signing" /\ unlocked /\ row = None
  /\ SignIn("routing") /\ UNCHANGED journalVars

(* Steam refuses or does not finish, the code expires, the route is        *)
(* forbidden, the account is in the vault, or a guard below says no.       *)
EnrollFails ==
  /\ Idle /\ login \in {"signing", "code", "routing"}
  /\ SignIn("no") /\ UNCHANGED journalVars

-----------------------------------------------------------------------------
(* The note, and in the same run the request.                              *)
Added(n) == [attempt |-> n, kind |-> "enrollment", state |-> "sending",
             reply |-> "none", published |-> FALSE, prior |-> None]

(* Faulty: what the sign-in found is trusted, and nothing is reserved.     *)
EnrollSendUnreserved ==
  /\ Idle /\ login = "routing" /\ unlocked
  /\ \E n \in FreshNames(sent) :
       \E x \in Then(Reads, LAMBDA d, o : Publishing(d, o, Added(n))) :
         /\ Happens(x)
         /\ IF x.ok
            THEN /\ login' = "asked" /\ erec' = Added(n) /\ enrollHolds' = TRUE
                 /\ sent' = sent \cup {n} /\ open' = open \cup {n}
            ELSE login' = "no" /\ UNCHANGED <<erec, enrollHolds, sent, open>>
  /\ UNCHANGED <<staged, known, service, vault, steam, enrollOwed, received, adopted>>

EnrollSend ==
  /\ Idle /\ login = "routing" /\ unlocked
  /\ Unrecorded /\ Reservable /\ row = None
  /\ \E n \in FreshNames(sent) :
       \E x \in Then(Reads, LAMBDA d, o : Publishing(d, o, Added(n))) :
         /\ Happens(x)
         /\ IF x.ok
            THEN /\ login' = "asked" /\ erec' = Added(n) /\ enrollHolds' = TRUE
                 /\ sent' = sent \cup {n} /\ open' = open \cup {n}
            ELSE login' = "no" /\ UNCHANGED <<erec, enrollHolds, sent, open>>
  /\ UNCHANGED <<staged, known, service, vault, steam, enrollOwed, received, adopted>>

-----------------------------------------------------------------------------
(* What comes back.                                                        *)
Awaited == Idle /\ login = "asked"
Attaches == steam = None /\ steam' = erec.attempt
Released == login' = "no" /\ enrollHolds' = FALSE

(* A refusal, or a failure that proves the request never left.             *)
EnrollRefused ==
  /\ Awaited
  /\ Start("erase", "submission", FALSE, "notAttached")
  /\ open' = open \ {erec.attempt}
  /\ UNCHANGED <<journalVars, transfer, enrollment, vault, steam, enrolment,
                 sent, received, adopted>>

(* A note of what is known, if it can be written.                          *)
Conclude(state) ==
  /\ \E x \in Updates(Turned(erec, state, "none")) : Happens(x)
  /\ Released /\ erec' = None
  /\ UNCHANGED <<staged, service, vault, enrollOwed, sent, open, received, adopted>>

(* Nobody knows.                                                           *)
EnrollLost ==
  /\ Awaited /\ (Attaches \/ UNCHANGED steam)
  /\ Conclude("unanswered") /\ UNCHANGED known

(* Attached, and the answer holds nothing to keep.                         *)
EnrollKnownAttached ==
  /\ Awaited /\ Attaches
  /\ known' = known \cup {erec.attempt} /\ Conclude("attached")

Kept(r, usable) == IF usable THEN Turned(r, "recoverable", "usable")
                   ELSE Turned(r, "unreadable", "unusable")

(* Faulty: the reply waits nowhere while the record is being updated.      *)
EnrollAnsweredUnstaged(usable) ==
  /\ Awaited /\ Attaches /\ Released
  /\ received' = received \cup {erec.attempt}
  /\ \E x \in Updates(Kept(erec, usable)) :
       /\ Happens(x)
       /\ IF x.ok /\ usable
          THEN erec' = Kept(erec, usable) /\ Start("store", "submission", FALSE, None)
          ELSE erec' = None /\ UNCHANGED job
  /\ UNCHANGED <<staged, known, transfer, vault, enrollOwed, sent, open, adopted>>

(* The secrets, or what there is of them.                                  *)
EnrollAnswered(usable) ==
  /\ Awaited /\ Attaches /\ Released
  /\ received' = received \cup {erec.attempt}
  /\ \E x \in Updates(Kept(erec, usable)) :
       /\ Happens(x)
       /\ staged' = IF x.ok THEN None ELSE [attempt |-> erec.attempt, usable |-> usable]
       /\ IF x.ok /\ ~usable THEN erec' = None /\ UNCHANGED job
          ELSE /\ erec' = Kept(erec, usable)
               /\ Start(IF x.ok THEN "store" ELSE "peek", "submission", FALSE, None)
  /\ UNCHANGED <<known, transfer, vault, enrollOwed, sent, open, adopted>>

Ends == job' = None /\ erec' = None /\ Released

(* publishedRetainedEnrollment: the update failed, perhaps after it took   *)
(* effect.                                                                 *)
EnrollPeek ==
  /\ Step("peek")
  /\ \E x \in Reads :
       /\ Happens(x)
       /\ IF x.ok /\ erec \in x.dir.files
          THEN /\ staged' = None
               /\ IF erec.reply = "usable" THEN Goto("store") /\ UNCHANGED <<erec, login, enrollHolds>>
                  ELSE Ends
          ELSE Ends /\ UNCHANGED staged
  /\ UNCHANGED <<known, transfer, vault, steam, enrollOwed, sent, open, received, adopted>>

-----------------------------------------------------------------------------
(* Storing the secrets: persistEnrollment.                                 *)
Stays == UNCHANGED <<erec, login, enrollHolds>>
NewRow == [auth |-> erec.attempt, backup |-> "pending"]

EnrollStore ==
  /\ Step("store")
  /\ IF ~unlocked \/ (row # None /\ row.auth # erec.attempt) THEN Ends /\ UNCHANGED vault
     ELSE /\ Goto("copy") /\ Stays
          /\ IF row = None \/ (~erec.published /\ row.backup = "none") THEN Save(NewRow)
             ELSE UNCHANGED vault
  /\ UNCHANGED <<journalVars, staged, known, transfer, steam, enrollOwed, sent,
                 open, received, adopted>>

(* mutate fails; it may have reached the disk, and then the vault locks.   *)
EnrollStoreFails ==
  /\ Step("store") /\ unlocked /\ row = None
  /\ faults < MaxFaults /\ faults' = faults + 1
  /\ Ends
  /\ \/ UNCHANGED <<vault, transfer>>
     \/ /\ unlocked' = FALSE /\ TransferLocked
        /\ (UNCHANGED <<row, bak>> \/ (row' = NewRow /\ bak' = row))
  /\ UNCHANGED <<dir, older, debt, staged, known, steam, enrollOwed, sent,
                 open, received, adopted>>

(* finishRecoveryBackup: the file, then the row's word for it.             *)
EnrollCopy ==
  /\ Step("copy")
  /\ IF row.backup = "pending" THEN Save([row EXCEPT !.backup = "current"])
     ELSE UNCHANGED vault
  /\ Goto(IF erec.published /\ row.backup = "current" THEN "erase" ELSE "announce")
  /\ Stays
  /\ UNCHANGED <<journalVars, staged, known, transfer, steam, enrollOwed, sent,
                 open, received, adopted>>

(* A warning: the row is stored, the record stays.                         *)
EnrollCopyFails ==
  /\ Step("copy") /\ row.backup = "pending"
  /\ faults < MaxFaults /\ faults' = faults + 1
  /\ Ends
  /\ UNCHANGED <<dir, older, debt, staged, known, transfer, vault, steam,
                 enrollOwed, sent, open, received, adopted>>

(* markEnrollmentRecovery                                                  *)
EnrollAnnounce ==
  /\ Step("announce")
  /\ \E x \in Updates([erec EXCEPT !.published = TRUE]) :
       /\ Happens(x)
       /\ IF x.ok
          THEN /\ erec' = [erec EXCEPT !.published = TRUE] /\ Goto("erase")
               /\ UNCHANGED <<login, enrollHolds>>
          ELSE Ends
  /\ UNCHANGED <<staged, known, transfer, vault, steam, enrollOwed, sent, open,
                 received, adopted>>

-----------------------------------------------------------------------------
(* clearWorkflowRecord: at the end of a save, after a refusal by Steam, or *)
(* at the user's word.                                                     *)
Stowed == job.resolution \in {None, "storedHere"}

EnrollErase ==
  /\ Step("erase")
  /\ \E x \in Clears(erec) :
       /\ Happens(x)
       /\ IF x.ok
          THEN /\ Ends /\ enrollOwed' = None
               /\ known' = known \ {erec.attempt} /\ staged' = None
               /\ IF Stowed THEN Settle(erec.attempt) ELSE UNCHANGED <<open, received>>
          ELSE Goto("own") /\ Stays /\ UNCHANGED <<enrollOwed, known, staged, open, received>>
  /\ UNCHANGED <<transfer, vault, steam, sent, adopted>>

(* It could not be removed: is it still there?                             *)
EnrollOwn ==
  /\ Step("own")
  /\ \E x \in Reads :
       /\ Happens(x)
       /\ enrollOwed' = IF x.ok /\ \E f \in x.dir.files : f.attempt = erec.attempt
                        THEN None ELSE erec
  /\ IF job.by = "submission" /\ ~Stowed THEN Goto("disclaim") /\ Stays
     ELSE job' = None /\ erec' = None /\ Released
  /\ UNCHANGED <<staged, known, transfer, vault, steam, sent, open, received, adopted>>

(* Then at least it should say that nothing was attached.                  *)
EnrollDisclaim ==
  /\ Step("disclaim") /\ Ends
  /\ \E x \in Updates(Turned(erec, "not-attached", "none")) :
       /\ Happens(x)
       /\ enrollOwed' = IF x.ok THEN None ELSE enrollOwed
  /\ UNCHANGED <<staged, known, transfer, vault, steam, sent, open, received, adopted>>

-----------------------------------------------------------------------------
(* What the user may ask of a record that was left.                        *)
Theirs(r) == staged # None /\ staged.attempt = r.attempt

(* stagedRecovery is dropped once the record is seen to hold the reply.    *)
Restaged(r) == IF Theirs(r) /\ r.reply # "none" THEN None ELSE staged

(* retryEnrollmentPersist ("Save it now").                                 *)
EnrollRetry ==
  /\ Idle /\ unlocked /\ ~Busy /\ Reservable
  /\ ~debt /\ Reconcilable(dir)
  /\ \E r \in Found("enrollment") :
       \/ /\ r.state = "recoverable" /\ ReadsWell
          /\ erec' = r /\ staged' = Restaged(r)
          /\ Start("store", "recovery", FALSE, None)
       \/ /\ r.state \notin {"recoverable", "unreadable"} /\ Theirs(r)
          /\ \E x \in Updates(Kept(r, staged.usable)) :
               /\ Happens(x)
               /\ staged' = IF x.ok THEN None ELSE staged
               /\ IF x.ok /\ staged.usable
                  THEN erec' = Kept(r, TRUE) /\ Start("store", "recovery", FALSE, None)
                  ELSE UNCHANGED <<erec, job>>
  /\ UNCHANGED <<login, known, transfer, vault, world>>

(* enrollmentStoredFaithfully: the row is the one the reply describes.     *)
StoredHere(r) ==
  /\ row # None /\ row.auth = r.attempt
  /\ r.state = "recoverable" \/ (Theirs(r) /\ staged.usable)

(* Faulty: what this process knows of the attempt is not asked.            *)
PermittedByRecord(r, durable, resolution) ==
  CASE resolution = "storedHere" -> StoredHere(r)
    [] resolution = "notAttached" -> r.state \notin {"attached", "recoverable", "unreadable"}
    [] resolution = "resolvedOutsideApp" -> ~StoredHere(r) /\ r.reply # "usable"

(* resolveEnrollment                                                       *)
Permitted(r, durable, resolution) ==
  LET recovery == (durable /\ r.reply # "none") \/ Theirs(r)
      usable   == (durable /\ r.reply = "usable") \/ (Theirs(r) /\ staged.usable)
  IN CASE resolution = "storedHere" -> StoredHere(r)
       [] resolution = "notAttached" ->
            /\ r.attempt \notin known /\ ~recovery /\ ~StoredHere(r)
            /\ r.state \notin {"attached", "recoverable", "unreadable"}
       [] resolution = "resolvedOutsideApp" -> ~StoredHere(r) /\ ~(recovery /\ usable)

(* Any answer may be wrong: the guards are for that.                       *)
EnrollResolve(resolution) ==
  /\ Idle /\ unlocked /\ ~Busy /\ ReadsWell
  /\ LET found == Found("enrollment")
     IN \E r \in IF found # {} THEN found ELSE {enrollOwed} \ {None} :
          /\ Permitted(r, found # {}, resolution)
          /\ erec' = r /\ staged' = Restaged(r)
          /\ Start("erase", "resolution", FALSE, resolution)
          /\ IF resolution # "storedHere" THEN Settle(r.attempt)
             ELSE UNCHANGED <<open, received>>
  /\ UNCHANGED <<login, known, transfer, vault, steam, enrolment, sent, adopted>>

-----------------------------------------------------------------------------
(* forget, at a lock; what is already routed is checked again later.       *)
EnrollLocked ==
  /\ login' = IF login \in {"signing", "code"} THEN "no" ELSE login
  /\ UNCHANGED <<erec, staged, known>>

EnrollForgotten ==
  /\ login' = "no" /\ erec' = None /\ staged' = None /\ known' = {}
  /\ enrollOwed' = None /\ enrollHolds' = FALSE

EnrollRun ==
  EnrollPeek \/ EnrollStore \/ EnrollStoreFails \/ EnrollCopy \/ EnrollCopyFails
    \/ EnrollAnnounce \/ EnrollErase \/ EnrollOwn \/ EnrollDisclaim
EnrollSigning == EnrollBegin \/ EnrollAsksCode \/ EnrollCode \/ EnrollSignedIn
                   \/ EnrollFails \/ EnrollSend
EnrollReplying == EnrollRefused \/ EnrollLost \/ EnrollKnownAttached
                    \/ \E usable \in BOOLEAN : EnrollAnswered(usable)
EnrollAsking ==
  \/ EnrollRetry
  \/ \E resolution \in {"notAttached", "storedHere", "resolvedOutsideApp"} :
       EnrollResolve(resolution)

EnrollTypeOK ==
  /\ login \in {"no", "signing", "code", "routing", "asked"}
  /\ erec \in Record \cup {None} /\ (erec # None => erec.kind = "enrollment")
  /\ staged \in Reply \cup {None} /\ known \subseteq sent
  /\ enrollOwed \in Record \cup {None} /\ enrollHolds \in BOOLEAN
=============================================================================
