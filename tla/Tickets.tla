------------------------------- MODULE Tickets -------------------------------
(***************************************************************************)
(* The issue tracker (tickets/server.mjs): reports and attachments in a    *)
(* database, the attachments' bytes in a directory beside it, requests     *)
(* whose bodies are awaited, the sweeps that enforce retention, and the    *)
(* shutdown the backup relies on.  The database and the directory are two  *)
(* stores with no transaction across them.  What runs between two awaits   *)
(* is one action; a stop inside it is Crash.                               *)
(***************************************************************************)
EXTENDS Naturals, FiniteSets, Functions

CONSTANTS
  Requests,  \* requests that may be in progress at once
  Reports,   \* references of reports
  Files,     \* ids of attachments, each of one unit of storage
  Nobody,
  Limit,     \* TOTAL_STORAGE_LIMIT, in files
  MaxFaults  \* bound: failed calls and crashes

ASSUME TicketsAssumption == Limit \in Nat /\ MaxFaults \in Nat /\ Nobody \notin Reports

VARIABLES
  tickets,   \* the rows of tickets, by report
  rows,      \* the rows of attachments, by id: the report, and whether expired
  disk,      \* the files that have an id for a name
  admins, token,  \* rows of admins; whether a bootstrap token is offered
  server,    \* "running", "stopping", "closed" or "down"
  request,   \* what each request waits for
  faults,
  decided,   \* history: per report, the operator's last decision
  replied,   \* history: the reports the reporter replied to since
  strays     \* history: files no row could be written for

tables == <<tickets, rows, admins>>
history == <<decided, replied, strays>>
trackerVars == <<tables, disk, token, server, request, faults, history>>

Statuses == {"open", "assigned", "waiting", "resolved"}  \* resolved: declined too
(* A table with one more row.                                              *)
With(f, x, y) == [z \in DOMAIN f \cup {x} |-> IF z = x THEN y ELSE f[z]]

Vacant == [pc |-> "idle", about |-> Nobody]

Closed(t) == tickets[t].status = "resolved"
Unclaimed(f) == rows[f].ticket = Nobody
Claimable == {f \in DOMAIN rows : Unclaimed(f) /\ ~rows[f].old}
FilesOf(t) == {f \in DOMAIN rows : rows[f].ticket = t}
At(r, pc) == request[r].pc = pc
Serving == server \in {"running", "stopping"}

Fault == faults < MaxFaults /\ faults' = faults + 1
Ends(r) == request' = [request EXCEPT ![r] = Vacant]
Starts(r, pc, t) == request' = [request EXCEPT ![r] = [pc |-> pc, about |-> t]]

-----------------------------------------------------------------------------
(* sweepUnclaimed, sweepOrphans and sweepClosed, when the files in held    *)
(* cannot be removed.                                                      *)
Expired == {f \in DOMAIN rows : Unclaimed(f) /\ rows[f].old}
Overdue == {t \in DOMAIN tickets : Closed(t) /\ tickets[t].old}
Condemned == Expired \cup UNION {FilesOf(t) : t \in Overdue}
Orphans == disk \ DOMAIN rows

(* Faulty: a report goes whether or not its pictures did.                  *)
ClearedAnyway(held) == Overdue

(* The reports whose pictures are all gone.                                *)
ClearedReports(held) == {t \in Overdue : FilesOf(t) \cap held = {}}

Sweeps(held) ==
  LET cleared == ClearedReports(held)
      dropped == (Expired \ held) \cup UNION {FilesOf(t) : t \in cleared} IN
  /\ disk' = disk \ ((Condemned \cup Orphans) \ held)
  /\ rows' = Restrict(rows, DOMAIN rows \ dropped)
  /\ tickets' = Restrict(tickets, DOMAIN tickets \ cleared)
  /\ strays' = strays \cap disk'
  /\ replied' = replied \cap DOMAIN tickets'

(* Faulty: expired data goes when somebody happens to upload.              *)
SweepOnTraffic == FALSE

(* The hourly timer.                                                       *)
SweepHourly ==
  /\ Serving /\ Sweeps({})
  /\ UNCHANGED <<admins, token, server, request, faults, decided>>

SweepFails ==
  /\ Serving /\ Fault
  /\ \E f \in disk : Sweeps({f})
  /\ UNCHANGED <<admins, token, server, request, decided>>

-----------------------------------------------------------------------------
(* POST /support/attach: a sweep, then the body streams to disk.           *)
Attach(r) ==
  /\ server = "running" /\ At(r, "idle")
  /\ Sweeps({}) /\ Starts(r, "receiving", Nobody)
  /\ UNCHANGED <<admins, token, server, faults, decided>>

Room == Cardinality(DOMAIN rows) + 1 <= Limit

(* A random id is one that nothing else has; which one does not matter.    *)
Unused == Files \ (DOMAIN rows \cup disk)
FreshId == CHOOSE f \in Unused : TRUE

(* storeUpload: renamed into place, then its row.                          *)
Store(r) ==
  /\ At(r, "receiving") /\ Room /\ Unused # {}
  /\ disk' = disk \cup {FreshId}
  /\ rows' = With(rows, FreshId, [ticket |-> Nobody, old |-> FALSE])
  /\ Ends(r)
  /\ UNCHANGED <<tickets, admins, token, server, faults, history>>

(* The row cannot be written, and the file goes; or that fails as well.    *)
StoreFails(r) ==
  /\ At(r, "receiving") /\ Room /\ Unused # {}
  /\ faults + 2 <= MaxFaults /\ faults' = faults + 2
  /\ disk' = disk \cup {FreshId} /\ strays' = strays \cup {FreshId} /\ Ends(r)
  /\ UNCHANGED <<tables, token, server, decided, replied>>

(* Refused, out of room, hung up or failed: what has arrived is removed.   *)
Dropped(r) ==
  /\ At(r, "receiving") /\ Ends(r)
  /\ UNCHANGED <<tables, disk, token, server, faults, history>>

(* Faulty: a report's own attachment can be withdrawn.                     *)
WithdrawnAnyway == DOMAIN rows

(* DELETE /support/attach: the file, then the row.                         *)
Withdrawn == {f \in DOMAIN rows : Unclaimed(f)}

Withdraw(f) ==
  /\ server = "running" /\ f \in Withdrawn
  /\ disk' = disk \ {f}
  /\ \/ rows' = Restrict(rows, DOMAIN rows \ {f}) /\ UNCHANGED faults
     \/ Fault /\ UNCHANGED rows
  /\ UNCHANGED <<tickets, admins, token, server, request, decided, replied, strays>>

-----------------------------------------------------------------------------
(* Requests that wait for a form.  A reply has looked its report up.       *)
Submits(r) ==
  /\ server = "running" /\ At(r, "idle") /\ Starts(r, "submitting", Nobody)
  /\ UNCHANGED <<tables, disk, token, server, faults, history>>

Replies(r, t) ==
  /\ server = "running" /\ At(r, "idle") /\ t \in DOMAIN tickets
  /\ request' = [request EXCEPT ![r] =
       [pc |-> "replying", about |-> t, saw |-> tickets[t].status]]
  /\ UNCHANGED <<tables, disk, token, server, faults, history>>

Bootstraps(r) ==
  /\ server = "running" /\ At(r, "idle") /\ token /\ Starts(r, "bootstrapping", Nobody)
  /\ UNCHANGED <<tables, disk, token, server, faults, history>>

(* Too large, refused, cut off, or rolled back: nothing is saved.          *)
Refused(r) ==
  /\ request[r].pc \in {"submitting", "replying", "bootstrapping"} /\ Ends(r)
  /\ UNCHANGED <<tables, disk, token, server, faults, history>>

(* claimAttachments *)
Claims(t, asked) ==
  rows' = [f \in DOMAIN rows |->
             IF f \in asked \cap Claimable THEN [rows[f] EXCEPT !.ticket = t] ELSE rows[f]]

Submitted(r, t, asked) ==
  /\ At(r, "submitting") /\ t \notin DOMAIN tickets
  /\ tickets' = With(tickets, t, [status |-> "open", old |-> FALSE])
  /\ decided' = [decided EXCEPT ![t] = "open"]
  /\ Claims(t, asked) /\ Ends(r)
  /\ UNCHANGED <<admins, disk, token, server, faults, replied, strays>>

(* Faulty: the status is the one read before the form was awaited.         *)
StatusThen(r) == IF request[r].saw = "assigned" THEN "assigned" ELSE "open"

(* A reply reopens a report, but for one that somebody has claimed: what   *)
(* was resolved, or set waiting, while the form was arriving as well.      *)
StatusNow(r) == IF tickets[request[r].about].status = "assigned" THEN "assigned" ELSE "open"

Replied(r, asked) ==
  /\ At(r, "replying") /\ request[r].about \in DOMAIN tickets
  /\ LET t == request[r].about IN
     /\ tickets' = [tickets EXCEPT ![t] = [status |-> StatusNow(r), old |-> FALSE]]
     /\ replied' = replied \cup {t} /\ Claims(t, asked)
  /\ Ends(r)
  /\ UNCHANGED <<admins, disk, token, server, faults, decided, strays>>

(* POST /admin/ticket: its form awaited, nothing read before it is used.   *)
Act(t, status) ==
  /\ Serving /\ t \in DOMAIN tickets
  /\ tickets' = [tickets EXCEPT ![t] = [status |-> status, old |-> FALSE]]
  /\ decided' = [decided EXCEPT ![t] = status] /\ replied' = replied \ {t}
  /\ UNCHANGED <<rows, admins, disk, token, server, request, faults,
                 strays>>

TokenStillOffered == token

Bootstrapped(r) ==
  /\ At(r, "bootstrapping") /\ TokenStillOffered /\ admins < 2
  /\ admins' = admins + 1 /\ token' = FALSE /\ Ends(r)
  /\ UNCHANGED <<tickets, rows, disk, server, faults, history>>

-----------------------------------------------------------------------------
(* Two hours after an upload, which only count while nobody has claimed    *)
(* it; ninety days after a report's last change.                           *)
FileAges(f) ==
  /\ f \in Claimable /\ rows' = [rows EXCEPT ![f].old = TRUE]
  /\ UNCHANGED <<tickets, admins, disk, token, server, request, faults, history>>

ReportAges(t) ==
  /\ t \in DOMAIN tickets /\ Closed(t) /\ ~tickets[t].old
  /\ tickets' = [tickets EXCEPT ![t].old = TRUE]
  /\ UNCHANGED <<rows, admins, disk, token, server, request, faults, history>>

(* shutdownTicketServer *)
ServerStops ==
  /\ server = "running" /\ server' = "stopping"
  /\ UNCHANGED <<tables, disk, token, request, faults, history>>

Drained == \A r \in Requests : At(r, "idle")

Closes ==
  /\ server = "stopping" /\ Drained /\ server' = "closed"
  /\ request' = [r \in Requests |-> Vacant] /\ token' = FALSE
  /\ UNCHANGED <<tables, disk, faults, history>>

(* The deadline: connections are destroyed, and each request fails.        *)
Forced(r) == server = "stopping" /\ (Dropped(r) \/ Refused(r))

(* A kill or a power cut, at rest or inside a synchronous run: a file      *)
(* renamed and no row yet, or files removed and their rows not.            *)
Crash ==
  /\ Serving /\ Fault /\ server' = "down" /\ token' = FALSE
  /\ \/ UNCHANGED <<disk, strays>>
     \/ /\ \E r \in Requests : At(r, "receiving")
        /\ Room /\ Unused # {}
        /\ disk' = disk \cup {FreshId} /\ strays' = strays \cup {FreshId}
     \/ \E gone \in SUBSET ((Condemned \cup {f \in DOMAIN rows : Unclaimed(f)}) \cap disk) :
          /\ gone \subseteq Condemned \/ Cardinality(gone) = 1
          /\ disk' = disk \ gone /\ UNCHANGED strays
  /\ request' = [r \in Requests |-> Vacant]
  /\ UNCHANGED <<tables, decided, replied>>

(* A start sweeps at once, and offers a token while there is nobody.       *)
ServerStarts ==
  /\ ~Serving /\ server' = "running" /\ token' = (admins = 0)
  /\ Sweeps({})
  /\ UNCHANGED <<admins, request, faults, decided>>

-----------------------------------------------------------------------------
TrackerInit ==
  /\ tickets = <<>> /\ rows = <<>> /\ disk = {}
  /\ admins = 0 /\ token = TRUE /\ server = "running"
  /\ request = [r \in Requests |-> Vacant] /\ faults = 0
  /\ decided = [t \in Reports |-> "open"] /\ replied = {}
  /\ strays = {}

Handles(r) ==
  \/ Attach(r) \/ Dropped(r) \/ Submits(r) \/ Bootstraps(r) \/ Refused(r) \/ Bootstrapped(r)
  \/ Store(r) \/ StoreFails(r)
  \/ \E t \in Reports : Replies(r, t) \/ \E asked \in SUBSET DOMAIN rows : Submitted(r, t, asked)
  \/ \E asked \in SUBSET DOMAIN rows : Replied(r, asked)

TrackerNext ==
  \/ \E r \in Requests : Handles(r)
  \/ \E f \in Files : Withdraw(f) \/ FileAges(f)
  \/ \E t \in Reports : ReportAges(t) \/ \E status \in Statuses : Act(t, status)
  \/ SweepHourly \/ SweepFails \/ ServerStops \/ Closes \/ Crash \/ ServerStarts

TrackerSpec == TrackerInit /\ [][TrackerNext]_trackerVars

(* The hourly timer fires, a stopped server is started again, a shutdown's *)
(* deadline comes and its callback runs.  Nobody has to send anything.     *)
TrackerFairSpec ==
  /\ TrackerSpec /\ WF_trackerVars(SweepHourly) /\ WF_trackerVars(ServerStarts) /\ WF_trackerVars(Closes)
  /\ \A r \in Requests : WF_trackerVars(Forced(r))

-----------------------------------------------------------------------------
(* Every variable keeps its type.                                          *)
TrackerTypeOK ==
  /\ DOMAIN tickets \subseteq Reports
  /\ \A t \in DOMAIN tickets : tickets[t] \in [status : Statuses, old : BOOLEAN]
  /\ DOMAIN rows \subseteq Files
  /\ \A f \in DOMAIN rows : rows[f] \in [ticket : DOMAIN tickets \cup {Nobody}, old : BOOLEAN]
  /\ disk \subseteq Files /\ token \in BOOLEAN
  /\ admins \in Nat /\ faults \in 0..MaxFaults
  /\ strays \subseteq disk

(* What belongs to a report stays with it: no sweep, withdrawal, other     *)
(* report, failure or stop takes an attachment's row or bytes from a       *)
(* report that is within its retention.                                    *)
EvidenceStays ==
  [][\A f \in DOMAIN rows \cap disk : ~Unclaimed(f) /\ rows[f].ticket \notin Overdue =>
       f \in disk' /\ f \in DOMAIN rows' /\ rows'[f].ticket = rows[f].ticket]_trackerVars

(* The disk keeps to its budget, whichever uploads, sweeps and withdrawals *)
(* ran side by side and whichever of their removals failed: bytes nobody   *)
(* counts are only those a stop or a double failure left without a row.    *)
StoredWithinLimit == Cardinality(disk \ strays) <= Limit

(* A report's status is the operator's last word, until the reporter       *)
(* answers.  An answer leaves no report finished or waiting, and takes none *)
(* from the operator who has claimed it, whenever that was, also while the *)
(* form was arriving.  It does undo a resolution or a request made in that *)
(* time, which the code's comment says it does not.                        *)
StatusIsTheLastWord ==
  \A t \in DOMAIN tickets :
    /\ t \notin replied \/ decided[t] = "assigned" => tickets[t].status = decided[t]
    /\ t \in replied /\ decided[t] # "assigned" => tickets[t].status = "open"

(* A closed report does not outlive its retention, although nobody visits: *)
(* it goes, or somebody has reopened it.                                   *)
RetentionIsKept ==
  \A t \in Reports : (t \in Overdue) ~> (t \notin Overdue)
=============================================================================
