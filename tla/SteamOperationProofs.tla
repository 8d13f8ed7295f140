------------------------ MODULE SteamOperationProofs ------------------------
(***************************************************************************)
(* For any number of authenticators, operations and faults: types, the     *)
(* note behind every open request, the promise of IrreversibleRequests,    *)
(* that a recorded acceptance is not denied, and that a settled vault      *)
(* agrees with Steam.                                                      *)
(***************************************************************************)
EXTENDS SteamOperation, TLAPS

(* Every operation any record, request or handler speaks of.               *)
Mentioned ==
  sent \cup {Requested(n) : n \in notes}
    \cup {Requested(r.latch) : r \in {x \in {row, bak} \ {None} : x.latch # None}}
    \cup {Requested(f.rec) : f \in {op} \ {None}}
    \cup {Requested(f.held.rec) : f \in {answer} \ {None}}

(* A record identity is drawn once, and a note is the only one under its   *)
(* identity.                                                               *)
IdsAreUnique ==
  /\ \A x \in Mentioned : x.id <= used
  /\ \A x, y \in Mentioned : x.id = y.id => x = y
  /\ \A n, m \in notes : n.id = m.id => n = m

(* What each step of a request implies about its outcome.                  *)
FlightKnows ==
  op # None =>
    /\ answer = None
    /\ ~Latched
    /\ op.step \in {"noted", "sent", "accepted"}
         => row # None /\ row.auth = op.rec.auth
    /\ op.step = "noted" => open = {} /\ Asked \notin sent /\ op.rec \in notes
    /\ op.step # "latch" => ~op.rec.certain
    /\ op.step \in {"sent", "accepted"} => Asked \in open
    /\ op.step \in {"accepted", "mark"} => Asked \in acted
    /\ op.step = "latch" /\ op.rec.certain => Asked \in acted
    /\ op.step \in {"refused", "clear"} => Asked \notin open

(* The user has spoken about the operation whose evidence is cleared.      *)
AnswerKnows ==
  answer # None =>
    /\ ToldAbout(answer.held) \notin open
    /\ answer.step = "save" => row # None /\ MayConsume

(* A latch is about the authenticator beside it.                           *)
LatchFits ==
  \A r \in {row, bak} : r # None /\ r.latch # None => r.latch.auth = r.auth

(* What keeps an acceptance from being denied.                             *)
RecordedCertain(r) ==
  \/ \E n \in notes : Requested(n) = r /\ n.certain
  \/ Latched /\ Requested(row.latch) = r /\ row.latch.certain
AcceptanceIsRecorded ==
  \A r \in known \cap open : forgot \/ RecordedCertain(r)

IInv ==
  /\ TypeOK /\ OpenIsNoted /\ IdsAreUnique /\ FlightKnows /\ AnswerKnows
  /\ LatchFits /\ AcceptanceIsRecorded

-----------------------------------------------------------------------------
(* Types.                                                                  *)
LEMMA SaveTypes ==
  ASSUME TypeOK, NEW new \in Row \cup {None}, Saved(new) \/ NotSaved(new)
  PROVE  /\ row' \in Row \cup {None} /\ bak' \in Row \cup {None}
         /\ unlocked' \in BOOLEAN /\ faults' \in 0..MaxFaults
<1>1. row' \in Row \cup {None} /\ bak' \in Row \cup {None}
  BY DEF Saved, NotSaved, TypeOK
<1>2. unlocked' \in BOOLEAN
  BY Zenon DEF Saved, NotSaved, TypeOK
<1>3. faults' \in 0..MaxFaults
  BY BoundsAssumption DEF Saved, NotSaved, Fault, TypeOK
<1> QED BY <1>1, <1>2, <1>3

LEMMA PublicationTypes ==
  ASSUME TypeOK, NEW after \in SUBSET Record, Published(after) \/ NotPublished(after)
  PROVE  /\ notes' \in SUBSET Record /\ torn' \in BOOLEAN
         /\ faults' \in 0..MaxFaults
<1>1. notes' \in SUBSET Record
  BY DEF Published, NotPublished, TypeOK
<1>2. torn' \in BOOLEAN
  BY Zenon DEF Published, NotPublished, TypeOK
<1>3. faults' \in 0..MaxFaults
  BY BoundsAssumption DEF Published, NotPublished, Fault, TypeOK
<1> QED BY <1>1, <1>2, <1>3

LEMMA RequestedType == \A rec \in Record : Requested(rec) \in Request
BY DEF Requested, Record, Request

LEMMA WithoutType ==
  ASSUME TypeOK, NEW i
  PROVE  notes \ WithId(notes, i) \in SUBSET Record
BY DEF TypeOK

LEMMA FlightType ==
  ASSUME TypeOK, op # None
  PROVE  /\ op.rec \in Record /\ op.step \in Steps
         /\ \A s \in Steps : [op EXCEPT !.step = s] \in Flight
         /\ [op.rec EXCEPT !.certain = TRUE] \in Record
BY DEF TypeOK, Flight, Record

LEMMA AnswerType ==
  ASSUME TypeOK, answer # None
  PROVE  /\ answer.held.rec \in Record /\ answer.held.source \in Source
         /\ [answer EXCEPT !.step = "clear"] \in Answer
BY DEF TypeOK, Answer, Located

LEMMA EvidenceType ==
  ASSUME TypeOK PROVE Evidence \in SUBSET Located
BY DEF TypeOK, Evidence, Located, Source, Latched, Row

LEMMA RowTypes ==
  ASSUME TypeOK
  PROVE  /\ row # None => [row EXCEPT !.status = "active"] \in Row
         /\ \A rec \in Record : LatchOn(rec) \in Row \cup {None}
         /\ row # None => Unlatched \in Row
         /\ row # None => Reconciled \in Row \cup {None}
<1>1. row # None => [row EXCEPT !.status = "active"] \in Row
  BY DEF TypeOK, Row
<1>2. \A rec \in Record : LatchOn(rec) \in Row \cup {None}
  BY DEF TypeOK, Row, LatchOn
<1>3. row # None => Unlatched \in Row
  BY DEF TypeOK, Row, Unlatched
<1>4. row # None => [Unlatched EXCEPT !.status = "active"] \in Row
  BY <1>3 DEF Row
<1> QED BY <1>1, <1>2, <1>3, <1>4 DEF Reconciled

LEMMA NewRecordType ==
  ASSUME TypeOK, row # None, used < MaxOperations, NEW kind \in Kinds
  PROVE  /\ NewRecord(kind) \in Record /\ used + 1 \in 0..MaxOperations
         /\ notes \cup {NewRecord(kind)} \in SUBSET Record
         /\ [rec |-> NewRecord(kind), step |-> "noted"] \in Flight
<1>1. NewRecord(kind) \in Record /\ used + 1 \in 0..MaxOperations
  BY BoundsAssumption DEF TypeOK, NewRecord, Record, Row, Ids
<1> QED BY <1>1 DEF TypeOK, Flight, Steps

LEMMA MarkedType ==
  ASSUME TypeOK, op # None
  PROVE  /\ Marked(op.rec) \in SUBSET Record /\ Certain(op.rec) \in Record
         /\ [rec |-> Certain(op.rec), step |-> "latch"] \in Flight
         /\ Asked \in Request
<1>1. Certain(op.rec) \in Record BY FlightType DEF Certain
<1>2. Marked(op.rec) \in SUBSET Record BY <1>1, WithoutType DEF Marked
<1> QED BY <1>1, <1>2, FlightType, RequestedType DEF Asked, Flight, Steps

LEMMA CarriedType ==
  ASSUME TypeOK, At("accepted"), FlightKnows
  PROVE  Carried(op.rec.kind) \in Row \cup {None}
BY RowTypes DEF At, FlightKnows, Carried

LEMMA TypeStep ==
  ASSUME TypeOK, FlightKnows, [Next]_vars PROVE TypeOK'
<1>1. ASSUME NEW kind \in Kinds, NoteRequest(kind) PROVE TypeOK'
  BY <1>1, NewRecordType, PublicationTypes DEF TypeOK, NoteRequest, MayAsk, told
<1>2. ASSUME NEW kind \in Kinds, NoteFails(kind) PROVE TypeOK'
  BY <1>2, NewRecordType, PublicationTypes DEF TypeOK, NoteFails, MayAsk, told
<1>3. CASE RefusedBeforeSend
  BY <1>3, FlightType DEF TypeOK, RefusedBeforeSend, At, Goto, Steps, disk, told
<1>4. CASE Send
  BY <1>4, FlightType, MarkedType DEF TypeOK, Send, At, Goto, Steps, disk
<1>5. CASE SteamRefuses
  BY <1>5, FlightType DEF TypeOK, SteamRefuses, At, Goto, Steps, Learned, disk
<1>6. CASE SteamAccepts
  BY <1>6, FlightType DEF TypeOK, SteamAccepts, At, Goto, Steps, disk, told
<1>7. CASE NoAnswer
  BY <1>7, FlightType DEF TypeOK, NoAnswer, At, Goto, Steps, disk, told
<1>8. CASE StoreAccepted
  <2>1. row' \in Row \cup {None} /\ bak' \in Row \cup {None}
        /\ unlocked' \in BOOLEAN /\ faults' \in 0..MaxFaults
    BY <1>8, CarriedType, SaveTypes DEF StoreAccepted
  <2> QED BY <1>8, <2>1, FlightType DEF TypeOK, StoreAccepted, At, Goto, Steps, Learned
<1>9. CASE StoreFails
  <2>1. row' \in Row \cup {None} /\ bak' \in Row \cup {None}
        /\ unlocked' \in BOOLEAN /\ faults' \in 0..MaxFaults
    BY <1>9, CarriedType, SaveTypes DEF StoreFails
  <2> QED BY <1>9, <2>1, FlightType DEF TypeOK, StoreFails, At, Goto, Steps, told
<1>10. CASE MarkCertain
  BY <1>10, MarkedType, PublicationTypes
  DEF TypeOK, MarkCertain, FlightKnows, At
<1>11. CASE MarkFails
  BY <1>11, MarkedType, PublicationTypes DEF TypeOK, MarkFails, At, told
<1>12. CASE Latch
  <2>1. LatchOn(op.rec) \in Row \cup {None} /\ Asked \in Request
    BY <1>12, RowTypes, FlightType, MarkedType DEF Latch, At
  <2>2. row' \in Row \cup {None} /\ bak' \in Row \cup {None}
        /\ unlocked' \in BOOLEAN /\ faults' \in 0..MaxFaults
    BY <1>12, <2>1, SaveTypes DEF Latch
  <2> QED BY <1>12, <2>1, <2>2 DEF TypeOK, Latch, FlightKnows, At
<1>13. CASE LatchFails
  <2>1. LatchOn(op.rec) \in Row \cup {None}
    BY <1>13, RowTypes, FlightType DEF LatchFails, At
  <2>2. row' \in Row \cup {None} /\ bak' \in Row \cup {None}
        /\ unlocked' \in BOOLEAN /\ faults' \in 0..MaxFaults
    BY <1>13, <2>1, SaveTypes DEF LatchFails
  <2> QED BY <1>13, <2>2 DEF TypeOK, LatchFails, told
<1>14. CASE ClearNote
  BY <1>14, WithoutType, PublicationTypes DEF TypeOK, ClearNote, told
<1>15. CASE ClearFails
  BY <1>15, WithoutType, PublicationTypes DEF TypeOK, ClearFails, told
<1>16. ASSUME NEW e \in Evidence, NEW said \in {"acted", "nothing", "stale"},
              Begun(e, said), mistaken' \in BOOLEAN
       PROVE TypeOK'
  BY <1>16, EvidenceType DEF TypeOK, Begun, Answer, Learned, disk
<1>17. ASSUME NEW e \in Evidence, DiscardStale(e) PROVE TypeOK'
  BY <1>16, <1>17 DEF TypeOK, DiscardStale
<1>18. ASSUME NEW e \in Evidence, NEW said \in {"acted", "nothing"}, Resolve(e, said)
       PROVE TypeOK'
  <2>1. mistaken' \in BOOLEAN BY <1>18, Zenon DEF Resolve
  <2> QED BY <1>16, <1>18, <2>1 DEF Resolve
<1>19. CASE ResolveSave
  <2>1. row' \in Row \cup {None} /\ bak' \in Row \cup {None}
        /\ unlocked' \in BOOLEAN /\ faults' \in 0..MaxFaults
    BY <1>19, RowTypes, SaveTypes DEF ResolveSave
  <2> QED BY <1>19, <2>1, AnswerType DEF TypeOK, ResolveSave, Answering, told
<1>20. CASE ResolveSaveFails
  <2>1. row' \in Row \cup {None} /\ bak' \in Row \cup {None}
        /\ unlocked' \in BOOLEAN /\ faults' \in 0..MaxFaults
    BY <1>20, RowTypes, SaveTypes DEF ResolveSaveFails
  <2> QED BY <1>20, <2>1 DEF TypeOK, ResolveSaveFails, told
<1>21. CASE ResolveClear
  <2>1. notes' \in SUBSET Record /\ torn' \in BOOLEAN /\ faults' \in 0..MaxFaults
    BY <1>21, WithoutType, PublicationTypes DEF ResolveClear, Settled, TypeOK
  <2> QED BY <1>21, <2>1 DEF TypeOK, ResolveClear, told
<1>22. CASE ResolveClearFails
  <2>1. notes' \in SUBSET Record /\ torn' \in BOOLEAN /\ faults' \in 0..MaxFaults
    BY <1>22, WithoutType, PublicationTypes DEF ResolveClearFails, Settled
  <2> QED BY <1>22, <2>1 DEF TypeOK, ResolveClearFails, told
<1>23. CASE Lock \/ Unlock
  BY <1>23 DEF TypeOK, Lock, Unlock, disk, told
<1>24. CASE OtherSave
  <2>1. row' \in Row \cup {None} /\ bak' \in Row \cup {None}
        /\ unlocked' \in BOOLEAN /\ faults' \in 0..MaxFaults
    BY <1>24, SaveTypes DEF OtherSave, TypeOK
  <2> QED BY <1>24, <2>1 DEF TypeOK, OtherSave, told
<1>25. CASE Remove
  <2>1. row' \in Row \cup {None} /\ bak' \in Row \cup {None}
        /\ unlocked' \in BOOLEAN /\ faults' \in 0..MaxFaults
    BY <1>25, SaveTypes DEF Remove
  <2> QED BY <1>25, <2>1 DEF TypeOK, Remove, told
<1>26. CASE Restore
  <2>1. forgot' \in BOOLEAN BY <1>26, Zenon DEF Restore
  <2> QED BY <1>26, <2>1 DEF TypeOK, Restore
<1>27. CASE Crash
  <2>1. unlocked' \in BOOLEAN BY <1>27, Zenon DEF Crash
  <2> QED BY <1>27, <2>1, BoundsAssumption DEF TypeOK, Crash, Fault, disk, told
<1>28. ASSUME NEW a \in Authenticators, Import(a) PROVE TypeOK'
  <2> DEFINE new == [auth |-> a, status |-> "active",
                     latch |-> IF row = None THEN None ELSE row.latch]
  <2>1. new \in Row BY DEF TypeOK, Row
  <2>2. row' \in Row \cup {None} /\ bak' \in Row \cup {None}
        /\ unlocked' \in BOOLEAN /\ faults' \in 0..MaxFaults
    BY <1>28, <2>1, SaveTypes DEF Import
  <2> QED BY <1>28, <2>2 DEF TypeOK, Import, told
<1>29. CASE UNCHANGED vars
  BY <1>29 DEF TypeOK, vars, disk, told
<1> QED
  BY <1>1, <1>2, <1>3, <1>4, <1>5, <1>6, <1>7, <1>8, <1>9, <1>10, <1>11,
     <1>12, <1>13, <1>14, <1>15, <1>17, <1>18, <1>19, <1>20, <1>21, <1>22,
     <1>23, <1>24, <1>25, <1>26, <1>27, <1>28, <1>29
  DEF Next, Asking, Recording, Resolving, Environment

-----------------------------------------------------------------------------
(* Which steps change what.                                                *)
LEMMA ChangesOfNotes ==
  ASSUME [Next]_vars
  PROVE  \/ UNCHANGED notes
         \/ \E kind \in Kinds : NoteRequest(kind) \/ NoteFails(kind)
         \/ MarkCertain \/ MarkFails \/ ClearNote \/ ClearFails
         \/ ResolveClear \/ ResolveClearFails
BY DEF Next, Asking, Recording, Resolving, Environment, RefusedBeforeSend, Send,
   SteamRefuses, SteamAccepts, NoAnswer, StoreAccepted, StoreFails, Latch,
   LatchFails, DiscardStale, Resolve, Begun, ResolveSave,
   ResolveSaveFails, Lock, Unlock, OtherSave, Remove, Restore, Crash, Import,
   disk, vars

LEMMA ChangesOfOpen ==
  ASSUME [Next]_vars
  PROVE  \/ UNCHANGED open /\ UNCHANGED sent /\ UNCHANGED acted
         \/ Send \/ SteamRefuses \/ StoreAccepted
         \/ \E e \in Evidence : \E said \in {"acted", "nothing", "stale"} : Begun(e, said)
BY DEF Next, Asking, Recording, Resolving, Environment, NoteRequest, NoteFails,
   RefusedBeforeSend, SteamAccepts, NoAnswer, StoreFails, MarkCertain,
   MarkFails, Latch, LatchFails, ClearNote, ClearFails, DiscardStale, Resolve,
   ResolveSave, ResolveSaveFails, ResolveClear, ResolveClearFails, Lock, Unlock,
   OtherSave, Remove, Restore, Crash, Import, told, vars

LEMMA ChangesOfSent ==
  ASSUME [Next]_vars
  PROVE  (UNCHANGED sent /\ UNCHANGED acted) \/ Send
BY ChangesOfOpen DEF SteamRefuses, StoreAccepted, Begun

LEMMA ChangesOfKnown ==
  ASSUME [Next]_vars
  PROVE  UNCHANGED known \/ MarkCertain \/ Latch
BY DEF Next, Asking, Recording, Resolving, Environment, NoteRequest, NoteFails,
   RefusedBeforeSend, Send, SteamRefuses, SteamAccepts, NoAnswer, StoreAccepted,
   StoreFails, MarkFails, LatchFails, ClearNote, ClearFails, DiscardStale,
   Resolve, Begun, ResolveSave, ResolveSaveFails, ResolveClear,
   ResolveClearFails, Lock, Unlock, OtherSave, Remove, Restore, Crash, Import,
   told, vars

LEMMA ChangesOfUsed ==
  ASSUME [Next]_vars
  PROVE  UNCHANGED used \/ \E kind \in Kinds : NoteRequest(kind) \/ NoteFails(kind)
BY DEF Next, Asking, Recording, Resolving, Environment, RefusedBeforeSend, Send,
   SteamRefuses, SteamAccepts, NoAnswer, StoreAccepted, StoreFails, MarkCertain,
   MarkFails, Latch, LatchFails, ClearNote, ClearFails, DiscardStale, Resolve,
   Begun, ResolveSave, ResolveSaveFails, ResolveClear, ResolveClearFails, Lock,
   Unlock, OtherSave, Remove, Restore, Crash, Import, vars

LEMMA ChangesOfRow ==
  ASSUME [Next]_vars
  PROVE  \/ UNCHANGED row
         \/ StoreAccepted \/ StoreFails \/ Latch \/ LatchFails
         \/ ResolveSave \/ ResolveSaveFails \/ Remove \/ Restore
         \/ \E a \in Authenticators : Import(a)
BY DEF Next, Asking, Recording, Resolving, Environment, NoteRequest, NoteFails,
   RefusedBeforeSend, Send, SteamRefuses, SteamAccepts, NoAnswer, MarkCertain,
   MarkFails, ClearNote, ClearFails, DiscardStale, Resolve, Begun, ResolveClear,
   ResolveClearFails, Lock, Unlock, OtherSave, Saved, Crash, disk, vars

(* A save puts the old row in the backup, if it touches the backup at all. *)
LEMMA ChangesOfBackup ==
  ASSUME [Next]_vars PROVE bak' \in {bak, row}
BY DEF Next, Asking, Recording, Resolving, Environment, NoteRequest, NoteFails,
   RefusedBeforeSend, Send, SteamRefuses, SteamAccepts, NoAnswer, StoreAccepted,
   StoreFails, MarkCertain, MarkFails, Latch, LatchFails, ClearNote, ClearFails,
   DiscardStale, Resolve, Begun, ResolveSave, ResolveSaveFails, ResolveClear,
   ResolveClearFails, Lock, Unlock, OtherSave, Remove, Restore, Crash, Import,
   Saved, NotSaved, disk, vars

(* Where a handler's record comes from.                                    *)
LEMMA ChangesOfOp ==
  ASSUME [Next]_vars
  PROVE  \/ UNCHANGED op
         \/ op' = None
         \/ \E kind \in Kinds : NoteRequest(kind)
         \/ RefusedBeforeSend \/ Send \/ SteamRefuses \/ SteamAccepts
         \/ NoAnswer \/ StoreAccepted \/ StoreFails \/ MarkCertain \/ MarkFails
BY DEF Next, Asking, Recording, Resolving, Environment, NoteFails, Latch,
   LatchFails, ClearNote, ClearFails, DiscardStale, Resolve, Begun, ResolveSave,
   ResolveSaveFails, ResolveClear, ResolveClearFails, Lock, Unlock, OtherSave,
   Remove, Restore, Crash, Import, vars

LEMMA ChangesOfAnswer ==
  ASSUME [Next]_vars
  PROVE  \/ UNCHANGED answer
         \/ answer' = None
         \/ ResolveSave
         \/ \E e \in Evidence :
              DiscardStale(e) \/ \E said \in {"acted", "nothing"} : Resolve(e, said)
BY DEF Next, Asking, Recording, Resolving, Environment, NoteRequest, NoteFails,
   RefusedBeforeSend, Send, SteamRefuses, SteamAccepts, NoAnswer, StoreAccepted,
   StoreFails, MarkCertain, MarkFails, Latch, LatchFails, ClearNote, ClearFails,
   ResolveSaveFails, ResolveClear, ResolveClearFails, Lock, Unlock,
   OtherSave, Remove, Restore, Crash, Import, vars

LEMMA ForgotStays ==
  ASSUME [Next]_vars PROVE forgot => forgot'
<1>1. UNCHANGED forgot \/ Restore
  BY DEF Next, Asking, Recording, Resolving, Environment, NoteRequest,
     NoteFails, RefusedBeforeSend, Send, SteamRefuses, SteamAccepts, NoAnswer,
     StoreAccepted, StoreFails, MarkCertain, MarkFails, Latch, LatchFails,
     ClearNote, ClearFails, DiscardStale, Resolve, Begun, ResolveSave,
     ResolveSaveFails, ResolveClear, ResolveClearFails, Lock, Unlock, OtherSave,
     Remove, Crash, Import, told, vars
<1> QED BY <1>1, Zenon DEF Restore

-----------------------------------------------------------------------------
(* The note of an open request stays.                                      *)
LEMMA MentionedNotes ==
  /\ \A n \in notes : Requested(n) \in Mentioned
  /\ op # None => Asked \in Mentioned
  /\ answer # None => ToldAbout(answer.held) \in Mentioned
  /\ sent \subseteq Mentioned
  /\ row # None /\ row.latch # None => Requested(row.latch) \in Mentioned
BY DEF Mentioned, Asked, ToldAbout

LEMMA NoteSurvives ==
  ASSUME TypeOK, IdsAreUnique, NEW d \in Mentioned, NEW n \in notes,
         Requested(n) # d
  PROVE  n \in notes \ WithId(notes, d.id)
<1>1. n.id # d.id
  BY MentionedNotes DEF IdsAreUnique, Requested
<1> QED BY <1>1 DEF WithId

LEMMA NotedStep ==
  ASSUME IInv, [Next]_vars PROVE OpenIsNoted'
<1> USE DEF IInv
<1>1. ASSUME NEW r \in open, NEW n \in notes, Requested(n) = r
      PROVE  \E m \in notes' : Requested(m) = r
  <2>1. ASSUME NEW kind \in Kinds, NoteRequest(kind) \/ NoteFails(kind)
        PROVE  n \in notes'
    BY <2>1, <1>1 DEF NoteRequest, NoteFails, Published, NotPublished
  <2>2. CASE MarkCertain \/ MarkFails
    <3>1. notes' \in {notes, Marked(op.rec)} /\ op # None
      BY <2>2 DEF MarkCertain, MarkFails, At, Published, NotPublished
    <3>2. CASE r = Asked
      <4>1. Requested(Certain(op.rec)) = r
        BY <3>1, <3>2, FlightType DEF Requested, Certain, Asked, Record
      <4> QED BY <3>1, <4>1, <1>1 DEF Marked
    <3>3. CASE r # Asked
      <4>1. n \in notes \ WithId(notes, Asked.id)
        BY <1>1, <3>1, <3>3, NoteSurvives, MentionedNotes
      <4> QED BY <4>1, <3>1, <1>1 DEF Marked, Asked, Requested
    <3> QED BY <3>2, <3>3
  <2>3. CASE ClearNote \/ ClearFails
    <3>1. /\ op # None /\ r # Asked
          /\ notes' \in {notes, notes \ WithId(notes, op.rec.id)}
      BY <2>3 DEF ClearNote, ClearFails, FlightKnows, Published, NotPublished
    <3>2. n \in notes \ WithId(notes, Asked.id)
      BY <1>1, <3>1, NoteSurvives, MentionedNotes
    <3> QED BY <3>1, <3>2, <1>1 DEF Asked, Requested
  <2>4. CASE ResolveClear \/ ResolveClearFails
    <3>1. /\ answer # None /\ r # ToldAbout(answer.held)
          /\ notes' \in {notes, notes \ Settled}
      BY <2>4 DEF ResolveClear, ResolveClearFails, Answering, AnswerKnows,
                 Published, NotPublished
    <3>2. n \in notes \ WithId(notes, ToldAbout(answer.held).id)
      BY <1>1, <3>1, NoteSurvives, MentionedNotes
    <3> QED BY <3>1, <3>2, <1>1 DEF ToldAbout, Requested, Settled
  <2> QED BY <1>1, <2>1, <2>2, <2>3, <2>4, ChangesOfNotes
<1>2. ASSUME NEW r \in open, r \in open'
      PROVE  \E m \in notes' : Requested(m) = r
  BY <1>1 DEF OpenIsNoted
<1>3. CASE Send
  <2>1. op.rec \in notes /\ notes' = notes /\ open' = open \cup {Asked}
    BY <1>3 DEF Send, At, FlightKnows, disk
  <2> QED BY <2>1, <1>2 DEF OpenIsNoted, Asked
<1>4. open' \subseteq open \/ Send
  BY ChangesOfOpen DEF SteamRefuses, StoreAccepted, Begun, Learned
<1> QED BY <1>2, <1>3, <1>4 DEF OpenIsNoted

-----------------------------------------------------------------------------
(* What a step leaves in the vault file.                                   *)
LEMMA NothingApplies ==
  ASSUME TypeOK, LatchFits, ~Blocked PROVE ~Latched /\ ~torn
<1>1. CASE Latched
  <2>1. [source |-> "vault", rec |-> row.latch] \in Applicable
    BY <1>1 DEF Applicable, Applies, Evidence, Latched, LatchFits
  <2> QED BY <2>1 DEF Blocked
<1> QED BY <1>1 DEF Blocked

LEMMA NewRows ==
  ASSUME TypeOK, LatchFits, FlightKnows, [Next]_vars
  PROVE  \/ row' = None
         \/ row # None /\ row'.auth = row.auth /\ row'.latch \in {row.latch, None}
         \/ (Latch \/ LatchFails) /\ row' = LatchOn(op.rec)
         \/ row' = bak
         \/ row'.latch = None
<1>1. CASE StoreAccepted \/ StoreFails
  <2>1. row' \in {row, Carried(op.rec.kind)}
    BY <1>1 DEF StoreAccepted, StoreFails, Saved, NotSaved
  <2>2. row # None
    BY <1>1 DEF StoreAccepted, StoreFails, At, FlightKnows
  <2> QED BY <2>1, <2>2 DEF Carried, TypeOK, Row
<1>2. CASE Latch \/ LatchFails
  BY <1>2 DEF Latch, LatchFails, Saved, NotSaved
<1>3. CASE ResolveSave \/ ResolveSaveFails
  <2>1. row # None /\ row' \in {row, Reconciled}
    BY <1>3 DEF ResolveSave, ResolveSaveFails, Saved, NotSaved
  <2>2. /\ Unlatched \in Row /\ Unlatched.auth = row.auth
        /\ Unlatched.latch \in {row.latch, None}
    BY <2>1, RowTypes DEF Unlatched, TypeOK, Row
  <2> QED BY <2>1, <2>2 DEF Reconciled, Row
<1>4. CASE Remove
  BY <1>4 DEF Remove, Saved
<1>5. CASE Restore
  BY <1>5 DEF Restore
<1>6. ASSUME NEW a \in Authenticators, Import(a) PROVE row'.latch = None
  BY <1>6, NothingApplies DEF Import, Saved, Latched
<1> QED BY <1>1, <1>2, <1>3, <1>4, <1>5, <1>6, ChangesOfRow

LEMMA FitsStep ==
  ASSUME TypeOK, LatchFits, FlightKnows, [Next]_vars PROVE LatchFits'
<1>1. row' # None /\ row'.latch # None => row'.latch.auth = row'.auth
  <2>1. CASE row # None /\ row'.auth = row.auth /\ row'.latch \in {row.latch, None}
    BY <2>1 DEF LatchFits
  <2>2. CASE (Latch \/ LatchFails) /\ row' = LatchOn(op.rec)
    BY <2>2 DEF LatchFits, LatchOn, TypeOK, Row
  <2>3. CASE row' = bak
    BY <2>3 DEF LatchFits
  <2> QED BY <2>1, <2>2, <2>3, NewRows
<1> QED BY <1>1, ChangesOfBackup DEF LatchFits

(* No step speaks of an operation nobody spoke of, but for the one that is *)
(* just begun.                                                             *)
LEMMA RowMentions ==
  ASSUME IInv, [Next]_vars, row' # None, row'.latch # None
  PROVE  Requested(row'.latch) \in Mentioned
<1> USE DEF IInv
<1>1. CASE row # None /\ row'.auth = row.auth /\ row'.latch \in {row.latch, None}
  BY <1>1, MentionedNotes
<1>2. CASE (Latch \/ LatchFails) /\ row' = LatchOn(op.rec)
  <2>1. row'.latch = op.rec \/ row' = row
    BY <1>2 DEF LatchOn, TypeOK, Row
  <2> QED BY <1>2, <2>1, MentionedNotes DEF Latch, LatchFails, At, Asked
<1>3. CASE row' = bak
  BY <1>3 DEF Mentioned
<1> QED BY <1>1, <1>2, <1>3, NewRows

LEMMA BackupMentions ==
  ASSUME [Next]_vars, bak' # None, bak'.latch # None
  PROVE  Requested(bak'.latch) \in Mentioned
BY ChangesOfBackup DEF Mentioned

LEMMA NoteMentions ==
  ASSUME IInv, [Next]_vars, NEW n \in notes'
  PROVE  \/ n \in notes
         \/ (MarkCertain \/ MarkFails) /\ n = Certain(op.rec)
         \/ \E kind \in Kinds :
              (NoteRequest(kind) \/ NoteFails(kind)) /\ n = NewRecord(kind)
BY ChangesOfNotes
DEF NoteRequest, NoteFails, MarkCertain, MarkFails, ClearNote, ClearFails,
    ResolveClear, ResolveClearFails, Published, NotPublished, Marked

LEMMA OpMentions ==
  ASSUME IInv, [Next]_vars, op' # None
  PROVE  \/ Asked' \in Mentioned
         \/ \E kind \in Kinds : NoteRequest(kind) /\ op'.rec = NewRecord(kind)
<1> USE DEF IInv
<1>1. CASE UNCHANGED op
  BY <1>1, MentionedNotes DEF Asked
<1>2. CASE \/ RefusedBeforeSend \/ Send \/ SteamRefuses \/ SteamAccepts
           \/ NoAnswer \/ StoreAccepted \/ StoreFails
  <2>1. op # None /\ op'.rec = op.rec
    BY <1>2 DEF RefusedBeforeSend, Send, SteamRefuses, SteamAccepts, NoAnswer,
       StoreAccepted, StoreFails, At, Goto, TypeOK, Flight
  <2> QED BY <2>1, MentionedNotes DEF Asked
<1>3. CASE MarkCertain \/ MarkFails
  <2>1. op # None /\ op'.rec = Certain(op.rec)
    BY <1>3 DEF MarkCertain, MarkFails, At
  <2>2. Asked' = Asked
    BY <2>1, FlightType DEF Asked, Certain, Requested, Record
  <2> QED BY <2>1, <2>2, MentionedNotes
<1>4. ASSUME NEW kind \in Kinds, NoteRequest(kind) PROVE op'.rec = NewRecord(kind)
  BY <1>4 DEF NoteRequest
<1> QED BY <1>1, <1>2, <1>3, <1>4, ChangesOfOp

LEMMA AnswerMentions ==
  ASSUME IInv, [Next]_vars, answer' # None
  PROVE  ToldAbout(answer.held)' \in Mentioned
<1> USE DEF IInv
<1>1. CASE UNCHANGED answer
  BY <1>1, MentionedNotes DEF ToldAbout
<1>2. CASE ResolveSave
  <2>1. answer # None /\ answer'.held = answer.held
    BY <1>2 DEF ResolveSave, Answering, TypeOK, Answer
  <2> QED BY <2>1, MentionedNotes DEF ToldAbout
<1>3. ASSUME NEW e \in Evidence, NEW said, Begun(e, said)
      PROVE  ToldAbout(answer.held)' \in Mentioned
  <2>1. answer'.held = e BY <1>3 DEF Begun
  <2>2. Requested(e.rec) \in Mentioned
    BY MentionedNotes DEF Evidence, Latched
  <2> QED BY <2>1, <2>2 DEF ToldAbout
<1> QED BY <1>1, <1>2, <1>3, ChangesOfAnswer DEF DiscardStale, Resolve

LEMMA NewRecordIsNew ==
  ASSUME TypeOK, IdsAreUnique, MayAsk, NEW kind \in Kinds
  PROVE  /\ Requested(NewRecord(kind)).id = used + 1
         /\ \A x \in Mentioned : x.id # used + 1 /\ x.id <= used + 1
<1>1. \A x \in Mentioned : x.id \in Nat
  BY DEF Mentioned, TypeOK, Request, Record, Requested, Row, Flight, Answer, Located, Ids
<1> QED BY <1>1 DEF IdsAreUnique, NewRecord, Requested, TypeOK

LEMMA MentionedStep ==
  ASSUME IInv, [Next]_vars
  PROVE  \/ Mentioned' \subseteq Mentioned
         \/ \E kind \in Kinds :
              /\ NoteRequest(kind) \/ NoteFails(kind)
              /\ Mentioned' \subseteq Mentioned \cup {Requested(NewRecord(kind))}
<1>1. ASSUME NEW kind \in Kinds, NoteRequest(kind) \/ NoteFails(kind)
      PROVE  Mentioned' \subseteq Mentioned \cup {Requested(NewRecord(kind))}
  <2>1. /\ notes' \subseteq notes \cup {NewRecord(kind)}
        /\ UNCHANGED <<row, bak, answer, sent>>
        /\ op' = op \/ op'.rec = NewRecord(kind)
    BY <1>1 DEF NoteRequest, NoteFails, Published, NotPublished, told
  <2> QED BY <2>1 DEF Mentioned
<1>2. ASSUME \A kind \in Kinds : ~NoteRequest(kind) /\ ~NoteFails(kind)
      PROVE  Mentioned' \subseteq Mentioned
  <2>1. sent' \subseteq Mentioned
    BY ChangesOfSent, MentionedNotes DEF Send, At
  <2>2. ASSUME MarkCertain \/ MarkFails PROVE Requested(Certain(op.rec)) \in Mentioned
    BY <2>2, MentionedNotes, FlightType
    DEF IInv, MarkCertain, MarkFails, At, Asked, Requested, Certain, Record
  <2>3. \A n \in notes' : Requested(n) \in Mentioned
    BY <1>2, <2>2, NoteMentions, MentionedNotes
  <2> QED
    BY <1>2, <2>1, <2>3, RowMentions, BackupMentions, OpMentions, AnswerMentions
    DEF Mentioned, Asked, ToldAbout
<1> QED BY <1>1, <1>2

LEMMA IdsStep ==
  ASSUME IInv, [Next]_vars PROVE IdsAreUnique'
<1> USE DEF IInv
<1>1. ASSUME NEW kind \in Kinds, NoteRequest(kind) \/ NoteFails(kind)
      PROVE  /\ MayAsk /\ used' = used + 1 /\ notes = {}
             /\ notes' \subseteq notes \cup {NewRecord(kind)}
  BY <1>1 DEF NoteRequest, NoteFails, MayAsk, Evidence, Published, NotPublished
<1>2. \A x \in Mentioned' : x.id <= used'
  <2>1. CASE \E kind \in Kinds : NoteRequest(kind) \/ NoteFails(kind)
    <3>1. PICK kind \in Kinds : NoteRequest(kind) \/ NoteFails(kind) BY <2>1
    <3>2. used + 1 <= used + 1 BY DEF TypeOK
    <3> QED BY <1>1, <3>1, <3>2, NewRecordIsNew, MentionedStep
  <2>2. CASE ~\E kind \in Kinds : NoteRequest(kind) \/ NoteFails(kind)
    BY <2>2, MentionedStep, ChangesOfUsed DEF IdsAreUnique
  <2> QED BY <2>1, <2>2
<1>3. \A x, y \in Mentioned' : x.id = y.id => x = y
  BY <1>1, NewRecordIsNew, MentionedStep DEF IdsAreUnique
<1>4. \A n, m \in notes' : n.id = m.id => n = m
  <2>1. CASE MarkCertain \/ MarkFails
    <3>1. notes' \in {notes, Marked(op.rec)} /\ Certain(op.rec).id = op.rec.id
      BY <2>1, FlightType
      DEF MarkCertain, MarkFails, At, Published, NotPublished, Certain, Record
    <3> QED BY <3>1 DEF Marked, WithId, IdsAreUnique
  <2>2. CASE ~(MarkCertain \/ MarkFails)
    BY <1>1, <2>2, NoteMentions DEF IdsAreUnique
  <2> QED BY <2>1, <2>2
<1> QED BY <1>2, <1>3, <1>4 DEF IdsAreUnique

-----------------------------------------------------------------------------
(* What a handler knows.                                                   *)
LEMMA Bystanders ==
  ASSUME FlightKnows, [Next]_vars, op' # None
  PROVE  \/ \E kind \in Kinds : NoteRequest(kind)
         \/ RefusedBeforeSend \/ Send \/ SteamRefuses \/ SteamAccepts
         \/ NoAnswer \/ StoreAccepted \/ StoreFails \/ MarkCertain \/ MarkFails
         \/ op # None /\ UNCHANGED <<op, answer, row, notes, open, sent, acted>>
BY DEF FlightKnows, Next, Asking, Recording, Resolving, Environment, NoteFails,
   MayAsk, Latch, LatchFails, ClearNote, ClearFails, DiscardStale, Resolve,
   Begun, Free, ResolveSave, ResolveSaveFails, ResolveClear, ResolveClearFails,
   Answering, Lock, Unlock, OtherSave, Saved, Remove, Restore, Crash, Import,
   disk, told, vars

LEMMA FlightStep ==
  ASSUME IInv, [Next]_vars PROVE FlightKnows'
<1> SUFFICES ASSUME op' # None PROVE FlightKnows' BY DEF FlightKnows
<1> USE DEF IInv
<1>1. ASSUME NEW kind \in Kinds, NoteRequest(kind) PROVE FlightKnows'
  <2>1. /\ op'.rec = NewRecord(kind) /\ op'.step = "noted" /\ NewRecord(kind) \in notes'
        /\ row # None /\ UNCHANGED <<row, answer, open, sent>> /\ MayAsk
    BY <1>1 DEF NoteRequest, Published, MayAsk, told
  <2>2. open = {} /\ ~Latched /\ answer = None
    <3>1. notes = {} /\ answer = None BY <2>1 DEF MayAsk, Evidence, Free
    <3>2. \A r \in {row.latch} : ~Latched BY <2>1 DEF MayAsk, Evidence
    <3> QED BY <3>1, <3>2 DEF OpenIsNoted
  <2>3. Requested(NewRecord(kind)) \notin sent
    BY <2>1, NewRecordIsNew, MentionedNotes
  <2>4. NewRecord(kind).auth = row.auth /\ ~NewRecord(kind).certain
    BY DEF NewRecord
  <2> QED BY <2>1, <2>2, <2>3, <2>4 DEF FlightKnows, Latched, Asked
<1>2. CASE \/ RefusedBeforeSend \/ Send \/ SteamRefuses \/ SteamAccepts \/ NoAnswer
  <2>1. /\ op # None /\ op'.rec = op.rec /\ UNCHANGED <<row, answer, notes>>
    BY <1>2 DEF RefusedBeforeSend, Send, SteamRefuses, SteamAccepts, NoAnswer,
       At, Goto, TypeOK, Flight, disk
  <2>2. Asked' = Asked BY <2>1 DEF Asked
  <2>3. answer' = None /\ ~Latched' /\ ~op'.rec.certain
    BY <1>2, <2>1
    DEF FlightKnows, Latched, RefusedBeforeSend, Send, SteamRefuses,
        SteamAccepts, NoAnswer, At
  <2>4. CASE RefusedBeforeSend
    <3>1. op'.step = "refused" /\ open' = open /\ Asked \notin open
      BY <2>4 DEF RefusedBeforeSend, At, Goto, FlightKnows, TypeOK, Flight, told
    <3> QED BY <2>1, <2>2, <2>3, <3>1 DEF FlightKnows
  <2>5. CASE Send
    <3>1. op'.step = "sent" /\ Asked \in open' /\ row # None /\ row.auth = op.rec.auth
      BY <2>5 DEF Send, At, Goto, FlightKnows, TypeOK, Flight
    <3> QED BY <2>1, <2>2, <2>3, <3>1 DEF FlightKnows
  <2>6. CASE SteamRefuses
    <3>1. op'.step = "refused" /\ Asked \notin open'
      BY <2>6 DEF SteamRefuses, At, Goto, Learned, TypeOK, Flight
    <3> QED BY <2>1, <2>2, <2>3, <3>1 DEF FlightKnows
  <2>7. CASE SteamAccepts
    <3>1. /\ op'.step = "accepted" /\ Asked \in open' /\ Asked \in acted'
          /\ row # None /\ row.auth = op.rec.auth
      BY <2>7 DEF SteamAccepts, At, Goto, FlightKnows, TypeOK, Flight, told
    <3> QED BY <2>1, <2>2, <2>3, <3>1 DEF FlightKnows
  <2>8. CASE NoAnswer
    <3>1. op'.step = "latch"
      BY <2>8 DEF NoAnswer, At, Goto, TypeOK, Flight
    <3> QED BY <2>1, <2>2, <2>3, <3>1 DEF FlightKnows
  <2> QED BY <1>2, <2>4, <2>5, <2>6, <2>7, <2>8
<1>3. CASE StoreAccepted \/ StoreFails
  <2>1. /\ op # None /\ op'.rec = op.rec /\ UNCHANGED <<answer, notes, acted>>
        /\ row # None /\ row' \in {row, Carried(op.rec.kind)}
        /\ op.step = "accepted" /\ Asked \in acted /\ ~Latched /\ answer = None
        /\ ~op.rec.certain
    BY <1>3 DEF StoreAccepted, StoreFails, Saved, NotSaved, At, Goto, TypeOK,
       Flight, FlightKnows, told
  <2>2. Asked' = Asked BY <2>1 DEF Asked
  <2>3. ~Latched'
    BY <2>1 DEF Latched, Carried, TypeOK, Row
  <2>4. \/ op'.step = "clear" /\ Asked \notin open'
        \/ op'.step = "mark"
    BY <1>3 DEF StoreAccepted, StoreFails, Goto, Learned, At, TypeOK, Flight
  <2> QED BY <2>1, <2>2, <2>3, <2>4 DEF FlightKnows
<1>4. CASE MarkCertain \/ MarkFails
  <2>1. /\ op # None /\ op'.rec = Certain(op.rec) /\ op'.step = "latch"
        /\ UNCHANGED <<row, answer, acted>>
        /\ Asked \in acted /\ ~Latched /\ answer = None
    BY <1>4 DEF MarkCertain, MarkFails, At, FlightKnows, told
  <2>2. Asked' = Asked
    BY <2>1, FlightType DEF Asked, Certain, Requested, Record
  <2> QED BY <2>1, <2>2 DEF FlightKnows, Latched
<1>5. CASE op # None /\ UNCHANGED <<op, answer, row, notes, open, sent, acted>>
  BY <1>5 DEF FlightKnows, Latched, Asked
<1> QED BY <1>1, <1>2, <1>3, <1>4, <1>5, Bystanders

LEMMA AnswerStep ==
  ASSUME IInv, [Next]_vars PROVE AnswerKnows'
<1> SUFFICES ASSUME answer' # None PROVE AnswerKnows' BY DEF AnswerKnows
<1> USE DEF IInv
<1>1. CASE UNCHANGED answer /\ ~ResolveSave
  <2>1. answer # None /\ op = None BY <1>1 DEF FlightKnows
  <2>2. UNCHANGED row
    BY <1>1, <2>1, ChangesOfRow
    DEF StoreAccepted, StoreFails, Latch, LatchFails, At, ResolveSaveFails,
        Remove, Restore, Import, Free
  <2>3. open' = open
    BY <1>1, <2>1, ChangesOfOpen
    DEF Send, SteamRefuses, StoreAccepted, At, Begun, Free
  <2> QED BY <1>1, <2>1, <2>2, <2>3 DEF AnswerKnows, ToldAbout, MayConsume, Latched
<1>2. CASE ResolveSave
  <2>1. /\ answer # None /\ answer'.held = answer.held /\ answer'.step = "clear"
        /\ open' = open
    BY <1>2 DEF ResolveSave, Answering, TypeOK, Answer, told
  <2> QED BY <2>1 DEF AnswerKnows, ToldAbout
<1>3. ASSUME NEW e \in Evidence, NEW said \in {"acted", "nothing", "stale"},
             Begun(e, said),
             said = "stale" => ~Applies(e), said # "stale" => Accepts(e, said)
      PROVE  AnswerKnows'
  <2>1. /\ answer'.held = e /\ ToldAbout(e) \notin open' /\ row # None
        /\ UNCHANGED row
        /\ answer'.step = "save" => TouchesVault(e, said)
    BY <1>3 DEF Begun, Learned, disk
  <2>2. ASSUME TouchesVault(e, said), Latched PROVE row.latch.id = e.rec.id
    <3>1. /\ [source |-> "vault", rec |-> row.latch] \in Applicable
          /\ \A f \in Evidence : f.source = "vault" => f.rec = row.latch
      BY <2>2 DEF Applicable, Applies, Evidence, Latched, LatchFits
    <3>2. CASE \E f \in {e} \cup Companions(e) : f.source = "vault"
      BY <3>1, <3>2 DEF Companions
    <3>3. CASE said = "acted"
      <4>1. [source |-> "vault", rec |-> row.latch] \in {e} \cup Companions(e)
        BY <1>3, <3>1, <3>3 DEF Accepts, Others
      <4> QED BY <4>1 DEF Companions
    <3> QED BY <2>2, <3>2, <3>3 DEF TouchesVault
  <2> QED BY <2>1, <2>2 DEF AnswerKnows, ToldAbout, MayConsume, Latched
<1> QED BY <1>1, <1>2, <1>3, ChangesOfAnswer DEF DiscardStale, Resolve

-----------------------------------------------------------------------------
(* The record of an acceptance that was reported as recorded.              *)
LEMMA RecordSurvives ==
  ASSUME TypeOK, IdsAreUnique, NEW d \in Mentioned, NEW r, r # d,
         NEW n \in notes, Requested(n) = r, n.certain
  PROVE  \E m \in notes \ WithId(notes, d.id) : Requested(m) = r /\ m.certain
BY NoteSurvives

LEMMA NotesKeepRecord ==
  ASSUME IInv, [Next]_vars, NEW r \in open, r \in open',
         NEW n \in notes, Requested(n) = r, n.certain
  PROVE  \E m \in notes' : Requested(m) = r /\ m.certain
<1> USE DEF IInv
<1>1. ASSUME NEW kind \in Kinds, NoteRequest(kind) \/ NoteFails(kind)
      PROVE  n \in notes'
  BY <1>1 DEF NoteRequest, NoteFails, Published, NotPublished
<1>2. CASE MarkCertain \/ MarkFails
  <2>1. notes' \in {notes, Marked(op.rec)} /\ op # None
    BY <1>2 DEF MarkCertain, MarkFails, At, Published, NotPublished
  <2>2. CASE r = Asked
    <3>1. Requested(Certain(op.rec)) = r /\ Certain(op.rec).certain
      BY <2>1, <2>2, FlightType DEF Requested, Certain, Asked, Record
    <3> QED BY <2>1, <3>1 DEF Marked
  <2>3. CASE r # Asked
    BY <2>1, <2>3, RecordSurvives, MentionedNotes DEF Marked, Asked, Requested
  <2> QED BY <2>2, <2>3
<1>3. CASE ClearNote \/ ClearFails
  <2>1. /\ op # None /\ r # Asked
        /\ notes' \in {notes, notes \ WithId(notes, op.rec.id)}
    BY <1>3 DEF ClearNote, ClearFails, FlightKnows, Published, NotPublished
  <2> QED BY <2>1, RecordSurvives, MentionedNotes DEF Asked, Requested
<1>4. CASE ResolveClear \/ ResolveClearFails
  <2>1. /\ answer # None /\ r # ToldAbout(answer.held)
        /\ notes' \in {notes, notes \ Settled}
    BY <1>4 DEF ResolveClear, ResolveClearFails, Answering, AnswerKnows,
       Published, NotPublished
  <2> QED BY <2>1, RecordSurvives, MentionedNotes DEF ToldAbout, Requested, Settled
<1> QED BY <1>1, <1>2, <1>3, <1>4, ChangesOfNotes

LEMMA LatchKeepsRecord ==
  ASSUME IInv, [Next]_vars, NEW r \in open, r \in open', ~forgot',
         Latched, Requested(row.latch) = r, row.latch.certain
  PROVE  \/ Latched' /\ row'.latch = row.latch
         \/ \E n \in notes : Requested(n) = r /\ n.certain
<1> USE DEF IInv
<1>1. CASE StoreAccepted \/ StoreFails \/ Latch \/ LatchFails
  BY <1>1 DEF StoreAccepted, StoreFails, Latch, LatchFails, At, FlightKnows
<1>2. CASE ResolveSave \/ ResolveSaveFails
  <2>1. /\ answer # None /\ answer.step = "save" /\ row # None
        /\ ToldAbout(answer.held) \notin open
    BY <1>2 DEF ResolveSave, ResolveSaveFails, Answering, AnswerKnows
  <2>2. row.latch.id # answer.held.rec.id
    BY <2>1, MentionedNotes DEF IdsAreUnique, Latched, ToldAbout, Requested
  <2> QED BY <2>1, <2>2 DEF AnswerKnows, MayConsume, Latched, LatchFits
<1>3. ASSUME Remove \/ \E a \in Authenticators : Import(a) PROVE FALSE
  BY <1>3, NothingApplies DEF Remove, Import
<1>4. CASE Restore
  <2>1. ~OnlyInTheLatch BY <1>4, Zenon DEF Restore
  <2>2. PICK n \in WithId(notes, row.latch.id) : n.certain
    BY <2>1 DEF OnlyInTheLatch
  <2>3. n \in notes /\ Requested(n) = Requested(row.latch)
    BY MentionedNotes DEF WithId, IdsAreUnique, Requested, Latched
  <2> QED BY <2>2, <2>3
<1> QED BY <1>1, <1>2, <1>3, <1>4, ChangesOfRow DEF Latched

LEMMA RecordedStep ==
  ASSUME IInv, [Next]_vars PROVE AcceptanceIsRecorded'
<1> USE DEF IInv
<1> SUFFICES ASSUME NEW r \in known', r \in open', ~forgot' PROVE RecordedCertain(r)'
  BY DEF AcceptanceIsRecorded
<1>1. ~forgot BY ForgotStays
<1>2. CASE r \in known /\ r \in open
  <2>1. RecordedCertain(r) BY <1>1, <1>2, Zenon DEF AcceptanceIsRecorded
  <2>2. ASSUME NEW n \in notes, Requested(n) = r, n.certain PROVE RecordedCertain(r)'
    BY <1>2, <2>2, NotesKeepRecord DEF RecordedCertain
  <2>3. CASE Latched /\ Requested(row.latch) = r /\ row.latch.certain
    BY <1>2, <2>2, <2>3, LatchKeepsRecord DEF RecordedCertain
  <2> QED BY <2>1, <2>2, <2>3 DEF RecordedCertain
<1>3. CASE r \in known /\ r \notin open
  <2>1. r \in sent BY <1>3 DEF TypeOK
  <2> QED
    BY <1>3, <2>1, ChangesOfOpen
    DEF Send, SteamRefuses, StoreAccepted, Begun, Learned, At, FlightKnows
<1>4. CASE r \notin known
  <2>1. ASSUME MarkCertain PROVE RecordedCertain(r)'
    <3>1. r = Asked /\ op # None /\ notes' = Marked(op.rec)
      BY <1>4, <2>1 DEF MarkCertain, At, Published
    <3>2. Requested(Certain(op.rec)) = r /\ Certain(op.rec).certain
      BY <3>1, FlightType DEF Requested, Certain, Asked, Record
    <3> QED BY <3>1, <3>2 DEF RecordedCertain, Marked
  <2>2. ASSUME Latch PROVE RecordedCertain(r)'
    <3>1. /\ r = Asked /\ op # None /\ op.rec.certain
          /\ row' = LatchOn(op.rec) /\ row' # row
      BY <1>4, <2>2 DEF Latch, At, Saved
    <3>2. row' \in Row /\ row'.latch = op.rec
      BY <3>1, RowTypes, FlightType DEF LatchOn, TypeOK, Row
    <3>3. Latched'
      BY <3>1, <3>2, SentinelAssumption, FlightType DEF Latched
    <3> QED BY <3>1, <3>2, <3>3 DEF RecordedCertain, Asked
  <2> QED BY <1>4, <2>1, <2>2, ChangesOfKnown
<1> QED BY <1>2, <1>3, <1>4

-----------------------------------------------------------------------------
LEMMA Initially == Init => IInv
<1> SUFFICES ASSUME Init PROVE IInv OBVIOUS
<1>1. PICK a \in Authenticators, s \in {"pendingActivation", "active"} :
        row = [auth |-> a, status |-> s, latch |-> None]
  BY DEF Init
<1>2. row \in Row /\ row.latch = None /\ bak \in {None, row}
  BY <1>1 DEF Init, Row
<1>3. TypeOK
  <2>1. unlocked \in BOOLEAN /\ torn \in BOOLEAN /\ mistaken \in BOOLEAN
        /\ restored \in BOOLEAN /\ forgot \in BOOLEAN
    BY Zenon DEF Init
  <2>2. used \in 0..MaxOperations /\ faults \in 0..MaxFaults
    BY BoundsAssumption DEF Init
  <2> QED BY <1>2, <2>1, <2>2 DEF Init, TypeOK
<1>4. Mentioned = {}
  BY <1>2 DEF Init, Mentioned
<1> QED
  BY <1>2, <1>3, <1>4
  DEF Init, IInv, OpenIsNoted, IdsAreUnique, FlightKnows, AnswerKnows,
      LatchFits, AcceptanceIsRecorded

LEMMA Inductive == IInv /\ [Next]_vars => IInv'
BY TypeStep, NotedStep, IdsStep, FlightStep, AnswerStep, FitsStep, RecordedStep
DEF IInv

THEOREM Invariant == Spec => []IInv
BY Initially, Inductive, PTL DEF Spec

(* Every variable keeps its type.                                          *)
THEOREM TypeCorrect == Spec => []TypeOK
BY Invariant, PTL DEF IInv

(* The note of a request whose outcome nobody knows stays in the journal.  *)
THEOREM OpenNoted == Spec => []OpenIsNoted
BY Invariant, PTL DEF IInv

(* A note known to be accepted is found beside whatever evidence the user  *)
(* speaks about.                                                           *)
LEMMA DenialIsRefused ==
  ASSUME IInv, NEW e \in Evidence, Resolve(e, "nothing"),
         ToldAbout(e) \in known, ToldAbout(e) \in open
  PROVE  forgot
<1> USE DEF IInv
<1> SUFFICES ASSUME ~forgot PROVE FALSE BY Zenon
<1>1. RecordedCertain(ToldAbout(e)) BY Zenon DEF AcceptanceIsRecorded
<1>2. \A f \in Evidence : f.rec.certain => Requested(f.rec) # ToldAbout(e)
  <2> SUFFICES ASSUME NEW f \in Evidence, f.rec.certain, Requested(f.rec) = ToldAbout(e)
               PROVE  FALSE
    OBVIOUS
  <2>1. f.rec.id = e.rec.id BY DEF ToldAbout, Requested
  <2>2. f \notin {e} \cup Companions(e)
    BY DEF Resolve, Accepts, KnownAccepted
  <2>3. f.source = e.source BY <2>1, <2>2 DEF Companions
  <2>4. f.rec = e.rec
    BY <2>1, <2>3 DEF Evidence, IdsAreUnique, Latched
  <2> QED BY <2>2, <2>3, <2>4 DEF Evidence
<1>3. ASSUME NEW n \in notes, Requested(n) = ToldAbout(e), n.certain PROVE FALSE
  <2>1. [source |-> "journal", rec |-> n] \in Evidence BY DEF Evidence
  <2> QED BY <1>2, <1>3, <2>1
<1>4. ASSUME Latched, Requested(row.latch) = ToldAbout(e), row.latch.certain PROVE FALSE
  <2>1. [source |-> "vault", rec |-> row.latch] \in Evidence
    BY <1>4 DEF Evidence
  <2> QED BY <1>2, <1>4, <2>1
<1> QED BY <1>1, <1>3, <1>4 DEF RecordedCertain

(* After Steam's acceptance is reported as recorded, the word that nothing *)
(* happened is taken only when a restore lost the only record of it.       *)
THEOREM AcceptanceKept == Spec => AcceptanceIsNotDenied
<1>1. IInv /\ [Next]_vars =>
        [\A e \in Evidence :
           Resolve(e, "nothing") /\ ToldAbout(e) \in known \cap open => forgot]_vars
  BY DenialIsRefused, Zenon
<1> QED BY <1>1, Invariant, PTL DEF Spec, AcceptanceIsNotDenied

(* Every step of a handler is a request, an outcome learned, or nothing,   *)
(* to a reader who sees only the requests and what is known of them.       *)
LEMMA RefinementStep ==
  ASSUME IInv, [Next]_vars PROVE [Promise!Next]_<<sent, open>>
<1> USE DEF IInv
<1>1. CASE Send
  <2>1. open = {} /\ Asked \notin sent /\ Asked \in Request
    BY <1>1, MarkedType DEF Send, At, FlightKnows
  <2>2. Promise!Ask(Asked) BY <1>1, <2>1 DEF Send, Promise!Ask
  <2> QED BY <2>1, <2>2 DEF Promise!Next
<1>2. CASE SteamRefuses \/ StoreAccepted
  <2>1. Asked \in open /\ Asked \in Request
    BY <1>2, MarkedType DEF SteamRefuses, StoreAccepted, At, FlightKnows
  <2>2. Promise!Learn(Asked)
    BY <1>2, <2>1 DEF SteamRefuses, StoreAccepted, Learned, Promise!Learn
  <2> QED BY <2>1, <2>2 DEF Promise!Next
<1>3. ASSUME NEW e \in Evidence, NEW said, Begun(e, said)
      PROVE  [Promise!Next]_<<sent, open>>
  <2>1. CASE ToldAbout(e) \in open
    <3>1. Promise!Learn(ToldAbout(e))
      BY <1>3, <2>1 DEF Begun, Learned, Promise!Learn
    <3>2. ToldAbout(e) \in Request BY <2>1 DEF TypeOK
    <3> QED BY <3>1, <3>2 DEF Promise!Next
  <2>2. CASE ToldAbout(e) \notin open
    BY <1>3, <2>2 DEF Begun, Learned
  <2> QED BY <2>1, <2>2
<1> QED BY <1>1, <1>2, <1>3, ChangesOfOpen

(* The handlers implement IrreversibleRequests: a request goes out once,   *)
(* and none while the outcome of another is unknown.                       *)
THEOREM Refinement == Spec => KeepsPromise
<1>1. Init => Promise!Init BY DEF Init, Promise!Init
<1> QED BY <1>1, RefinementStep, Invariant, PTL DEF Spec, KeepsPromise, Promise!Spec
-----------------------------------------------------------------------------
(* The vault and Steam.  They disagree about an operation Steam carried    *)
(* out when the authenticator it removed is in the row, or the one it      *)
(* activated still waits.  Then there is evidence left, and whatever is    *)
(* about to take some away takes other evidence.                           *)
Disputed(r) ==
  /\ row # None /\ r.auth = row.auth
  /\ r.kind = "deactivate" \/ row.status = "pendingActivation"
Witnessed(r) ==
  \/ \E n \in notes : Requested(n) = r
  \/ Latched /\ Requested(row.latch) = r
DisputesAreWitnessed ==
  ~mistaken /\ ~restored =>
    /\ \A r \in acted : Disputed(r) => Witnessed(r)
    /\ op # None /\ op.step \in {"refused", "clear"} /\ Asked \in acted => ~Disputed(Asked)
    /\ answer # None /\ ToldAbout(answer.held) \in acted /\ Disputed(ToldAbout(answer.held))
         => answer.said = "acted" /\ answer.step = "save"

LEMMA MistakesStay ==
  ASSUME TypeOK, [Next]_vars
  PROVE  (mistaken => mistaken') /\ (restored => restored')
<1>1. UNCHANGED mistaken \/ \E e \in Evidence, said \in {"acted", "nothing"} : Resolve(e, said)
  BY DEF Next, Asking, Recording, Resolving, Environment, NoteRequest,
     NoteFails, RefusedBeforeSend, Send, SteamRefuses, SteamAccepts, NoAnswer,
     StoreAccepted, StoreFails, MarkCertain, MarkFails, Latch, LatchFails,
     ClearNote, ClearFails, DiscardStale, ResolveSave, ResolveSaveFails,
     ResolveClear, ResolveClearFails, Lock, Unlock, OtherSave, Remove, Restore,
     Crash, Import, told, vars
<1>2. UNCHANGED restored \/ Restore
  BY DEF Next, Asking, Recording, Resolving, Environment, NoteRequest,
     NoteFails, RefusedBeforeSend, Send, SteamRefuses, SteamAccepts, NoAnswer,
     StoreAccepted, StoreFails, MarkCertain, MarkFails, Latch, LatchFails,
     ClearNote, ClearFails, DiscardStale, Resolve, Begun, ResolveSave,
     ResolveSaveFails, ResolveClear, ResolveClearFails, Lock, Unlock, OtherSave,
     Remove, Crash, Import, told, vars
<1>3. ASSUME NEW e \in Evidence, NEW said, Resolve(e, said), mistaken PROVE mistaken'
  <2> DEFINE wrong == (said = "acted") # (ToldAbout(e) \in acted)
  <2>1. mistaken' = (mistaken \/ wrong) BY <1>3 DEF Resolve
  <2> HIDE DEF wrong
  <2> QED BY <1>3, <2>1, Zenon
<1>4. mistaken => mistaken' BY <1>1, <1>3, Zenon
<1>5. restored => restored' BY <1>2, Zenon DEF Restore
<1> QED BY <1>4, <1>5, Zenon

(* No step but a restore, and Steam's own, makes the row disagree.         *)
LEMMA DisputesArise ==
  ASSUME IInv, [Next]_vars, ~restored', NEW r \in acted, Disputed(r)'
  PROVE  Disputed(r)
<1> USE DEF IInv, Disputed
<1>1. CASE StoreAccepted \/ StoreFails
  <2>1. row # None /\ row' \in {row, Carried(op.rec.kind)}
    BY <1>1 DEF StoreAccepted, StoreFails, Saved, NotSaved, At, FlightKnows
  <2> QED BY <2>1 DEF Carried, TypeOK, Row
<1>2. CASE Latch \/ LatchFails
  <2>1. row' \in {row, LatchOn(op.rec)}
    BY <1>2 DEF Latch, LatchFails, Saved, NotSaved
  <2> QED BY <2>1 DEF LatchOn, TypeOK, Row
<1>3. CASE ResolveSave \/ ResolveSaveFails
  <2>1. row # None /\ row' \in {row, Reconciled}
    BY <1>3 DEF ResolveSave, ResolveSaveFails, Saved, NotSaved
  <2>2. Unlatched \in Row /\ Unlatched.auth = row.auth /\ Unlatched.status = row.status
    BY <2>1, RowTypes DEF Unlatched, TypeOK, Row
  <2> QED BY <2>1, <2>2 DEF Reconciled, Row
<1>4. CASE Remove \/ Restore
  BY <1>4 DEF Remove, Restore, Saved
<1>5. ASSUME NEW a \in Authenticators, Import(a) PROVE Disputed(r)
  BY <1>5 DEF Import, Saved, Detached, TypeOK, Request, Kinds
<1> QED BY <1>1, <1>2, <1>3, <1>4, <1>5, ChangesOfRow

(* A note is taken away by the two that settle its operation only.         *)
LEMMA NoteWitnesses ==
  ASSUME IInv, DisputesAreWitnessed, [Next]_vars, ~mistaken, ~restored,
         NEW r \in acted, Disputed(r), NEW n \in notes, Requested(n) = r
  PROVE  \E m \in notes' : Requested(m) = r
<1> USE DEF IInv
<1>1. ASSUME NEW kind \in Kinds, NoteRequest(kind) \/ NoteFails(kind)
      PROVE  n \in notes'
  BY <1>1 DEF NoteRequest, NoteFails, Published, NotPublished
<1>2. CASE MarkCertain \/ MarkFails
  <2>1. notes' \in {notes, Marked(op.rec)} /\ op # None
    BY <1>2 DEF MarkCertain, MarkFails, At, Published, NotPublished
  <2>2. CASE r = Asked
    <3>1. Requested(Certain(op.rec)) = r
      BY <2>1, <2>2, FlightType DEF Requested, Certain, Asked, Record
    <3> QED BY <2>1, <3>1 DEF Marked
  <2>3. CASE r # Asked
    <3>1. n \in notes \ WithId(notes, Asked.id)
      BY <2>1, <2>3, NoteSurvives, MentionedNotes
    <3> QED BY <3>1, <2>1 DEF Marked, Asked, Requested
  <2> QED BY <2>2, <2>3
<1>3. CASE ClearNote \/ ClearFails
  <2>1. /\ op # None /\ r # Asked
        /\ notes' \in {notes, notes \ WithId(notes, op.rec.id)}
    BY <1>3 DEF ClearNote, ClearFails, DisputesAreWitnessed, Published, NotPublished
  <2>2. n \in notes \ WithId(notes, Asked.id)
    BY <2>1, NoteSurvives, MentionedNotes
  <2> QED BY <2>1, <2>2 DEF Asked, Requested
<1>4. CASE ResolveClear \/ ResolveClearFails
  <2>1. /\ answer # None /\ answer.step = "clear"
        /\ notes' \in {notes, notes \ Settled}
    BY <1>4 DEF ResolveClear, ResolveClearFails, Answering, Published, NotPublished
  <2>2. r # ToldAbout(answer.held)
    BY <2>1 DEF DisputesAreWitnessed
  <2>3. n \in notes \ WithId(notes, ToldAbout(answer.held).id)
    BY <2>1, <2>2, NoteSurvives, MentionedNotes
  <2> QED BY <2>1, <2>3 DEF ToldAbout, Requested, Settled
<1> QED BY <1>1, <1>2, <1>3, <1>4, ChangesOfNotes

(* And a latch by the save that settles its operation.                     *)
LEMMA LatchWitnesses ==
  ASSUME IInv, DisputesAreWitnessed, [Next]_vars, ~mistaken, ~restored, ~restored',
         NEW r \in acted, Disputed(r), Disputed(r)', Latched, Requested(row.latch) = r
  PROVE  Latched' /\ Requested(row'.latch) = r
<1> USE DEF IInv, Latched
<1>1. CASE UNCHANGED row
  BY <1>1
<1>2. CASE StoreAccepted \/ StoreFails \/ Latch \/ LatchFails
  BY <1>2 DEF StoreAccepted, StoreFails, Latch, LatchFails, At, FlightKnows
<1>3. CASE ResolveSave \/ ResolveSaveFails
  <2>1. answer # None /\ row # None /\ row' \in {row, Reconciled}
    BY <1>3 DEF ResolveSave, ResolveSaveFails, Answering, Saved, NotSaved
  <2>2. CASE row.latch.id # answer.held.rec.id
    <3>1. Unlatched = row BY <2>2 DEF Unlatched
    <3> QED BY <2>1, <3>1 DEF Reconciled, Disputed, TypeOK, Row
  <2>3. CASE row.latch.id = answer.held.rec.id
    <3>1. r = ToldAbout(answer.held)
      BY <2>1, <2>3, MentionedNotes DEF IdsAreUnique, ToldAbout, Requested
    <3>2. answer.said = "acted" /\ r.kind = answer.held.rec.kind
      BY <2>1, <3>1 DEF DisputesAreWitnessed, ToldAbout, Requested
    <3>3. Unlatched \in Row BY <2>1, RowTypes
    <3>4. Reconciled = None \/ (Reconciled.status = "active" /\ r.kind # "deactivate")
      BY <3>2, <3>3 DEF Reconciled, Row
    <3>5. row' # Reconciled BY <3>4 DEF Disputed
    <3> QED BY <2>1, <3>5
  <2> QED BY <2>2, <2>3
<1>4. CASE Remove \/ Restore
  BY <1>4 DEF Remove, Restore, Saved, Disputed
<1>5. ASSUME NEW a \in Authenticators, Import(a) PROVE FALSE
  BY <1>5, NothingApplies DEF Import
<1> QED BY <1>1, <1>2, <1>3, <1>4, <1>5, ChangesOfRow

LEMMA WitnessedStep ==
  ASSUME IInv, DisputesAreWitnessed, [Next]_vars, ~mistaken, ~restored, ~restored',
         NEW r \in acted', Disputed(r)'
  PROVE  Witnessed(r)'
<1>1. CASE r \in acted
  <2>1. Disputed(r) BY <1>1, DisputesArise
  <2>2. Witnessed(r) BY <1>1, <2>1 DEF DisputesAreWitnessed
  <2>3. ASSUME NEW n \in notes, Requested(n) = r PROVE Witnessed(r)'
    BY <1>1, <2>1, <2>3, NoteWitnesses DEF Witnessed
  <2>4. CASE Latched /\ Requested(row.latch) = r
    BY <1>1, <2>1, <2>4, LatchWitnesses DEF Witnessed
  <2> QED BY <2>2, <2>3, <2>4 DEF Witnessed
<1>2. CASE r \notin acted
  <2>1. Send BY <1>2, ChangesOfSent
  <2>2. r = Asked /\ op.rec \in notes /\ notes' = notes
    BY <1>2, <2>1 DEF Send, At, FlightKnows, IInv, disk
  <2> QED BY <2>2 DEF Witnessed, Asked
<1> QED BY <1>1, <1>2

(* A handler clears the note of what Steam refused, or of what it stored.  *)
LEMMA ClearsStep ==
  ASSUME IInv, DisputesAreWitnessed, [Next]_vars, ~mistaken, ~restored, ~restored',
         op' # None, op'.step \in {"refused", "clear"}, Asked' \in acted'
  PROVE  ~Disputed(Asked)'
<1> USE DEF IInv
<1>1. CASE UNCHANGED op
  <2>1. Asked' = Asked /\ op # None /\ op.step \in {"refused", "clear"}
    BY <1>1 DEF Asked
  <2>2. ~Send BY <2>1 DEF Send, At
  <2>3. Asked \in acted BY <2>1, <2>2, ChangesOfSent
  <2> QED BY <2>1, <2>3, DisputesArise DEF DisputesAreWitnessed, Disputed
<1>2. CASE RefusedBeforeSend
  <2>1. op # None /\ op'.rec = op.rec /\ Asked \notin sent /\ acted' = acted
    BY <1>2 DEF RefusedBeforeSend, At, Goto, FlightKnows, told, TypeOK, Flight
  <2> QED BY <2>1 DEF Asked, TypeOK
<1>3. CASE SteamRefuses
  <2>1. op # None /\ op'.rec = op.rec /\ Asked \notin acted /\ acted' = acted
    BY <1>3 DEF SteamRefuses, At, Goto, TypeOK, Flight
  <2> QED BY <2>1 DEF Asked
<1>4. CASE StoreAccepted
  <2>1. op # None /\ op'.rec = op.rec /\ row # None /\ row' = Carried(op.rec.kind)
    BY <1>4 DEF StoreAccepted, Saved, At, Goto, FlightKnows, TypeOK, Flight
  <2>2. row' = None \/ (row'.status = "active" /\ op.rec.kind # "deactivate")
    BY <2>1 DEF Carried, TypeOK, Row
  <2> QED BY <2>1, <2>2 DEF Asked, Requested, Disputed
<1>5. CASE Send \/ SteamAccepts \/ NoAnswer \/ StoreFails \/ MarkCertain \/ MarkFails
  <2>1. op # None /\ op'.step \in {"sent", "accepted", "latch", "mark"}
    BY <1>5 DEF Send, SteamAccepts, NoAnswer, StoreFails, MarkCertain, MarkFails,
       At, Goto, TypeOK, Flight
  <2> QED BY <2>1
<1>6. ASSUME NEW kind \in Kinds, NoteRequest(kind) PROVE FALSE
  BY <1>6 DEF NoteRequest
<1> QED BY <1>1, <1>2, <1>3, <1>4, <1>5, <1>6, ChangesOfOp

(* An answer is about an authenticator that is gone, or says what is so;   *)
(* and a removal or activation that happened is stored before it clears.   *)
LEMMA AnswersStep ==
  ASSUME IInv, DisputesAreWitnessed, [Next]_vars,
         ~mistaken, ~mistaken', ~restored, ~restored', answer' # None,
         ToldAbout(answer.held)' \in acted', Disputed(ToldAbout(answer.held))'
  PROVE  answer'.said = "acted" /\ answer'.step = "save"
<1> USE DEF IInv
<1>1. CASE UNCHANGED answer
  <2>1. PICK r : r = ToldAbout(answer.held)
    OBVIOUS
  <2>2. ToldAbout(answer.held)' = r /\ answer # None
    BY <1>1, <2>1 DEF ToldAbout
  <2>3. ~Send BY <2>2 DEF FlightKnows, Send, At
  <2>4. r \in acted BY <2>2, <2>3, ChangesOfSent
  <2>5. Disputed(r)' BY <2>2 DEF Disputed
  <2>6. Disputed(r) BY <2>4, <2>5, DisputesArise
  <2> QED BY <1>1, <2>1, <2>2, <2>4, <2>6 DEF DisputesAreWitnessed
<1>2. CASE ResolveSave
  <2>1. /\ answer # None /\ row # None /\ row' = Reconciled /\ acted' = acted
        /\ answer'.held = answer.held
    BY <1>2 DEF ResolveSave, Answering, Saved, told, TypeOK, Answer
  <2>2. PICK r : r = ToldAbout(answer.held)
    OBVIOUS
  <2>3. r \in acted /\ Disputed(r)'
    BY <2>1, <2>2 DEF Disputed, ToldAbout
  <2>4. Disputed(r) BY <2>3, DisputesArise
  <2>5. answer.said = "acted" BY <2>1, <2>2, <2>3, <2>4 DEF DisputesAreWitnessed
  <2>6. Unlatched \in Row BY <2>1, RowTypes
  <2>7. row' = None \/ (row'.status = "active" /\ r.kind # "deactivate")
    BY <2>1, <2>2, <2>5, <2>6 DEF Reconciled, Row, ToldAbout, Requested
  <2> QED BY <2>3, <2>7 DEF Disputed
<1>3. ASSUME NEW e \in Evidence, DiscardStale(e) PROVE FALSE
  <2>1. answer'.held = e /\ row # None /\ row' = row /\ e.rec.auth # row.auth
    BY <1>3 DEF DiscardStale, Begun, Applies, disk
  <2> QED BY <2>1 DEF Disputed, ToldAbout, Requested
<1>4. ASSUME NEW e \in Evidence, NEW said \in {"acted", "nothing"}, Resolve(e, said)
      PROVE  answer'.said = "acted" /\ answer'.step = "save"
  <2>1. /\ answer'.held = e /\ answer'.said = said /\ acted' = acted
        /\ (said = "acted" => answer'.step = "save")
    BY <1>4 DEF Resolve, Begun, TouchesVault
  <2>2. ToldAbout(e) \in acted BY <2>1 DEF ToldAbout
  <2>3. said = "acted" BY <1>4, <2>2 DEF Resolve
  <2> QED BY <2>1, <2>3
<1> QED BY <1>1, <1>2, <1>3, <1>4, ChangesOfAnswer

LEMMA DisputesStep == IInv /\ DisputesAreWitnessed /\ [Next]_vars => DisputesAreWitnessed'
<1> SUFFICES ASSUME IInv, DisputesAreWitnessed, [Next]_vars, ~mistaken', ~restored'
             PROVE  DisputesAreWitnessed'
  BY DEF DisputesAreWitnessed
<1>1. ~mistaken /\ ~restored BY MistakesStay DEF IInv
<1>2. \A r \in acted' : Disputed(r)' => Witnessed(r)'
  BY <1>1, WitnessedStep
<1>3. op' # None /\ op'.step \in {"refused", "clear"} /\ Asked' \in acted' => ~Disputed(Asked)'
  BY <1>1, ClearsStep
<1>4. answer' # None /\ ToldAbout(answer.held)' \in acted' /\ Disputed(ToldAbout(answer.held))'
        => answer'.said = "acted" /\ answer'.step = "save"
  BY <1>1, AnswersStep
<1> QED BY <1>2, <1>3, <1>4 DEF DisputesAreWitnessed, Asked, ToldAbout, Requested, Disputed

(* With nothing left to resolve, and users who told what Steam did, the    *)
(* vault agrees with Steam about the authenticator it holds.               *)
THEOREM SettledMatches == Spec => []SettledVaultMatchesSteam
<1>1. Init => DisputesAreWitnessed
  BY DEF Init, DisputesAreWitnessed
<1>2. Spec => []DisputesAreWitnessed
  BY <1>1, DisputesStep, Invariant, PTL DEF Spec
<1>3. ASSUME DisputesAreWitnessed, Clean, row # None, NEW r \in acted PROVE ~Disputed(r)
  <2>1. ~Witnessed(r) BY <1>3 DEF Clean, Witnessed, Evidence
  <2> QED BY <1>3, <2>1 DEF Clean, DisputesAreWitnessed
<1>4. DisputesAreWitnessed => SettledVaultMatchesSteam
  BY <1>3 DEF SettledVaultMatchesSteam, Detached, Disputed
<1> QED BY <1>2, <1>4, PTL
=============================================================================
