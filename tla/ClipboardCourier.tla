--------------------------- MODULE ClipboardCourier ---------------------------
(***************************************************************************)
(* ClipboardCourier (src/main/codes/clipboard.ts): a code is copied, and a *)
(* timer, a lock or the end of the process takes it back, as long as it is *)
(* still there.  The clipboard belongs to the whole machine: any program   *)
(* may write it at any moment, also between clearIfOurs's read and clear.  *)
(***************************************************************************)
EXTENDS Naturals

CONSTANTS
  Codes,       \* Steam Guard codes
  Others,      \* what other programs and the user copy
  Empty,       \* the cleared clipboard
  Nothing,     \* no text remembered, no timer, no clear under way
  WriteFails,  \* whether writeText may throw
  ReadFails    \* whether readText or clear may throw, or the text not be read

ASSUME TextAssumption ==
  /\ Empty \notin Codes \cup Others
  /\ Nothing \notin Codes \cup Others \cup {Empty}
  /\ WriteFails \in BOOLEAN /\ ReadFails \in BOOLEAN

VARIABLES
  isUnlocked, \* a code is generated only while the vault is open
  clip,       \* what is on the clipboard
  ours,       \* ... and whether this courier put it there
  written,    \* the field of that name
  pending,    \* the text whose copy armed the timer, or Nothing
  clearing,   \* the text clearIfOurs has just found, about to clear, or Nothing
  missed      \* history: a clear of the last copy failed with the code still there

clipboard == <<isUnlocked, clip, ours, written, pending, clearing, missed>>

Texts == Codes \cup Others
Idle == clearing = Nothing

-----------------------------------------------------------------------------
Unlock ==
  /\ ~isUnlocked /\ Idle /\ isUnlocked' = TRUE
  /\ UNCHANGED <<clip, ours, written, pending, clearing, missed>>

(* The write first; only then is the previous timer cancelled and replaced. *)
Copy(c) ==
  /\ isUnlocked /\ Idle
  /\ clip' = c /\ ours' = TRUE
  /\ written' = c /\ pending' = c /\ missed' = FALSE
  /\ UNCHANGED <<isUnlocked, clearing>>

(* Faulty: the order before the fix, cancel and then write.                *)
CopyFailsCancelled ==
  /\ WriteFails /\ isUnlocked /\ Idle /\ pending' = Nothing
  /\ UNCHANGED <<isUnlocked, clip, ours, written, clearing, missed>>

CopyFails ==
  /\ WriteFails /\ isUnlocked /\ Idle
  /\ UNCHANGED clipboard

(* The comparison of clearIfOurs, against what copy wrote last.            *)
Find ==
  \/ clearing' = (IF clip = written THEN written ELSE Nothing) /\ UNCHANGED missed
  \/ ReadFails /\ clearing' = Nothing /\ missed' = (missed \/ clip = written)

(* clearIfOurs up to its read: the field is forgotten before the clipboard *)
(* is looked at.                                                           *)
BeginClear ==
  /\ Idle /\ pending' = Nothing /\ written' = Nothing
  /\ Find
  /\ UNCHANGED <<clip, ours>>

TimerFires == pending # Nothing /\ BeginClear /\ UNCHANGED isUnlocked
(* onLock, and before-quit and the end of the desktop session alike.       *)
Lock == isUnlocked /\ isUnlocked' = FALSE /\ BeginClear

EndClear ==
  /\ ~Idle /\ clearing' = Nothing
  /\ clip' = Empty /\ ours' = FALSE
  /\ UNCHANGED <<isUnlocked, written, pending, missed>>

OtherWrites(text) ==
  /\ clip' = text /\ ours' = FALSE
  /\ UNCHANGED <<isUnlocked, written, pending, clearing, missed>>

-----------------------------------------------------------------------------
ClipboardInit ==
  /\ isUnlocked = FALSE /\ clip \in Others \cup {Empty} /\ ours = FALSE /\ missed = FALSE
  /\ written = Nothing /\ pending = Nothing /\ clearing = Nothing

-----------------------------------------------------------------------------
(* Every variable keeps its type, and a clear is of a code.                *)
ClipboardTypeOK ==
  /\ isUnlocked \in BOOLEAN /\ ours \in BOOLEAN /\ missed \in BOOLEAN
  /\ clip \in Texts \cup {Empty}
  /\ written \in Codes \cup {Nothing} /\ pending \in Codes \cup {Nothing}
  /\ clearing \in Codes \cup {Nothing}

(* A code this courier put on the clipboard is remembered and has a timer  *)
(* of its own running, whatever copies failed since: none is abandoned but *)
(* by a clear that was due and could not be done, which nothing repeats.   *)
CodeIsWatched ==
  ours /\ Idle => missed \/ (isUnlocked /\ written = clip /\ pending = clip)

=============================================================================
