------------------------------- MODULE Recording -------------------------------
(***************************************************************************)
(* The recordings of a room and its minutes: upload of a recording to      *)
(* object storage and its row; transcription of all the recordings, whose  *)
(* result becomes rows of call_transcriptions, the one row of call_minutes *)
(* of the room, and a mail to the participants.  Rooms do not share any of *)
(* this, so the module is about one room, which exists.                    *)
(*                                                                         *)
(* Each action is one statement, one call of an external service, or one   *)
(* transaction, with the code up to the next; no transaction spans two of  *)
(* them, and requests interleave.  Texts are the set of recordings they    *)
(* come from.                                                              *)
(***************************************************************************)
EXTENDS Integers, Sequences, FiniteSets

CONSTANTS
  Users,          \* who upload
  Requests,       \* slots for concurrent HTTP requests
  MaxSecond,      \* bound on the clock
  MaxRecordings,  \* bound on rows of call_recordings
  MaxBatches,     \* bound on transcriptions saved
  MaxFaults,      \* bound on failed statements, failed calls and restarts
  None            \* no minutes, no file

ASSUME BoundsAssumption ==
  /\ MaxSecond \in Nat /\ MaxRecordings \in Nat /\ MaxBatches \in Nat
  /\ MaxFaults \in Nat

VARIABLES
  second,      \* Unix time in seconds
  objects,     \* names of the objects in storage
  recordings,  \* call_recordings: the object each row names, oldest first
  batches,     \* call_transcriptions: the text of each batch, oldest first
  minutes,     \* call_minutes: None, or the row
  hasMail,     \* is the mail client configured
  joined,      \* has the room had participants
  mails,       \* mails sent for this room
  req,         \* the requests
  faults       \* failures and restarts so far

vars == <<second, objects, recordings, batches, minutes, hasMail, joined, mails, req, faults>>

(* recordings/<room>/user-<id>-<second>.webm *)
Object == [user: Users, at: 0..MaxSecond]

Text    == SUBSET (Nat \ {0})
Minutes == [text: Text, sent: BOOLEAN]

ASSUME NoneAssumption == None \notin Minutes /\ None \notin Object

Request == [op: {"none", "upload", "transcribe"},
            pc: {"idle", "record", "speech", "batch", "minutes", "mail", "sent", "done"},
            file: Object \cup {None}, text: Text, to: BOOLEAN,
            ans: {"none", "ok", "error", "lost"}]

Idle == [op |-> "none", pc |-> "idle", file |-> None, text |-> {}, to |-> FALSE, ans |-> "none"]

(* The tables and the handlers' variables keep their types; a batch is     *)
(* never empty, and its rows refer to recordings that exist.               *)
TypeOK ==
  /\ second \in 0..MaxSecond
  /\ objects \subseteq Object
  /\ recordings \in Seq(Object)
  /\ batches \in Seq((SUBSET DOMAIN recordings) \ {{}})
  /\ minutes \in Minutes \cup {None}
  /\ hasMail \in BOOLEAN /\ joined \in BOOLEAN
  /\ mails \in Nat
  /\ req \in [Requests -> Request]
  /\ faults \in Nat

Init ==
  /\ second = 0
  /\ objects = {}
  /\ recordings = <<>> /\ batches = <<>>
  /\ minutes = None
  /\ hasMail \in BOOLEAN
  /\ joined = FALSE
  /\ mails = 0
  /\ req = [p \in Requests |-> Idle]
  /\ faults = 0

--------------------------------------------------------------------------------
Free(p)      == req[p].pc \in {"idle", "done"}
At(p, l)     == req[p].pc = l
Goto(p, l)   == req' = [req EXCEPT ![p].pc = l]
Answer(p, a) == req' = [req EXCEPT ![p].pc = "done", ![p].ans = a]

(* A request whose first call let it go on, or answered it. *)
Arrive(p, op, l, file, text) ==
  req' = [req EXCEPT ![p] = [op |-> op, pc |-> l, file |-> file, text |-> text,
                             to |-> FALSE, ans |-> "none"]]

Reply(p, op, a) ==
  req' = [req EXCEPT ![p] = [op |-> op, pc |-> "done", file |-> None, text |-> {},
                             to |-> FALSE, ans |-> a]]

(* The bounds: requests that may still add a row count as rows. *)
Pending(op) == Cardinality({p \in Requests : req[p].op = op /\ ~Free(p)})

Works == faults' = faults
Fails == faults < MaxFaults /\ faults' = faults + 1

--------------------------------------------------------------------------------
(* POST /api/calls/rooms/{id}/recordings *)

(* The object is named by the second of the upload, and replaces another   *)
(* of this name.  (Mutant: an error of the upload is ignored.)             *)
UploadErrorIgnored(p, f) == Arrive(p, "upload", "record", f, {})
UploadFailed(p, f)       == Reply(p, "upload", "error")

UploadFile(p, u) ==
  LET f == [user |-> u, at |-> second]
  IN  /\ Free(p)
      /\ Len(recordings) + Pending("upload") < MaxRecordings
      /\ \/ Works /\ objects' = objects \cup {f} /\ Arrive(p, "upload", "record", f, {})
         \/ Fails /\ objects' \in {objects, objects \cup {f}} /\ UploadFailed(p, f)
      /\ UNCHANGED <<second, recordings, batches, minutes, hasMail, joined, mails>>

(* No form, no file in it, or no storage configured. *)
RejectUpload(p) ==
  /\ Free(p)
  /\ Reply(p, "upload", "error")
  /\ UNCHANGED <<second, objects, recordings, batches, minutes, hasMail, joined, mails, faults>>

CreateRecording(p) ==
  LET created == Append(recordings, req[p].file)
  IN  /\ At(p, "record")
      /\ \/ Works /\ recordings' = created /\ Answer(p, "ok")
         \/ Fails /\ recordings' \in {recordings, created} /\ Answer(p, "error")
      /\ UNCHANGED <<second, objects, batches, minutes, hasMail, joined, mails>>

--------------------------------------------------------------------------------
(* POST /api/calls/rooms/{id}/transcribe *)

(* Until the speech service answered, text is what it is asked about. *)
TranscribeReadRecordings(p) ==
  /\ Free(p)
  /\ Len(batches) + Pending("transcribe") < MaxBatches
  /\ \/ Works /\ recordings # <<>> /\ Arrive(p, "transcribe", "speech", None, DOMAIN recordings)
     \/ Works /\ recordings = <<>> /\ Reply(p, "transcribe", "error")
     \/ Fails /\ Reply(p, "transcribe", "error")
  /\ UNCHANGED <<second, objects, recordings, batches, minutes, hasMail, joined, mails>>

(* A recording whose transcription fails is skipped, but some must give a  *)
(* result.  (Mutant: the check for no results is missing.)                 *)
AnyResult(text) == SUBSET text
Results(text)   == (SUBSET text) \ {{}}

TranscribeFromGCS(p) ==
  /\ At(p, "speech")
  /\ \/ \E ok \in Results(req[p].text) :
          req' = [req EXCEPT ![p].pc = "batch", ![p].text = ok]
     \/ Answer(p, "error")
  /\ UNCHANGED <<second, objects, recordings, batches, minutes, hasMail, joined, mails, faults>>

(* One transaction for all the transcriptions.  (Mutant: its error is      *)
(* ignored.)                                                               *)
BatchErrorIgnored(p) == Goto(p, "minutes")
BatchFailed(p)       == Answer(p, "error")

CreateBatch(p) ==
  LET created == Append(batches, req[p].text)
  IN  /\ At(p, "batch")
      /\ \/ Works /\ batches' = created /\ Goto(p, "minutes")
         \/ Fails /\ batches' \in {batches, created} /\ BatchFailed(p)
      /\ UNCHANGED <<second, objects, recordings, minutes, hasMail, joined, mails>>

(* room_id is unique in call_minutes.  (Mutant: INSERT ... ON DUPLICATE    *)
(* KEY UPDATE.)                                                            *)
NoRoomKey    == TRUE
NoMinutesYet == minutes = None

(* The participants are read (to: there are some), then the minutes are    *)
(* inserted.                                                               *)
CreateMinutes(p) ==
  LET created == [text |-> req[p].text, sent |-> FALSE]
  IN  /\ At(p, "minutes")
      /\ \/ /\ Works /\ NoMinutesYet /\ minutes' = created
            /\ req' = [req EXCEPT ![p].pc = "mail", ![p].to = joined]
         \/ Works /\ ~NoMinutesYet /\ minutes' = minutes /\ Answer(p, "error")
         \/ /\ Fails
            /\ minutes' = minutes \/ (NoMinutesYet /\ minutes' = created)
            /\ Answer(p, "error")
      /\ UNCHANGED <<second, objects, recordings, batches, hasMail, joined, mails>>

(* Without a mail client the mail counts as sent.  A failure is logged, and *)
(* that nobody took part is one.                                           *)
(* (Mutant: the minutes are marked whether or not the mail went out.)      *)
MarkedAnyway(p) == Goto(p, "sent")
MailFailed(p)   == Answer(p, "ok")

SendMinutesEmail(p) ==
  /\ At(p, "mail")
  /\ \/ Works /\ ~hasMail /\ mails' = mails /\ Goto(p, "sent")
     \/ Works /\ hasMail /\ req[p].to /\ mails' = mails + 1 /\ Goto(p, "sent")
     \/ Works /\ hasMail /\ ~req[p].to /\ mails' = mails /\ MailFailed(p)
     \/ /\ Fails /\ hasMail
        /\ mails' \in {mails} \cup (IF req[p].to THEN {mails + 1} ELSE {})
        /\ MailFailed(p)
  /\ UNCHANGED <<second, objects, recordings, batches, minutes, hasMail, joined>>

(* UPDATE ... WHERE id = ? writes the text again; its error is dropped.    *)
Marked(text) == [text |-> text, sent |-> TRUE]

MarkSent(p) ==
  LET marked == Marked(req[p].text)
  IN  /\ At(p, "sent")
      /\ \/ Works /\ minutes' = marked
         \/ Fails /\ minutes' \in {minutes, marked}
      /\ Answer(p, "ok")
      /\ UNCHANGED <<second, objects, recordings, batches, hasMail, joined, mails>>

--------------------------------------------------------------------------------
(* Somebody joins the room: its first row of call_participants. *)
Join ==
  /\ ~joined
  /\ joined' = TRUE
  /\ UNCHANGED <<second, objects, recordings, batches, minutes, hasMail, mails, req, faults>>

Tick ==
  /\ second < MaxSecond
  /\ second' = second + 1
  /\ UNCHANGED <<objects, recordings, batches, minutes, hasMail, joined, mails, req, faults>>

Restart ==
  /\ Fails
  /\ \E p \in Requests : ~Free(p)
  /\ req' = [p \in Requests |-> IF Free(p) THEN req[p]
                                ELSE [req[p] EXCEPT !.pc = "done", !.ans = "lost"]]
  /\ UNCHANGED <<second, objects, recordings, batches, minutes, hasMail, joined, mails>>

Begin(p) ==
  \/ \E u \in Users : UploadFile(p, u)
  \/ RejectUpload(p)
  \/ TranscribeReadRecordings(p)

Continue(p) ==
  \/ CreateRecording(p)
  \/ TranscribeFromGCS(p)
  \/ CreateBatch(p)
  \/ CreateMinutes(p)
  \/ SendMinutesEmail(p)
  \/ MarkSent(p)

Next == (\E p \in Requests : Begin(p) \/ Continue(p)) \/ Join \/ Tick \/ Restart

Spec == Init /\ [][Next]_vars

--------------------------------------------------------------------------------
(***************************************************************************)
(* Whatever fails between storage and table, a row of call_recordings      *)
(* names an object that is in storage.                                     *)
(***************************************************************************)
RecordingsHaveFiles == \A k \in DOMAIN recordings : recordings[k] \in objects

(***************************************************************************)
(* The minutes are one of the transcriptions saved, not a mixture of two   *)
(* that ran at the same time, and not one whose rows were lost.            *)
(***************************************************************************)
MinutesWereSaved ==
  minutes # None => \E k \in DOMAIN batches : batches[k] = minutes.text

(***************************************************************************)
(* The minutes of a room are written once: a later or concurrent           *)
(* transcription, although it saves its rows, changes neither their text   *)
(* nor the mark that they were sent.                                       *)
(***************************************************************************)
MinutesAreFinal ==
  [][minutes # None =>
       /\ minutes' # None
       /\ minutes'.text = minutes.text
       /\ minutes.sent => minutes'.sent]_minutes

(***************************************************************************)
(* The mark and the mails agree.  The participants get at most one mail,   *)
(* however often and however concurrently transcription is asked for.      *)
(* With a mail client, minutes marked as sent were sent, also when the     *)
(* mail or the mark fails; and unless something failed, minutes that were  *)
(* sent are marked, or their request is about to mark them.                *)
(***************************************************************************)
OneMail ==
  /\ mails <= 1
  /\ minutes # None /\ minutes.sent /\ hasMail => mails = 1
  /\ mails = 1 /\ faults = 0 =>
       \/ minutes # None /\ minutes.sent
       \/ \E p \in Requests : At(p, "sent")
================================================================================
