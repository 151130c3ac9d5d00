--------------------------- MODULE Recording_proofs ---------------------------
(***************************************************************************)
(* Proofs about Recording, for every number of requests and every bound.    *)
(* Each property needs to know what a request in flight already did: its    *)
(* object is stored, its text is saved, its minutes are the only ones and   *)
(* not mailed yet.                                                         *)
(***************************************************************************)
EXTENDS Recording, SequenceTheorems, TLAPS

Saved(text, saved) == \E k \in DOMAIN saved : saved[k] = text

(* What a request x may rely on, at each of its program points. *)
ReqOK(x, stored, n, saved) ==
  /\ x \in Request
  /\ x.pc = "record" => x.file \in stored
  /\ x.pc \in {"speech", "batch"} => x.text \subseteq 1..n
  /\ x.pc = "batch" => x.text # {}
  /\ x.pc \in {"minutes", "mail", "sent"} => Saved(x.text, saved)

TablesOK ==
  /\ second \in 0..MaxSecond
  /\ objects \subseteq Object
  /\ recordings \in Seq(Object)
  /\ batches \in Seq(Text)
  /\ \A k \in DOMAIN batches : batches[k] # {} /\ batches[k] \subseteq 1..Len(recordings)
  /\ minutes \in Minutes \cup {None}
  /\ hasMail \in BOOLEAN /\ joined \in BOOLEAN
  /\ mails \in Nat
  /\ faults \in Nat

FilesOK   == \A k \in DOMAIN recordings : recordings[k] \in objects
MinutesOK == minutes # None => Saved(minutes.text, batches)

ReqsOK ==
  /\ req \in [Requests -> Request]
  /\ \A p \in Requests : ReqOK(req[p], objects, Len(recordings), batches)

TypeInv == TablesOK /\ FilesOK /\ MinutesOK /\ ReqsOK

(* The invariant has the types in it. *)
LEMMA TypeInvTypes == TypeInv => TypeOK
<1> SUFFICES ASSUME TypeInv PROVE TypeOK
  OBVIOUS
<1>1. DOMAIN recordings = 1..Len(recordings)
  BY DEF TypeInv, TablesOK
<1>2. batches \in Seq((SUBSET DOMAIN recordings) \ {{}})
  <2>1. batches \in [1..Len(batches) -> Text] /\ Len(batches) \in Nat
    BY DEF TypeInv, TablesOK
  <2>2. \A k \in 1..Len(batches) : batches[k] \in (SUBSET DOMAIN recordings) \ {{}}
    BY <1>1, <2>1 DEF TypeInv, TablesOK
  <2>3. batches \in [1..Len(batches) -> (SUBSET DOMAIN recordings) \ {{}}]
    BY <2>1, <2>2
  <2> QED
    BY <2>1, <2>3, SeqDef
<1> QED
  BY <1>2 DEF TypeInv, TablesOK, ReqsOK, TypeOK

(* A slot without a request. *)
LEMMA IdleOK == Idle \in Request /\ Idle.pc = "idle"
BY DEF Idle, Request, Text

(* Nothing is recorded at first. *)
LEMMA TypeInit == Init => TypeInv
<1> SUFFICES ASSUME Init PROVE TypeInv
  OBVIOUS
<1>1. TablesOK /\ FilesOK /\ MinutesOK
  <2>1. second \in 0..MaxSecond
    BY BoundsAssumption DEF Init
  <2>2. recordings = <<>> /\ batches = <<>> /\ minutes = None /\ objects = {}
    BY DEF Init
  <2>3. recordings \in Seq(Object) /\ batches \in Seq(Text)
    BY <2>2
  <2>4. DOMAIN recordings = {} /\ DOMAIN batches = {}
    BY <2>2
  <2>5. mails \in Nat /\ faults \in Nat /\ hasMail \in BOOLEAN /\ joined \in BOOLEAN
    BY DEF Init
  <2> QED
    BY <2>1, <2>2, <2>3, <2>4, <2>5 DEF TablesOK, FilesOK, MinutesOK
<1>2. ReqsOK
  <2> DEFINE x == Idle
  <2>1. x \in Request /\ x.pc = "idle"
    BY IdleOK
  <2>2. req = [p \in Requests |-> x]
    BY DEF Init
  <2> HIDE DEF x
  <2> QED
    BY <2>1, <2>2 DEF ReqsOK, ReqOK
<1> QED
  BY <1>1, <1>2 DEF TypeInv

--------------------------------------------------------------------------------
(* Objects and rows stay. *)
Grows ==
  /\ objects \subseteq objects'
  /\ Len(recordings) \in Nat /\ Len(recordings') \in Nat
  /\ Len(recordings) <= Len(recordings')
  /\ \A text : Saved(text, batches) => Saved(text, batches')

(* What a request relies on stays. *)
LEMMA ReqOKGrows ==
  ASSUME NEW x, ReqOK(x, objects, Len(recordings), batches), Grows
  PROVE  ReqOK(x, objects', Len(recordings'), batches')
<1>1. 1..Len(recordings) \subseteq 1..Len(recordings')
  BY DEF Grows
<1>2. x.text \subseteq 1..Len(recordings) => x.text \subseteq 1..Len(recordings')
  BY <1>1
<1> QED
  BY <1>2 DEF ReqOK, Grows

(* A step of one request. *)
LEMMA OneRequest ==
  ASSUME TypeInv, NEW p \in Requests, NEW x, req' = [req EXCEPT ![p] = x], Grows,
         ReqOK(x, objects', Len(recordings'), batches')
  PROVE  ReqsOK'
<1>1. req \in [Requests -> Request] /\ x \in Request
  BY DEF TypeInv, ReqsOK, ReqOK
<1>2. \A q \in Requests : ReqOK(req[q], objects', Len(recordings'), batches')
  BY ReqOKGrows DEF TypeInv, ReqsOK
<1> QED
  BY <1>1, <1>2 DEF ReqsOK

(* Goto leaves everything but pc. *)
LEMMA GotoFields ==
  ASSUME TypeInv, NEW p \in Requests, NEW l, l \in {"record", "minutes", "sent"}, Goto(p, l)
  PROVE  \E x \in Request :
           /\ req' = [req EXCEPT ![p] = x]
           /\ x.pc = l /\ x.file = req[p].file /\ x.text = req[p].text
<1> DEFINE x == [req[p] EXCEPT !.pc = l]
<1>1. req[p] \in Request
  BY DEF TypeInv, ReqsOK
<1>2. x \in Request /\ x.pc = l /\ x.file = req[p].file /\ x.text = req[p].text
  BY <1>1 DEF Request
<1>3. req' = [req EXCEPT ![p] = x]
  BY DEF Goto
<1> HIDE DEF x
<1> QED
  BY <1>2, <1>3

(* Answer and Reply end a request. *)
LEMMA AnswerFields ==
  ASSUME TypeInv, NEW p \in Requests, NEW a \in {"ok", "error"}, Answer(p, a)
  PROVE  \E x \in Request : req' = [req EXCEPT ![p] = x] /\ x.pc = "done"
<1> DEFINE x == [req[p] EXCEPT !.pc = "done", !.ans = a]
<1>1. req[p] \in Request
  BY DEF TypeInv, ReqsOK
<1>2. x \in Request /\ x.pc = "done"
  BY <1>1 DEF Request
<1>3. req' = [req EXCEPT ![p] = x]
  BY DEF Answer
<1> HIDE DEF x
<1> QED
  BY <1>2, <1>3

(* Reply. *)
LEMMA ReplyFields ==
  ASSUME TypeInv, NEW p \in Requests, NEW op \in {"upload", "transcribe"},
         NEW a \in {"ok", "error"}, Reply(p, op, a)
  PROVE  \E x \in Request : req' = [req EXCEPT ![p] = x] /\ x.pc = "done"
<1> DEFINE x == [op |-> op, pc |-> "done", file |-> None, text |-> {}, to |-> FALSE, ans |-> a]
<1>2. x \in Request /\ x.pc = "done"
  BY DEF Request, Text
<1>3. req' = [req EXCEPT ![p] = x]
  BY DEF Reply
<1> HIDE DEF x
<1> QED
  BY <1>2, <1>3

(* Arrive. *)
LEMMA ArriveFields ==
  ASSUME NEW p \in Requests, NEW op \in {"upload", "transcribe"}, NEW l \in {"record", "speech"},
         NEW file \in Object \cup {None}, NEW text \in Text, Arrive(p, op, l, file, text)
  PROVE  \E x \in Request :
           req' = [req EXCEPT ![p] = x] /\ x.pc = l /\ x.file = file /\ x.text = text
<1> DEFINE x == [op |-> op, pc |-> l, file |-> file, text |-> text, to |-> FALSE, ans |-> "none"]
<1>2. x \in Request /\ x.pc = l /\ x.file = file /\ x.text = text
  BY DEF Request
<1>3. req' = [req EXCEPT ![p] = x]
  BY DEF Arrive
<1> HIDE DEF x
<1> QED
  BY <1>2, <1>3

--------------------------------------------------------------------------------
(* Objects, rows and texts untouched. *)
LEMMA SameGrows ==
  ASSUME TypeInv, objects \subseteq objects', UNCHANGED <<recordings, batches>>
  PROVE  Grows
BY DEF TypeInv, TablesOK, Grows

(* A request that ends relies on nothing. *)
LEMMA DoneOK == ASSUME NEW x \in Request, x.pc = "done", NEW o, NEW n, NEW b PROVE ReqOK(x, o, n, b)
BY DEF ReqOK

(* A request that ends in a step that keeps the rows. *)
LEMMA Ends ==
  ASSUME TypeInv, NEW p \in Requests, Grows,
         \/ \E a \in {"ok", "error"} : Answer(p, a)
         \/ \E op \in {"upload", "transcribe"}, a \in {"ok", "error"} : Reply(p, op, a)
  PROVE  ReqsOK'
<1>1. PICK x \in Request : req' = [req EXCEPT ![p] = x] /\ x.pc = "done"
  BY AnswerFields, ReplyFields
<1> QED
  BY <1>1, DoneOK, OneRequest

(* The object is stored before its row is written. *)
LEMMA UploadStep == ASSUME TypeInv, NEW p \in Requests, NEW u \in Users, UploadFile(p, u)
                    PROVE  TypeInv'
<1> DEFINE f == [user |-> u, at |-> second]
<1>1. f \in Object
  BY DEF Object, TypeInv, TablesOK
<1>2. /\ objects' = objects \/ objects' = objects \cup {f}
      /\ UNCHANGED <<second, recordings, batches, minutes, hasMail, joined, mails>>
      /\ faults' = faults \/ faults' = faults + 1
  BY DEF UploadFile, Works, Fails
<1>3. \/ f \in objects' /\ Arrive(p, "upload", "record", f, {})
      \/ Reply(p, "upload", "error")
  BY DEF UploadFile, UploadFailed
<1> HIDE DEF f
<1>4. Grows
  BY <1>2, SameGrows
<1>5. TablesOK' /\ FilesOK' /\ MinutesOK'
  BY <1>1, <1>2 DEF TypeInv, TablesOK, FilesOK, MinutesOK
<1>6. ASSUME f \in objects', Arrive(p, "upload", "record", f, {}) PROVE ReqsOK'
  <2>1. {} \in Text
    BY DEF Text
  <2>2. PICK x \in Request : req' = [req EXCEPT ![p] = x] /\ x.pc = "record" /\ x.file = f
    BY <1>1, <1>6, <2>1, ArriveFields
  <2>3. ReqOK(x, objects', Len(recordings'), batches')
    BY <1>6, <2>2 DEF ReqOK
  <2> QED
    BY <1>4, <2>2, <2>3, OneRequest
<1> QED
  BY <1>3, <1>4, <1>5, <1>6, Ends DEF TypeInv

(* The row names the object that was stored. *)
LEMMA RecordStep == ASSUME TypeInv, NEW p \in Requests, CreateRecording(p) PROVE TypeInv'
<1> DEFINE f == req[p].file
<1>1. f \in objects /\ f \in Object
  BY DEF TypeInv, TablesOK, ReqsOK, ReqOK, CreateRecording, At
<1>2. /\ recordings' = recordings \/ recordings' = Append(recordings, f)
      /\ UNCHANGED <<second, objects, batches, minutes, hasMail, joined, mails>>
      /\ faults' = faults \/ faults' = faults + 1
      /\ \E a \in {"ok", "error"} : Answer(p, a)
  BY DEF CreateRecording, Works, Fails
<1> HIDE DEF f
<1>3. recordings \in Seq(Object)
  BY DEF TypeInv, TablesOK
<1>4. /\ Len(recordings) \in Nat /\ DOMAIN recordings = 1..Len(recordings)
      /\ Append(recordings, f) \in Seq(Object)
      /\ Len(Append(recordings, f)) = Len(recordings) + 1
      /\ DOMAIN Append(recordings, f) = 1..(Len(recordings) + 1)
      /\ \A i \in 1..Len(recordings) : Append(recordings, f)[i] = recordings[i]
      /\ Append(recordings, f)[Len(recordings) + 1] = f
  BY <1>1, <1>3
<1>5. Grows
  <2>1. Len(recordings') \in Nat /\ Len(recordings) <= Len(recordings')
    BY <1>2, <1>4
  <2> QED
    BY <1>2, <1>4, <2>1 DEF Grows
<1>6. FilesOK'
  <2>1. CASE recordings' = recordings
    BY <1>2, <2>1 DEF TypeInv, FilesOK
  <2>2. CASE recordings' = Append(recordings, f)
    <3> SUFFICES ASSUME NEW k \in 1..(Len(recordings) + 1) PROVE Append(recordings, f)[k] \in objects
      BY <1>2, <1>4, <2>2 DEF FilesOK
    <3>1. k \in 1..Len(recordings) \/ k = Len(recordings) + 1
      BY <1>4
    <3> QED
      BY <1>1, <1>4, <3>1 DEF TypeInv, FilesOK
  <2> QED
    BY <1>2, <2>1, <2>2
<1>7. TablesOK'
  <2>1. 1..Len(recordings) \subseteq 1..Len(recordings')
    BY <1>2, <1>4
  <2>2. recordings' \in Seq(Object)
    BY <1>2, <1>3, <1>4
  <2>3. \A k \in DOMAIN batches' : batches'[k] # {} /\ batches'[k] \subseteq 1..Len(recordings')
    BY <1>2, <2>1 DEF TypeInv, TablesOK
  <2> QED
    BY <1>2, <2>2, <2>3 DEF TypeInv, TablesOK
<1> QED
  BY <1>2, <1>5, <1>6, <1>7, Ends DEF TypeInv, MinutesOK

(* A request that goes on to l with a text that was saved, if l needs it.   *)
LEMMA GoesOn ==
  ASSUME TypeInv, NEW p \in Requests, NEW l, l \in {"minutes", "sent"}, Goto(p, l), Grows,
         Saved(req[p].text, batches')
  PROVE  ReqsOK'
<1>1. PICK x \in Request : req' = [req EXCEPT ![p] = x] /\ x.pc = l /\ x.text = req[p].text
  BY GotoFields
<1>2. ReqOK(x, objects', Len(recordings'), batches')
  BY <1>1 DEF ReqOK
<1> QED
  BY <1>1, <1>2, OneRequest

(* The recordings read exist. *)
LEMMA ReadStep == ASSUME TypeInv, NEW p \in Requests, TranscribeReadRecordings(p) PROVE TypeInv'
<1>1. /\ UNCHANGED <<second, objects, recordings, batches, minutes, hasMail, joined, mails>>
      /\ faults' = faults \/ faults' = faults + 1
      /\ \/ Arrive(p, "transcribe", "speech", None, DOMAIN recordings)
         \/ Reply(p, "transcribe", "error")
  BY DEF TranscribeReadRecordings, Works, Fails
<1>2. TablesOK' /\ FilesOK' /\ MinutesOK'
  BY <1>1 DEF TypeInv, TablesOK, FilesOK, MinutesOK
<1>3. Grows
  BY <1>1, SameGrows
<1>4. ASSUME Arrive(p, "transcribe", "speech", None, DOMAIN recordings) PROVE ReqsOK'
  <2>1. DOMAIN recordings = 1..Len(recordings) /\ DOMAIN recordings \in Text
    BY DEF TypeInv, TablesOK, Text
  <2>2. PICK x \in Request : req' = [req EXCEPT ![p] = x] /\ x.pc = "speech"
                             /\ x.text = DOMAIN recordings
    BY <1>4, <2>1, ArriveFields
  <2>3. ReqOK(x, objects', Len(recordings'), batches')
    BY <1>1, <2>1, <2>2 DEF ReqOK
  <2> QED
    BY <1>3, <2>2, <2>3, OneRequest
<1> QED
  BY <1>1, <1>2, <1>3, <1>4, Ends DEF TypeInv

(* Some of what was asked for came back. *)
LEMMA SpeechStep == ASSUME TypeInv, NEW p \in Requests, TranscribeFromGCS(p) PROVE TypeInv'
<1>1. UNCHANGED <<second, objects, recordings, batches, minutes, hasMail, joined, mails, faults>>
  BY DEF TranscribeFromGCS
<1>2. TablesOK' /\ FilesOK' /\ MinutesOK'
  BY <1>1 DEF TypeInv, TablesOK, FilesOK, MinutesOK
<1>3. Grows
  BY <1>1, SameGrows
<1>4. ASSUME NEW ok \in Results(req[p].text),
             req' = [req EXCEPT ![p].pc = "batch", ![p].text = ok]
      PROVE  ReqsOK'
  <2> DEFINE x == [req[p] EXCEPT !.pc = "batch", !.text = ok]
  <2>1. req[p] \in Request /\ req[p].text \subseteq 1..Len(recordings)
    BY DEF TypeInv, ReqsOK, ReqOK, TranscribeFromGCS, At
  <2>2. ok # {} /\ ok \subseteq 1..Len(recordings) /\ ok \in Text
    BY <2>1 DEF Results, Request, Text
  <2>3. x \in Request /\ x.pc = "batch" /\ x.text = ok
    BY <2>1, <2>2 DEF Request
  <2>4. req' = [req EXCEPT ![p] = x]
    BY <1>4
  <2> HIDE DEF x
  <2>5. ReqOK(x, objects', Len(recordings'), batches')
    BY <1>1, <2>2, <2>3 DEF ReqOK
  <2> QED
    BY <1>3, <2>4, <2>5, OneRequest
<1> QED
  BY <1>2, <1>3, <1>4, Ends DEF TypeInv, TranscribeFromGCS

(* The batch is saved whole, or not at all. *)
LEMMA BatchStep == ASSUME TypeInv, NEW p \in Requests, CreateBatch(p) PROVE TypeInv'
<1> DEFINE text == req[p].text
           created == Append(batches, text)
<1>1. text \in Text /\ text # {} /\ text \subseteq 1..Len(recordings)
  BY DEF TypeInv, ReqsOK, ReqOK, CreateBatch, At, Request
<1>2. /\ UNCHANGED <<second, objects, recordings, minutes, hasMail, joined, mails>>
      /\ faults' = faults \/ faults' = faults + 1
      /\ batches' = batches \/ batches' = created
      /\ \/ batches' = created /\ Goto(p, "minutes")
         \/ Answer(p, "error")
  BY DEF CreateBatch, Works, Fails, BatchFailed
<1>3. batches \in Seq(Text)
  BY DEF TypeInv, TablesOK
<1> HIDE DEF text
<1>4. /\ created \in Seq(Text)
      /\ DOMAIN batches = 1..Len(batches) /\ Len(batches) \in Nat
      /\ DOMAIN created = 1..(Len(batches) + 1)
      /\ \A k \in 1..Len(batches) : created[k] = batches[k]
      /\ created[Len(batches) + 1] = text
  BY <1>1, <1>3
<1> HIDE DEF created
<1>5. Saved(text, created)
  <2>1. Len(batches) + 1 \in DOMAIN created
    BY <1>4
  <2> QED
    BY <1>4, <2>1 DEF Saved
<1>6. Grows
  <2>1. \A t : Saved(t, batches) => Saved(t, created)
    <3>1. DOMAIN batches \subseteq DOMAIN created
      BY <1>4
    <3> QED
      BY <1>4, <3>1 DEF Saved
  <2>2. Len(recordings) \in Nat
    BY DEF TypeInv, TablesOK
  <2> QED
    BY <1>2, <2>1, <2>2 DEF Grows
<1>7. \A k \in DOMAIN created : created[k] # {} /\ created[k] \subseteq 1..Len(recordings)
  <2> SUFFICES ASSUME NEW k \in DOMAIN created
               PROVE  created[k] # {} /\ created[k] \subseteq 1..Len(recordings)
    OBVIOUS
  <2>1. k \in 1..Len(batches) \/ k = Len(batches) + 1
    BY <1>4
  <2> QED
    BY <1>1, <1>4, <2>1 DEF TypeInv, TablesOK
<1>8. TablesOK' /\ FilesOK'
  <2>1. /\ batches' \in Seq(Text)
        /\ \A k \in DOMAIN batches' : batches'[k] # {} /\ batches'[k] \subseteq 1..Len(recordings)
    <3>1. CASE batches' = batches
      BY <3>1 DEF TypeInv, TablesOK
    <3>2. CASE batches' = created
      BY <3>2, <1>4, <1>7
    <3> QED
      BY <1>2, <3>1, <3>2
  <2>2. faults' \in Nat
    BY <1>2 DEF TypeInv, TablesOK
  <2> QED
    BY <1>2, <2>1, <2>2 DEF TypeInv, TablesOK, FilesOK
<1>9. MinutesOK'
  BY <1>2, <1>6 DEF TypeInv, MinutesOK, Grows
<1>10. ASSUME batches' = created, Goto(p, "minutes") PROVE ReqsOK'
  BY <1>5, <1>6, <1>10, GoesOn DEF text
<1> QED
  BY <1>2, <1>6, <1>8, <1>9, <1>10, Ends DEF TypeInv

(* The minutes have a text that was saved. *)
LEMMA MinutesStep == ASSUME TypeInv, NEW p \in Requests, CreateMinutes(p) PROVE TypeInv'
<1> DEFINE created == [text |-> req[p].text, sent |-> FALSE]
<1>1. req[p] \in Request /\ Saved(req[p].text, batches)
  BY DEF TypeInv, ReqsOK, ReqOK, CreateMinutes, At
<1>2. /\ UNCHANGED <<second, objects, recordings, batches, hasMail, joined, mails>>
      /\ faults' = faults \/ faults' = faults + 1
      /\ minutes' = minutes \/ minutes' = created
      /\ \/ req' = [req EXCEPT ![p].pc = "mail", ![p].to = joined]
         \/ Answer(p, "error")
  BY DEF CreateMinutes, Works, Fails
<1>3. Grows
  BY <1>2, SameGrows
<1>4. created \in Minutes /\ created.text = req[p].text
  BY <1>1 DEF Minutes, Request
<1> HIDE DEF created
<1>5. TablesOK' /\ FilesOK'
  BY <1>2, <1>4 DEF TypeInv, TablesOK, FilesOK
<1>6. MinutesOK'
  BY <1>1, <1>2, <1>4 DEF TypeInv, MinutesOK
<1>7. ASSUME req' = [req EXCEPT ![p].pc = "mail", ![p].to = joined] PROVE ReqsOK'
  <2> DEFINE x == [req[p] EXCEPT !.pc = "mail", !.to = joined]
  <2>1. joined \in BOOLEAN
    BY DEF TypeInv, TablesOK
  <2>2. x \in Request /\ x.pc = "mail" /\ x.text = req[p].text
    BY <1>1, <2>1 DEF Request
  <2>3. req' = [req EXCEPT ![p] = x]
    BY <1>7
  <2> HIDE DEF x
  <2>4. ReqOK(x, objects', Len(recordings'), batches')
    BY <1>1, <1>2, <2>2 DEF ReqOK
  <2> QED
    BY <1>3, <2>3, <2>4, OneRequest
<1> QED
  BY <1>2, <1>3, <1>5, <1>6, <1>7, Ends DEF TypeInv

(* A mail changes no table. *)
LEMMA MailStep == ASSUME TypeInv, NEW p \in Requests, SendMinutesEmail(p) PROVE TypeInv'
<1>1. /\ UNCHANGED <<second, objects, recordings, batches, minutes, hasMail, joined>>
      /\ faults' = faults \/ faults' = faults + 1
      /\ mails' = mails \/ mails' = mails + 1
      /\ Goto(p, "sent") \/ Answer(p, "ok")
  BY DEF SendMinutesEmail, Works, Fails, MailFailed
<1>2. Saved(req[p].text, batches')
  BY <1>1 DEF TypeInv, ReqsOK, ReqOK, SendMinutesEmail, At
<1>3. Grows
  BY <1>1, SameGrows
<1>4. TablesOK' /\ FilesOK' /\ MinutesOK'
  BY <1>1 DEF TypeInv, TablesOK, FilesOK, MinutesOK
<1> QED
  BY <1>1, <1>2, <1>3, <1>4, GoesOn, Ends DEF TypeInv

(* The mark writes the text again. *)
LEMMA MarkStep == ASSUME TypeInv, NEW p \in Requests, MarkSent(p) PROVE TypeInv'
<1> DEFINE marked == Marked(req[p].text)
<1>1. req[p] \in Request /\ Saved(req[p].text, batches)
  BY DEF TypeInv, ReqsOK, ReqOK, MarkSent, At
<1>2. /\ UNCHANGED <<second, objects, recordings, batches, hasMail, joined, mails>>
      /\ faults' = faults \/ faults' = faults + 1
      /\ minutes' = minutes \/ minutes' = marked
      /\ Answer(p, "ok")
  BY DEF MarkSent, Works, Fails
<1>3. Grows
  BY <1>2, SameGrows
<1>4. marked \in Minutes /\ marked.text = req[p].text
  BY <1>1 DEF Marked, Minutes, Request
<1> HIDE DEF marked
<1>5. TablesOK' /\ FilesOK' /\ MinutesOK'
  BY <1>1, <1>2, <1>4 DEF TypeInv, TablesOK, FilesOK, MinutesOK
<1> QED
  BY <1>2, <1>3, <1>5, Ends DEF TypeInv

(* A restart ends every request. *)
LEMMA RestartStep == ASSUME TypeInv, Restart PROVE TypeInv'
<1>1. /\ UNCHANGED <<second, objects, recordings, batches, minutes, hasMail, joined, mails>>
      /\ faults' = faults + 1
  BY DEF Restart, Fails
<1>2. TablesOK' /\ FilesOK' /\ MinutesOK'
  BY <1>1 DEF TypeInv, TablesOK, FilesOK, MinutesOK
<1>3. ASSUME NEW p \in Requests
      PROVE  req'[p] = req[p] \/ (req'[p] \in Request /\ req'[p].pc = "done")
  <2>1. req[p] \in Request
    BY DEF TypeInv, ReqsOK
  <2>2. req'[p] = req[p] \/ req'[p] = [req[p] EXCEPT !.pc = "done", !.ans = "lost"]
    BY DEF Restart
  <2> QED
    BY <2>1, <2>2 DEF Request
<1>4. \A p \in Requests : ReqOK(req'[p], objects', Len(recordings'), batches')
  BY <1>1, <1>3, DoneOK DEF TypeInv, ReqsOK
<1>5. req' \in [Requests -> Request]
  <2>1. \A p \in Requests : req'[p] \in Request
    BY <1>3 DEF TypeInv, ReqsOK
  <2>2. DOMAIN req' = Requests /\ req' = [p \in DOMAIN req' |-> req'[p]]
    BY DEF Restart
  <2> QED
    BY <2>1, <2>2
<1> QED
  BY <1>2, <1>4, <1>5 DEF TypeInv, ReqsOK

(* Every step keeps the invariant. *)
LEMMA TypeStep == TypeInv /\ [Next]_vars => TypeInv'
<1> SUFFICES ASSUME TypeInv, [Next]_vars PROVE TypeInv'
  OBVIOUS
<1>1. ASSUME NEW p \in Requests, Begin(p) PROVE TypeInv'
  <2>1. CASE RejectUpload(p)
    <3>1. /\ UNCHANGED <<second, objects, recordings, batches, minutes, hasMail, joined, mails, faults>>
          /\ Reply(p, "upload", "error")
      BY <2>1 DEF RejectUpload
    <3>2. TablesOK' /\ FilesOK' /\ MinutesOK' /\ Grows
      BY <3>1, SameGrows DEF TypeInv, TablesOK, FilesOK, MinutesOK
    <3> QED
      BY <3>1, <3>2, Ends DEF TypeInv
  <2> QED
    BY <1>1, <2>1, UploadStep, ReadStep DEF Begin
<1>2. ASSUME NEW p \in Requests, Continue(p) PROVE TypeInv'
  BY <1>2, RecordStep, SpeechStep, BatchStep, MinutesStep, MailStep, MarkStep DEF Continue
<1>3. CASE Join \/ Tick
  <2>1. UNCHANGED <<objects, recordings, batches, minutes, hasMail, mails, req, faults>>
    BY <1>3 DEF Join, Tick
  <2>2. second' \in 0..MaxSecond
    <3>1. CASE Join
      BY <3>1 DEF Join, TypeInv, TablesOK
    <3>2. CASE Tick
      BY <3>2, BoundsAssumption DEF Tick, TypeInv, TablesOK
    <3> QED
      BY <1>3, <3>1, <3>2
  <2>3. joined' \in BOOLEAN
    BY <1>3 DEF Join, Tick, TypeInv, TablesOK
  <2> QED
    BY <2>1, <2>2, <2>3 DEF TypeInv, TablesOK, FilesOK, MinutesOK, ReqsOK
<1>4. CASE UNCHANGED vars
  BY <1>4 DEF vars, TypeInv, TablesOK, FilesOK, MinutesOK, ReqsOK
<1> QED
  BY <1>1, <1>2, <1>3, <1>4, RestartStep DEF Next

(***************************************************************************)
(* The tables and the handlers' variables keep their types: no batch is    *)
(* empty, and each is about recordings that exist.                         *)
(***************************************************************************)
THEOREM RecordingTypeCorrect == Spec => []TypeOK
<1> QED
  BY TypeInit, TypeStep, TypeInvTypes, PTL DEF Spec

(***************************************************************************)
(* Whatever fails between storage and table, a row names an object that is *)
(* in storage.                                                             *)
(***************************************************************************)
THEOREM RecordingsHaveFilesHolds == Spec => []RecordingsHaveFiles
<1>1. TypeInv => RecordingsHaveFiles
  BY DEF TypeInv, FilesOK, RecordingsHaveFiles
<1> QED
  BY <1>1, TypeInit, TypeStep, PTL DEF Spec

(***************************************************************************)
(* The minutes are one of the transcriptions saved.                        *)
(***************************************************************************)
THEOREM MinutesWereSavedHolds == Spec => []MinutesWereSaved
<1>1. TypeInv => MinutesWereSaved
  BY DEF TypeInv, MinutesOK, Saved, MinutesWereSaved
<1> QED
  BY <1>1, TypeInit, TypeStep, PTL DEF Spec

--------------------------------------------------------------------------------
(***************************************************************************)
(* The mail: the one request that wrote the minutes, and no other, is about *)
(* to mail or to mark them.                                                *)
(***************************************************************************)
Mailing(x) == x.pc \in {"mail", "sent"}

MailInv ==
  /\ minutes = None => mails = 0
  /\ mails \in {0, 1}
  /\ minutes # None /\ minutes.sent /\ hasMail => mails = 1
  /\ \A p \in Requests : Mailing(req[p]) =>
       /\ minutes # None /\ minutes.text = req[p].text /\ minutes.sent = FALSE
       /\ req[p].pc = "mail" => mails = 0
       /\ req[p].pc = "sent" /\ hasMail => mails = 1
       /\ \A q \in Requests : Mailing(req[q]) => p = q

(* Steps that touch neither the minutes nor the mails, and send no request *)
(* to the mail.                                                            *)
Quiet ==
  /\ UNCHANGED <<minutes, mails, hasMail>>
  /\ \A p \in Requests : Mailing(req'[p]) => req'[p] = req[p]

(* They keep the invariant. *)
LEMMA QuietStep == MailInv /\ Quiet => MailInv'
BY DEF MailInv, Quiet

(* One request that ends, or goes where there is no mail. *)
LEMMA QuietRequest ==
  ASSUME TypeInv, NEW p \in Requests, NEW x, ~Mailing(x), req' = [req EXCEPT ![p] = x],
         UNCHANGED <<minutes, mails, hasMail>>
  PROVE  Quiet
BY DEF TypeInv, ReqsOK, Quiet

(* The forms of such a step. *)
LEMMA QuietForms ==
  ASSUME TypeInv, NEW p \in Requests, UNCHANGED <<minutes, mails, hasMail>>,
         \/ \E a \in {"ok", "error"} : Answer(p, a)
         \/ \E op \in {"upload", "transcribe"}, a \in {"ok", "error"} : Reply(p, op, a)
         \/ Goto(p, "minutes")
         \/ \E op, file, text : \E l \in {"record", "speech"} : Arrive(p, op, l, file, text)
  PROVE  Quiet
<1>1. CASE \/ \E a \in {"ok", "error"} : Answer(p, a)
           \/ \E op \in {"upload", "transcribe"}, a \in {"ok", "error"} : Reply(p, op, a)
  <2>1. PICK x \in Request : req' = [req EXCEPT ![p] = x] /\ x.pc = "done"
    BY <1>1, AnswerFields, ReplyFields
  <2> QED
    BY <2>1, QuietRequest DEF Mailing
<1>2. CASE Goto(p, "minutes")
  <2>1. PICK x \in Request : req' = [req EXCEPT ![p] = x] /\ x.pc = "minutes"
    BY <1>2, GotoFields
  <2> QED
    BY <2>1, QuietRequest DEF Mailing
<1>3. ASSUME NEW op, NEW file, NEW text, NEW l \in {"record", "speech"},
             Arrive(p, op, l, file, text)
      PROVE  Quiet
  <2> DEFINE x == [op |-> op, pc |-> l, file |-> file, text |-> text, to |-> FALSE, ans |-> "none"]
  <2>1. req' = [req EXCEPT ![p] = x] /\ x.pc = l
    BY <1>3 DEF Arrive
  <2> HIDE DEF x
  <2> QED
    BY <2>1, QuietRequest DEF Mailing
<1> QED
  BY <1>1, <1>2, <1>3

(* The minutes are inserted once, and nobody was mailing without them. *)
LEMMA MinutesMail == ASSUME TypeInv, MailInv, NEW p \in Requests, CreateMinutes(p) PROVE MailInv'
<1> DEFINE created == [text |-> req[p].text, sent |-> FALSE]
<1>1. UNCHANGED <<mails, hasMail>>
  BY DEF CreateMinutes
<1>2. created \in Minutes /\ created.text = req[p].text /\ created.sent = FALSE
  BY DEF Minutes, Request, TypeInv, ReqsOK
<1>3. created # None
  BY <1>2, NoneAssumption
<1>4. \/ /\ minutes = None /\ minutes' = created
         /\ req' = [req EXCEPT ![p].pc = "mail", ![p].to = joined]
      \/ /\ minutes' = minutes \/ (minutes = None /\ minutes' = created)
         /\ Answer(p, "error")
  BY DEF CreateMinutes, NoMinutesYet
<1> HIDE DEF created
<1>5. CASE /\ minutes = None /\ minutes' = created
           /\ req' = [req EXCEPT ![p].pc = "mail", ![p].to = joined]
  <2> DEFINE x == [req[p] EXCEPT !.pc = "mail", !.to = joined]
  <2>1. x.pc = "mail" /\ x.text = req[p].text
    BY DEF TypeInv, ReqsOK, Request
  <2>2. req' = [req EXCEPT ![p] = x] /\ req \in [Requests -> Request]
    BY <1>5 DEF TypeInv, ReqsOK
  <2> HIDE DEF x
  <2>3. req'[p] = x /\ \A q \in Requests \ {p} : req'[q] = req[q] /\ ~Mailing(req[q])
    BY <1>5, <2>2 DEF MailInv
  <2> QED
    BY <1>1, <1>2, <1>3, <1>5, <2>1, <2>3 DEF MailInv, Mailing
<1>6. CASE minutes' = minutes /\ Answer(p, "error")
  BY <1>1, <1>6, QuietForms, QuietStep
<1>7. CASE minutes = None /\ minutes' = created /\ Answer(p, "error")
  <2>1. PICK x \in Request : req' = [req EXCEPT ![p] = x] /\ x.pc = "done"
    BY <1>7, AnswerFields
  <2>2. \A q \in Requests : ~Mailing(req'[q])
    BY <1>7, <2>1 DEF MailInv, Mailing, TypeInv, ReqsOK
  <2> QED
    BY <1>1, <1>2, <1>3, <1>7, <2>2 DEF MailInv
<1> QED
  BY <1>4, <1>5, <1>6, <1>7

(* The mail goes out once. *)
LEMMA MailMail == ASSUME TypeInv, MailInv, NEW p \in Requests, SendMinutesEmail(p) PROVE MailInv'
<1>1. /\ req[p].pc = "mail" /\ mails = 0 /\ minutes # None /\ minutes.sent = FALSE
      /\ minutes.text = req[p].text
      /\ \A q \in Requests : Mailing(req[q]) => q = p
  BY DEF SendMinutesEmail, At, MailInv, Mailing
<1>2. /\ UNCHANGED <<minutes, hasMail>>
      /\ mails' \in {0, 1}
      /\ \/ Goto(p, "sent") /\ (hasMail => mails' = 1)
         \/ Answer(p, "ok")
  BY <1>1 DEF SendMinutesEmail, MailFailed
<1>3. \A q \in Requests \ {p} : ~Mailing(req[q])
  BY <1>1
<1>4. CASE Goto(p, "sent") /\ (hasMail => mails' = 1)
  <2>1. PICK x \in Request : req' = [req EXCEPT ![p] = x] /\ x.pc = "sent" /\ x.text = req[p].text
    BY <1>4, GotoFields
  <2>2. req'[p] = x /\ \A q \in Requests \ {p} : req'[q] = req[q]
    BY <2>1 DEF TypeInv, ReqsOK
  <2>3. \A q \in Requests : Mailing(req'[q]) => q = p
    BY <1>3, <2>2
  <2> QED
    BY <1>1, <1>2, <1>4, <2>1, <2>2, <2>3 DEF MailInv
<1>5. CASE Answer(p, "ok")
  <2>1. PICK x \in Request : req' = [req EXCEPT ![p] = x] /\ x.pc = "done"
    BY <1>5, AnswerFields
  <2>2. \A q \in Requests : ~Mailing(req'[q])
    BY <1>3, <2>1 DEF Mailing, TypeInv, ReqsOK
  <2> QED
    BY <1>1, <1>2, <2>2 DEF MailInv
<1> QED
  BY <1>2, <1>4, <1>5

(* The mark says no more than what was sent. *)
LEMMA MarkMail == ASSUME TypeInv, MailInv, NEW p \in Requests, MarkSent(p) PROVE MailInv'
<1> DEFINE marked == Marked(req[p].text)
<1>1. /\ req[p].pc = "sent" /\ minutes # None /\ (hasMail => mails = 1) /\ mails \in {0, 1}
      /\ \A q \in Requests : Mailing(req[q]) => q = p
  BY DEF MarkSent, At, MailInv, Mailing
<1>2. /\ UNCHANGED <<mails, hasMail>> /\ Answer(p, "ok")
      /\ minutes' = minutes \/ minutes' = marked
  BY DEF MarkSent
<1>3. marked \in Minutes
  BY DEF Marked, Minutes, Request, TypeInv, ReqsOK
<1>4. marked # None
  BY <1>3, NoneAssumption
<1> HIDE DEF marked
<1>5. PICK x \in Request : req' = [req EXCEPT ![p] = x] /\ x.pc = "done"
  BY <1>2, AnswerFields
<1>6. \A q \in Requests : ~Mailing(req'[q])
  BY <1>1, <1>5 DEF Mailing, TypeInv, ReqsOK
<1> QED
  BY <1>1, <1>2, <1>4, <1>6 DEF MailInv

(* Every step keeps it. *)
LEMMA MailInvStep == TypeInv /\ MailInv /\ [Next]_vars => MailInv'
<1> SUFFICES ASSUME TypeInv, MailInv, [Next]_vars PROVE MailInv'
  OBVIOUS
<1>1. ASSUME NEW p \in Requests, Begin(p) PROVE MailInv'
  <2>1. UNCHANGED <<minutes, mails, hasMail>>
    BY <1>1 DEF Begin, UploadFile, RejectUpload, TranscribeReadRecordings
  <2>2. \/ \E op \in {"upload", "transcribe"}, a \in {"ok", "error"} : Reply(p, op, a)
        \/ \E op, file, text : \E l \in {"record", "speech"} : Arrive(p, op, l, file, text)
    BY <1>1 DEF Begin, UploadFile, UploadFailed, RejectUpload, TranscribeReadRecordings
  <2> QED
    BY <2>1, <2>2, QuietForms, QuietStep
<1>2. ASSUME NEW p \in Requests, CreateRecording(p) \/ CreateBatch(p) PROVE MailInv'
  BY <1>2, QuietForms, QuietStep DEF CreateRecording, CreateBatch, BatchFailed
<1>3. ASSUME NEW p \in Requests, TranscribeFromGCS(p) PROVE MailInv'
  <2>1. ASSUME NEW ok, req' = [req EXCEPT ![p].pc = "batch", ![p].text = ok] PROVE Quiet
    <3> DEFINE x == [req[p] EXCEPT !.pc = "batch", !.text = ok]
    <3>1. req' = [req EXCEPT ![p] = x]
      BY <2>1
    <3>2. x.pc = "batch"
      BY DEF TypeInv, ReqsOK, Request
    <3> HIDE DEF x
    <3> QED
      BY <1>3, <3>1, <3>2, QuietRequest DEF Mailing, TranscribeFromGCS
  <2> QED
    BY <1>3, <2>1, QuietForms, QuietStep DEF TranscribeFromGCS
<1>4. ASSUME NEW p \in Requests, CreateMinutes(p) \/ SendMinutesEmail(p) \/ MarkSent(p)
      PROVE  MailInv'
  BY <1>4, MinutesMail, MailMail, MarkMail
<1>5. CASE Restart
  <2>1. UNCHANGED <<minutes, mails, hasMail>>
    BY <1>5 DEF Restart
  <2>2. ASSUME NEW q \in Requests PROVE Mailing(req'[q]) => req'[q] = req[q]
    <3>1. req[q] \in Request
      BY DEF TypeInv, ReqsOK
    <3>2. req'[q] = req[q] \/ req'[q] = [req[q] EXCEPT !.pc = "done", !.ans = "lost"]
      BY <1>5 DEF Restart
    <3> QED
      BY <3>1, <3>2 DEF Mailing, Request
  <2> QED
    BY <2>1, <2>2, QuietStep DEF Quiet
<1>6. CASE Join \/ Tick \/ UNCHANGED vars
  <2>1. UNCHANGED <<minutes, mails, hasMail, req>>
    BY <1>6 DEF Join, Tick, vars
  <2> QED
    BY <2>1, QuietStep DEF Quiet
<1> QED
  BY <1>1, <1>2, <1>3, <1>4, <1>5, <1>6 DEF Next, Continue

(* No minutes, no mail. *)
LEMMA MailInit == Init => MailInv
<1> SUFFICES ASSUME Init PROVE MailInv
  OBVIOUS
<1>1. \A p \in Requests : ~Mailing(req[p])
  BY IdleOK DEF Init, Mailing
<1> QED
  BY <1>1 DEF Init, MailInv

(* Who writes the minutes again writes what is there. *)
LEMMA FinalStep ==
  ASSUME TypeInv, MailInv, [Next]_vars, minutes # None
  PROVE  minutes' # None /\ minutes'.text = minutes.text /\ (minutes.sent => minutes'.sent)
<1>1. ASSUME NEW p \in Requests, MarkSent(p), minutes' # minutes
      PROVE  minutes' # None /\ minutes'.text = minutes.text /\ minutes'.sent
  <2> DEFINE marked == Marked(req[p].text)
  <2>1. minutes.text = req[p].text
    BY <1>1 DEF MarkSent, At, MailInv, Mailing
  <2>2. minutes' = marked
    BY <1>1 DEF MarkSent
  <2>3. marked \in Minutes /\ marked.text = req[p].text /\ marked.sent
    BY DEF Marked, Minutes, Request, TypeInv, ReqsOK
  <2> HIDE DEF marked
  <2> QED
    BY <2>1, <2>2, <2>3, NoneAssumption
<1>2. ASSUME NEW p \in Requests, Begin(p) \/ (Continue(p) /\ ~MarkSent(p)) PROVE minutes' = minutes
  BY <1>2 DEF Begin, UploadFile, RejectUpload, TranscribeReadRecordings, Continue, CreateRecording,
              TranscribeFromGCS, CreateBatch, CreateMinutes, NoMinutesYet, SendMinutesEmail
<1>3. Join \/ Tick \/ Restart \/ UNCHANGED vars => minutes' = minutes
  BY DEF Join, Tick, Restart, vars
<1> QED
  BY <1>1, <1>2, <1>3 DEF Next, Continue

(* What is mailed is marked, unless something fails. *)
SentInv ==
  mails = 1 /\ faults = 0 =>
    (minutes # None /\ minutes.sent) \/ \E p \in Requests : At(p, "sent")

(* A failure is counted for good. *)
LEMMA FaultStep == TypeInv /\ [Next]_vars => faults' = faults \/ (Fails /\ faults' # 0)
<1> SUFFICES ASSUME TypeInv, [Next]_vars PROVE faults' = faults \/ Fails
  BY DEF Fails, TypeInv, TablesOK, ReqsOK
<1>1. ASSUME NEW p \in Requests, Begin(p) PROVE faults' = faults \/ Fails
  BY <1>1 DEF Begin, UploadFile, RejectUpload, TranscribeReadRecordings, Works
<1>2. ASSUME NEW p \in Requests, Continue(p) PROVE faults' = faults \/ Fails
  BY <1>2 DEF Continue, CreateRecording, TranscribeFromGCS, CreateBatch, CreateMinutes,
              SendMinutesEmail, MarkSent, Works
<1>3. Join \/ Tick \/ Restart \/ UNCHANGED vars => faults' = faults \/ Fails
  BY DEF Join, Tick, Restart, vars
<1> QED
  BY <1>1, <1>2, <1>3 DEF Next

(* The request that mailed goes on to the mark, which works. *)
LEMMA SentWaits ==
  ASSUME TypeInv, [Next]_vars, faults' = 0, NEW p \in Requests, At(p, "sent")
  PROVE  At(p, "sent")' \/ (minutes' # None /\ minutes'.sent)
<1>f. ~Fails
  BY DEF Fails, TypeInv, TablesOK, ReqsOK
<1>1. CASE MarkSent(p)
  <2> DEFINE marked == Marked(req[p].text)
  <2>1. minutes' = marked
    BY <1>1, <1>f DEF MarkSent
  <2>2. marked \in Minutes /\ marked.sent
    BY DEF Marked, Minutes, Request, TypeInv, ReqsOK
  <2> HIDE DEF marked
  <2> QED
    BY <2>1, <2>2, NoneAssumption
<1>2. ASSUME NEW q \in Requests, q # p, \E x : req' = [req EXCEPT ![q] = x] PROVE At(p, "sent")'
  BY <1>2 DEF At, TypeInv, ReqsOK
<1>3. ASSUME NEW q \in Requests, Begin(q) PROVE At(p, "sent")'
  <2>1. q # p
    BY <1>3 DEF Begin, UploadFile, RejectUpload, TranscribeReadRecordings, Free, At
  <2>2. \E x : req' = [req EXCEPT ![q] = x]
    BY <1>3 DEF Begin, UploadFile, UploadFailed, RejectUpload, TranscribeReadRecordings, Arrive,
                Reply
  <2> QED
    BY <1>2, <2>1, <2>2
<1>4. ASSUME NEW q \in Requests, Continue(q), ~MarkSent(p) PROVE At(p, "sent")'
  <2>1. q # p
    BY <1>4 DEF Continue, CreateRecording, TranscribeFromGCS, CreateBatch, CreateMinutes,
                SendMinutesEmail, At
  <2>2. \/ (\E l : Goto(q, l)) \/ (\E a : Answer(q, a))
        \/ \E ok : req' = [req EXCEPT ![q].pc = "batch", ![q].text = ok]
        \/ req' = [req EXCEPT ![q].pc = "mail", ![q].to = joined]
    BY <1>4 DEF Continue, CreateRecording, TranscribeFromGCS, CreateBatch, BatchFailed,
                CreateMinutes, SendMinutesEmail, MailFailed, MarkSent
  <2> QED
    BY <2>1, <2>2 DEF At, Goto, Answer, TypeInv, ReqsOK
<1>5. Restart => FALSE
  BY <1>f DEF Restart
<1>6. Join \/ Tick \/ UNCHANGED vars => At(p, "sent")'
  BY DEF Join, Tick, vars, At
<1> QED
  BY <1>1, <1>3, <1>4, <1>5, <1>6 DEF Next

(* Every step keeps it. *)
LEMMA SentStep == TypeInv /\ MailInv /\ SentInv /\ [Next]_vars => SentInv'
<1> SUFFICES ASSUME TypeInv, MailInv, SentInv, [Next]_vars, mails' = 1, faults' = 0
             PROVE  (minutes' # None /\ minutes'.sent) \/ \E p \in Requests : At(p, "sent")'
  BY DEF SentInv
<1>f. faults = 0 /\ ~Fails
  BY FaultStep DEF Fails, TypeInv, TablesOK, ReqsOK
<1>1. CASE mails = 1
  <2>1. CASE minutes # None /\ minutes.sent
    BY <2>1, FinalStep
  <2>2. ASSUME NEW p \in Requests, At(p, "sent")
        PROVE  At(p, "sent")' \/ (minutes' # None /\ minutes'.sent)
    BY <2>2, SentWaits
  <2> QED
    BY <1>1, <1>f, <2>1, <2>2 DEF SentInv
<1>2. CASE mails # 1
  <2>1. ASSUME NEW p \in Requests, Begin(p) \/ (Continue(p) /\ ~SendMinutesEmail(p))
        PROVE  mails' = mails
    BY <2>1 DEF Begin, UploadFile, RejectUpload, TranscribeReadRecordings, Continue,
                CreateRecording, TranscribeFromGCS, CreateBatch, CreateMinutes, MarkSent
  <2>2. Join \/ Tick \/ Restart \/ UNCHANGED vars => mails' = mails
    BY DEF Join, Tick, Restart, vars
  <2>3. PICK p \in Requests : SendMinutesEmail(p)
    BY <1>2, <2>1, <2>2 DEF Next
  <2>4. Goto(p, "sent")
    BY <1>2, <1>f, <2>3 DEF SendMinutesEmail
  <2> QED
    BY <2>4 DEF Goto, At, TypeInv, ReqsOK, Request
<1> QED
  BY <1>1, <1>2

(***************************************************************************)
(* At most one mail; with a mail client no mark without it; and unless     *)
(* something failed no mail without the mark, however many transcriptions  *)
(* run at once.                                                            *)
(***************************************************************************)
THEOREM OneMailHolds == Spec => []OneMail
<1>1. Init => SentInv
  BY DEF Init, SentInv
<1>2. MailInv /\ SentInv => OneMail
  BY DEF MailInv, SentInv, OneMail
<1> QED
  BY <1>1, <1>2, TypeInit, TypeStep, MailInit, MailInvStep, SentStep, PTL DEF Spec

(***************************************************************************)
(* The minutes are written once: no later or concurrent transcription      *)
(* changes their text or takes the mark back.                              *)
(***************************************************************************)
THEOREM MinutesAreFinalHolds == Spec => MinutesAreFinal
<1>1. TypeInv /\ MailInv /\ [Next]_vars =>
        [minutes # None =>
           /\ minutes' # None
           /\ minutes'.text = minutes.text
           /\ minutes.sent => minutes'.sent]_minutes
  BY FinalStep
<1> QED
  BY <1>1, TypeInit, TypeStep, MailInit, MailInvStep, PTL DEF Spec, MinutesAreFinal
================================================================================
