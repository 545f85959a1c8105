--------------------------- MODULE RealtimeProofs ---------------------------
(***************************************************************************)
(* Proofs about the live side of a match: the chat of a team, with its     *)
(* uploads and its retention worker (TeamChat), the channel of a match     *)
(* (MatchChannel), and both together (Realtime).                           *)
(***************************************************************************)
EXTENDS Realtime, SequenceTheorems, FiniteSetTheorems, TLAPS

-----------------------------------------------------------------------------
(* Team chat.  What the variables that only one actor reads can hold.       *)

(* The rows of uploads, and the calls that handle them. *)
UploadRows == [status : {"none", "pending", "completed", "rejected"}, key : {"raw", "clean"}, raw : BOOLEAN]
UploadSteps == {"head", "sanitize", "reject", "finalize", "drop", "clear"}

Requests == [at : {"idle"}]
              \cup [at : UploadSteps, upload : Images]
              \cup [at : {"quota", "insert"}, text : Texts, file : Images \cup {NoFile}]

Sweeps == [at : {"idle", "mutes"}]
            \cup [at : {"messages"}, texts : SUBSET Texts, files : SUBSET Images]
            \cup [at : {"objects", "rows"}, files : SUBSET Images]
            \cup [at : {"uploads"}, clear : SUBSET Images, drop : SUBSET Images]

OfUpload(c) == calls[c].at \in UploadSteps
OfMessage(c) == calls[c].at \in {"quota", "insert"}

ChatShapes == calls \in [ChatCalls -> Requests] /\ sweep \in Sweeps

(* A message is inserted under its author's lock, below his limit. *)
UnderLock ==
    \A c \in ChatCalls : At(c, "insert") =>
        /\ quotaLock[AuthorOf[calls[c].text]] = c
        /\ counted[AuthorOf[calls[c].text]] < MaxSends

(* Messages are swept, with what they show, only when they are due. *)
Overdue == {"expired", "forgotten"}

SweptAreDue ==
    /\ sweep.at \in {"messages", "objects", "rows"} => age \in Overdue
    /\ sweep.at = "messages" => \A t \in sweep.texts \cap reported : age = "forgotten"

ChatInv ==
    /\ ChatTypeOK /\ ChatShapes /\ UnderLock /\ SweptAreDue
    /\ \A t \in reported : Stands(t)

(* An upload and the call that completes it, when there is one such call. *)
OneCompletion ==
    \A c, d \in ChatCalls :
        OfUpload(c) /\ OfUpload(d) /\ calls[c].upload = calls[d].upload => c = d

Early == age \in {"played", "after", "closed"}
RequestsEnd == Early \/ \A c \in ChatCalls : At(c, "idle")

UploadAtCall ==
    \A c \in ChatCalls :
        /\ calls[c].at \in {"head", "sanitize", "reject", "finalize"}
             => uploads[calls[c].upload].status = "pending"
        /\ At(c, "finalize") => <<calls[c].upload, "clean">> \in objects
        /\ calls[c].at \in {"drop", "clear"} => uploads[calls[c].upload].status = "completed"
        /\ OfMessage(c) => calls[c].file \in files \cup {NoFile}

(* An upload is completed when its row names the sanitised object, and only *)
(* a completed one has a file.                                              *)
KeysMatch ==
    \A i \in Images : /\ uploads[i].key = "clean" <=> uploads[i].status = "completed"
                      /\ i \in files => uploads[i].status = "completed"
                      /\ Early /\ i \in files => <<i, "clean">> \in objects

Attached ==
    \A t \in Texts : AttachedTo(t) =>
        /\ messages[t] \in files /\ <<messages[t], "clean">> \in objects
        /\ \A u \in Texts : messages[u] = messages[t] => u = t

(* What a pass of the sweep removes is of no message that stays. *)
SweptAreLoose ==
    /\ sweep.at = "messages" => \A i \in sweep.files : \E t \in sweep.texts : messages[t] = i
    /\ sweep.at \in {"objects", "rows"} => \A t \in Texts : messages[t] \notin sweep.files
    /\ sweep.at = "uploads" => /\ ~ Early
                               /\ \A i \in sweep.drop : uploads[i].status # "completed"
                               /\ \A i \in sweep.clear : uploads[i].status = "completed"

FilesInv ==
    /\ ChatInv /\ OneCompletion /\ RequestsEnd /\ UploadAtCall /\ KeysMatch /\ Attached
    /\ SweptAreLoose

(* The ages of a match, in order. *)
LEMMA AgesInOrder ==
    /\ Range(Ages) = {"played", "after", "closed", "stale", "expired", "forgotten"}
    /\ Older("played") = "after" /\ Older("after") = "closed" /\ Older("closed") = "stale"
    /\ Older("stale") = "expired" /\ Older("expired") = "forgotten"
<1>1. DOMAIN Ages = 1..6
  BY DEF Ages
<1>2. 1..6 = {1, 2, 3, 4, 5, 6} /\ 1..5 = {1, 2, 3, 4, 5}
  OBVIOUS
<1>3. Range(Ages) = {Ages[1], Ages[2], Ages[3], Ages[4], Ages[5], Ages[6]}
  BY <1>1, <1>2, Zenon DEF Range
<1>4. /\ Ages[1] = "played" /\ Ages[2] = "after" /\ Ages[3] = "closed"
      /\ Ages[4] = "stale" /\ Ages[5] = "expired" /\ Ages[6] = "forgotten"
  BY DEF Ages
<1>5. ASSUME NEW i \in 1..5, \A j \in 1..5 : Ages[j] = Ages[i] => j = i
      PROVE  Older(Ages[i]) = Ages[i + 1]
  <2>1. (CHOOSE j \in 1..5 : Ages[j] = Ages[i]) = i
    BY <1>5, Zenon
  <2>. QED  BY <2>1, Zenon DEF Older
<1>6. \A i, j \in 1..5 : Ages[j] = Ages[i] => j = i
  BY <1>4, <1>2
<1>7. \A i \in 1..5 : Older(Ages[i]) = Ages[i + 1]
  BY <1>5, <1>6
<1>8. /\ Older(Ages[1]) = Ages[2] /\ Older(Ages[2]) = Ages[3] /\ Older(Ages[3]) = Ages[4]
      /\ Older(Ages[4]) = Ages[5] /\ Older(Ages[5]) = Ages[6]
  BY <1>7
<1>. QED  BY <1>3, <1>4, <1>8

(* The state the chat of a match begins in. *)
LEMMA ChatBegins == ASSUME ChatInit PROVE FilesInv
<1>. USE DEF ChatInit
<1>1. ChatTypeOK
  BY ChatAssumption, AgesInOrder DEF ChatTypeOK, NoUpload
<1>2. ChatShapes
  BY DEF ChatShapes, NoRequest, Resting, Requests, Sweeps
<1>3. ChatInv
  BY <1>1, <1>2 DEF ChatInv, UnderLock, SweptAreDue, At, NoRequest, Resting
<1>4. OneCompletion /\ RequestsEnd /\ UploadAtCall
   BY DEF OneCompletion, RequestsEnd, UploadAtCall, OfUpload, OfMessage, At, NoRequest,
     UploadSteps, Early
<1>5. KeysMatch /\ Attached /\ SweptAreLoose
  BY ChatAssumption DEF KeysMatch, Attached, SweptAreLoose, AttachedTo, Resting, NoUpload
<1>. QED  BY <1>3, <1>4, <1>5 DEF FilesInv

(* What a call's record says of it. *)
LEMMA CallShapes ==
    ASSUME ChatShapes, NEW c \in ChatCalls
    PROVE  /\ calls[c] \in Requests
           /\ OfUpload(c) => calls[c].upload \in Images /\ calls[c] = [at |-> calls[c].at, upload |-> calls[c].upload]
           /\ OfMessage(c) => /\ calls[c].text \in Texts /\ calls[c].file \in Images \cup {NoFile}
                              /\ calls[c] = [at |-> calls[c].at, text |-> calls[c].text, file |-> calls[c].file]
           /\ At(c, "idle") \/ OfUpload(c) \/ OfMessage(c)
           /\ OfUpload(c) => "upload" \in DOMAIN calls[c]
  BY DEF ChatShapes, Requests, OfUpload, OfMessage, At, UploadSteps

(* ... and the record of the sweep. *)
LEMMA SweepShapes ==
    ASSUME ChatShapes
    PROVE  /\ sweep.at \in {"idle", "mutes", "messages", "objects", "rows", "uploads"}
           /\ sweep.at = "messages" => sweep.texts \subseteq Texts /\ sweep.files \subseteq Images
           /\ sweep.at \in {"objects", "rows"} => sweep.files \subseteq Images
           /\ sweep.at = "uploads" => sweep.clear \subseteq Images /\ sweep.drop \subseteq Images
  BY DEF ChatShapes, Sweeps

(* Every step keeps the invariant of the chat. *)
LEMMA ChatInvStep == ASSUME ChatInv, [ChatNext]_chatVars PROVE ChatInv'
<1>. USE ChatAssumption, CallShapes, SweepShapes DEF ChatInv, UploadRows
<1>1. ASSUME NEW i \in Images, CreateUpload(i) PROVE ChatInv'
  <2>. USE <1>1 DEF CreateUpload
  <2>1. ChatTypeOK'
    BY DEF ChatTypeOK, Goes, Ends, At, UnderLock
  <2>2. ChatShapes'
     BY DEF ChatShapes, Goes, Ends, At, Requests, Sweeps, NoRequest, Resting, UploadSteps,
       ChatTypeOK, OfUpload, OfMessage
  <2>3. UnderLock'
    BY DEF UnderLock, Goes, Ends, At, ChatTypeOK, ChatShapes, NoRequest, OfUpload, OfMessage
  <2>4. SweptAreDue'
    BY DEF SweptAreDue, Overdue, ChatTypeOK, Resting
  <2>5. (\A r \in reported : Stands(r))'
    BY DEF Stands, ChatTypeOK
  <2>. QED  BY <2>1, <2>2, <2>3, <2>4, <2>5
<1>2. ASSUME NEW i \in Images, StoreRaw(i) PROVE ChatInv'
  <2>. USE <1>2 DEF StoreRaw
  <2>1. ChatTypeOK'
    BY DEF ChatTypeOK, Goes, Ends, At, UnderLock
  <2>2. ChatShapes'
     BY DEF ChatShapes, Goes, Ends, At, Requests, Sweeps, NoRequest, Resting, UploadSteps,
       ChatTypeOK, OfUpload, OfMessage
  <2>3. UnderLock'
    BY DEF UnderLock, Goes, Ends, At, ChatTypeOK, ChatShapes, NoRequest, OfUpload, OfMessage
  <2>4. SweptAreDue'
    BY DEF SweptAreDue, Overdue, ChatTypeOK, Resting
  <2>5. (\A r \in reported : Stands(r))'
    BY DEF Stands, ChatTypeOK
  <2>. QED  BY <2>1, <2>2, <2>3, <2>4, <2>5
<1>3. ASSUME NEW c \in ChatCalls, NEW i \in Images, CompleteUpload(c, i) PROVE ChatInv'
  <2>. USE <1>3 DEF CompleteUpload
  <2>1. ChatTypeOK'
    BY DEF ChatTypeOK, Goes, Ends, At, UnderLock
  <2>2. ChatShapes'
     BY DEF ChatShapes, Goes, Ends, At, Requests, Sweeps, NoRequest, Resting, UploadSteps,
       ChatTypeOK, OfUpload, OfMessage
  <2>3. UnderLock'
    BY DEF UnderLock, Goes, Ends, At, ChatTypeOK, ChatShapes, NoRequest, OfUpload, OfMessage
  <2>4. SweptAreDue'
    BY DEF SweptAreDue, Overdue, ChatTypeOK, Resting
  <2>5. (\A r \in reported : Stands(r))'
    BY DEF Stands, ChatTypeOK
  <2>. QED  BY <2>1, <2>2, <2>3, <2>4, <2>5
<1>4. ASSUME NEW c \in ChatCalls, HeadObject(c) PROVE ChatInv'
  <2>. USE <1>4 DEF HeadObject
  <2>1. ChatTypeOK'
    BY DEF ChatTypeOK, Goes, Ends, At, UnderLock
  <2>2. ChatShapes'
     BY DEF ChatShapes, Goes, Ends, At, Requests, Sweeps, NoRequest, Resting, UploadSteps,
       ChatTypeOK, OfUpload, OfMessage
  <2>3. UnderLock'
    BY DEF UnderLock, Goes, Ends, At, ChatTypeOK, ChatShapes, NoRequest, OfUpload, OfMessage
  <2>4. SweptAreDue'
    BY DEF SweptAreDue, Overdue, ChatTypeOK, Resting
  <2>5. (\A r \in reported : Stands(r))'
    BY DEF Stands, ChatTypeOK
  <2>. QED  BY <2>1, <2>2, <2>3, <2>4, <2>5
<1>5. ASSUME NEW c \in ChatCalls, SanitizeStoredObject(c) PROVE ChatInv'
  <2>. USE <1>5 DEF SanitizeStoredObject
  <2>1. ChatTypeOK'
    BY DEF ChatTypeOK, Goes, Ends, At, UnderLock
  <2>2. ChatShapes'
     BY DEF ChatShapes, Goes, Ends, At, Requests, Sweeps, NoRequest, Resting, UploadSteps,
       ChatTypeOK, OfUpload, OfMessage
  <2>3. UnderLock'
    BY DEF UnderLock, Goes, Ends, At, ChatTypeOK, ChatShapes, NoRequest, OfUpload, OfMessage
  <2>4. SweptAreDue'
    BY DEF SweptAreDue, Overdue, ChatTypeOK, Resting
  <2>5. (\A r \in reported : Stands(r))'
    BY DEF Stands, ChatTypeOK
  <2>. QED  BY <2>1, <2>2, <2>3, <2>4, <2>5
<1>6. ASSUME NEW c \in ChatCalls, MarkUploadRejected(c) PROVE ChatInv'
  <2>. USE <1>6 DEF MarkUploadRejected
  <2>1. ChatTypeOK'
    <3>1. calls[c].upload \in Images
      BY DEF At, OfUpload, UploadSteps
    <3>2. uploads[calls[c].upload] \in UploadRows
      BY <3>1 DEF ChatTypeOK
    <3>3. uploads' \in [Images -> UploadRows]
      BY <3>1, <3>2 DEF ChatTypeOK
    <3>. QED  BY <3>3 DEF ChatTypeOK
  <2>2. ChatShapes'
     BY DEF ChatShapes, Goes, Ends, At, Requests, Sweeps, NoRequest, Resting, UploadSteps,
       ChatTypeOK, OfUpload, OfMessage
  <2>3. UnderLock'
    BY DEF UnderLock, Goes, Ends, At, ChatTypeOK, ChatShapes, NoRequest, OfUpload, OfMessage
  <2>4. SweptAreDue'
    BY DEF SweptAreDue, Overdue, ChatTypeOK, Resting
  <2>5. (\A r \in reported : Stands(r))'
    BY DEF Stands, ChatTypeOK
  <2>. QED  BY <2>1, <2>2, <2>3, <2>4, <2>5
<1>7. ASSUME NEW c \in ChatCalls, FinalizeUpload(c) PROVE ChatInv'
  <2>. USE <1>7 DEF FinalizeUpload
  <2>1. ChatTypeOK'
    <3>1. calls[c].upload \in Images
      BY DEF At, OfUpload, UploadSteps
    <3>2. [status |-> "completed", key |-> "clean", raw |-> TRUE] \in UploadRows
      OBVIOUS
    <3>3. uploads' = uploads \/ uploads' = [uploads EXCEPT ![calls[c].upload] = [status |-> "completed", key |-> "clean", raw |-> TRUE]]
      OBVIOUS
    <3>4. uploads' \in [Images -> UploadRows]
      <4>1. CASE uploads' = uploads
        BY <4>1 DEF ChatTypeOK
      <4>2. CASE uploads' = [uploads EXCEPT ![calls[c].upload] = [status |-> "completed", key |-> "clean", raw |-> TRUE]]
        <5>. HIDE <1>7
        <5>. QED  BY <3>1, <3>2, <4>2 DEF ChatTypeOK
      <4>. QED  BY <3>3, <4>1, <4>2
    <3>. QED  BY <3>1, <3>4 DEF ChatTypeOK
  <2>2. ChatShapes'
     BY DEF ChatShapes, Goes, Ends, At, Requests, Sweeps, NoRequest, Resting, UploadSteps,
       ChatTypeOK, OfUpload, OfMessage
  <2>3. UnderLock'
    BY DEF UnderLock, Goes, Ends, At, ChatTypeOK, ChatShapes, NoRequest, OfUpload, OfMessage
  <2>4. SweptAreDue'
    BY DEF SweptAreDue, Overdue, ChatTypeOK, Resting
  <2>5. (\A r \in reported : Stands(r))'
    BY DEF Stands, ChatTypeOK
  <2>. QED  BY <2>1, <2>2, <2>3, <2>4, <2>5
<1>8. ASSUME NEW c \in ChatCalls, DropRaw(c) PROVE ChatInv'
  <2>. USE <1>8 DEF DropRaw
  <2>1. ChatTypeOK'
    BY DEF ChatTypeOK, Goes, Ends, At, UnderLock
  <2>2. ChatShapes'
     BY DEF ChatShapes, Goes, Ends, At, Requests, Sweeps, NoRequest, Resting, UploadSteps,
       ChatTypeOK, OfUpload, OfMessage
  <2>3. UnderLock'
    BY DEF UnderLock, Goes, Ends, At, ChatTypeOK, ChatShapes, NoRequest, OfUpload, OfMessage
  <2>4. SweptAreDue'
    BY DEF SweptAreDue, Overdue, ChatTypeOK, Resting
  <2>5. (\A r \in reported : Stands(r))'
    BY DEF Stands, ChatTypeOK
  <2>. QED  BY <2>1, <2>2, <2>3, <2>4, <2>5
<1>9. ASSUME NEW c \in ChatCalls, ClearRawStorageKey(c) PROVE ChatInv'
  <2>. USE <1>9 DEF ClearRawStorageKey
  <2>1. ChatTypeOK'
    <3>1. calls[c].upload \in Images
      BY DEF At, OfUpload, UploadSteps
    <3>2. uploads[calls[c].upload] \in UploadRows
      BY <3>1 DEF ChatTypeOK
    <3>3. uploads' \in [Images -> UploadRows]
      BY <3>1, <3>2 DEF ChatTypeOK
    <3>. QED  BY <3>3 DEF ChatTypeOK
  <2>2. ChatShapes'
     BY DEF ChatShapes, Goes, Ends, At, Requests, Sweeps, NoRequest, Resting, UploadSteps,
       ChatTypeOK, OfUpload, OfMessage
  <2>3. UnderLock'
    BY DEF UnderLock, Goes, Ends, At, ChatTypeOK, ChatShapes, NoRequest, OfUpload, OfMessage
  <2>4. SweptAreDue'
    BY DEF SweptAreDue, Overdue, ChatTypeOK, Resting
  <2>5. (\A r \in reported : Stands(r))'
    BY DEF Stands, ChatTypeOK
  <2>. QED  BY <2>1, <2>2, <2>3, <2>4, <2>5
<1>10. ASSUME NEW c \in ChatCalls, NEW t \in Texts, SendMessage(c, t) PROVE ChatInv'
  <2>. USE <1>10 DEF SendMessage
  <2>1. ChatTypeOK'
    BY DEF ChatTypeOK, Goes, Ends, At, UnderLock
  <2>2. ChatShapes'
     BY DEF ChatShapes, Goes, Ends, At, Requests, Sweeps, NoRequest, Resting, UploadSteps,
       ChatTypeOK, OfUpload, OfMessage
  <2>3. UnderLock'
    BY DEF UnderLock, Goes, Ends, At, ChatTypeOK, ChatShapes, NoRequest, OfUpload, OfMessage
  <2>4. SweptAreDue'
    BY DEF SweptAreDue, Overdue, ChatTypeOK, Resting
  <2>5. (\A r \in reported : Stands(r))'
    BY DEF Stands, ChatTypeOK
  <2>. QED  BY <2>1, <2>2, <2>3, <2>4, <2>5
<1>11. ASSUME NEW c \in ChatCalls, CheckChatLimits(c) PROVE ChatInv'
  <2>. USE <1>11 DEF CheckChatLimits
  <2>1. ChatTypeOK'
    <3>1. calls[c].text \in Texts
      BY DEF At, OfMessage
    <3>2. quotaLock' \in [Mates -> ChatCalls \union {NoHolder}]
      BY <3>1 DEF ChatTypeOK
    <3>. QED  BY <3>2 DEF ChatTypeOK
  <2>2. ChatShapes'
     BY DEF ChatShapes, Goes, Ends, At, Requests, Sweeps, NoRequest, Resting, UploadSteps,
       ChatTypeOK, OfUpload, OfMessage
  <2>3. UnderLock'
    <3>1. calls[c].text \in Texts /\ OfMessage(c)
      BY DEF At, OfMessage
    <3>2. AuthorOf[calls[c].text] \in Mates
      BY <3>1
    <3>3. ASSUME NEW d \in ChatCalls, At(d, "insert")'
          PROVE  /\ quotaLock'[AuthorOf[calls'[d].text]] = d
                 /\ counted'[AuthorOf[calls'[d].text]] < MaxSends
      <4>1. CASE d = c
        <5>1. calls'[c].at = "insert"
          BY <3>3, <4>1 DEF At
        <5>2. calls'[c] = [calls[c] EXCEPT !.at = "insert"] /\ quotaLock' = [quotaLock EXCEPT ![AuthorOf[calls[c].text]] = c]
              /\ counted[AuthorOf[calls[c].text]] < MaxSends
          BY <5>1 DEF Goes, Ends, NoRequest, ChatShapes
        <5>3. calls'[c].text = calls[c].text
          BY <3>1, <5>2
        <5>. QED  BY <3>2, <4>1, <5>2, <5>3 DEF ChatTypeOK
      <4>2. CASE d # c
        <5>1. calls'[d] = calls[d]
          BY <4>2 DEF Goes, Ends, ChatShapes
        <5>2. At(d, "insert") /\ calls[d].text \in Texts /\ quotaLock[AuthorOf[calls[d].text]] = d /\ counted[AuthorOf[calls[d].text]] < MaxSends
          BY <3>3, <5>1 DEF At, UnderLock, OfMessage
        <5>3. AuthorOf[calls[c].text] # AuthorOf[calls[d].text] \/ UNCHANGED quotaLock
          BY <3>2, <5>2 DEF MayLock
        <5>. QED  BY <3>2, <5>1, <5>2, <5>3 DEF ChatTypeOK
      <4>. QED  BY <4>1, <4>2
    <3>. QED  BY <3>3 DEF UnderLock
  <2>4. SweptAreDue'
    BY DEF SweptAreDue, Overdue, ChatTypeOK, Resting
  <2>5. (\A r \in reported : Stands(r))'
    BY DEF Stands, ChatTypeOK
  <2>. QED  BY <2>1, <2>2, <2>3, <2>4, <2>5
<1>12. ASSUME NEW c \in ChatCalls, InsertMessage(c) PROVE ChatInv'
  <2>. USE <1>12 DEF InsertMessage
  <2>1. ChatTypeOK'
    <3>1. OfMessage(c) /\ calls[c].text \in Texts /\ calls[c].file \in Images \cup {NoFile}
      BY DEF At, OfMessage
    <3>2. AuthorOf[calls[c].text] \in Mates /\ counted[AuthorOf[calls[c].text]] < MaxSends
      BY <3>1 DEF UnderLock
    <3>3. messages' \in [Texts -> Images \union {NoFile, Unsent}]
      BY <3>1 DEF ChatTypeOK
    <3>4. counted' \in [Mates -> 0..MaxSends]
      BY <3>2 DEF ChatTypeOK
    <3>5. quotaLock' \in [Mates -> ChatCalls \union {NoHolder}]
      BY <3>2 DEF ChatTypeOK
    <3>. QED  BY <3>3, <3>4, <3>5 DEF ChatTypeOK
  <2>2. ChatShapes'
     BY DEF ChatShapes, Goes, Ends, At, Requests, Sweeps, NoRequest, Resting, UploadSteps,
       ChatTypeOK, OfUpload, OfMessage
  <2>3. UnderLock'
    BY DEF UnderLock, Goes, Ends, At, ChatTypeOK, ChatShapes, NoRequest, OfUpload, OfMessage
  <2>4. SweptAreDue'
    BY DEF SweptAreDue, Overdue, ChatTypeOK, Resting
  <2>5. (\A r \in reported : Stands(r))'
    BY DEF Stands, ChatTypeOK
  <2>. QED  BY <2>1, <2>2, <2>3, <2>4, <2>5
<1>13. ASSUME NEW m \in Mates, WindowPasses(m) PROVE ChatInv'
  <2>. USE <1>13 DEF WindowPasses
  <2>1. ChatTypeOK'
    BY DEF ChatTypeOK, Goes, Ends, At, UnderLock
  <2>2. ChatShapes'
     BY DEF ChatShapes, Goes, Ends, At, Requests, Sweeps, NoRequest, Resting, UploadSteps,
       ChatTypeOK, OfUpload, OfMessage
  <2>3. UnderLock'
    BY DEF UnderLock, Goes, Ends, At, ChatTypeOK, ChatShapes, NoRequest, OfUpload, OfMessage
  <2>4. SweptAreDue'
    BY DEF SweptAreDue, Overdue, ChatTypeOK, Resting
  <2>5. (\A r \in reported : Stands(r))'
    BY DEF Stands, ChatTypeOK
  <2>. QED  BY <2>1, <2>2, <2>3, <2>4, <2>5
<1>14. ASSUME NEW v \in Mates, NEW w \in Mates, MuteTeammate(v, w) PROVE ChatInv'
  <2>. USE <1>14 DEF MuteTeammate
  <2>1. ChatTypeOK'
    BY DEF ChatTypeOK, Goes, Ends, At, UnderLock
  <2>2. ChatShapes'
     BY DEF ChatShapes, Goes, Ends, At, Requests, Sweeps, NoRequest, Resting, UploadSteps,
       ChatTypeOK, OfUpload, OfMessage
  <2>3. UnderLock'
    BY DEF UnderLock, Goes, Ends, At, ChatTypeOK, ChatShapes, NoRequest, OfUpload, OfMessage
  <2>4. SweptAreDue'
    BY DEF SweptAreDue, Overdue, ChatTypeOK, Resting
  <2>5. (\A r \in reported : Stands(r))'
    BY DEF Stands, ChatTypeOK
  <2>. QED  BY <2>1, <2>2, <2>3, <2>4, <2>5
<1>15. ASSUME NEW v \in Mates, NEW w \in Mates, UnmuteTeammate(v, w) PROVE ChatInv'
  <2>. USE <1>15 DEF UnmuteTeammate
  <2>1. ChatTypeOK'
    BY DEF ChatTypeOK, Goes, Ends, At, UnderLock
  <2>2. ChatShapes'
     BY DEF ChatShapes, Goes, Ends, At, Requests, Sweeps, NoRequest, Resting, UploadSteps,
       ChatTypeOK, OfUpload, OfMessage
  <2>3. UnderLock'
    BY DEF UnderLock, Goes, Ends, At, ChatTypeOK, ChatShapes, NoRequest, OfUpload, OfMessage
  <2>4. SweptAreDue'
    BY DEF SweptAreDue, Overdue, ChatTypeOK, Resting
  <2>5. (\A r \in reported : Stands(r))'
    BY DEF Stands, ChatTypeOK
  <2>. QED  BY <2>1, <2>2, <2>3, <2>4, <2>5
<1>16. ASSUME NEW v \in Mates, NEW t \in Texts, ReportMessage(v, t) PROVE ChatInv'
  <2>. USE <1>16 DEF ReportMessage
  <2>1. ChatTypeOK'
    BY DEF ChatTypeOK, Goes, Ends, At, UnderLock
  <2>2. ChatShapes'
     BY DEF ChatShapes, Goes, Ends, At, Requests, Sweeps, NoRequest, Resting, UploadSteps,
       ChatTypeOK, OfUpload, OfMessage
  <2>3. UnderLock'
    BY DEF UnderLock, Goes, Ends, At, ChatTypeOK, ChatShapes, NoRequest, OfUpload, OfMessage
  <2>4. SweptAreDue'
    BY DEF SweptAreDue, Overdue, MayReport, CanChat, ChatTypeOK
  <2>5. (\A r \in reported : Stands(r))'
    BY DEF Stands, MayReport, ChatTypeOK
  <2>. QED  BY <2>1, <2>2, <2>3, <2>4, <2>5
<1>17. ASSUME ListCleanupCandidates PROVE ChatInv'
  <2>. USE <1>17 DEF ListCleanupCandidates
  <2>1. ChatTypeOK'
    BY DEF ChatTypeOK, Goes, Ends, At, UnderLock
  <2>2. ChatShapes'
     BY DEF ChatShapes, Goes, Ends, At, Requests, Sweeps, NoRequest, Resting, UploadSteps,
       ChatTypeOK, OfUpload, OfMessage
  <2>3. UnderLock'
    BY DEF UnderLock, Goes, Ends, At, ChatTypeOK, ChatShapes, NoRequest, OfUpload, OfMessage
  <2>4. SweptAreDue'
    BY DEF SweptAreDue, Overdue, Expired, ChatTypeOK
  <2>5. (\A r \in reported : Stands(r))'
    BY DEF Stands, ChatTypeOK
  <2>. QED  BY <2>1, <2>2, <2>3, <2>4, <2>5
<1>18. ASSUME DeleteMessages PROVE ChatInv'
  <2>. USE <1>18 DEF DeleteMessages
  <2>1. ChatTypeOK'
    BY DEF ChatTypeOK, Goes, Ends, At, UnderLock
  <2>2. ChatShapes'
     BY DEF ChatShapes, Goes, Ends, At, Requests, Sweeps, NoRequest, Resting, UploadSteps,
       ChatTypeOK, OfUpload, OfMessage
  <2>3. UnderLock'
    BY DEF UnderLock, Goes, Ends, At, ChatTypeOK, ChatShapes, NoRequest, OfUpload, OfMessage
  <2>4. SweptAreDue'
    BY DEF SweptAreDue, Overdue, ChatTypeOK, Resting
  <2>5. (\A r \in reported : Stands(r))'
    BY DEF Stands, ChatTypeOK
  <2>. QED  BY <2>1, <2>2, <2>3, <2>4, <2>5
<1>19. ASSUME DeleteObjects PROVE ChatInv'
  <2>. USE <1>19 DEF DeleteObjects
  <2>1. ChatTypeOK'
    BY DEF ChatTypeOK, Goes, Ends, At, UnderLock
  <2>2. ChatShapes'
     BY DEF ChatShapes, Goes, Ends, At, Requests, Sweeps, NoRequest, Resting, UploadSteps,
       ChatTypeOK, OfUpload, OfMessage
  <2>3. UnderLock'
    BY DEF UnderLock, Goes, Ends, At, ChatTypeOK, ChatShapes, NoRequest, OfUpload, OfMessage
  <2>4. SweptAreDue'
    BY DEF SweptAreDue, Overdue, ChatTypeOK, Resting
  <2>5. (\A r \in reported : Stands(r))'
    BY DEF Stands, ChatTypeOK
  <2>. QED  BY <2>1, <2>2, <2>3, <2>4, <2>5
<1>20. ASSUME DeleteFiles PROVE ChatInv'
  <2>. USE <1>20 DEF DeleteFiles
  <2>1. ChatTypeOK'
    BY DEF ChatTypeOK, Goes, Ends, At, UnderLock
  <2>2. ChatShapes'
     BY DEF ChatShapes, Goes, Ends, At, Requests, Sweeps, NoRequest, Resting, UploadSteps,
       ChatTypeOK, OfUpload, OfMessage
  <2>3. UnderLock'
    BY DEF UnderLock, Goes, Ends, At, ChatTypeOK, ChatShapes, NoRequest, OfUpload, OfMessage
  <2>4. SweptAreDue'
    BY DEF SweptAreDue, Overdue, ChatTypeOK, Resting
  <2>5. (\A r \in reported : Stands(r))'
    BY DEF Stands, ChatTypeOK
  <2>. QED  BY <2>1, <2>2, <2>3, <2>4, <2>5
<1>21. ASSUME DeleteMutesForMatches PROVE ChatInv'
  <2>. USE <1>21 DEF DeleteMutesForMatches
  <2>1. ChatTypeOK'
    BY DEF ChatTypeOK, Goes, Ends, At, UnderLock
  <2>2. ChatShapes'
     BY DEF ChatShapes, Goes, Ends, At, Requests, Sweeps, NoRequest, Resting, UploadSteps,
       ChatTypeOK, OfUpload, OfMessage
  <2>3. UnderLock'
    BY DEF UnderLock, Goes, Ends, At, ChatTypeOK, ChatShapes, NoRequest, OfUpload, OfMessage
  <2>4. SweptAreDue'
    BY DEF SweptAreDue, Overdue, ChatTypeOK, Resting
  <2>5. (\A r \in reported : Stands(r))'
    BY DEF Stands, ChatTypeOK
  <2>. QED  BY <2>1, <2>2, <2>3, <2>4, <2>5
<1>22. ASSUME ListRawUploadsForCleanup PROVE ChatInv'
  <2>. USE <1>22 DEF ListRawUploadsForCleanup
  <2>1. ChatTypeOK'
    BY DEF ChatTypeOK, Goes, Ends, At, UnderLock
  <2>2. ChatShapes'
     BY DEF ChatShapes, Goes, Ends, At, Requests, Sweeps, NoRequest, Resting, UploadSteps,
       ChatTypeOK, OfUpload, OfMessage
  <2>3. UnderLock'
    BY DEF UnderLock, Goes, Ends, At, ChatTypeOK, ChatShapes, NoRequest, OfUpload, OfMessage
  <2>4. SweptAreDue'
    BY DEF SweptAreDue, Overdue, ChatTypeOK, Resting
  <2>5. (\A r \in reported : Stands(r))'
    BY DEF Stands, ChatTypeOK
  <2>. QED  BY <2>1, <2>2, <2>3, <2>4, <2>5
<1>23. ASSUME DeleteUploads PROVE ChatInv'
  <2>. USE <1>23 DEF DeleteUploads
  <2>1. ChatTypeOK'
    <3>0. ASSUME NEW i \in Images
          PROVE  uploads'[i] \in UploadRows
      <4>1. uploads[i] \in UploadRows
        BY DEF ChatTypeOK
      <4>2. uploads'[i] \in {NoUpload, [uploads[i] EXCEPT !.raw = FALSE], uploads[i]}
        OBVIOUS
      <4>. QED  BY <4>1, <4>2 DEF NoUpload
    <3>1. uploads' \in [Images -> UploadRows]
      BY <3>0
    <3>. QED  BY <3>1 DEF ChatTypeOK
  <2>2. ChatShapes'
     BY DEF ChatShapes, Goes, Ends, At, Requests, Sweeps, NoRequest, Resting, UploadSteps,
       ChatTypeOK, OfUpload, OfMessage
  <2>3. UnderLock'
    BY DEF UnderLock, Goes, Ends, At, ChatTypeOK, ChatShapes, NoRequest, OfUpload, OfMessage
  <2>4. SweptAreDue'
    BY DEF SweptAreDue, Overdue, ChatTypeOK, Resting
  <2>5. (\A r \in reported : Stands(r))'
    BY DEF Stands, ChatTypeOK
  <2>. QED  BY <2>1, <2>2, <2>3, <2>4, <2>5
<1>24. ASSUME SweepDies PROVE ChatInv'
  <2>. USE <1>24 DEF SweepDies
  <2>1. ChatTypeOK'
    BY DEF ChatTypeOK, Goes, Ends, At, UnderLock
  <2>2. ChatShapes'
     BY DEF ChatShapes, Goes, Ends, At, Requests, Sweeps, NoRequest, Resting, UploadSteps,
       ChatTypeOK, OfUpload, OfMessage
  <2>3. UnderLock'
    BY DEF UnderLock, Goes, Ends, At, ChatTypeOK, ChatShapes, NoRequest, OfUpload, OfMessage
  <2>4. SweptAreDue'
    BY DEF SweptAreDue, Overdue, ChatTypeOK, Resting
  <2>5. (\A r \in reported : Stands(r))'
    BY DEF Stands, ChatTypeOK
  <2>. QED  BY <2>1, <2>2, <2>3, <2>4, <2>5
<1>25. ASSUME TimePasses PROVE ChatInv'
  <2>. USE <1>25 DEF TimePasses
  <2>1. ChatTypeOK'
    BY AgesInOrder DEF ChatTypeOK
  <2>2. ChatShapes'
     BY DEF ChatShapes, Goes, Ends, At, Requests, Sweeps, NoRequest, Resting, UploadSteps,
       ChatTypeOK, OfUpload, OfMessage
  <2>3. UnderLock'
    BY DEF UnderLock, Goes, Ends, At, ChatTypeOK, ChatShapes, NoRequest, OfUpload, OfMessage
  <2>4. SweptAreDue'
    BY AgesInOrder DEF SweptAreDue, Overdue, ChatTypeOK
  <2>5. (\A r \in reported : Stands(r))'
    BY DEF Stands, ChatTypeOK
  <2>. QED  BY <2>1, <2>2, <2>3, <2>4, <2>5
<1>26. CASE UNCHANGED chatVars
  BY <1>26 DEF chatVars, ChatTypeOK, ChatShapes, UnderLock, SweptAreDue, Stands, At
<1>. QED  BY <1>1, <1>2, <1>3, <1>4, <1>5, <1>6, <1>7, <1>8, <1>9, <1>10, <1>11, <1>12, <1>13,
   <1>14, <1>15, <1>16, <1>17, <1>18, <1>19, <1>20, <1>21, <1>22, <1>23, <1>24, <1>25, <1>26 DEF
   ChatNext, ChatRequest, ChatSweep

(* Where no upload is completed by two calls at once, every step keeps the  *)
(* files of the messages with the rest.                                     *)
LEMMA FilesInvStep == ASSUME ~ RetriesOverlap, FilesInv, [ChatNext]_chatVars PROVE FilesInv'
<1>0. ChatInv'
  BY ChatInvStep DEF FilesInv
<1>a. ~ Early => \A d \in ChatCalls : At(d, "idle") /\ ~ OfUpload(d) /\ ~ OfMessage(d)
  BY DEF FilesInv, RequestsEnd, At, OfUpload, OfMessage, UploadSteps
<1>b. sweep.at \in {"messages", "objects", "rows"} => ~ Early
  BY DEF FilesInv, ChatInv, SweptAreDue, Overdue, Early
<1>. USE ChatAssumption, CallShapes, SweepShapes, <1>0, <1>a, <1>b DEF FilesInv, ChatInv, UploadRows
<1>1. ASSUME NEW i \in Images, CreateUpload(i) PROVE FilesInv'
  <2>. USE <1>1 DEF CreateUpload
  <2>1. OneCompletion'
    BY DEF OneCompletion, Goes, Ends, At, ChatShapes, NoRequest, OfUpload, OfMessage, UploadSteps
  <2>2. RequestsEnd'
    BY DEF RequestsEnd, Goes, Ends, At, Early, CanChat, ChatShapes, NoRequest
  <2>3. UploadAtCall'
    <3>1. /\ \A j \in Images : uploads'[j] = uploads[j] \/ uploads[j].status = "none"
          /\ UNCHANGED <<calls, files, objects>>
      BY DEF ChatTypeOK, NoUpload
    <3>. HIDE <1>1 DEF CreateUpload
    <3>9. ASSUME NEW d \in ChatCalls, OfUpload(d)
          PROVE  /\ calls[d].upload \in Images
                 /\ uploads[calls[d].upload].status \in {"pending", "completed"}
      BY <3>9 DEF UploadAtCall, OfUpload, At, UploadSteps
    <3>10. \A d \in ChatCalls : OfUpload(d) => uploads'[calls[d].upload] = uploads[calls[d].upload]
      BY <3>1, <3>9
    <3>. QED  BY <3>1, <3>10, SMTT(30) DEF UploadAtCall, OfUpload, OfMessage, At, UploadSteps
  <2>4. KeysMatch'
    <3>1. /\ \A j \in Images : \/ uploads'[j] = uploads[j]
                               \/ uploads[j].status = "none" /\ uploads'[j].key = "raw" /\ uploads'[j].status = "pending"
          /\ UNCHANGED <<age, files, objects>>
      BY DEF ChatTypeOK, NoUpload
    <3>. HIDE <1>1 DEF CreateUpload
    <3>9. ASSUME NEW j \in Images
          PROVE  /\ uploads'[j].key = "clean" <=> uploads'[j].status = "completed"
                 /\ j \in files => uploads'[j].status = "completed"
                 /\ Early /\ j \in files => <<j, "clean">> \in objects
      <4>. DEFINE old == uploads[j]  new == uploads'[j]
      <4>1. /\ old.key = "clean" <=> old.status = "completed"
            /\ j \in files => old.status = "completed"
            /\ Early /\ j \in files => <<j, "clean">> \in objects
        BY Zenon DEF KeysMatch
      <4>2. \/ new = old
            \/ old.status = "none" /\ new.key = "raw" /\ new.status = "pending"
        BY <3>1, Zenon
      <4>. HIDE DEF old, new
      <4>3. /\ new.key = "clean" <=> new.status = "completed"
            /\ j \in files => new.status = "completed"
        BY <4>1, <4>2
      <4>. QED  BY <4>1, <4>3, Zenon DEF new
    <3>. QED  BY <3>9, <3>1, Zenon DEF KeysMatch, Early
  <2>5. Attached'
    BY DEF Attached, AttachedTo, ChatTypeOK
  <2>6. SweptAreLoose'
    BY DEF SweptAreLoose, Early, CanChat, ChatTypeOK, Resting
  <2>. QED  BY <2>1, <2>2, <2>3, <2>4, <2>5, <2>6
<1>2. ASSUME NEW i \in Images, StoreRaw(i) PROVE FilesInv'
  <2>. USE <1>2 DEF StoreRaw
  <2>1. OneCompletion'
    BY DEF OneCompletion, Goes, Ends, At, ChatShapes, NoRequest, OfUpload, OfMessage, UploadSteps
  <2>2. RequestsEnd'
    BY DEF RequestsEnd, Goes, Ends, At, Early, CanChat, ChatShapes, NoRequest
  <2>3. UploadAtCall'
     BY DEF UploadAtCall, Goes, Ends, At, ChatShapes, NoRequest, OfUpload, OfMessage,
       OneCompletion, UploadSteps, ChatTypeOK
  <2>4. KeysMatch'
    BY DEF KeysMatch, At, Early, CanChat, ChatTypeOK, NoUpload
  <2>5. Attached'
    BY DEF Attached, AttachedTo, ChatTypeOK
  <2>6. SweptAreLoose'
    BY DEF SweptAreLoose, Early, CanChat, ChatTypeOK, Resting
  <2>. QED  BY <2>1, <2>2, <2>3, <2>4, <2>5, <2>6
<1>3. ASSUME NEW c \in ChatCalls, NEW i \in Images, CompleteUpload(c, i) PROVE FilesInv'
  <2>. USE <1>3 DEF CompleteUpload
  <2>1. OneCompletion'
    <3>1. ASSUME NEW d \in ChatCalls, OfUpload(d) PROVE calls[d].upload # i
      <4>1. ~ At(d, "idle") /\ "upload" \in DOMAIN calls[d]
        BY <3>1 DEF At, OfUpload, UploadSteps
      <4>2. CompletedBy(i) = {}
        OBVIOUS
      <4>. QED  BY <4>1, <4>2, Zenon DEF CompletedBy
    <3>2. calls'[c] = [at |-> "head", upload |-> i] /\ \A d \in ChatCalls : d # c => calls'[d] = calls[d]
      BY DEF Goes, ChatShapes
    <3>3. \A d \in ChatCalls : OfUpload(d)' => (d = c /\ calls'[d].upload = i) \/ (d # c /\ OfUpload(d) /\ calls'[d].upload = calls[d].upload)
      BY <3>2 DEF OfUpload
    <3>. QED  BY <3>1, <3>3 DEF OneCompletion
  <2>2. RequestsEnd'
    BY DEF RequestsEnd, Goes, Ends, At, Early, CanChat, ChatShapes, NoRequest
  <2>3. UploadAtCall'
     BY DEF UploadAtCall, Goes, Ends, At, ChatShapes, NoRequest, OfUpload, OfMessage,
       OneCompletion, UploadSteps, ChatTypeOK
  <2>4. KeysMatch'
    BY DEF KeysMatch, At, Early, CanChat, ChatTypeOK, NoUpload
  <2>5. Attached'
    BY DEF Attached, AttachedTo, ChatTypeOK
  <2>6. SweptAreLoose'
    BY DEF SweptAreLoose, Early, CanChat, ChatTypeOK, Resting
  <2>. QED  BY <2>1, <2>2, <2>3, <2>4, <2>5, <2>6
<1>4. ASSUME NEW c \in ChatCalls, HeadObject(c) PROVE FilesInv'
  <2>. USE <1>4 DEF HeadObject
  <2>1. OneCompletion'
    BY DEF OneCompletion, Goes, Ends, At, ChatShapes, NoRequest, OfUpload, OfMessage, UploadSteps
  <2>2. RequestsEnd'
    BY DEF RequestsEnd, Goes, Ends, At, Early, CanChat, ChatShapes, NoRequest
  <2>3. UploadAtCall'
     BY DEF UploadAtCall, Goes, Ends, At, ChatShapes, NoRequest, OfUpload, OfMessage,
       OneCompletion, UploadSteps, ChatTypeOK
  <2>4. KeysMatch'
    <3>1. \A j \in Images : <<j, "clean">> \in objects => <<j, "clean">> \in objects'
      BY DEF At
    <3>. QED  BY <3>1 DEF KeysMatch, Early
  <2>5. Attached'
    BY DEF Attached, AttachedTo, ChatTypeOK
  <2>6. SweptAreLoose'
    BY DEF SweptAreLoose, Early, CanChat, ChatTypeOK, Resting
  <2>. QED  BY <2>1, <2>2, <2>3, <2>4, <2>5, <2>6
<1>5. ASSUME NEW c \in ChatCalls, SanitizeStoredObject(c) PROVE FilesInv'
  <2>. USE <1>5 DEF SanitizeStoredObject
  <2>1. OneCompletion'
    BY DEF OneCompletion, Goes, Ends, At, ChatShapes, NoRequest, OfUpload, OfMessage, UploadSteps
  <2>2. RequestsEnd'
    BY DEF RequestsEnd, Goes, Ends, At, Early, CanChat, ChatShapes, NoRequest
  <2>3. UploadAtCall'
     BY DEF UploadAtCall, Goes, Ends, At, ChatShapes, NoRequest, OfUpload, OfMessage,
       OneCompletion, UploadSteps, ChatTypeOK
  <2>4. KeysMatch'
    <3>1. \A j \in Images : <<j, "clean">> \in objects => <<j, "clean">> \in objects'
      BY DEF At
    <3>. QED  BY <3>1 DEF KeysMatch, Early
  <2>5. Attached'
    BY DEF Attached, AttachedTo, ChatTypeOK
  <2>6. SweptAreLoose'
    BY DEF SweptAreLoose, Early, CanChat, ChatTypeOK, Resting
  <2>. QED  BY <2>1, <2>2, <2>3, <2>4, <2>5, <2>6
<1>6. ASSUME NEW c \in ChatCalls, MarkUploadRejected(c) PROVE FilesInv'
  <2>. USE <1>6 DEF MarkUploadRejected
  <2>1. OneCompletion'
    BY DEF OneCompletion, Goes, Ends, At, ChatShapes, NoRequest, OfUpload, OfMessage, UploadSteps
  <2>2. RequestsEnd'
    BY DEF RequestsEnd, Goes, Ends, At, Early, CanChat, ChatShapes, NoRequest
  <2>3. UploadAtCall'
     BY DEF UploadAtCall, Goes, Ends, At, ChatShapes, NoRequest, OfUpload, OfMessage,
       OneCompletion, UploadSteps, ChatTypeOK
  <2>4. KeysMatch'
    <3>1. calls[c].upload \in Images /\ uploads[calls[c].upload].status = "pending"
      BY DEF UploadAtCall, At, OfUpload, UploadSteps
    <3>2. /\ \A j \in Images : \/ uploads'[j] = uploads[j]
                               \/ j = calls[c].upload /\ uploads'[j] = [uploads[j] EXCEPT !.status = "rejected"]
          /\ UNCHANGED <<age, files, objects>>
      BY <3>1 DEF ChatTypeOK
    <3>. HIDE <1>6 DEF MarkUploadRejected
    <3>3. \A j \in Images : \/ uploads'[j] = uploads[j]
                            \/ uploads[j].status = "pending" /\ uploads'[j].status = "rejected" /\ uploads'[j].key = uploads[j].key
      BY <3>1, <3>2 DEF ChatTypeOK
    <3>9. ASSUME NEW j \in Images
          PROVE  /\ uploads'[j].key = "clean" <=> uploads'[j].status = "completed"
                 /\ j \in files => uploads'[j].status = "completed"
                 /\ Early /\ j \in files => <<j, "clean">> \in objects
      <4>. DEFINE old == uploads[j]  new == uploads'[j]
      <4>1. /\ old.key = "clean" <=> old.status = "completed"
            /\ j \in files => old.status = "completed"
            /\ Early /\ j \in files => <<j, "clean">> \in objects
        BY Zenon DEF KeysMatch
      <4>2. \/ new = old
            \/ old.status = "pending" /\ new.status = "rejected" /\ new.key = old.key
        BY <3>3, Zenon
      <4>. HIDE DEF old, new
      <4>3. /\ new.key = "clean" <=> new.status = "completed"
            /\ j \in files => new.status = "completed"
        BY <4>1, <4>2
      <4>. QED  BY <4>1, <4>3, Zenon DEF new
    <3>. QED  BY <3>9, <3>2, Zenon DEF KeysMatch, Early
  <2>5. Attached'
    BY DEF Attached, AttachedTo, ChatTypeOK
  <2>6. SweptAreLoose'
    <3>1. sweep.at \notin {"messages", "objects", "rows", "uploads"}
      BY DEF At, OfUpload, OfMessage, UploadSteps, SweptAreLoose
    <3>. QED  BY <3>1 DEF SweptAreLoose
  <2>. QED  BY <2>1, <2>2, <2>3, <2>4, <2>5, <2>6
<1>7. ASSUME NEW c \in ChatCalls, FinalizeUpload(c) PROVE FilesInv'
  <2>. USE <1>7 DEF FinalizeUpload
  <2>1. OneCompletion'
    BY DEF OneCompletion, Goes, Ends, At, ChatShapes, NoRequest, OfUpload, OfMessage, UploadSteps
  <2>2. RequestsEnd'
    BY DEF RequestsEnd, Goes, Ends, At, Early, CanChat, ChatShapes, NoRequest
  <2>3. UploadAtCall'
     BY DEF UploadAtCall, Goes, Ends, At, ChatShapes, NoRequest, OfUpload, OfMessage,
       OneCompletion, UploadSteps, ChatTypeOK
  <2>4. KeysMatch'
    <3>1. calls[c].upload \in Images /\ <<calls[c].upload, "clean">> \in objects
      BY DEF UploadAtCall, At, OfUpload, UploadSteps
    <3>2. CASE uploads[calls[c].upload].status = "pending"
      <4>1. files' = files \union {calls[c].upload} /\ uploads' = [uploads EXCEPT ![calls[c].upload] = [status |-> "completed", key |-> "clean", raw |-> TRUE]]
        BY <3>2
      <4>2. \A j \in Images : IF j = calls[c].upload THEN uploads'[j].status = "completed" /\ uploads'[j].key = "clean" ELSE uploads'[j] = uploads[j]
        BY <4>1 DEF ChatTypeOK
      <4>. QED  BY <3>1, <4>1, <4>2 DEF KeysMatch, Early
    <3>3. CASE uploads[calls[c].upload].status # "pending"
      BY <3>3 DEF KeysMatch, Early
    <3>. QED  BY <3>2, <3>3
  <2>5. Attached'
    BY DEF Attached, AttachedTo, ChatTypeOK
  <2>6. SweptAreLoose'
    <3>1. sweep.at \notin {"messages", "objects", "rows", "uploads"}
      BY DEF At, OfUpload, OfMessage, UploadSteps, SweptAreLoose
    <3>. QED  BY <3>1 DEF SweptAreLoose
  <2>. QED  BY <2>1, <2>2, <2>3, <2>4, <2>5, <2>6
<1>8. ASSUME NEW c \in ChatCalls, DropRaw(c) PROVE FilesInv'
  <2>. USE <1>8 DEF DropRaw
  <2>1. OneCompletion'
    BY DEF OneCompletion, Goes, Ends, At, ChatShapes, NoRequest, OfUpload, OfMessage, UploadSteps
  <2>2. RequestsEnd'
    BY DEF RequestsEnd, Goes, Ends, At, Early, CanChat, ChatShapes, NoRequest
  <2>3. UploadAtCall'
     BY DEF UploadAtCall, Goes, Ends, At, ChatShapes, NoRequest, OfUpload, OfMessage,
       OneCompletion, UploadSteps, ChatTypeOK
  <2>4. KeysMatch'
    <3>1. \A j \in Images : <<j, "clean">> \in objects => <<j, "clean">> \in objects'
      BY DEF At
    <3>. QED  BY <3>1 DEF KeysMatch, Early
  <2>5. Attached'
    BY DEF Attached, AttachedTo, ChatTypeOK
  <2>6. SweptAreLoose'
    BY DEF SweptAreLoose, Early, CanChat, ChatTypeOK, Resting
  <2>. QED  BY <2>1, <2>2, <2>3, <2>4, <2>5, <2>6
<1>9. ASSUME NEW c \in ChatCalls, ClearRawStorageKey(c) PROVE FilesInv'
  <2>. USE <1>9 DEF ClearRawStorageKey
  <2>1. OneCompletion'
    BY DEF OneCompletion, Goes, Ends, At, ChatShapes, NoRequest, OfUpload, OfMessage, UploadSteps
  <2>2. RequestsEnd'
    BY DEF RequestsEnd, Goes, Ends, At, Early, CanChat, ChatShapes, NoRequest
  <2>3. UploadAtCall'
     BY DEF UploadAtCall, Goes, Ends, At, ChatShapes, NoRequest, OfUpload, OfMessage,
       OneCompletion, UploadSteps, ChatTypeOK
  <2>4. KeysMatch'
    <3>1. calls[c].upload \in Images
      BY DEF At, OfUpload, UploadSteps
    <3>2. /\ uploads' = [uploads EXCEPT ![calls[c].upload].raw = FALSE]
          /\ UNCHANGED <<age, files, objects>>
      OBVIOUS
    <3>. HIDE <1>9 DEF ClearRawStorageKey
    <3>3. \A j \in Images : uploads'[j].status = uploads[j].status /\ uploads'[j].key = uploads[j].key
      <4>1. uploads \in [Images -> UploadRows]
        BY DEF ChatTypeOK
      <4>. QED  BY <3>1, <3>2, <4>1
    <3>9. ASSUME NEW j \in Images
          PROVE  /\ uploads'[j].key = "clean" <=> uploads'[j].status = "completed"
                 /\ j \in files => uploads'[j].status = "completed"
                 /\ Early /\ j \in files => <<j, "clean">> \in objects
      <4>. DEFINE old == uploads[j]  new == uploads'[j]
      <4>1. /\ old.key = "clean" <=> old.status = "completed"
            /\ j \in files => old.status = "completed"
            /\ Early /\ j \in files => <<j, "clean">> \in objects
        BY Zenon DEF KeysMatch
      <4>2. new.status = old.status /\ new.key = old.key
        BY <3>3, Zenon
      <4>. HIDE DEF old, new
      <4>3. /\ new.key = "clean" <=> new.status = "completed"
            /\ j \in files => new.status = "completed"
        BY <4>1, <4>2
      <4>. QED  BY <4>1, <4>3, Zenon DEF new
    <3>. QED  BY <3>9, <3>2, Zenon DEF KeysMatch, Early
  <2>5. Attached'
    BY DEF Attached, AttachedTo, ChatTypeOK
  <2>6. SweptAreLoose'
    BY DEF SweptAreLoose, Early, CanChat, ChatTypeOK, Resting
  <2>. QED  BY <2>1, <2>2, <2>3, <2>4, <2>5, <2>6
<1>10. ASSUME NEW c \in ChatCalls, NEW t \in Texts, SendMessage(c, t) PROVE FilesInv'
  <2>. USE <1>10 DEF SendMessage
  <2>1. OneCompletion'
    BY DEF OneCompletion, Goes, Ends, At, ChatShapes, NoRequest, OfUpload, OfMessage, UploadSteps
  <2>2. RequestsEnd'
    BY DEF RequestsEnd, Goes, Ends, At, Early, CanChat, ChatShapes, NoRequest
  <2>3. UploadAtCall'
     BY DEF UploadAtCall, Goes, Ends, At, ChatShapes, NoRequest, OfUpload, OfMessage,
       OneCompletion, UploadSteps, ChatTypeOK
  <2>4. KeysMatch'
    BY DEF KeysMatch, At, Early, CanChat, ChatTypeOK, NoUpload
  <2>5. Attached'
    BY DEF Attached, AttachedTo, ChatTypeOK
  <2>6. SweptAreLoose'
    BY DEF SweptAreLoose, Early, CanChat, ChatTypeOK, Resting
  <2>. QED  BY <2>1, <2>2, <2>3, <2>4, <2>5, <2>6
<1>11. ASSUME NEW c \in ChatCalls, CheckChatLimits(c) PROVE FilesInv'
  <2>. USE <1>11 DEF CheckChatLimits
  <2>1. OneCompletion'
    BY DEF OneCompletion, Goes, Ends, At, ChatShapes, NoRequest, OfUpload, OfMessage, UploadSteps
  <2>2. RequestsEnd'
    BY DEF RequestsEnd, Goes, Ends, At, Early, CanChat, ChatShapes, NoRequest
  <2>3. UploadAtCall'
    <3>1. OfMessage(c)
      BY DEF At, OfMessage
    <3>2. /\ calls'[c] = NoRequest \/ calls'[c] = [calls[c] EXCEPT !.at = "insert"]
          /\ \A d \in ChatCalls : d # c => calls'[d] = calls[d]
          /\ UNCHANGED <<uploads, files, objects>>
      BY DEF Goes, Ends, ChatShapes
    <3>. HIDE <1>11 DEF CheckChatLimits
    <3>3. calls'[c].at = "idle" \/ (calls'[c].at = "insert" /\ calls'[c].file = calls[c].file)
      <4>1. calls[c] = [at |-> calls[c].at, text |-> calls[c].text, file |-> calls[c].file]
        BY <3>1
      <4>. DEFINE x == calls[c].text  y == calls[c].file  z == calls[c].at
      <4>2. calls[c] = [at |-> z, text |-> x, file |-> y]
        BY <4>1
      <4>. HIDE DEF x, y, z
      <4>3. [calls[c] EXCEPT !.at = "insert"].at = "insert" /\ [calls[c] EXCEPT !.at = "insert"].file = calls[c].file
        BY <4>2
      <4>4. CASE calls'[c] = NoRequest
        BY <4>4 DEF NoRequest
      <4>5. CASE calls'[c] = [calls[c] EXCEPT !.at = "insert"]
        BY <4>3, <4>5
      <4>. QED  BY <3>2, <4>4, <4>5
    <3>4. calls[c].file \in files \cup {NoFile}
      BY <3>1 DEF UploadAtCall
    <3>5. ASSUME NEW d \in ChatCalls
          PROVE  /\ calls'[d].at \in {"head", "sanitize", "reject", "finalize"}
                      => uploads[calls'[d].upload].status = "pending"
                 /\ calls'[d].at = "finalize" => <<calls'[d].upload, "clean">> \in objects
                 /\ calls'[d].at \in {"drop", "clear"} => uploads[calls'[d].upload].status = "completed"
                 /\ calls'[d].at \in {"quota", "insert"} => calls'[d].file \in files \cup {NoFile}
      <4>1. CASE d = c
        BY <3>3, <3>4, <4>1
      <4>2. CASE d # c
        BY <3>2, <4>2, Zenon DEF UploadAtCall, At, OfMessage
      <4>. QED  BY <4>1, <4>2
    <3>. QED  BY <3>2, <3>5, Zenon DEF UploadAtCall, At, OfMessage
  <2>4. KeysMatch'
    BY DEF KeysMatch, At, Early, CanChat, ChatTypeOK, NoUpload
  <2>5. Attached'
    BY DEF Attached, AttachedTo, ChatTypeOK
  <2>6. SweptAreLoose'
    BY DEF SweptAreLoose, Early, CanChat, ChatTypeOK, Resting
  <2>. QED  BY <2>1, <2>2, <2>3, <2>4, <2>5, <2>6
<1>12. ASSUME NEW c \in ChatCalls, InsertMessage(c) PROVE FilesInv'
  <2>. USE <1>12 DEF InsertMessage
  <2>1. OneCompletion'
    BY DEF OneCompletion, Goes, Ends, At, ChatShapes, NoRequest, OfUpload, OfMessage, UploadSteps
  <2>2. RequestsEnd'
    BY DEF RequestsEnd, Goes, Ends, At, Early, CanChat, ChatShapes, NoRequest
  <2>3. UploadAtCall'
     BY DEF UploadAtCall, Goes, Ends, At, ChatShapes, NoRequest, OfUpload, OfMessage,
       OneCompletion, UploadSteps, ChatTypeOK
  <2>4. KeysMatch'
    BY DEF KeysMatch, At, Early, CanChat, ChatTypeOK, NoUpload
  <2>5. Attached'
    <3>1. OfMessage(c) /\ calls[c].text \in Texts /\ Early
      BY DEF At, OfMessage
    <3>2. calls[c].file = NoFile \/ (calls[c].file \in files /\ <<calls[c].file, "clean">> \in objects)
      BY <3>1 DEF UploadAtCall, KeysMatch, ChatTypeOK
    <3>3. \/ messages' = messages
          \/ /\ messages' = [messages EXCEPT ![calls[c].text] = calls[c].file]
             /\ calls[c].file # NoFile => \A u \in Texts : messages[u] # calls[c].file
      OBVIOUS
    <3>4. CASE messages' = messages
      BY <3>4 DEF Attached, AttachedTo
    <3>5. CASE /\ messages' = [messages EXCEPT ![calls[c].text] = calls[c].file]
               /\ calls[c].file # NoFile => \A u \in Texts : messages[u] # calls[c].file
      <4>1. /\ \A t \in Texts : messages'[t] = IF t = calls[c].text THEN calls[c].file ELSE messages[t]
            /\ UNCHANGED <<files, objects>>
        BY <3>1, <3>5 DEF ChatTypeOK
      <4>2. NoFile \notin Images
        OBVIOUS
      <4>. HIDE <1>12 DEF InsertMessage
      <4>. QED  BY <3>1, <3>2, <3>5, <4>1, <4>2, SMTT(30) DEF Attached, AttachedTo
    <3>. QED  BY <3>3, <3>4, <3>5
  <2>6. SweptAreLoose'
    <3>1. sweep.at \notin {"messages", "objects", "rows", "uploads"}
      BY DEF At, OfUpload, OfMessage, UploadSteps, SweptAreLoose
    <3>. QED  BY <3>1 DEF SweptAreLoose
  <2>. QED  BY <2>1, <2>2, <2>3, <2>4, <2>5, <2>6
<1>13. ASSUME NEW m \in Mates, WindowPasses(m) PROVE FilesInv'
  <2>. USE <1>13 DEF WindowPasses
  <2>1. OneCompletion'
    BY DEF OneCompletion, Goes, Ends, At, ChatShapes, NoRequest, OfUpload, OfMessage, UploadSteps
  <2>2. RequestsEnd'
    BY DEF RequestsEnd, Goes, Ends, At, Early, CanChat, ChatShapes, NoRequest
  <2>3. UploadAtCall'
     BY DEF UploadAtCall, Goes, Ends, At, ChatShapes, NoRequest, OfUpload, OfMessage,
       OneCompletion, UploadSteps, ChatTypeOK
  <2>4. KeysMatch'
    BY DEF KeysMatch, At, Early, CanChat, ChatTypeOK, NoUpload
  <2>5. Attached'
    BY DEF Attached, AttachedTo, ChatTypeOK
  <2>6. SweptAreLoose'
    BY DEF SweptAreLoose, Early, CanChat, ChatTypeOK, Resting
  <2>. QED  BY <2>1, <2>2, <2>3, <2>4, <2>5, <2>6
<1>14. ASSUME NEW v \in Mates, NEW w \in Mates, MuteTeammate(v, w) PROVE FilesInv'
  <2>. USE <1>14 DEF MuteTeammate
  <2>1. OneCompletion'
    BY DEF OneCompletion, Goes, Ends, At, ChatShapes, NoRequest, OfUpload, OfMessage, UploadSteps
  <2>2. RequestsEnd'
    BY DEF RequestsEnd, Goes, Ends, At, Early, CanChat, ChatShapes, NoRequest
  <2>3. UploadAtCall'
     BY DEF UploadAtCall, Goes, Ends, At, ChatShapes, NoRequest, OfUpload, OfMessage,
       OneCompletion, UploadSteps, ChatTypeOK
  <2>4. KeysMatch'
    BY DEF KeysMatch, At, Early, CanChat, ChatTypeOK, NoUpload
  <2>5. Attached'
    BY DEF Attached, AttachedTo, ChatTypeOK
  <2>6. SweptAreLoose'
    BY DEF SweptAreLoose, Early, CanChat, ChatTypeOK, Resting
  <2>. QED  BY <2>1, <2>2, <2>3, <2>4, <2>5, <2>6
<1>15. ASSUME NEW v \in Mates, NEW w \in Mates, UnmuteTeammate(v, w) PROVE FilesInv'
  <2>. USE <1>15 DEF UnmuteTeammate
  <2>1. OneCompletion'
    BY DEF OneCompletion, Goes, Ends, At, ChatShapes, NoRequest, OfUpload, OfMessage, UploadSteps
  <2>2. RequestsEnd'
    BY DEF RequestsEnd, Goes, Ends, At, Early, CanChat, ChatShapes, NoRequest
  <2>3. UploadAtCall'
     BY DEF UploadAtCall, Goes, Ends, At, ChatShapes, NoRequest, OfUpload, OfMessage,
       OneCompletion, UploadSteps, ChatTypeOK
  <2>4. KeysMatch'
    BY DEF KeysMatch, At, Early, CanChat, ChatTypeOK, NoUpload
  <2>5. Attached'
    BY DEF Attached, AttachedTo, ChatTypeOK
  <2>6. SweptAreLoose'
    BY DEF SweptAreLoose, Early, CanChat, ChatTypeOK, Resting
  <2>. QED  BY <2>1, <2>2, <2>3, <2>4, <2>5, <2>6
<1>16. ASSUME NEW v \in Mates, NEW t \in Texts, ReportMessage(v, t) PROVE FilesInv'
  <2>. USE <1>16 DEF ReportMessage
  <2>1. OneCompletion'
    BY DEF OneCompletion, Goes, Ends, At, ChatShapes, NoRequest, OfUpload, OfMessage, UploadSteps
  <2>2. RequestsEnd'
    BY DEF RequestsEnd, Goes, Ends, At, Early, CanChat, ChatShapes, NoRequest
  <2>3. UploadAtCall'
     BY DEF UploadAtCall, Goes, Ends, At, ChatShapes, NoRequest, OfUpload, OfMessage,
       OneCompletion, UploadSteps, ChatTypeOK
  <2>4. KeysMatch'
    BY DEF KeysMatch, At, Early, CanChat, ChatTypeOK, NoUpload
  <2>5. Attached'
    BY DEF Attached, AttachedTo, ChatTypeOK
  <2>6. SweptAreLoose'
    BY DEF SweptAreLoose, Early, CanChat, ChatTypeOK, Resting
  <2>. QED  BY <2>1, <2>2, <2>3, <2>4, <2>5, <2>6
<1>17. ASSUME ListCleanupCandidates PROVE FilesInv'
  <2>. USE <1>17 DEF ListCleanupCandidates
  <2>1. OneCompletion'
    BY DEF OneCompletion, Goes, Ends, At, ChatShapes, NoRequest, OfUpload, OfMessage, UploadSteps
  <2>2. RequestsEnd'
    BY DEF RequestsEnd, Goes, Ends, At, Early, CanChat, ChatShapes, NoRequest
  <2>3. UploadAtCall'
     BY DEF UploadAtCall, Goes, Ends, At, ChatShapes, NoRequest, OfUpload, OfMessage,
       OneCompletion, UploadSteps, ChatTypeOK
  <2>4. KeysMatch'
    BY DEF KeysMatch, At, Early, CanChat, ChatTypeOK, NoUpload
  <2>5. Attached'
    BY DEF Attached, AttachedTo, ChatTypeOK
  <2>6. SweptAreLoose'
    BY DEF SweptAreLoose, Early, CanChat, ChatTypeOK, Resting
  <2>. QED  BY <2>1, <2>2, <2>3, <2>4, <2>5, <2>6
<1>18. ASSUME DeleteMessages PROVE FilesInv'
  <2>. USE <1>18 DEF DeleteMessages
  <2>1. OneCompletion'
    BY DEF OneCompletion, Goes, Ends, At, ChatShapes, NoRequest, OfUpload, OfMessage, UploadSteps
  <2>2. RequestsEnd'
    BY DEF RequestsEnd, Goes, Ends, At, Early, CanChat, ChatShapes, NoRequest
  <2>3. UploadAtCall'
     BY DEF UploadAtCall, Goes, Ends, At, ChatShapes, NoRequest, OfUpload, OfMessage,
       OneCompletion, UploadSteps, ChatTypeOK
  <2>4. KeysMatch'
    BY DEF KeysMatch, At, Early, CanChat, ChatTypeOK, NoUpload
  <2>5. Attached'
    BY DEF Attached, AttachedTo, ChatTypeOK
  <2>6. SweptAreLoose'
    <3>1. sweep'.at = "objects" /\ sweep'.files = sweep.files
      OBVIOUS
    <3>2. ASSUME NEW t \in Texts, messages[t] \in sweep.files PROVE Swept(t)
      <4>1. PICK u \in sweep.texts : messages[u] = messages[t]
        BY <3>2 DEF SweptAreLoose
      <4>. QED  BY <3>2, <4>1 DEF Attached, AttachedTo, Swept
    <3>3. \A t \in Texts : messages'[t] = Unsent \/ (~ Swept(t) /\ messages'[t] = messages[t])
      OBVIOUS
    <3>. QED  BY <3>1, <3>2, <3>3 DEF SweptAreLoose
  <2>. QED  BY <2>1, <2>2, <2>3, <2>4, <2>5, <2>6
<1>19. ASSUME DeleteObjects PROVE FilesInv'
  <2>. USE <1>19 DEF DeleteObjects
  <2>1. OneCompletion'
    BY DEF OneCompletion, Goes, Ends, At, ChatShapes, NoRequest, OfUpload, OfMessage, UploadSteps
  <2>2. RequestsEnd'
    BY DEF RequestsEnd, Goes, Ends, At, Early, CanChat, ChatShapes, NoRequest
  <2>3. UploadAtCall'
     BY DEF UploadAtCall, Goes, Ends, At, ChatShapes, NoRequest, OfUpload, OfMessage,
       OneCompletion, UploadSteps, ChatTypeOK
  <2>4. KeysMatch'
    BY DEF KeysMatch, At, Early, CanChat, ChatTypeOK, NoUpload
  <2>5. Attached'
    <3>1. ASSUME NEW j \in Images, j \notin sweep.files, <<j, "clean">> \in objects PROVE <<j, "clean">> \in objects'
      BY <3>1
    <3>. QED  BY <3>1 DEF Attached, AttachedTo, SweptAreLoose
  <2>6. SweptAreLoose'
    BY DEF SweptAreLoose, Early, CanChat, ChatTypeOK, Resting
  <2>. QED  BY <2>1, <2>2, <2>3, <2>4, <2>5, <2>6
<1>20. ASSUME DeleteFiles PROVE FilesInv'
  <2>. USE <1>20 DEF DeleteFiles
  <2>1. OneCompletion'
    BY DEF OneCompletion, Goes, Ends, At, ChatShapes, NoRequest, OfUpload, OfMessage, UploadSteps
  <2>2. RequestsEnd'
    BY DEF RequestsEnd, Goes, Ends, At, Early, CanChat, ChatShapes, NoRequest
  <2>3. UploadAtCall'
     BY DEF UploadAtCall, Goes, Ends, At, ChatShapes, NoRequest, OfUpload, OfMessage,
       OneCompletion, UploadSteps, ChatTypeOK
  <2>4. KeysMatch'
    BY DEF KeysMatch, At, Early, CanChat, ChatTypeOK, NoUpload
  <2>5. Attached'
    BY DEF Attached, AttachedTo, SweptAreLoose
  <2>6. SweptAreLoose'
    BY DEF SweptAreLoose, Early, CanChat, ChatTypeOK, Resting
  <2>. QED  BY <2>1, <2>2, <2>3, <2>4, <2>5, <2>6
<1>21. ASSUME DeleteMutesForMatches PROVE FilesInv'
  <2>. USE <1>21 DEF DeleteMutesForMatches
  <2>1. OneCompletion'
    BY DEF OneCompletion, Goes, Ends, At, ChatShapes, NoRequest, OfUpload, OfMessage, UploadSteps
  <2>2. RequestsEnd'
    BY DEF RequestsEnd, Goes, Ends, At, Early, CanChat, ChatShapes, NoRequest
  <2>3. UploadAtCall'
     BY DEF UploadAtCall, Goes, Ends, At, ChatShapes, NoRequest, OfUpload, OfMessage,
       OneCompletion, UploadSteps, ChatTypeOK
  <2>4. KeysMatch'
    BY DEF KeysMatch, At, Early, CanChat, ChatTypeOK, NoUpload
  <2>5. Attached'
    BY DEF Attached, AttachedTo, ChatTypeOK
  <2>6. SweptAreLoose'
    BY DEF SweptAreLoose, Early, CanChat, ChatTypeOK, Resting
  <2>. QED  BY <2>1, <2>2, <2>3, <2>4, <2>5, <2>6
<1>22. ASSUME ListRawUploadsForCleanup PROVE FilesInv'
  <2>. USE <1>22 DEF ListRawUploadsForCleanup
  <2>1. OneCompletion'
    BY DEF OneCompletion, Goes, Ends, At, ChatShapes, NoRequest, OfUpload, OfMessage, UploadSteps
  <2>2. RequestsEnd'
    BY DEF RequestsEnd, Goes, Ends, At, Early, CanChat, ChatShapes, NoRequest
  <2>3. UploadAtCall'
    <3>1. \A d \in ChatCalls : ~ OfUpload(d) /\ ~ OfMessage(d)
      BY DEF Early
    <3>. QED  BY <3>1 DEF UploadAtCall, At, OfUpload, OfMessage, UploadSteps
  <2>4. KeysMatch'
    BY DEF KeysMatch, At, Early, CanChat, ChatTypeOK, NoUpload
  <2>5. Attached'
    <3>1. ASSUME NEW j \in Images, NEW k \in Images PROVE <<j, "clean">> \notin SweptKeys(k)
      BY DEF KeysMatch, SweptKeys, ChatTypeOK
    <3>2. ASSUME NEW j \in Images, <<j, "clean">> \in objects PROVE <<j, "clean">> \in objects'
      <4>1. PICK gone \in SUBSET UNION {SweptKeys(k) : k \in {l \in Images : RawDue(l)}} : objects' = objects \ gone
        OBVIOUS
      <4>. QED  BY <3>1, <3>2, <4>1
    <3>. QED  BY <3>2 DEF Attached, AttachedTo
  <2>6. SweptAreLoose'
    BY DEF SweptAreLoose, Early, CanChat, ChatTypeOK, Resting
  <2>. QED  BY <2>1, <2>2, <2>3, <2>4, <2>5, <2>6
<1>23. ASSUME DeleteUploads PROVE FilesInv'
  <2>. USE <1>23 DEF DeleteUploads
  <2>1. OneCompletion'
    BY DEF OneCompletion, Goes, Ends, At, ChatShapes, NoRequest, OfUpload, OfMessage, UploadSteps
  <2>2. RequestsEnd'
    BY DEF RequestsEnd, Goes, Ends, At, Early, CanChat, ChatShapes, NoRequest
  <2>3. UploadAtCall'
    <3>1. \A d \in ChatCalls : ~ OfUpload(d) /\ ~ OfMessage(d)
      BY DEF SweptAreLoose
    <3>. QED  BY <3>1 DEF UploadAtCall, At, OfUpload, OfMessage, UploadSteps
  <2>4. KeysMatch'
    <3>1. ~ Early /\ ~ Early'
      BY DEF SweptAreLoose, Early
    <3>2. ASSUME NEW i \in Images
          PROVE  /\ uploads'[i].key = "clean" <=> uploads'[i].status = "completed"
                 /\ i \in files => uploads'[i].status = "completed"
      <4>1. CASE i \in sweep.drop
        BY <4>1 DEF KeysMatch, SweptAreLoose, NoUpload
      <4>2. CASE i \notin sweep.drop /\ i \in sweep.clear
        <5>1. uploads'[i] = [uploads[i] EXCEPT !.raw = FALSE]
          BY <4>2
        <5>2. uploads'[i].key = uploads[i].key /\ uploads'[i].status = uploads[i].status
          BY <5>1 DEF ChatTypeOK
        <5>. QED  BY <5>2 DEF KeysMatch
      <4>3. CASE i \notin sweep.drop /\ i \notin sweep.clear
        BY <4>3 DEF KeysMatch
      <4>. QED  BY <4>1, <4>2, <4>3
    <3>. QED  BY <3>1, <3>2 DEF KeysMatch
  <2>5. Attached'
    BY DEF Attached, AttachedTo, ChatTypeOK
  <2>6. SweptAreLoose'
    BY DEF SweptAreLoose, Early, CanChat, ChatTypeOK, Resting
  <2>. QED  BY <2>1, <2>2, <2>3, <2>4, <2>5, <2>6
<1>24. ASSUME SweepDies PROVE FilesInv'
  <2>. USE <1>24 DEF SweepDies
  <2>1. OneCompletion'
    BY DEF OneCompletion, Goes, Ends, At, ChatShapes, NoRequest, OfUpload, OfMessage, UploadSteps
  <2>2. RequestsEnd'
    BY DEF RequestsEnd, Goes, Ends, At, Early, CanChat, ChatShapes, NoRequest
  <2>3. UploadAtCall'
     BY DEF UploadAtCall, Goes, Ends, At, ChatShapes, NoRequest, OfUpload, OfMessage,
       OneCompletion, UploadSteps, ChatTypeOK
  <2>4. KeysMatch'
    BY DEF KeysMatch, At, Early, CanChat, ChatTypeOK, NoUpload
  <2>5. Attached'
    BY DEF Attached, AttachedTo, ChatTypeOK
  <2>6. SweptAreLoose'
    BY DEF SweptAreLoose, Early, CanChat, ChatTypeOK, Resting
  <2>. QED  BY <2>1, <2>2, <2>3, <2>4, <2>5, <2>6
<1>25. ASSUME TimePasses PROVE FilesInv'
  <2>. USE <1>25 DEF TimePasses
  <2>1. OneCompletion'
    BY DEF OneCompletion, Goes, Ends, At, ChatShapes, NoRequest, OfUpload, OfMessage, UploadSteps
  <2>2. RequestsEnd'
    BY AgesInOrder DEF RequestsEnd, At, Early, ChatTypeOK
  <2>3. UploadAtCall'
     BY DEF UploadAtCall, Goes, Ends, At, ChatShapes, NoRequest, OfUpload, OfMessage,
       OneCompletion, UploadSteps, ChatTypeOK
  <2>4. KeysMatch'
    <3>1. Early' => Early
      BY AgesInOrder DEF Early, ChatTypeOK
    <3>. QED  BY <3>1 DEF KeysMatch
  <2>5. Attached'
    BY DEF Attached, AttachedTo, ChatTypeOK
  <2>6. SweptAreLoose'
    <3>1. Early' => Early
      BY AgesInOrder DEF Early, ChatTypeOK
    <3>. QED  BY <3>1 DEF SweptAreLoose
  <2>. QED  BY <2>1, <2>2, <2>3, <2>4, <2>5, <2>6
<1>26. CASE UNCHANGED chatVars
   BY <1>26 DEF chatVars, OneCompletion, RequestsEnd, UploadAtCall, KeysMatch, Attached,
     AttachedTo, SweptAreLoose, At, OfUpload, OfMessage, Early
<1>. QED  BY <1>1, <1>2, <1>3, <1>4, <1>5, <1>6, <1>7, <1>8, <1>9, <1>10, <1>11, <1>12, <1>13,
   <1>14, <1>15, <1>16, <1>17, <1>18, <1>19, <1>20, <1>21, <1>22, <1>23, <1>24, <1>25, <1>26 DEF
   ChatNext, ChatRequest, ChatSweep

(* The inductive invariant of the chat: well-formed requests and passes of  *)
(* the sweep, messages inserted only under their author's lock, and nothing *)
(* swept before it is due (chat_repository.go, cleanup.go).                 *)
THEOREM ChatInvariant == ChatSpec => []ChatInv
<1>1. ChatInit => ChatInv
  BY ChatBegins DEF FilesInv
<1>2. ChatInv /\ [ChatNext]_chatVars => ChatInv'
  BY ChatInvStep
<1>. QED  BY <1>1, <1>2, PTL DEF ChatSpec

(* Every row, object and lock of the chat has a value of its type, and an   *)
(* author's rate window never holds more messages than its limit.           *)
THEOREM ChatTypeCorrect == ChatSpec => []ChatTypeOK
<1>1. ChatInv => ChatTypeOK
  BY DEF ChatInv
<1>. QED  BY <1>1, ChatInvariant, PTL

(* A reported message, with what it shows, stays until the report may be    *)
(* forgotten, whatever the two passes of the retention worker do.           *)
THEOREM ReportsAreKept == ChatSpec => ReportedAreKept
<1>1. ASSUME ChatInv, [ChatNext]_chatVars
      PROVE  \A t \in reported : messages'[t] = messages[t] \/ age = "forgotten"
  <2>. SUFFICES ASSUME NEW t \in reported, messages'[t] # messages[t]
                PROVE  age = "forgotten"
    OBVIOUS
  <2>. t \in Texts /\ Stands(t)
    BY <1>1 DEF ChatInv, ChatTypeOK
  <2>1. (\E c \in ChatCalls : InsertMessage(c)) \/ DeleteMessages
    BY <1>1 DEF ChatNext, ChatRequest, ChatSweep, chatVars, CreateUpload, StoreRaw, CompleteUpload,
       HeadObject, SanitizeStoredObject, MarkUploadRejected, FinalizeUpload, DropRaw, ClearRawStorageKey,
       SendMessage, CheckChatLimits, WindowPasses, MuteTeammate, UnmuteTeammate, ReportMessage,
       ListCleanupCandidates, DeleteObjects, DeleteFiles, DeleteMutesForMatches,
       ListRawUploadsForCleanup, DeleteUploads, SweepDies, TimePasses
  <2>2. ASSUME NEW c \in ChatCalls, InsertMessage(c) PROVE FALSE
    <3>1. \/ messages' = messages
          \/ /\ ~ Stands(calls[c].text)
             /\ messages' = [messages EXCEPT ![calls[c].text] = calls[c].file]
      BY <2>2 DEF InsertMessage
    <3>. QED  BY <1>1, <3>1 DEF ChatInv, ChatTypeOK
  <2>3. CASE DeleteMessages
    BY <1>1, <2>3 DEF DeleteMessages, Swept, ChatInv, SweptAreDue
  <2>. QED  BY <2>1, <2>2, <2>3
<1>. QED  BY <1>1, ChatInvariant, PTL DEF ChatSpec, ReportedAreKept

(* Where the completions of an upload do not overlap, an image that a       *)
(* message shows has its file row and its sanitised object, through failing *)
(* storage, refused uploads and both passes of the sweep.                   *)
THEOREM AttachmentsStayOpen ==
    ASSUME ~ RetriesOverlap
    PROVE  ChatSpec => []AttachmentsOpen
<1>1. ChatInit => FilesInv
  BY ChatBegins
<1>2. FilesInv /\ [ChatNext]_chatVars => FilesInv'
  BY FilesInvStep
<1>3. FilesInv => AttachmentsOpen
  BY DEF FilesInv, Attached, AttachmentsOpen, Linked, Listed
<1>. QED  BY <1>1, <1>2, <1>3, PTL DEF ChatSpec

-----------------------------------------------------------------------------
(* The channel.  What the variables hold.                                   *)

Phases == {"away", "ticketed", "joined", "wired", "live", "unwired", "gone"}

EventRows == [kind : Kinds \cup {"service"}, source : Participants \cup {"none"}, at : Instances,
              audience : SUBSET Participants, status : {"drawn", "redis", "local"}]

CommandRows == [step : {"idle", "apply", "recipients", "publish", "ack"}, kind : Kinds \cup {"none"},
                id : Commands \cup {"none"}, event : Nat]

ChannelShapes ==
    /\ phase \in [Sockets -> Phases] /\ shut \subseteq Sockets
    /\ queue \in [Sockets -> Seq(Nat)] /\ got \in [Sockets -> Seq(Nat)]
    /\ past \in [Sockets -> SUBSET Nat]
    /\ refs \in [Instances -> Nat] /\ asked \subseteq Instances /\ listening \subseteq Instances
    /\ steady \subseteq Sockets
    /\ wire \in [Instances -> Seq(Nat)] /\ seen \in [Instances -> SUBSET Nat]
    /\ events \in Seq(EventRows) /\ Len(events) <= MaxEvents
    /\ command \in [Sockets -> CommandRows]
    /\ \A s \in Sockets : command[s].step # "idle" => command[s].id \in Commands
    /\ acks \subseteq Participants \X Commands
    /\ guessed \subseteq Participants /\ locked \subseteq guessed
    /\ marker \in [Participants -> 0 .. MaxEvents]

(* What a client has been sent or will be, and what is under way to it.     *)
Sent(s) == got[s] \o queue[s]
SentSet(s) == Range(Sent(s))
OnWire(i) == Range(wire[i])

(* A command has an event of its own from the moment it is stored until it  *)
(* is published.                                                            *)
HasEvent(s) == command[s].step \in {"recipients", "publish"}

CommandsInHand ==
    /\ \A s \in Sockets : command[s].event \in {0} \cup DOMAIN events
    /\ \A s \in Sockets : HasEvent(s) => LET e == command[s].event IN
          e \in DOMAIN events /\ events[e].status = "drawn"
          /\ events[e].kind # "service" /\ events[e].source = UserOf[s]
    /\ \A s, r \in Sockets :
          HasEvent(s) /\ HasEvent(r) /\ command[s].event = command[r].event => s = r

(* Only a published event travels, and only to its audience. *)
Announced == {e \in DOMAIN events : events[e].status # "drawn"}

InFlight ==
    /\ \A i \in Instances : OnWire(i) \subseteq Announced /\ seen[i] \subseteq Announced
    /\ \A s \in Sockets : SentSet(s) \subseteq {e \in Announced : UserOf[s] \in events[e].audience}
    /\ \A s \in Sockets : past[s] \subseteq DOMAIN events /\ Len(queue[s]) <= QueueSize

(* A view is for those who have guessed, on the right side. *)
MayBeShown(v, source) == v \in guessed /\ ((TeamOf[v] = TeamOf[source]) <=> ~ Solo)

ViewAudiences ==
    \A e \in DOMAIN events : events[e].kind = "view" =>
        \A v \in events[e].audience : MayBeShown(v, events[e].source)

(* References are held by the sockets between subscribing and hanging up,   *)
(* and while there is one, Redis listens or is asked to.                    *)
Holders(i) == {s \in Sockets : InstanceOf[s] = i /\ phase[s] \in {"wired", "live"}}

References ==
    /\ \A i \in Instances :
          /\ refs[i] <= Cardinality(Holders(i))
          /\ ~ SubFaults => refs[i] = Cardinality(Holders(i))
          /\ refs[i] # 0 => i \in asked \cup listening
    /\ \A s \in steady : InstanceOf[s] \in listening

(* When a PUBLISH that failed was not carried, an event travels one way. *)
OneWay ==
    /\ \A i \in Instances : OnWire(i) \subseteq Published /\ seen[i] \subseteq Published
    /\ \A s \in Sockets : /\ IsInjective(Sent(s))
                          /\ SentSet(s) \cap Published \subseteq seen[InstanceOf[s]]

(* What an instance received is passed on; while the subscription stands,  *)
(* what Redis carried is received.                                          *)
Owed(s) == {e \in Published \ past[s] : UserOf[s] \in events[e].audience}

Arrived(s) ==
    /\ Owed(s) \cap seen[InstanceOf[s]] \subseteq SentSet(s)
    /\ s \in steady => Owed(s) \subseteq SentSet(s) \cup OnWire(InstanceOf[s])

AllArrives == \A s \in Sockets \ shut : phase[s] = "live" => Arrived(s)

ChannelInv ==
    /\ ChannelShapes /\ CommandsInHand /\ InFlight /\ ViewAudiences /\ References /\ AllArrives
    /\ "unknown" \notin PubFaults => OneWay

(* An event added at the end of what a client is sent. *)
LEMMA Adding ==
    ASSUME NEW w \in Seq(Nat), NEW e \in Nat
    PROVE  /\ Append(w, e) \in Seq(Nat) /\ Len(Append(w, e)) = Len(w) + 1
           /\ Range(Append(w, e)) = Range(w) \cup {e}
           /\ IsInjective(w) /\ e \notin Range(w) => IsInjective(Append(w, e))
<1>1. /\ Append(w, e) \in Seq(Nat) /\ Len(Append(w, e)) = Len(w) + 1
      /\ \A i \in 1..Len(w) : Append(w, e)[i] = w[i]
      /\ Append(w, e)[Len(w) + 1] = e
  BY AppendProperties
<1>2. Range(Append(w, e)) = Range(w) \cup {e}
  BY <1>1 DEF Range
<1>3. ASSUME IsInjective(w), e \notin Range(w) PROVE IsInjective(Append(w, e))
  BY <1>1, <1>3 DEF IsInjective, Range
<1>. QED  BY <1>1, <1>2, <1>3

(* ... and of its queue. *)
LEMMA Sending ==
    ASSUME NEW g \in Seq(Nat), NEW q \in Seq(Nat), NEW e \in Nat
    PROVE  g \o Append(q, e) = Append(g \o q, e)
  BY SMTT(30)

(* The write pump moves an event from the queue to the client. *)
LEMMA Writing ==
    ASSUME NEW g \in Seq(Nat), NEW q \in Seq(Nat), q # <<>>
    PROVE  /\ Append(g, Head(q)) \o Tail(q) = g \o q
           /\ Append(g, Head(q)) \in Seq(Nat)
           /\ Tail(q) \in Seq(Nat) /\ Len(Tail(q)) <= Len(q)
  BY SMTT(30)

(* A queue that is thrown away. *)
LEMMA Leaving ==
    ASSUME NEW g \in Seq(Nat), NEW q \in Seq(Nat)
    PROVE  /\ g \o <<>> = g
           /\ Range(g) \subseteq Range(g \o q)
           /\ IsInjective(g \o q) => IsInjective(g)
<1>1. g \o <<>> = g
  BY ConcatEmptySeq
<1>2. Range(g) \subseteq Range(g \o q)
  BY RangeConcatenation
<1>3. /\ Len(g \o q) = Len(g) + Len(q)
      /\ \A i \in 1..Len(g) : (g \o q)[i] = g[i]
  BY ConcatProperties
<1>4. ASSUME IsInjective(g \o q) PROVE IsInjective(g)
  <2>. DEFINE both == g \o q
  <2>1. /\ \A i \in DOMAIN g : i \in DOMAIN both /\ both[i] = g[i]
        /\ \A a, b \in DOMAIN both : both[a] = both[b] => a = b
    BY <1>3, <1>4 DEF IsInjective
  <2>. HIDE DEF both
  <2>. QED  BY <2>1, Zenon DEF IsInjective
<1>. QED  BY <1>1, <1>2, <1>4

(* The message Redis delivers next. *)
LEMMA Arriving ==
    ASSUME NEW w \in Seq(Nat), w # <<>>
    PROVE  /\ Head(w) \in Nat /\ Tail(w) \in Seq(Nat)
           /\ Range(w) = {Head(w)} \cup Range(Tail(w))
<1>1. /\ Head(w) \in Nat /\ Tail(w) \in Seq(Nat) /\ Len(w) \in Nat \ {0}
      /\ Len(Tail(w)) = Len(w) - 1 /\ w[1] = Head(w)
      /\ \A i \in 1..(Len(w) - 1) : Tail(w)[i] = w[i + 1]
  OBVIOUS
<1>2. Range(w) \subseteq {Head(w)} \cup Range(Tail(w))
  <2>1. ASSUME NEW j \in 1..Len(w), j # 1 PROVE w[j] \in Range(Tail(w))
    <3>1. j - 1 \in DOMAIN Tail(w) /\ Tail(w)[j - 1] = w[j]
      BY <1>1, <2>1
    <3>. QED  BY <3>1, Zenon DEF Range
  <2>. QED  BY <1>1, <2>1 DEF Range
<1>3. {Head(w)} \cup Range(Tail(w)) \subseteq Range(w)
  BY <1>1 DEF Range
<1>. QED  BY <1>1, <1>2, <1>3

(* The message Redis carries, once or more. *)
LEMMA Copying ==
    ASSUME NEW w \in Seq(Nat), NEW e \in Nat, NEW n \in Nat \ {0}
    PROVE  /\ w \o [k \in 1..n |-> e] \in Seq(Nat)
           /\ Range(w \o [k \in 1..n |-> e]) = Range(w) \cup {e}
<1>. DEFINE c == [k \in 1..n |-> e]
<1>1. c \in Seq(Nat) /\ Range(c) = {e}
  BY IsASeq DEF Range
<1>. HIDE DEF c
<1>2. w \o c \in Seq(Nat) /\ Range(w \o c) = Range(w) \cup Range(c)
  BY <1>1, RangeConcatenation, ConcatProperties
<1>. QED  BY <1>1, <1>2, Zenon DEF c

(* The state the channel of a match begins in. *)
LEMMA ChannelBegins == ASSUME ChannelInit PROVE ChannelInv
<1>. USE DEF ChannelInit
<1>1. ChannelShapes
  BY ChannelAssumption DEF ChannelShapes, Phases, CommandRows, Idle
<1>2. CommandsInHand /\ ViewAudiences
  BY DEF CommandsInHand, HasEvent, Idle, ViewAudiences
<1>3. /\ \A s \in Sockets : Sent(s) = <<>> /\ SentSet(s) = {} /\ IsInjective(Sent(s))
      /\ \A i \in Instances : OnWire(i) = {}
  <2>1. <<>> \o <<>> = <<>> /\ Range(<<>>) = {} /\ IsInjective(<<>>)
    BY DEF Range, IsInjective
  <2>. QED  BY <2>1 DEF Sent, SentSet, OnWire
<1>4. InFlight
  BY <1>3, ChannelAssumption DEF InFlight
<1>5. Published = {}
  BY DEF Published
<1>6. OneWay /\ AllArrives
  BY <1>3, <1>5 DEF OneWay, AllArrives, Arrived, Owed
<1>7. References
  <2>1. \A i \in Instances : Holders(i) = {}
    BY DEF Holders
  <2>2. Cardinality({}) = 0
    BY FS_EmptySet
  <2>3. steady = {} /\ \A i \in Instances : refs[i] = 0 /\ Cardinality(Holders(i)) = 0
    BY <2>1, <2>2
  <2>. HIDE DEF ChannelInit
  <2>. QED  BY <2>3 DEF References
<1>. QED  BY <1>1, <1>2, <1>4, <1>6, <1>7 DEF ChannelInv

(* The rows of events, one by one. *)
LEMMA EventShapes ==
    ASSUME ChannelShapes, NEW e \in DOMAIN events
    PROVE  /\ events[e] \in EventRows /\ e \in 1..Len(events) /\ e \in Nat
           /\ events[e].kind \in Kinds \cup {"service"} /\ events[e].at \in Instances
           /\ events[e].audience \subseteq Participants
           /\ events[e].status \in {"drawn", "redis", "local"}
<1>1. events[e] \in EventRows /\ e \in 1..Len(events) /\ e \in Nat
  BY DEF ChannelShapes
<1>. QED  BY <1>1 DEF EventRows

(* An event that is drawn is the next one, and no other changes. *)
LEMMA Drawing ==
    ASSUME ChannelShapes, NEW kind \in Kinds \cup {"service"}, NEW source \in Participants \cup {"none"},
           NEW i \in Instances, NEW audience \in SUBSET Participants, Draw(kind, source, i, audience)
    PROVE  /\ events' \in Seq(EventRows) /\ Len(events') <= MaxEvents
           /\ Len(events) + 1 \in Nat /\ Len(events) + 1 \notin DOMAIN events
           /\ Len(events) + 1 <= MaxEvents
           /\ DOMAIN events' = DOMAIN events \cup {Len(events) + 1}
           /\ \A e \in DOMAIN events : events'[e] = events[e]
           /\ events'[Len(events) + 1] = [kind |-> kind, source |-> source, at |-> i,
                                          audience |-> audience, status |-> "drawn"]
           /\ Announced' = Announced /\ Published' = Published
<1>. DEFINE row == [kind |-> kind, source |-> source, at |-> i, audience |-> audience, status |-> "drawn"]
<1>1. row \in EventRows /\ row.status = "drawn"
  BY DEF EventRows
<1>2. events' = Append(events, row) /\ Len(events) < MaxEvents /\ events \in Seq(EventRows)
  BY DEF Draw, ChannelShapes
<1>. HIDE DEF row
<1>3. /\ events' \in Seq(EventRows) /\ Len(events') = Len(events) + 1 /\ Len(events) \in Nat
      /\ \A e \in 1..Len(events) : events'[e] = events[e]
      /\ events'[Len(events) + 1] = row
  BY <1>1, <1>2
<1>4. DOMAIN events = 1..Len(events) /\ DOMAIN events' = 1..(Len(events) + 1)
  BY <1>2, <1>3
<1>5. DOMAIN events' = DOMAIN events \cup {Len(events) + 1} /\ Len(events) + 1 \notin DOMAIN events
  BY <1>3, <1>4
<1>6. Announced' = Announced /\ Published' = Published
  BY <1>1, <1>3, <1>4, <1>5 DEF Announced, Published
<1>7. Len(events') <= MaxEvents /\ Len(events) + 1 <= MaxEvents
  BY <1>2, <1>3, ChannelAssumption
<1>. QED  BY <1>3, <1>4, <1>5, <1>6, <1>7 DEF row

(* The hub of an instance adds an event to what its audience there is sent, *)
(* or shuts those who cannot take it.                                       *)
LEMMA Offering ==
    ASSUME ChannelShapes, \A s \in Sockets : Len(queue[s]) <= QueueSize,
           NEW i, NEW e \in Nat, Offer(i, e)
    PROVE  /\ queue' \in [Sockets -> Seq(Nat)] /\ \A s \in Sockets : Len(queue'[s]) <= QueueSize
           /\ shut' \subseteq Sockets /\ shut \subseteq shut' /\ UNCHANGED <<phase, got, past>>
           /\ \A s \in Sockets :
                \/ /\ s \in Addressed(i, e) /\ Sent(s)' = Append(Sent(s), e)
                   /\ Sent(s) \in Seq(Nat)
                   /\ SentSet(s)' = SentSet(s) \cup {e}
                \/ /\ s \in Addressed(i, e) => s \in shut'
                   /\ Sent(s)' = Sent(s) /\ SentSet(s)' = SentSet(s)
<1>1. /\ queue' = [s \in Sockets |-> IF s \in Addressed(i, e) /\ ~ Full(s) THEN Append(queue[s], e) ELSE queue[s]]
      /\ shut' = shut \cup {s \in Addressed(i, e) : Full(s)}
      /\ UNCHANGED <<phase, got, past>>
  BY DEF Offer
<1>2. Addressed(i, e) \subseteq Sockets
  BY DEF Addressed, InHub
<1>3. ASSUME NEW s \in Sockets
      PROVE  /\ queue[s] \in Seq(Nat) /\ got[s] \in Seq(Nat) /\ Len(queue[s]) \in Nat
             /\ Append(queue[s], e) \in Seq(Nat) /\ Len(Append(queue[s], e)) = Len(queue[s]) + 1
             /\ ~ Full(s) => Len(Append(queue[s], e)) <= QueueSize
  BY ChannelAssumption DEF ChannelShapes, Full
<1>4. queue' \in [Sockets -> Seq(Nat)] /\ \A s \in Sockets : Len(queue'[s]) <= QueueSize
  BY <1>1, <1>3
<1>5. ASSUME NEW s \in Sockets, s \in Addressed(i, e), ~ Full(s)
      PROVE  /\ Sent(s)' = Append(Sent(s), e) /\ Sent(s) \in Seq(Nat)
             /\ SentSet(s)' = SentSet(s) \cup {e}
  <2>1. queue'[s] = Append(queue[s], e) /\ got'[s] = got[s]
    BY <1>1, <1>5
  <2>2. Sent(s)' = Append(Sent(s), e) /\ Sent(s) \in Seq(Nat)
    <3>1. /\ got[s] \o Append(queue[s], e) = Append(got[s] \o queue[s], e)
          /\ got[s] \o queue[s] \in Seq(Nat)
      BY <1>3, Sending, ConcatProperties
    <3>. QED  BY <2>1, <3>1, Zenon DEF Sent
  <2>. QED  BY <2>2, Adding DEF SentSet
<1>6. ASSUME NEW s \in Sockets, ~ (s \in Addressed(i, e) /\ ~ Full(s))
      PROVE  /\ s \in Addressed(i, e) => s \in shut'
             /\ Sent(s)' = Sent(s) /\ SentSet(s)' = SentSet(s)
  BY <1>1, <1>6 DEF Sent, SentSet
<1>7. shut' \subseteq Sockets /\ shut \subseteq shut'
  BY <1>1, <1>2 DEF ChannelShapes
<1>. QED  BY <1>1, <1>4, <1>5, <1>6, <1>7

(* Redis carries an event to the instances that listen. *)
LEMMA Carrying ==
    ASSUME ChannelShapes, NEW e \in Nat, NEW n \in {1, 2}, Carry(n, e)
    PROVE  /\ wire' \in [Instances -> Seq(Nat)]
           /\ \A i \in Instances : OnWire(i)' = IF i \in listening THEN OnWire(i) \cup {e} ELSE OnWire(i)
<1>1. ASSUME NEW i \in Instances
      PROVE  /\ wire'[i] \in Seq(Nat)
             /\ OnWire(i)' = IF i \in listening THEN OnWire(i) \cup {e} ELSE OnWire(i)
  <2>. DEFINE longer == wire[i] \o [k \in 1..n |-> e]
  <2>1. longer \in Seq(Nat) /\ Range(longer) = Range(wire[i]) \cup {e} /\ wire[i] \in Seq(Nat)
    BY Copying DEF ChannelShapes
  <2>2. wire'[i] = IF i \in listening THEN longer ELSE wire[i]
    BY DEF Carry
  <2>. HIDE DEF longer
  <2>. QED  BY <2>1, <2>2 DEF OnWire
<1>2. DOMAIN wire' = Instances /\ wire' = [i \in Instances |-> wire'[i]]
  BY DEF Carry
<1>. QED  BY <1>1, <1>2

(* Where nothing is sent and nobody moves, what is under way stays so. *)
LEMMA QuietStep ==
    ASSUME ChannelInv, UNCHANGED <<socketVars, pubsubVars>>,
           Announced' = Announced, Published' = Published, DOMAIN events \subseteq DOMAIN events',
           \A e \in Announced : events'[e].audience = events[e].audience
    PROVE  /\ InFlight' /\ References' /\ AllArrives'
           /\ "unknown" \notin PubFaults => OneWay'
<1>1. /\ \A s \in Sockets : Sent(s)' = Sent(s) /\ SentSet(s)' = SentSet(s)
      /\ \A i \in Instances : OnWire(i)' = OnWire(i) /\ Holders(i)' = Holders(i)
      /\ UNCHANGED <<phase, shut, queue, got, past, refs, asked, listening, steady, wire, seen>>
  BY DEF Sent, SentSet, OnWire, Holders, socketVars, pubsubVars, subVars
<1>2. Announced \subseteq DOMAIN events /\ Published \subseteq Announced
  BY DEF Announced, Published
<1>3. InFlight'
  BY <1>1, <1>2 DEF ChannelInv, InFlight
<1>4. References'
  BY <1>1 DEF ChannelInv, References
<1>5. OneWay => OneWay'
  BY <1>1 DEF OneWay
<1>6. \A s \in Sockets : Owed(s)' = Owed(s)
  BY <1>1, <1>2 DEF Owed
<1>7. AllArrives'
  <2>1. ASSUME NEW s \in Sockets \ shut, phase[s] = "live" PROVE Arrived(s)'
    <3>1. InstanceOf[s] \in Instances /\ s \in Sockets
      BY ChannelAssumption
    <3>2. Arrived(s)
      BY <2>1, Zenon DEF ChannelInv, AllArrives
    <3>. QED  BY <1>1, <1>6, <3>1, <3>2 DEF Arrived
  <2>. QED  BY <1>1, <2>1, Zenon DEF AllArrives
<1>. QED  BY <1>3, <1>4, <1>5, <1>7 DEF ChannelInv

(* The row of a command, field by field. *)
LEMMA CommandShapes ==
    ASSUME ChannelShapes, NEW s \in Sockets
    PROVE  /\ command[s] \in CommandRows
           /\ command[s].step \in {"idle", "apply", "recipients", "publish", "ack"}
           /\ command[s].event \in Nat
           /\ command[s].step # "idle" => command[s].id \in Commands
           /\ UserOf[s] \in Participants /\ InstanceOf[s] \in Instances
  BY ChannelAssumption DEF ChannelShapes, CommandRows

(* A command whose handler has drawn its event. *)
LEMMA StoredCommand ==
    ASSUME ChannelShapes, NEW s \in Sockets, command[s].step = "apply",
           NEW next \in {"recipients", "publish"}, Stored(s, next)
    PROVE  /\ command' \in [Sockets -> CommandRows]
           /\ \A r \in Sockets : command'[r].step # "idle" => command'[r].id \in Commands
           /\ command'[s].step = next /\ command'[s].event = Len(events) + 1
           /\ \A r \in Sockets \ {s} : command'[r] = command[r]
<1>1. /\ command[s] \in CommandRows /\ command[s].id \in Commands
      /\ Len(events) + 1 \in Nat
  BY CommandShapes DEF ChannelShapes
<1>. DEFINE new == [command[s] EXCEPT !.step = next, !.event = Len(events) + 1]
<1>2. command' = [command EXCEPT ![s] = new]
  BY DEF Stored, ChannelShapes
<1>3. /\ new \in CommandRows /\ new.step = next /\ new.event = Len(events) + 1 /\ new.id = command[s].id
  BY <1>1 DEF CommandRows
<1>. HIDE DEF new
<1>4. command \in [Sockets -> CommandRows]
  BY DEF ChannelShapes
<1>5. command' \in [Sockets -> CommandRows] /\ command'[s] = new /\ \A r \in Sockets \ {s} : command'[r] = command[r]
  BY <1>2, <1>3, <1>4
<1>. QED  BY <1>1, <1>3, <1>5, CommandShapes

(* A command that has only its step changed. *)
LEMMA MovedCommand ==
    ASSUME ChannelShapes, NEW s \in Sockets, command[s].step # "idle",
           NEW next \in {"publish", "ack"}, command' = [command EXCEPT ![s].step = next]
    PROVE  /\ command' \in [Sockets -> CommandRows]
           /\ \A r \in Sockets : command'[r].step # "idle" => command'[r].id \in Commands
           /\ command'[s].step = next /\ command'[s].event = command[s].event
           /\ \A r \in Sockets \ {s} : command'[r] = command[r]
<1>1. command[s] \in CommandRows /\ command[s].id \in Commands
  BY CommandShapes
<1>. DEFINE new == [command[s] EXCEPT !.step = next]
<1>2. command' = [command EXCEPT ![s] = new]
  BY DEF ChannelShapes
<1>3. new \in CommandRows /\ new.step = next /\ new.event = command[s].event /\ new.id = command[s].id
  BY <1>1 DEF CommandRows
<1>. HIDE DEF new
<1>4. command \in [Sockets -> CommandRows]
  BY DEF ChannelShapes
<1>5. command' \in [Sockets -> CommandRows] /\ command'[s] = new /\ \A r \in Sockets \ {s} : command'[r] = command[r]
  BY <1>2, <1>3, <1>4
<1>. QED  BY <1>1, <1>3, <1>5, CommandShapes

(* A command that draws an event of its own keeps the invariant. *)
LEMMA DrawingStep ==
    ASSUME ChannelInv, NEW s \in Sockets, command[s].step = "apply",
           NEW next \in {"recipients", "publish"}, Stored(s, next),
           NEW kind \in Kinds, NEW audience \in SUBSET Participants, kind = "view" => audience = {},
           Draw(kind, UserOf[s], InstanceOf[s], audience),
           marker' \in [Participants -> 0 .. MaxEvents],
           UNCHANGED <<socketVars, pubsubVars, acks, guessed, locked>>
    PROVE  ChannelInv'
<1>. USE DEF ChannelInv
<1>1. UserOf[s] \in Participants /\ InstanceOf[s] \in Instances
  BY CommandShapes
<1>2. /\ events' \in Seq(EventRows) /\ Len(events') <= MaxEvents
      /\ Len(events) + 1 \notin DOMAIN events
      /\ DOMAIN events' = DOMAIN events \cup {Len(events) + 1}
      /\ \A e \in DOMAIN events : events'[e] = events[e]
      /\ events'[Len(events) + 1] = [kind |-> kind, source |-> UserOf[s], at |-> InstanceOf[s],
                                     audience |-> audience, status |-> "drawn"]
      /\ Announced' = Announced /\ Published' = Published
  <2>1. /\ ChannelShapes /\ kind \in Kinds \cup {"service"}
        /\ UserOf[s] \in Participants \cup {"none"} /\ InstanceOf[s] \in Instances
        /\ audience \in SUBSET Participants /\ Draw(kind, UserOf[s], InstanceOf[s], audience)
    BY <1>1
  <2>. HIDE DEF ChannelInv
  <2>. QED  BY ONLY <2>1, Drawing, Zenon
<1>3. /\ command' \in [Sockets -> CommandRows]
      /\ \A r \in Sockets : command'[r].step # "idle" => command'[r].id \in Commands
      /\ command'[s].step = next /\ command'[s].event = Len(events) + 1
      /\ \A r \in Sockets \ {s} : command'[r] = command[r]
  BY StoredCommand
<1>4. ChannelShapes'
  BY <1>2, <1>3 DEF ChannelShapes, socketVars, pubsubVars, subVars
<1>5. CommandsInHand'
  <2>1. ASSUME NEW r \in Sockets
        PROVE  /\ command'[r].event \in {0} \cup DOMAIN events'
               /\ HasEvent(r)' => /\ command'[r].event \in DOMAIN events'
                                  /\ events'[command'[r].event].status = "drawn"
                                  /\ events'[command'[r].event].kind # "service"
                                  /\ events'[command'[r].event].source = UserOf[r]
    <3>1. CASE r = s
      BY <1>2, <1>3, <3>1 DEF Kinds
    <3>2. CASE r # s
      BY <1>2, <1>3, <3>2, CommandShapes DEF CommandsInHand, HasEvent
    <3>. QED  BY <3>1, <3>2
  <2>2. ASSUME NEW r \in Sockets, r # s, HasEvent(r)' PROVE command'[r].event \in DOMAIN events /\ HasEvent(r)
    BY <1>3, <2>2 DEF HasEvent, CommandsInHand
  <2>3. ASSUME NEW r \in Sockets, NEW q \in Sockets, HasEvent(r)', HasEvent(q)', command'[r].event = command'[q].event
        PROVE  r = q
    BY <1>2, <1>3, <2>2, <2>3 DEF CommandsInHand
  <2>. QED  BY <2>1, <2>3, Zenon DEF CommandsInHand
<1>6. ViewAudiences'
  <2>1. ASSUME NEW e \in DOMAIN events', events'[e].kind = "view", NEW v \in events'[e].audience
        PROVE  e \in DOMAIN events /\ events'[e] = events[e]
    BY <1>2, <2>1
  <2>. QED  BY <2>1 DEF ViewAudiences, MayBeShown
<1>7. \A e \in Announced : events'[e].audience = events[e].audience
  BY <1>2 DEF Announced
<1>. QED  BY <1>2, <1>4, <1>5, <1>6, <1>7, QuietStep

(* Any other step of a socket's command, or of a guess, that draws nothing. *)
LEMMA CommandStep ==
    ASSUME ChannelInv, UNCHANGED <<socketVars, pubsubVars, events, marker, locked>>,
           guessed \subseteq guessed', guessed' \subseteq Participants,
           command' \in [Sockets -> CommandRows], acks' \subseteq Participants \X Commands,
           \A s \in Sockets : command'[s].step # "idle" => command'[s].id \in Commands,
           \A s \in Sockets : command'[s] = command[s] \/ (~ HasEvent(s)' /\ command'[s].event = 0)
    PROVE  ChannelInv'
<1>. USE DEF ChannelInv
<1>1. ChannelShapes'
  BY DEF ChannelShapes, socketVars, pubsubVars, subVars
<1>2. \A s \in Sockets : HasEvent(s)' => HasEvent(s) /\ command'[s] = command[s]
  BY DEF HasEvent
<1>3. CommandsInHand'
  <2>1. \A s \in Sockets : command'[s].event \in {0} \cup DOMAIN events'
    BY DEF CommandsInHand
  <2>. QED  BY <1>2, <2>1 DEF CommandsInHand
<1>4. ViewAudiences'
  BY DEF ViewAudiences, MayBeShown
<1>5. Announced' = Announced /\ Published' = Published
  BY DEF Announced, Published
<1>. QED  BY <1>1, <1>3, <1>4, <1>5, QuietStep

(* A service's event. *)
LEMMA NextVersionStep == ASSUME ChannelInv, NEW i \in Instances, NextVersion(i) PROVE ChannelInv'
<1>. USE DEF ChannelInv, NextVersion
<1>2. /\ events' \in Seq(EventRows) /\ Len(events') <= MaxEvents
      /\ Len(events) + 1 \notin DOMAIN events
      /\ DOMAIN events' = DOMAIN events \cup {Len(events) + 1}
      /\ \A e \in DOMAIN events : events'[e] = events[e]
      /\ events'[Len(events) + 1].kind = "service"
      /\ Announced' = Announced /\ Published' = Published
  <2>1. /\ ChannelShapes /\ "service" \in Kinds \cup {"service"} /\ "none" \in Participants \cup {"none"}
        /\ Participants \in SUBSET Participants /\ Draw("service", "none", i, Participants)
    OBVIOUS
  <2>. HIDE DEF ChannelInv, NextVersion
  <2>. DEFINE row == [kind |-> "service", source |-> "none", at |-> i, audience |-> Participants, status |-> "drawn"]
  <2>2. /\ events' \in Seq(EventRows) /\ Len(events') <= MaxEvents
        /\ Len(events) + 1 \notin DOMAIN events
        /\ DOMAIN events' = DOMAIN events \cup {Len(events) + 1}
        /\ \A e \in DOMAIN events : events'[e] = events[e]
        /\ events'[Len(events) + 1] = row
        /\ Announced' = Announced /\ Published' = Published
    BY <2>1, Drawing, Zenon
  <2>. QED  BY <2>2
<1>3. ChannelShapes'
  BY <1>2 DEF ChannelShapes, socketVars, pubsubVars, subVars, roundVars
<1>4. CommandsInHand'
  BY <1>2 DEF CommandsInHand, HasEvent
<1>5. ViewAudiences'
  BY <1>2 DEF ViewAudiences, MayBeShown, roundVars
<1>6. \A e \in Announced : events'[e].audience = events[e].audience
  BY <1>2 DEF Announced
<1>. QED  BY <1>2, <1>3, <1>4, <1>5, <1>6, QuietStep

(* A row of an event that is written. *)
LEMMA WrittenRow ==
    ASSUME ChannelShapes, NEW e \in DOMAIN events, NEW row \in EventRows, events' = [events EXCEPT ![e] = row]
    PROVE  /\ events' \in Seq(EventRows) /\ Len(events') = Len(events)
           /\ DOMAIN events' = DOMAIN events /\ events'[e] = row
           /\ \A f \in DOMAIN events \ {e} : events'[f] = events[f]
<1>1. events \in Seq(EventRows) /\ e \in 1..Len(events)
  BY DEF ChannelShapes
<1>. QED  BY <1>1, ExceptSeq

(* ... to say how it was published. *)
LEMMA MarkedRow ==
    ASSUME ChannelShapes, NEW e \in DOMAIN events, NEW status \in {"redis", "local"}, Mark(e, status)
    PROVE  /\ events' \in Seq(EventRows) /\ Len(events') = Len(events)
           /\ DOMAIN events' = DOMAIN events /\ events'[e].status = status
           /\ \A f \in DOMAIN events : /\ events'[f].kind = events[f].kind /\ events'[f].source = events[f].source
                                       /\ events'[f].audience = events[f].audience
           /\ \A f \in DOMAIN events \ {e} : events'[f] = events[f]
<1>. DEFINE row == [events[e] EXCEPT !.status = status]
<1>1. events[e] \in EventRows
  BY EventShapes
<1>2. /\ row \in EventRows /\ row.status = status /\ row.kind = events[e].kind
      /\ row.source = events[e].source /\ row.audience = events[e].audience
  BY <1>1 DEF EventRows
<1>3. events' = [events EXCEPT ![e] = row]
  BY DEF Mark
<1>. HIDE DEF row
<1>4. /\ events' \in Seq(EventRows) /\ Len(events') = Len(events)
      /\ DOMAIN events' = DOMAIN events /\ events'[e] = row
      /\ \A f \in DOMAIN events \ {e} : events'[f] = events[f]
  BY <1>2, <1>3, WrittenRow
<1>. QED  BY <1>2, <1>4

(* The recipients of a view are those who may see it now. *)
LEMMA ViewRecipientsStep == ASSUME ChannelInv, NEW s \in Sockets, ViewRecipients(s) PROVE ChannelInv'
<1>. DEFINE e == command[s].event
            watchers == SpectatorsOf(UserOf[s])
            row == [events[e] EXCEPT !.audience = watchers]
            next == IF watchers = {} THEN "ack" ELSE "publish"
<1>1. /\ e \in DOMAIN events /\ events[e].status = "drawn" /\ events[e].kind # "service"
      /\ events[e].source = UserOf[s] /\ UserOf[s] \in Participants
      /\ ChannelShapes /\ command[s].step = "recipients"
  BY CommandShapes DEF ViewRecipients, ChannelInv, CommandsInHand, HasEvent
<1>2. watchers \subseteq Participants /\ \A v \in watchers : MayBeShown(v, UserOf[s])
  BY <1>1 DEF SpectatorsOf, AllowedTargets, CanSpectate, MayWatch, MayBeShown
<1>3. /\ row \in EventRows /\ row.status = "drawn" /\ row.kind = events[e].kind
      /\ row.source = UserOf[s] /\ row.audience = watchers
  <2>1. events[e] \in EventRows
    BY <1>1, EventShapes
  <2>. HIDE DEF watchers, e
  <2>. QED  BY <1>1, <1>2, <2>1 DEF EventRows
<1>4. events' = [events EXCEPT ![e] = row]
  BY DEF ViewRecipients
<1>5. next \in {"publish", "ack"} /\ command' = [command EXCEPT ![s].step = next]
  BY DEF ViewRecipients
<1>6. UNCHANGED <<socketVars, pubsubVars, acks, roundVars>>
  BY DEF ViewRecipients
<1>. HIDE DEF e, watchers, row, next
<1>7. /\ events' \in Seq(EventRows) /\ Len(events') = Len(events)
      /\ DOMAIN events' = DOMAIN events /\ events'[e] = row
      /\ \A f \in DOMAIN events \ {e} : events'[f] = events[f]
  BY <1>1, <1>3, <1>4, WrittenRow
<1>8. /\ command' \in [Sockets -> CommandRows]
      /\ \A r \in Sockets : command'[r].step # "idle" => command'[r].id \in Commands
      /\ command'[s].step = next /\ command'[s].event = e
      /\ \A r \in Sockets \ {s} : command'[r] = command[r]
  BY <1>1, <1>5, MovedCommand DEF e
<1>9. Announced' = Announced /\ Published' = Published
  BY <1>1, <1>3, <1>7 DEF Announced, Published
<1>10. \A f \in Announced : events'[f].audience = events[f].audience
  BY <1>1, <1>7 DEF Announced
<1>11. ChannelShapes'
  BY <1>6, <1>7, <1>8 DEF ChannelInv, ChannelShapes, socketVars, pubsubVars, subVars, roundVars
<1>12. CommandsInHand'
  <2>1. \A r \in Sockets : command'[r].event = command[r].event /\ (HasEvent(r)' => HasEvent(r))
    BY <1>1, <1>8 DEF HasEvent, e
  <2>2. \A f \in DOMAIN events : /\ events'[f].status = events[f].status /\ events'[f].kind = events[f].kind
                                 /\ events'[f].source = events[f].source
    BY <1>1, <1>3, <1>7
  <2>. QED  BY <1>7, <2>1, <2>2 DEF ChannelInv, CommandsInHand
<1>13. ViewAudiences'
  <2>1. ASSUME NEW f \in DOMAIN events, events'[f].kind = "view", NEW v \in events'[f].audience
        PROVE  MayBeShown(v, events'[f].source)
    BY <1>2, <1>3, <1>7, <2>1 DEF ChannelInv, ViewAudiences
  <2>2. UNCHANGED guessed
    BY <1>6 DEF roundVars
  <2>. QED  BY <1>7, <2>1, <2>2 DEF ViewAudiences, MayBeShown
<1>. QED  BY <1>6, <1>7, <1>9, <1>10, <1>11, <1>12, <1>13, QuietStep DEF ChannelInv

(* The sockets that hold a reference can be counted. *)
LEMMA HoldersAreFinite ==
    ASSUME NEW i \in Instances
    PROVE  IsFiniteSet(Holders(i)) /\ Cardinality(Holders(i)) \in Nat
           /\ Cardinality(Holders(i)) <= Cardinality(Sockets) /\ Cardinality(Sockets) \in Nat
  BY ChannelAssumption, FS_Subset, FS_CardinalityType DEF Holders

(* Where a SUBSCRIBE does not fail, the instance of a socket that is served  *)
(* is subscribed, or will be.                                                *)
LEMMA SubscribedInv == ChannelInv /\ ~ SubFaults => StaysSubscribed
<1>. SUFFICES ASSUME ChannelInv, ~ SubFaults, NEW s \in Sockets, phase[s] \in {"wired", "live"}
              PROVE  InstanceOf[s] \in asked \cup listening
  BY DEF StaysSubscribed
<1>1. InstanceOf[s] \in Instances
  BY ChannelAssumption
<1>2. Holders(InstanceOf[s]) # {}
  BY DEF Holders
<1>3. Cardinality(Holders(InstanceOf[s])) # 0
  BY <1>1, <1>2, HoldersAreFinite, FS_EmptySet
<1>. QED  BY <1>1, <1>3 DEF ChannelInv, References

(* The two ways PUBLISH can end: carried by Redis, or offered to the hub of *)
(* the instance, with or without a copy on the wire.                        *)
LEMMA Publishing ==
    ASSUME ChannelShapes, NEW e \in DOMAIN events, PublishEvent(e)
    PROVE  /\ UNCHANGED <<subVars, seen>>
           /\ wire' \in [Instances -> Seq(Nat)]
           /\ \/ /\ Mark(e, "redis") /\ UNCHANGED socketVars
                 /\ \A i \in Instances : OnWire(i)' = IF i \in listening THEN OnWire(i) \cup {e} ELSE OnWire(i)
              \/ /\ Mark(e, "local") /\ Offer(events[e].at, e)
                 /\ \A i \in Instances : OnWire(i) \subseteq OnWire(i)' /\ OnWire(i)' \subseteq OnWire(i) \cup {e}
                 /\ "unknown" \notin PubFaults => \A i \in Instances : OnWire(i)' = OnWire(i)
<1>1. e \in Nat
  BY EventShapes
<1>2. CASE Carry(1, e) /\ Mark(e, "redis") /\ UNCHANGED <<socketVars, subVars, seen>>
  BY <1>1, <1>2, Carrying
<1>3. CASE Carry(2, e) /\ Mark(e, "redis") /\ UNCHANGED <<socketVars, subVars, seen>>
  BY <1>1, <1>3, Carrying
<1>4. CASE Offer(events[e].at, e) /\ Mark(e, "local") /\ UNCHANGED pubsubVars
  <2>1. UNCHANGED <<subVars, seen>> /\ wire' = wire
    BY <1>4 DEF pubsubVars, subVars
  <2>2. \A i \in Instances : OnWire(i)' = OnWire(i)
    BY <2>1 DEF OnWire
  <2>. QED  BY <1>4, <2>1, <2>2 DEF ChannelShapes
<1>5. CASE /\ "unknown" \in PubFaults /\ Carry(1, e) /\ Offer(events[e].at, e) /\ Mark(e, "local")
           /\ UNCHANGED <<subVars, seen>>
  <2>1. /\ wire' \in [Instances -> Seq(Nat)]
        /\ \A i \in Instances : OnWire(i)' = IF i \in listening THEN OnWire(i) \cup {e} ELSE OnWire(i)
    BY <1>1, <1>5, Carrying
  <2>. QED  BY <1>5, <2>1
<1>. QED  BY <1>2, <1>3, <1>4, <1>5, Zenon DEF PublishEvent

(* An event that is published by the one that drew it, once. *)
LEMMA PublishStep ==
    ASSUME ChannelInv, NEW e \in DOMAIN events, events[e].status = "drawn", PublishEvent(e),
           UNCHANGED <<acks, roundVars>>, command' \in [Sockets -> CommandRows],
           \A s \in Sockets : command'[s].step # "idle" => command'[s].id \in Commands,
           \A s \in Sockets : command'[s].event = command[s].event,
           \A s \in Sockets : HasEvent(s)' => HasEvent(s) /\ command[s].event # e
    PROVE  ChannelInv'
<1>1. /\ ChannelShapes /\ InFlight /\ References /\ CommandsInHand /\ ViewAudiences /\ AllArrives
      /\ "unknown" \notin PubFaults => OneWay
  BY DEF ChannelInv
<1>2. e \in Nat /\ e \notin Announced /\ Announced \subseteq DOMAIN events /\ Published \subseteq Announced
  BY <1>1, EventShapes DEF Announced, Published
<1>3. /\ UNCHANGED <<refs, asked, listening, steady, seen>> /\ wire' \in [Instances -> Seq(Nat)]
      /\ \E status \in {"redis", "local"} : Mark(e, status)
      /\ \A i \in Instances : OnWire(i) \subseteq OnWire(i)' /\ OnWire(i)' \subseteq OnWire(i) \cup {e}
  BY <1>1, Publishing DEF subVars
<1>4. /\ events' \in Seq(EventRows) /\ Len(events') = Len(events)
      /\ DOMAIN events' = DOMAIN events /\ events'[e].status # "drawn"
      /\ \A f \in DOMAIN events : /\ events'[f].kind = events[f].kind /\ events'[f].source = events[f].source
                                  /\ events'[f].audience = events[f].audience
      /\ \A f \in DOMAIN events \ {e} : events'[f] = events[f]
  <2>1. PICK status \in {"redis", "local"} : Mark(e, status)
    BY <1>3
  <2>. QED  BY <1>1, <2>1, MarkedRow
<1>5. Announced' = Announced \cup {e}
  BY <1>4 DEF Announced
<1>6. /\ queue' \in [Sockets -> Seq(Nat)] /\ \A s \in Sockets : Len(queue'[s]) <= QueueSize
      /\ shut' \subseteq Sockets /\ shut \subseteq shut' /\ UNCHANGED <<phase, got, past>>
      /\ \A s \in Sockets :
           \/ Sent(s)' = Sent(s) /\ SentSet(s)' = SentSet(s)
           \/ /\ UserOf[s] \in events[e].audience /\ SentSet(s)' = SentSet(s) \cup {e}
              /\ Sent(s)' = Append(Sent(s), e) /\ Sent(s) \in Seq(Nat) /\ Mark(e, "local")
  <2>1. CASE UNCHANGED socketVars
    BY <1>1, <2>1 DEF socketVars, Sent, SentSet, InFlight, ChannelShapes
  <2>2. CASE Offer(events[e].at, e) /\ Mark(e, "local")
    <3>1. \A s \in Sockets : Len(queue[s]) <= QueueSize
      BY <1>1 DEF InFlight
    <3>2. \A s \in Addressed(events[e].at, e) : UserOf[s] \in events[e].audience
      BY DEF Addressed
    <3>. QED  BY <1>1, <1>2, <2>2, <3>1, <3>2, Offering
  <2>. QED  BY <1>1, <2>1, <2>2, Publishing
<1>7. ChannelShapes'
  BY <1>1, <1>3, <1>4, <1>6 DEF ChannelShapes, roundVars
<1>8. CommandsInHand'
  BY <1>1, <1>4 DEF CommandsInHand
<1>9. ViewAudiences'
  BY <1>1, <1>4 DEF ViewAudiences, MayBeShown, roundVars
<1>10. References'
  <2>1. \A i \in Instances : Holders(i)' = Holders(i)
    BY <1>6 DEF Holders
  <2>. QED  BY <1>1, <1>3, <2>1 DEF References
<1>11. InFlight'
  <2>1. ASSUME NEW i \in Instances PROVE OnWire(i)' \subseteq Announced' /\ seen'[i] \subseteq Announced'
    BY <1>1, <1>3, <1>5 DEF InFlight
  <2>2. ASSUME NEW s \in Sockets, NEW f \in SentSet(s)'
        PROVE  f \in Announced' /\ UserOf[s] \in events'[f].audience
    BY <1>1, <1>2, <1>4, <1>5, <1>6 DEF InFlight
  <2>3. \A s \in Sockets : past'[s] \subseteq DOMAIN events' /\ Len(queue'[s]) <= QueueSize
    BY <1>1, <1>4, <1>6 DEF InFlight
  <2>. QED  BY <2>1, <2>2, <2>3 DEF InFlight
<1>12. \A i \in Instances : e \notin OnWire(i) /\ e \notin seen[i]
  BY <1>1, <1>2 DEF InFlight
<1>13. \A s \in Sockets : e \notin SentSet(s)
  BY <1>1, <1>2 DEF InFlight
<1>14. Published' = IF events'[e].status = "redis" THEN Published \cup {e} ELSE Published
  BY <1>4 DEF Published
<1>15. ASSUME "unknown" \notin PubFaults PROVE OneWay'
  <2>1. OneWay
    BY <1>1, <1>15
  <2>2. CASE events'[e].status = "redis"
    <3>1. ~ Mark(e, "local")
      BY <1>1, <2>2, MarkedRow
    <3>2. \A s \in Sockets : Sent(s)' = Sent(s) /\ SentSet(s)' = SentSet(s)
      BY <1>6, <3>1
    <3>. QED  BY <1>3, <1>13, <1>14, <2>1, <2>2, <3>2 DEF OneWay
  <2>3. CASE events'[e].status # "redis"
    <3>1. ~ Mark(e, "redis")
      BY <1>1, <2>3, MarkedRow
    <3>2. \A i \in Instances : OnWire(i)' = OnWire(i)
      BY <1>1, <1>15, <3>1, Publishing
    <3>3. ASSUME NEW s \in Sockets PROVE IsInjective(Sent(s)')
      <4>1. IsInjective(Sent(s))
        BY <2>1 DEF OneWay
      <4>2. CASE Sent(s)' = Sent(s)
        BY <4>1, <4>2
      <4>3. CASE Sent(s)' = Append(Sent(s), e) /\ Sent(s) \in Seq(Nat)
        BY <1>2, <1>13, <4>1, <4>3, Adding DEF SentSet
      <4>. QED  BY <1>6, <4>2, <4>3
    <3>4. e \notin Published
      BY <1>2
    <3>. QED  BY <1>3, <1>6, <1>14, <2>1, <2>3, <3>2, <3>3, <3>4 DEF OneWay
  <2>. QED  BY <2>2, <2>3
<1>16. AllArrives'
  <2>1. ASSUME NEW s \in Sockets \ shut', phase'[s] = "live" PROVE Arrived(s)'
    <3>1. s \in Sockets \ shut /\ phase[s] = "live" /\ InstanceOf[s] \in Instances
      BY <1>6, <2>1, ChannelAssumption
    <3>2. /\ Owed(s) \cap seen[InstanceOf[s]] \subseteq SentSet(s)
          /\ s \in steady => Owed(s) \subseteq SentSet(s) \cup OnWire(InstanceOf[s])
      BY <1>1, <3>1, Zenon DEF AllArrives, Arrived
    <3>3. Owed(s)' \subseteq Owed(s) \cup (IF events'[e].status = "redis" THEN {e} ELSE {})
      BY <1>2, <1>4, <1>6, <1>14 DEF Owed
    <3>4. SentSet(s) \subseteq SentSet(s)'
      BY <1>6
    <3>5. ASSUME events'[e].status = "redis", s \in steady PROVE e \in OnWire(InstanceOf[s])'
      <4>1. ~ Mark(e, "local")
        BY <1>1, <3>5, MarkedRow
      <4>2. InstanceOf[s] \in listening
        BY <1>1, <3>5 DEF References
      <4>. QED  BY <1>1, <3>1, <4>1, <4>2, Publishing
    <3>6. Owed(s)' \cap seen'[InstanceOf[s]] \subseteq SentSet(s)'
      BY <1>3, <1>12, <3>1, <3>2, <3>3, <3>4
    <3>7. s \in steady' => Owed(s)' \subseteq SentSet(s)' \cup OnWire(InstanceOf[s])'
      BY <1>3, <3>1, <3>2, <3>3, <3>4, <3>5
    <3>. QED  BY <3>6, <3>7 DEF Arrived
  <2>. QED  BY <2>1, Zenon DEF AllArrives
<1>. QED  BY <1>7, <1>8, <1>9, <1>10, <1>11, <1>15, <1>16 DEF ChannelInv

(* A message arrives at an instance. *)
LEMMA ReceiveStep == ASSUME ChannelInv, NEW i \in Instances, Receive(i) PROVE ChannelInv'
<1>. DEFINE e == Head(wire[i])
<1>1. /\ ChannelShapes /\ InFlight /\ References /\ CommandsInHand /\ ViewAudiences /\ AllArrives
      /\ "unknown" \notin PubFaults => OneWay
  BY DEF ChannelInv
<1>2. /\ wire[i] \in Seq(Nat) /\ wire[i] # <<>> /\ wire' = [wire EXCEPT ![i] = Tail(wire[i])]
      /\ seen' = [seen EXCEPT ![i] = seen[i] \cup {e}]
      /\ IF Fresh(i, e) THEN Offer(i, e) ELSE UNCHANGED socketVars
      /\ UNCHANGED <<refs, asked, listening, steady, events, command, acks, roundVars>>
  BY <1>1 DEF Receive, ChannelShapes, subVars
<1>3. e \in Nat /\ Tail(wire[i]) \in Seq(Nat) /\ OnWire(i) = {e} \cup Range(Tail(wire[i]))
  BY <1>2, Arriving DEF OnWire
<1>4. e \in Announced
  BY <1>1, <1>3 DEF InFlight
<1>. HIDE DEF e
<1>5. /\ \A j \in Instances : OnWire(j)' \subseteq OnWire(j)
      /\ \A j \in Instances : OnWire(j) \subseteq OnWire(j)' \cup (IF j = i THEN {e} ELSE {})
      /\ \A j \in Instances : seen'[j] = seen[j] \cup (IF j = i THEN {e} ELSE {})
      /\ wire' \in [Instances -> Seq(Nat)] /\ seen' \in [Instances -> SUBSET Nat]
  BY <1>1, <1>2, <1>3 DEF OnWire, ChannelShapes
<1>6. /\ queue' \in [Sockets -> Seq(Nat)] /\ \A s \in Sockets : Len(queue'[s]) <= QueueSize
      /\ shut' \subseteq Sockets /\ shut \subseteq shut' /\ UNCHANGED <<phase, got, past>>
      /\ \A s \in Sockets :
           \/ /\ Sent(s)' = Sent(s) /\ SentSet(s)' = SentSet(s)
              /\ Fresh(i, e) => (s \in Addressed(i, e) => s \in shut')
           \/ /\ s \in Addressed(i, e) /\ SentSet(s)' = SentSet(s) \cup {e} /\ Fresh(i, e)
              /\ Sent(s)' = Append(Sent(s), e) /\ Sent(s) \in Seq(Nat)
  <2>1. CASE ~ Fresh(i, e)
    BY <1>1, <1>2, <2>1 DEF socketVars, Sent, SentSet, InFlight, ChannelShapes
  <2>2. CASE Fresh(i, e)
    <3>1. \A s \in Sockets : Len(queue[s]) <= QueueSize
      BY <1>1 DEF InFlight
    <3>. QED  BY <1>1, <1>2, <1>3, <2>2, <3>1, Offering
  <2>. QED  BY <2>1, <2>2
<1>7. \A s \in Addressed(i, e) : InstanceOf[s] = i /\ UserOf[s] \in events[e].audience
  BY DEF Addressed
<1>8. ChannelShapes'
  BY <1>1, <1>2, <1>5, <1>6 DEF ChannelShapes, roundVars
<1>9. CommandsInHand' /\ ViewAudiences'
  BY <1>1, <1>2 DEF CommandsInHand, HasEvent, ViewAudiences, MayBeShown, roundVars
<1>10. References'
  <2>1. \A j \in Instances : Holders(j)' = Holders(j)
    BY <1>6 DEF Holders
  <2>. QED  BY <1>1, <1>2, <2>1 DEF References
<1>11. Announced' = Announced /\ Published' = Published
  BY <1>2 DEF Announced, Published
<1>12. InFlight'
  <2>1. ASSUME NEW j \in Instances PROVE OnWire(j)' \subseteq Announced' /\ seen'[j] \subseteq Announced'
    BY <1>1, <1>4, <1>5, <1>11 DEF InFlight
  <2>2. ASSUME NEW s \in Sockets, NEW f \in SentSet(s)'
        PROVE  f \in Announced' /\ UserOf[s] \in events'[f].audience
    BY <1>1, <1>2, <1>4, <1>6, <1>7, <1>11 DEF InFlight
  <2>3. \A s \in Sockets : past'[s] \subseteq DOMAIN events' /\ Len(queue'[s]) <= QueueSize
    BY <1>1, <1>2, <1>6 DEF InFlight
  <2>. QED  BY <2>1, <2>2, <2>3 DEF InFlight
<1>13. ASSUME "unknown" \notin PubFaults PROVE OneWay'
  <2>1. OneWay
    BY <1>1, <1>13
  <2>2. e \in Published
    BY <1>3, <2>1 DEF OneWay
  <2>3. ASSUME NEW s \in Sockets
        PROVE  IsInjective(Sent(s)') /\ SentSet(s)' \cap Published \subseteq seen'[InstanceOf[s]]
    <3>1. /\ IsInjective(Sent(s)) /\ SentSet(s) \cap Published \subseteq seen[InstanceOf[s]]
          /\ InstanceOf[s] \in Instances
      BY <2>1, ChannelAssumption DEF OneWay
    <3>2. CASE Sent(s)' = Sent(s) /\ SentSet(s)' = SentSet(s)
      BY <1>5, <3>1, <3>2
    <3>3. CASE /\ s \in Addressed(i, e) /\ SentSet(s)' = SentSet(s) \cup {e} /\ Fresh(i, e)
               /\ Sent(s)' = Append(Sent(s), e) /\ Sent(s) \in Seq(Nat)
      <4>1. e \notin SentSet(s)
        BY <1>7, <2>2, <3>1, <3>3 DEF Fresh
      <4>2. IsInjective(Sent(s)')
        BY <1>3, <3>1, <3>3, <4>1, Adding DEF SentSet
      <4>3. e \in seen'[InstanceOf[s]]
        BY <1>5, <1>7, <3>1, <3>3
      <4>. QED  BY <1>5, <3>1, <3>3, <4>2, <4>3
    <3>. QED  BY <1>6, <3>2, <3>3
  <2>4. ASSUME NEW j \in Instances PROVE OnWire(j)' \subseteq Published /\ seen'[j] \subseteq Published
    BY <1>5, <2>1, <2>2 DEF OneWay
  <2>. QED  BY <1>11, <2>3, <2>4 DEF OneWay
<1>14. AllArrives'
  <2>1. ASSUME NEW s \in Sockets \ shut', phase'[s] = "live" PROVE Arrived(s)'
    <3>1. s \in Sockets \ shut /\ phase[s] = "live" /\ InstanceOf[s] \in Instances
      BY <1>6, <2>1, ChannelAssumption
    <3>2. /\ Owed(s) \cap seen[InstanceOf[s]] \subseteq SentSet(s)
          /\ s \in steady => Owed(s) \subseteq SentSet(s) \cup OnWire(InstanceOf[s])
      BY <1>1, <3>1, Zenon DEF AllArrives, Arrived
    <3>3. Owed(s)' = Owed(s) /\ steady' = steady
      BY <1>2, <1>6, <1>11 DEF Owed
    <3>4. SentSet(s) \subseteq SentSet(s)'
      BY <1>6
    <3>5. ASSUME e \in Owed(s), InstanceOf[s] = i PROVE e \in SentSet(s)'
      <4>1. CASE ~ Fresh(i, e)
        BY <3>2, <3>4, <3>5, <4>1 DEF Fresh
      <4>2. CASE Fresh(i, e)
        <5>1. s \in Addressed(i, e)
          BY <3>1, <3>5 DEF Addressed, InHub, Owed
        <5>. QED  BY <1>6, <2>1, <4>2, <5>1
      <4>. QED  BY <4>1, <4>2
    <3>6. CASE InstanceOf[s] = i
      <4>1. OnWire(i) \subseteq OnWire(i)' \cup {e} /\ seen'[i] = seen[i] \cup {e}
        BY <1>5
      <4>. QED  BY <3>2, <3>3, <3>4, <3>5, <3>6, <4>1 DEF Arrived
    <3>7. CASE InstanceOf[s] # i
      <4>1. OnWire(InstanceOf[s]) \subseteq OnWire(InstanceOf[s])' /\ seen'[InstanceOf[s]] = seen[InstanceOf[s]]
        BY <1>5, <3>1, <3>7
      <4>. QED  BY <3>2, <3>3, <3>4, <4>1 DEF Arrived
    <3>. QED  BY <3>6, <3>7
  <2>. QED  BY <2>1, Zenon DEF AllArrives
<1>. QED  BY <1>8, <1>9, <1>10, <1>12, <1>13, <1>14 DEF ChannelInv

(* A step of a socket that touches neither its references nor what it is    *)
(* sent: it goes from one phase to another in which it is not served.       *)
LEMMA PhaseStep ==
    ASSUME ChannelInv, NEW s \in Sockets, NEW p \in Phases, Enter(s, p),
           phase[s] \notin {"wired", "live"}, p \notin {"wired", "live"},
           queue' = queue \/ queue' = [queue EXCEPT ![s] = <<>>],
           UNCHANGED <<shut, got, past, pubsubVars, events, command, acks, roundVars>>
    PROVE  ChannelInv'
<1>1. /\ ChannelShapes /\ InFlight /\ References /\ CommandsInHand /\ ViewAudiences /\ AllArrives
      /\ "unknown" \notin PubFaults => OneWay
  BY DEF ChannelInv
<1>2. /\ phase' \in [Sockets -> Phases] /\ phase'[s] = p /\ \A r \in Sockets \ {s} : phase'[r] = phase[r]
  BY <1>1 DEF ChannelShapes, Enter
<1>3. UNCHANGED <<refs, asked, listening, steady, wire, seen, guessed, locked, marker>>
  BY DEF pubsubVars, subVars, roundVars
<1>4. ASSUME NEW r \in Sockets
      PROVE  /\ queue'[r] \in Seq(Nat) /\ Len(queue'[r]) <= QueueSize
             /\ SentSet(r)' \subseteq SentSet(r)
             /\ IsInjective(Sent(r)) => IsInjective(Sent(r)')
             /\ r # s => Sent(r)' = Sent(r) /\ SentSet(r)' = SentSet(r)
  <2>1. queue[r] \in Seq(Nat) /\ got[r] \in Seq(Nat) /\ Len(queue[r]) <= QueueSize
    BY <1>1 DEF ChannelShapes, InFlight
  <2>2. CASE queue'[r] = queue[r]
    BY <2>1, <2>2 DEF Sent, SentSet
  <2>3. CASE queue'[r] = <<>> /\ r = s
    <3>1. Sent(r)' = got[r]
      BY <2>1, <2>3, Leaving DEF Sent
    <3>2. SentSet(r)' \subseteq SentSet(r) /\ (IsInjective(Sent(r)) => IsInjective(Sent(r)'))
      BY <2>1, <3>1, Leaving DEF Sent, SentSet
    <3>3. Len(<<>>) = 0 /\ <<>> \in Seq(Nat) /\ 0 <= QueueSize
      BY ChannelAssumption
    <3>. QED  BY <2>3, <3>2, <3>3
  <2>4. queue'[r] = queue[r] \/ (queue'[r] = <<>> /\ r = s)
    BY <1>1 DEF ChannelShapes
  <2>. QED  BY <2>2, <2>3, <2>4
<1>5. queue' \in [Sockets -> Seq(Nat)]
  <2>1. DOMAIN queue' = Sockets /\ queue' = [r \in Sockets |-> queue'[r]]
    BY <1>1 DEF ChannelShapes
  <2>. QED  BY <1>4, <2>1
<1>6. ChannelShapes'
  BY <1>1, <1>2, <1>3, <1>5 DEF ChannelShapes
<1>7. CommandsInHand' /\ ViewAudiences'
  BY <1>1, <1>3 DEF CommandsInHand, HasEvent, ViewAudiences, MayBeShown
<1>8. /\ \A i \in Instances : OnWire(i)' = OnWire(i) /\ Holders(i)' = Holders(i)
      /\ Announced' = Announced /\ Published' = Published
  BY <1>2, <1>3 DEF OnWire, Holders, Announced, Published
<1>9. References'
  BY <1>1, <1>3, <1>8 DEF References
<1>10. InFlight'
  <2>1. ASSUME NEW r \in Sockets, NEW f \in SentSet(r)'
        PROVE  f \in Announced' /\ UserOf[r] \in events'[f].audience
    BY <1>1, <1>4, <1>8 DEF InFlight
  <2>. QED  BY <1>1, <1>3, <1>4, <1>8, <2>1 DEF InFlight
<1>11. ASSUME OneWay PROVE OneWay'
  BY <1>3, <1>4, <1>8, <1>11 DEF OneWay
<1>12. AllArrives'
  <2>1. ASSUME NEW r \in Sockets \ shut', phase'[r] = "live" PROVE Arrived(r)'
    <3>1. r \in Sockets \ shut /\ phase[r] = "live" /\ InstanceOf[r] \in Instances /\ r # s
      BY <1>2, <2>1, ChannelAssumption
    <3>2. Arrived(r)
      BY <1>1, <3>1, Zenon DEF AllArrives
    <3>3. Owed(r)' = Owed(r)
      BY <1>8 DEF Owed
    <3>. QED  BY <1>3, <1>4, <1>8, <3>1, <3>2, <3>3 DEF Arrived
  <2>. QED  BY <2>1, Zenon DEF AllArrives
<1>. QED  BY <1>1, <1>6, <1>7, <1>9, <1>10, <1>11, <1>12 DEF ChannelInv

(* A step of a socket that adds nothing to what anybody is sent. *)
LEMMA StillStep ==
    ASSUME ChannelInv, ChannelShapes', References',
           UNCHANGED <<shut, seen, events, command, guessed>>,
           \A s \in Sockets : Sent(s)' = Sent(s) /\ Len(queue'[s]) <= QueueSize /\ past'[s] \subseteq DOMAIN events,
           \A i \in Instances : OnWire(i)' \subseteq OnWire(i),
           \A s \in Sockets : phase'[s] = "live" =>
              \/ past'[s] = Published
              \/ phase[s] = "live" /\ past'[s] = past[s]
                 /\ (s \in steady' => s \in steady /\ OnWire(InstanceOf[s])' = OnWire(InstanceOf[s]))
    PROVE  ChannelInv'
<1>1. /\ ChannelShapes /\ InFlight /\ References /\ CommandsInHand /\ ViewAudiences /\ AllArrives
      /\ "unknown" \notin PubFaults => OneWay
  BY DEF ChannelInv
<1>2. CommandsInHand' /\ ViewAudiences'
  BY <1>1 DEF CommandsInHand, HasEvent, ViewAudiences, MayBeShown
<1>3. /\ \A s \in Sockets : SentSet(s)' = SentSet(s)
      /\ Announced' = Announced /\ Published' = Published
  BY DEF SentSet, Announced, Published
<1>4. InFlight'
  BY <1>1, <1>3 DEF InFlight
<1>5. ASSUME OneWay PROVE OneWay'
  BY <1>3, <1>5 DEF OneWay
<1>6. AllArrives'
  <2>1. ASSUME NEW r \in Sockets \ shut', phase'[r] = "live" PROVE Arrived(r)'
    <3>1. CASE past'[r] = Published
      <4>1. Owed(r)' = {}
        BY <1>3, <3>1 DEF Owed
      <4>. QED  BY <4>1 DEF Arrived
    <3>2. CASE /\ phase[r] = "live" /\ past'[r] = past[r]
               /\ (r \in steady' => r \in steady /\ OnWire(InstanceOf[r])' = OnWire(InstanceOf[r]))
      <4>1. Owed(r)' = Owed(r)
        BY <1>3, <3>2 DEF Owed
      <4>2. Arrived(r)
        BY <1>1, <2>1, <3>2, Zenon DEF AllArrives
      <4>. QED  BY <1>3, <2>1, <3>2, <4>1, <4>2 DEF Arrived
    <3>. QED  BY <2>1, <3>1, <3>2
  <2>. QED  BY <2>1, Zenon DEF AllArrives
<1>. QED  BY <1>1, <1>2, <1>4, <1>5, <1>6 DEF ChannelInv

(* A socket takes a reference, or fails to. *)
LEMMA SubscribeStep == ASSUME ChannelInv, NEW s \in Sockets, SubscribeChannel(s) PROVE ChannelInv'
<1>. DEFINE i == InstanceOf[s]
<1>1. ChannelShapes /\ References /\ InFlight /\ i \in Instances
  BY CommandShapes DEF ChannelInv
<1>2. /\ phase[s] = "joined" /\ phase' = [phase EXCEPT ![s] = "wired"]
      /\ \/ /\ refs' = [refs EXCEPT ![i] = refs[i] + 1]
            /\ asked' = IF refs[i] = 0 THEN asked \cup {i} ELSE asked
         \/ SubFaults /\ refs[i] = 0 /\ refs' = refs /\ asked' \in {asked, asked \cup {i}}
      /\ UNCHANGED <<shut, queue, got, past, listening, steady, wire, seen, events, command, acks, roundVars>>
  BY <1>1 DEF SubscribeChannel, Enter, ChannelShapes
<1>. HIDE DEF i
<1>3. ChannelShapes'
  <2>1. refs[i] + 1 \in Nat /\ refs \in [Instances -> Nat] /\ asked \subseteq Instances
    BY <1>1 DEF ChannelShapes
  <2>2. refs' \in [Instances -> Nat] /\ asked' \subseteq Instances
    BY <1>1, <1>2, <2>1
  <2>3. phase' \in [Sockets -> Phases]
    BY <1>1, <1>2 DEF ChannelShapes, Phases
  <2>. QED  BY <1>1, <1>2, <2>2, <2>3 DEF ChannelShapes, roundVars
<1>4. /\ Holders(i)' = Holders(i) \cup {s} /\ s \notin Holders(i)
      /\ \A j \in Instances \ {i} : Holders(j)' = Holders(j)
  BY <1>1, <1>2 DEF Holders, ChannelShapes, i
<1>5. /\ Cardinality(Holders(i)') = Cardinality(Holders(i)) + 1 /\ Cardinality(Holders(i)) \in Nat
  BY <1>1, <1>4, HoldersAreFinite, FS_AddElement
<1>6. References'
  <2>1. ASSUME NEW j \in Instances
        PROVE  /\ refs'[j] <= Cardinality(Holders(j)')
               /\ ~ SubFaults => refs'[j] = Cardinality(Holders(j)')
               /\ refs'[j] # 0 => j \in asked' \cup listening'
    <3>1. /\ refs[j] <= Cardinality(Holders(j)) /\ refs[j] \in Nat
          /\ ~ SubFaults => refs[j] = Cardinality(Holders(j))
          /\ refs[j] # 0 => j \in asked \cup listening
      BY <1>1 DEF References, ChannelShapes
    <3>2. asked \subseteq asked' /\ listening' = listening
      BY <1>2
    <3>3. CASE j # i
      <4>1. refs'[j] = refs[j] /\ Holders(j)' = Holders(j)
        BY <1>1, <1>2, <1>4, <3>3 DEF ChannelShapes
      <4>. QED  BY <3>1, <3>2, <4>1
    <3>4. CASE j = i
      <4>1. CASE /\ refs' = [refs EXCEPT ![i] = refs[i] + 1]
                 /\ asked' = IF refs[i] = 0 THEN asked \cup {i} ELSE asked
        <5>1. refs'[j] = refs[j] + 1
          BY <1>1, <3>4, <4>1 DEF ChannelShapes
        <5>2. j \in asked' \cup listening'
          BY <3>1, <3>2, <3>4, <4>1
        <5>. QED  BY <1>5, <3>1, <3>4, <5>1, <5>2
      <4>2. CASE SubFaults /\ refs[i] = 0 /\ refs' = refs
        BY <1>5, <3>1, <3>4, <4>2
      <4>. QED  BY <1>2, <4>1, <4>2
    <3>. QED  BY <3>3, <3>4
  <2>2. \A r \in steady' : InstanceOf[r] \in listening'
    BY <1>1, <1>2 DEF References
  <2>. QED  BY <2>1, <2>2 DEF References
<1>7. /\ \A r \in Sockets : Sent(r)' = Sent(r) /\ Len(queue'[r]) <= QueueSize /\ past'[r] \subseteq DOMAIN events
      /\ \A j \in Instances : OnWire(j)' = OnWire(j)
  BY <1>1, <1>2 DEF Sent, OnWire, InFlight
<1>8. \A r \in Sockets : phase'[r] = "live" =>
         phase[r] = "live" /\ past'[r] = past[r] /\ InstanceOf[r] \in Instances
  BY <1>1, <1>2, CommandShapes DEF ChannelShapes
<1>. QED  BY <1>2, <1>3, <1>6, <1>7, <1>8, StillStep DEF roundVars

(* Redis takes a SUBSCRIBE. *)
LEMMA LandsStep == ASSUME ChannelInv, NEW i \in Instances, SubscribeLands(i) PROVE ChannelInv'
<1>1. ChannelShapes /\ References /\ InFlight
  BY DEF ChannelInv
<1>2. /\ asked' = asked \ {i} /\ listening' = listening \cup {i}
      /\ UNCHANGED <<phase, shut, queue, got, past, refs, steady, wire, seen, events, command, acks,
                     guessed, locked, marker>>
  BY DEF SubscribeLands, socketVars, roundVars
<1>3. ChannelShapes'
  BY <1>1, <1>2 DEF ChannelShapes
<1>4. References'
  <2>1. \A j \in Instances : Holders(j)' = Holders(j)
    BY <1>2 DEF Holders
  <2>. QED  BY <1>1, <1>2, <2>1 DEF References
<1>5. /\ \A r \in Sockets : Sent(r)' = Sent(r) /\ Len(queue'[r]) <= QueueSize /\ past'[r] \subseteq DOMAIN events
      /\ \A j \in Instances : OnWire(j)' = OnWire(j)
  BY <1>1, <1>2 DEF Sent, OnWire, InFlight
<1>6. \A r \in Sockets : phase'[r] = "live" =>
         phase[r] = "live" /\ past'[r] = past[r] /\ InstanceOf[r] \in Instances
  BY <1>1, <1>2, CommandShapes
<1>. QED  BY <1>2, <1>3, <1>4, <1>5, <1>6, StillStep

(* What is left of the messages on the way when the connection breaks. *)
LEMMA Breaking ==
    ASSUME NEW w \in Seq(Nat), NEW kept \in 0 .. Len(w)
    PROVE  SubSeq(w, 1, kept) \in Seq(Nat) /\ Range(SubSeq(w, 1, kept)) \subseteq Range(w)
<1>. DEFINE left == SubSeq(w, 1, kept)
<1>1. /\ left \in Seq(Nat) /\ Len(left) = kept /\ Len(w) \in Nat
      /\ \A k \in 1 .. kept : left[k] = w[k]
  BY SubSeqProperties
<1>2. DOMAIN left = 1 .. kept /\ DOMAIN w = 1 .. Len(w)
  BY <1>1
<1>3. \A k \in DOMAIN left : k \in DOMAIN w /\ left[k] = w[k]
  BY <1>1, <1>2
<1>. HIDE DEF left
<1>4. Range(left) \subseteq Range(w)
  BY <1>3 DEF Range
<1>. QED  BY <1>1, <1>4 DEF left

(* Redis takes an UNSUBSCRIBE, or the connection breaks. *)
LEMMA EndsStep == ASSUME ChannelInv, NEW i \in Instances, SubscriptionEnds(i) PROVE ChannelInv'
<1>1. ChannelShapes /\ References /\ InFlight /\ wire[i] \in Seq(Nat) /\ refs[i] \in Nat
  BY DEF ChannelInv, ChannelShapes
<1>2. /\ listening' = listening \ {i} /\ steady' = {s \in steady : InstanceOf[s] # i}
      /\ asked \subseteq asked' /\ asked' \subseteq asked \cup {i} /\ (refs[i] # 0 => i \in asked')
      /\ \E kept \in 0 .. Len(wire[i]) : wire' = [wire EXCEPT ![i] = SubSeq(wire[i], 1, kept)]
      /\ UNCHANGED <<phase, shut, queue, got, past, refs, seen, events, command, acks, guessed, locked, marker>>
  BY <1>1 DEF SubscriptionEnds, socketVars, roundVars, ChannelShapes
<1>3. /\ wire' \in [Instances -> Seq(Nat)]
      /\ \A j \in Instances : OnWire(j)' \subseteq OnWire(j) /\ (j # i => OnWire(j)' = OnWire(j))
  <2>1. PICK kept \in 0 .. Len(wire[i]) : wire' = [wire EXCEPT ![i] = SubSeq(wire[i], 1, kept)]
    BY <1>2
  <2>. DEFINE left == SubSeq(wire[i], 1, kept)
  <2>2. left \in Seq(Nat) /\ Range(left) \subseteq Range(wire[i]) /\ wire' = [wire EXCEPT ![i] = left]
    BY <1>1, <2>1, Breaking
  <2>. HIDE DEF left
  <2>. QED  BY <1>1, <2>2 DEF ChannelShapes, OnWire
<1>4. ChannelShapes'
  BY <1>1, <1>2, <1>3 DEF ChannelShapes
<1>5. References'
  <2>1. \A j \in Instances : Holders(j)' = Holders(j)
    BY <1>2 DEF Holders
  <2>. QED  BY <1>1, <1>2, <2>1 DEF References
<1>6. \A r \in Sockets : Sent(r)' = Sent(r) /\ Len(queue'[r]) <= QueueSize /\ past'[r] \subseteq DOMAIN events
  BY <1>1, <1>2 DEF Sent, InFlight
<1>7. \A r \in Sockets : phase'[r] = "live" =>
         /\ phase[r] = "live" /\ past'[r] = past[r]
         /\ r \in steady' => r \in steady /\ OnWire(InstanceOf[r])' = OnWire(InstanceOf[r])
  BY <1>1, <1>2, <1>3, CommandShapes
<1>. QED  BY <1>2, <1>3, <1>4, <1>5, <1>6, <1>7, StillStep

(* The snapshot. *)
LEMMA SnapshotStep == ASSUME ChannelInv, NEW s \in Sockets, WriteSnapshot(s) PROVE ChannelInv'
<1>1. ChannelShapes /\ References /\ InFlight
  BY DEF ChannelInv
<1>2. /\ phase[s] = "wired" /\ phase' = [phase EXCEPT ![s] = "live"] /\ past' = [past EXCEPT ![s] = Published]
      /\ steady' = IF InstanceOf[s] \in listening THEN steady \cup {s} ELSE steady
      /\ UNCHANGED <<shut, queue, got, refs, asked, listening, wire, seen, events, command, acks,
                     guessed, locked, marker>>
  BY DEF WriteSnapshot, Enter, roundVars
<1>3. Published \subseteq DOMAIN events /\ DOMAIN events \subseteq Nat
  BY <1>1 DEF Published, ChannelShapes
<1>4. ChannelShapes'
  BY <1>1, <1>2, <1>3 DEF ChannelShapes, Phases
<1>5. \A j \in Instances : Holders(j)' = Holders(j)
  BY <1>1, <1>2 DEF Holders, ChannelShapes
<1>6. References'
  BY <1>1, <1>2, <1>5 DEF References
<1>7. /\ \A r \in Sockets : Sent(r)' = Sent(r) /\ Len(queue'[r]) <= QueueSize /\ past'[r] \subseteq DOMAIN events
      /\ \A j \in Instances : OnWire(j)' = OnWire(j)
  BY <1>1, <1>2, <1>3 DEF Sent, OnWire, InFlight, ChannelShapes
<1>8. \A r \in Sockets : phase'[r] = "live" =>
         \/ past'[r] = Published
         \/ /\ phase[r] = "live" /\ past'[r] = past[r] /\ InstanceOf[r] \in Instances
            /\ r \in steady' => r \in steady
  BY <1>1, <1>2, CommandShapes DEF ChannelShapes
<1>. QED  BY <1>2, <1>4, <1>6, <1>7, <1>8, StillStep

(* The write pump. *)
LEMMA WritePumpStep == ASSUME ChannelInv, NEW s \in Sockets, WritePump(s) PROVE ChannelInv'
<1>1. ChannelShapes /\ References /\ InFlight
  BY DEF ChannelInv
<1>2. /\ queue[s] \in Seq(Nat) /\ got[s] \in Seq(Nat) /\ queue[s] # <<>> /\ Len(queue[s]) <= QueueSize
      /\ got' = [got EXCEPT ![s] = Append(got[s], Head(queue[s]))] /\ queue' = [queue EXCEPT ![s] = Tail(queue[s])]
      /\ UNCHANGED <<phase, shut, past, refs, asked, listening, steady, wire, seen, events, command, acks,
                     guessed, locked, marker>>
  BY <1>1 DEF WritePump, pubsubVars, subVars, roundVars, ChannelShapes, InFlight
<1>3. /\ Append(got[s], Head(queue[s])) \o Tail(queue[s]) = got[s] \o queue[s]
      /\ Append(got[s], Head(queue[s])) \in Seq(Nat)
      /\ Tail(queue[s]) \in Seq(Nat) /\ Len(Tail(queue[s])) <= QueueSize
  <2>1. Len(Tail(queue[s])) <= Len(queue[s]) /\ Len(Tail(queue[s])) \in Nat /\ Len(queue[s]) \in Nat
    BY <1>2, Writing
  <2>2. /\ Append(got[s], Head(queue[s])) \o Tail(queue[s]) = got[s] \o queue[s]
        /\ Append(got[s], Head(queue[s])) \in Seq(Nat) /\ Tail(queue[s]) \in Seq(Nat)
    BY <1>2, Writing
  <2>3. Len(Tail(queue[s])) <= QueueSize
    BY <1>2, <2>1, ChannelAssumption
  <2>. QED  BY <2>2, <2>3
<1>. DEFINE g == Append(got[s], Head(queue[s]))  q == Tail(queue[s])
<1>. HIDE DEF g, q
<1>4. /\ got' = [got EXCEPT ![s] = g] /\ queue' = [queue EXCEPT ![s] = q]
      /\ g \o q = got[s] \o queue[s] /\ g \in Seq(Nat) /\ q \in Seq(Nat) /\ Len(q) <= QueueSize
  BY <1>2, <1>3 DEF g, q
<1>5. ChannelShapes'
  BY <1>1, <1>2, <1>4 DEF ChannelShapes
<1>6. References'
  <2>1. \A j \in Instances : Holders(j)' = Holders(j)
    BY <1>2 DEF Holders
  <2>. QED  BY <1>1, <1>2, <2>1 DEF References
<1>7. ASSUME NEW r \in Sockets
      PROVE  Sent(r)' = Sent(r) /\ Len(queue'[r]) <= QueueSize /\ past'[r] \subseteq DOMAIN events
  <2>1. IF r = s THEN got'[r] = g /\ queue'[r] = q ELSE got'[r] = got[r] /\ queue'[r] = queue[r]
    BY <1>1, <1>4 DEF ChannelShapes
  <2>. QED  BY <1>1, <1>2, <1>4, <2>1 DEF Sent, InFlight
<1>8. \A j \in Instances : OnWire(j)' = OnWire(j)
  BY <1>2 DEF OnWire
<1>9. \A r \in Sockets : phase'[r] = "live" => phase[r] = "live" /\ past'[r] = past[r] /\ InstanceOf[r] \in Instances
  BY <1>2, CommandShapes, <1>1
<1>. QED  BY <1>2, <1>5, <1>6, <1>7, <1>8, <1>9, StillStep

(* A socket gives its reference back. *)
LEMMA HangupStep == ASSUME ChannelInv, NEW s \in Sockets, Hangup(s) PROVE ChannelInv'
<1>. DEFINE i == InstanceOf[s]
            left == Dropped(refs[i])
<1>1. ChannelShapes /\ References /\ InFlight /\ i \in Instances /\ refs[i] \in Nat
  BY CommandShapes DEF ChannelInv, ChannelShapes
<1>2. /\ phase[s] \in {"live", "wired"} /\ phase' = [phase EXCEPT ![s] = "unwired"]
      /\ refs' = [refs EXCEPT ![i] = left]
      /\ steady' = steady \ {s} /\ past' = [past EXCEPT ![s] = {}]
      /\ UNCHANGED <<shut, queue, got, asked, listening, wire, seen, events, command, acks, guessed, locked, marker>>
  BY <1>1 DEF Hangup, Returns, UnsubscribeChannel, Enter, roundVars, ChannelShapes
<1>3. left \in Nat /\ (refs[i] # 0 => left = refs[i] - 1) /\ (refs[i] = 0 => left = 0)
  BY <1>1 DEF Dropped
<1>. HIDE DEF i, left
<1>4. ChannelShapes'
  BY <1>1, <1>2, <1>3 DEF ChannelShapes, Phases
<1>5. /\ Holders(i)' = Holders(i) \ {s} /\ s \in Holders(i)
      /\ \A j \in Instances \ {i} : Holders(j)' = Holders(j)
  BY <1>1, <1>2 DEF Holders, ChannelShapes, i
<1>6. /\ Cardinality(Holders(i)') = Cardinality(Holders(i)) - 1 /\ Cardinality(Holders(i)) \in Nat
      /\ Cardinality(Holders(i)) # 0
  BY <1>1, <1>5, HoldersAreFinite, FS_RemoveElement, FS_EmptySet
<1>7. References'
  <2>1. ASSUME NEW j \in Instances
        PROVE  /\ refs'[j] <= Cardinality(Holders(j)')
               /\ ~ SubFaults => refs'[j] = Cardinality(Holders(j)')
               /\ refs'[j] # 0 => j \in asked' \cup listening'
    <3>1. /\ refs[j] <= Cardinality(Holders(j)) /\ refs[j] \in Nat
          /\ ~ SubFaults => refs[j] = Cardinality(Holders(j))
          /\ refs[j] # 0 => j \in asked \cup listening
      BY <1>1 DEF References, ChannelShapes
    <3>2. CASE j # i
      <4>1. refs'[j] = refs[j] /\ Holders(j)' = Holders(j)
        BY <1>1, <1>2, <1>5, <3>2 DEF ChannelShapes
      <4>. QED  BY <1>2, <3>1, <4>1
    <3>3. CASE j = i
      <4>1. refs'[j] = left
        BY <1>1, <1>2, <3>3 DEF ChannelShapes
      <4>2. left <= Cardinality(Holders(j)') /\ (~ SubFaults => left = Cardinality(Holders(j)'))
        BY <1>1, <1>3, <1>6, <3>1, <3>3
      <4>. QED  BY <1>2, <1>3, <3>1, <3>3, <4>1, <4>2
    <3>. QED  BY <3>2, <3>3
  <2>2. \A r \in steady' : InstanceOf[r] \in listening'
    BY <1>1, <1>2 DEF References
  <2>. QED  BY <2>1, <2>2 DEF References
<1>8. /\ \A r \in Sockets : Sent(r)' = Sent(r) /\ Len(queue'[r]) <= QueueSize /\ past'[r] \subseteq DOMAIN events
      /\ \A j \in Instances : OnWire(j)' = OnWire(j)
  BY <1>1, <1>2 DEF Sent, InFlight, OnWire, ChannelShapes
<1>9. \A r \in Sockets : phase'[r] = "live" =>
         /\ phase[r] = "live" /\ past'[r] = past[r] /\ InstanceOf[r] \in Instances
         /\ r \in steady' => r \in steady
  BY <1>1, <1>2, CommandShapes DEF ChannelShapes
<1>. QED  BY <1>2, <1>4, <1>7, <1>8, <1>9, StillStep

(* Every step of the channel keeps its invariant. *)
LEMMA ChannelStep == ASSUME ChannelInv, [ChannelNext]_channelVars PROVE ChannelInv'
<1>1. ChannelShapes
  BY DEF ChannelInv
<1>2. ASSUME NEW i \in Instances, Receive(i) PROVE ChannelInv'
  BY <1>2, ReceiveStep
<1>3. ASSUME NEW e \in DOMAIN events, PublishMatchEvent(e) PROVE ChannelInv'
  <2>1. /\ events[e].status = "drawn" /\ PublishEvent(e) /\ UNCHANGED <<acks, roundVars>> /\ command' = command
        /\ \A s \in Sockets : HasEvent(s) => command[s].event # e
    BY <1>3 DEF PublishMatchEvent, ChannelInv, CommandsInHand
  <2>2. /\ command' \in [Sockets -> CommandRows]
        /\ \A s \in Sockets : command'[s].step # "idle" => command'[s].id \in Commands
    BY <1>1, <2>1 DEF ChannelShapes
  <2>. QED  BY <2>1, <2>2, PublishStep DEF HasEvent
<1>4. ASSUME NEW s \in Sockets, PublishCommand(s) PROVE ChannelInv'
  <2>1. /\ command[s].step = "publish" /\ PublishEvent(command[s].event)
        /\ command' = [command EXCEPT ![s].step = "ack"] /\ UNCHANGED <<acks, roundVars>>
    BY <1>4 DEF PublishCommand
  <2>2. command[s].event \in DOMAIN events /\ events[command[s].event].status = "drawn" /\ HasEvent(s)
    BY <2>1 DEF ChannelInv, CommandsInHand, HasEvent
  <2>3. /\ command' \in [Sockets -> CommandRows]
        /\ \A r \in Sockets : command'[r].step # "idle" => command'[r].id \in Commands
        /\ command'[s].step = "ack" /\ command'[s].event = command[s].event
        /\ \A r \in Sockets \ {s} : command'[r] = command[r]
    BY <1>1, <2>1, MovedCommand
  <2>4. /\ \A r \in Sockets : command'[r].event = command[r].event
        /\ \A r \in Sockets : HasEvent(r)' => HasEvent(r) /\ command[r].event # command[s].event
    BY <2>2, <2>3 DEF HasEvent, ChannelInv, CommandsInHand
  <2>. QED  BY <2>1, <2>2, <2>3, <2>4, PublishStep
<1>5. ASSUME NEW s \in Sockets, SubscribeChannel(s) \/ WriteSnapshot(s) \/ WritePump(s) \/ Hangup(s) \/ ViewRecipients(s)
      PROVE  ChannelInv'
  BY <1>5, SubscribeStep, SnapshotStep, WritePumpStep, HangupStep, ViewRecipientsStep
<1>6. ASSUME NEW s \in Sockets, IssueTicket(s) \/ TicketExpires(s) \/ Upgrade(s) \/ Unsubscribe(s)
      PROVE  ChannelInv'
  <2>1. \E p \in Phases \ {"wired", "live"} : Enter(s, p)
    BY <1>6 DEF IssueTicket, TicketExpires, Upgrade, Unsubscribe, Phases
  <2>2. /\ phase[s] \notin {"wired", "live"} /\ (queue' = queue \/ queue' = [queue EXCEPT ![s] = <<>>])
        /\ UNCHANGED <<shut, got, past, pubsubVars, events, command, acks, roundVars>>
    BY <1>6 DEF IssueTicket, TicketExpires, Upgrade, Unsubscribe
  <2>. QED  BY <2>1, <2>2, PhaseStep
<1>7. ASSUME NEW s \in Sockets, Refused(s) PROVE ChannelInv'
  <2>1. /\ command' \in [Sockets -> CommandRows]
        /\ \A r \in Sockets : command'[r] = command[r] \/ command'[r] = Idle
    BY <1>1, <1>7 DEF Refused, ChannelShapes, CommandRows, Idle
  <2>2. UNCHANGED <<socketVars, pubsubVars, events, marker, locked, guessed, acks>>
    BY <1>7 DEF Refused, roundVars
  <2>. QED  BY <1>1, <2>1, <2>2, CommandStep DEF Idle, HasEvent, ChannelShapes
<1>8. ASSUME NEW s \in Sockets, NEW id \in Commands, NEW kind \in Kinds, LoadCommandAck(s, id, kind) PROVE ChannelInv'
  <2>1. /\ command' \in [Sockets -> CommandRows]
        /\ \A r \in Sockets : \/ command'[r] = command[r]
                              \/ command'[r] = [step |-> "apply", kind |-> kind, id |-> id, event |-> 0]
    BY <1>1, <1>8 DEF LoadCommandAck, ChannelShapes, CommandRows
  <2>2. UNCHANGED <<socketVars, pubsubVars, events, marker, locked, guessed, acks>>
    BY <1>8 DEF LoadCommandAck, roundVars
  <2>. DEFINE row == [step |-> "apply", kind |-> kind, id |-> id, event |-> 0]
  <2>3. row.step \notin {"recipients", "publish"} /\ row.event = 0 /\ row.id \in Commands
    OBVIOUS
  <2>4. \A r \in Sockets : command'[r] = command[r] \/ command'[r] = row
    BY <2>1
  <2>. HIDE DEF row
  <2>5. /\ \A r \in Sockets : command'[r].step # "idle" => command'[r].id \in Commands
        /\ \A r \in Sockets : command'[r] = command[r] \/ (~ HasEvent(r)' /\ command'[r].event = 0)
    BY <1>1, <2>3, <2>4 DEF HasEvent, ChannelShapes
  <2>6. acks' \subseteq Participants \X Commands /\ guessed \subseteq guessed' /\ guessed' \subseteq Participants
    BY <1>1, <2>2 DEF ChannelShapes
  <2>. QED  BY <2>1, <2>2, <2>5, <2>6, CommandStep
<1>9. ASSUME NEW s \in Sockets, SaveCommandAck(s) PROVE ChannelInv'
  <2>1. /\ command' \in [Sockets -> CommandRows]
        /\ \A r \in Sockets : command'[r] = command[r] \/ command'[r] = Idle
    BY <1>1, <1>9 DEF SaveCommandAck, ChannelShapes, CommandRows, Idle
  <2>2. UNCHANGED <<socketVars, pubsubVars, events, marker, locked, guessed>>
    BY <1>9 DEF SaveCommandAck, roundVars
  <2>3. acks' \subseteq Participants \X Commands
    BY <1>1, <1>9, CommandShapes DEF SaveCommandAck, ChannelShapes
  <2>. QED  BY <1>1, <2>1, <2>2, <2>3, CommandStep DEF Idle, HasEvent, ChannelShapes
<1>10. ASSUME NEW u \in Participants, SubmitGuess(u) PROVE ChannelInv'
  <2>1. /\ UNCHANGED <<socketVars, pubsubVars, events, marker, locked, command, acks>>
        /\ guessed' = guessed \cup {u}
    BY <1>10 DEF SubmitGuess
  <2>. QED  BY <1>1, <2>1, CommandStep DEF ChannelShapes
<1>11. ASSUME NEW s \in Sockets, HandleMarkerSet(s) PROVE ChannelInv'
  <2>1. UserOf[s] \in Participants /\ Teammates(UserOf[s]) \in SUBSET Participants
    BY <1>1, CommandShapes DEF Teammates
  <2>2. /\ command[s].step = "apply" /\ Stored(s, "publish")
        /\ Draw("marker", UserOf[s], InstanceOf[s], Teammates(UserOf[s]))
        /\ marker' = [marker EXCEPT ![UserOf[s]] = Len(events) + 1]
        /\ UNCHANGED <<socketVars, pubsubVars, acks, guessed, locked>>
    BY <1>11 DEF HandleMarkerSet, StoreMarker
  <2>3. Len(events) + 1 \in 0 .. MaxEvents
    BY <1>1, <2>2, ChannelAssumption DEF Draw, ChannelShapes
  <2>4. marker' \in [Participants -> 0 .. MaxEvents]
    BY <1>1, <2>1, <2>2, <2>3 DEF ChannelShapes
  <2>. QED  BY <2>1, <2>2, <2>4, DrawingStep DEF Kinds
<1>12. ASSUME NEW s \in Sockets, HandleViewUpdate(s) PROVE ChannelInv'
  <2>1. /\ command[s].step = "apply" /\ Stored(s, "recipients")
        /\ Draw("view", UserOf[s], InstanceOf[s], {})
        /\ UNCHANGED <<socketVars, pubsubVars, acks, guessed, locked, marker>>
    BY <1>12 DEF HandleViewUpdate, StoreView, roundVars
  <2>2. marker' \in [Participants -> 0 .. MaxEvents]
    BY <1>1, <2>1 DEF ChannelShapes
  <2>3. "view" \in Kinds /\ {} \in SUBSET Participants
    BY DEF Kinds
  <2>. QED  BY <2>1, <2>2, <2>3, DrawingStep
<1>13. ASSUME NEW s \in Sockets, HandleSpectateSelect(s) PROVE ChannelInv'
  <2>1. /\ command[s].step = "apply" /\ Stored(s, "publish")
        /\ Draw("spectate", UserOf[s], InstanceOf[s], {UserOf[s]})
        /\ UNCHANGED <<socketVars, pubsubVars, acks, guessed, locked, marker>>
    BY <1>13 DEF HandleSpectateSelect, SelectSpectate, roundVars
  <2>2. marker' \in [Participants -> 0 .. MaxEvents] /\ {UserOf[s]} \in SUBSET Participants
    BY <1>1, <2>1, CommandShapes DEF ChannelShapes
  <2>. QED  BY <2>1, <2>2, DrawingStep DEF Kinds
<1>14. ASSUME NEW i \in Instances, NextVersion(i) \/ SubscribeLands(i) \/ SubscriptionEnds(i)
       PROVE  ChannelInv'
  BY <1>14, NextVersionStep, LandsStep, EndsStep
<1>15. CASE UNCHANGED channelVars
  <2>1. UNCHANGED <<socketVars, pubsubVars, events, command, acks, guessed, locked, marker>>
    BY <1>15 DEF channelVars, roundVars
  <2>. QED  BY <1>1, <2>1, CommandStep DEF ChannelShapes
<1>16. CASE ChannelServer
  BY <1>2, <1>3, <1>4, <1>5, <1>6, <1>7, <1>9, <1>11, <1>12, <1>13, <1>16 DEF ChannelServer
<1>. QED  BY <1>5, <1>6, <1>8, <1>10, <1>14, <1>15, <1>16 DEF ChannelNext

(* The inductive invariant of the channel: rows of their types, an event of *)
(* its own for each command in hand, references held by served sockets and  *)
(* backed by a subscription that stands or is asked for, and where every    *)
(* event may be (fanout.go, hub.go, realtime_pubsub.go), while SUBSCRIBEs   *)
(* take their time and connections break.                                   *)
THEOREM ChannelInvariant == ChannelSpec => []ChannelInv
<1>1. ChannelInit => ChannelInv
  BY ChannelBegins
<1>2. ChannelInv /\ [ChannelNext]_channelVars => ChannelInv'
  BY ChannelStep
<1>. QED  BY <1>1, <1>2, PTL DEF ChannelSpec

(* What the invariant says of types. *)
LEMMA ChannelTyped == ChannelInv => ChannelTypeOK
<1>. SUFFICES ASSUME ChannelInv PROVE ChannelTypeOK
  OBVIOUS
<1>1. ChannelShapes /\ InFlight /\ CommandsInHand /\ References
  BY DEF ChannelInv
<1>2. Announced \subseteq DOMAIN events /\ DOMAIN events \subseteq Nat
  BY <1>1 DEF Announced, ChannelShapes
<1>3. ASSUME NEW w \in Seq(Nat), Range(w) \subseteq DOMAIN events PROVE w \in Seq(DOMAIN events)
  <2>1. w \in Seq(Range(w))
    BY SeqOfRange
  <2>. QED  BY <1>3, <2>1, SeqMonotonic
<1>4. ASSUME NEW s \in Sockets
      PROVE  /\ queue[s] \in Seq(DOMAIN events) /\ Len(queue[s]) <= QueueSize
             /\ got[s] \in Seq(DOMAIN events)
             /\ past[s] \subseteq DOMAIN events
             /\ command[s].event \in {0} \cup DOMAIN events
  <2>1. queue[s] \in Seq(Nat) /\ got[s] \in Seq(Nat)
    BY <1>1 DEF ChannelShapes
  <2>2. Range(got[s] \o queue[s]) = Range(got[s]) \cup Range(queue[s])
    BY <2>1, RangeConcatenation
  <2>3. SentSet(s) \subseteq DOMAIN events
    BY <1>1, <1>2 DEF InFlight
  <2>4. Range(got[s]) \subseteq DOMAIN events /\ Range(queue[s]) \subseteq DOMAIN events
    BY <2>2, <2>3 DEF SentSet, Sent
  <2>. QED  BY <1>1, <1>3, <2>1, <2>4 DEF InFlight, CommandsInHand
<1>5. ASSUME NEW i \in Instances PROVE wire[i] \in Seq(DOMAIN events) /\ seen[i] \subseteq DOMAIN events
  <2>1. wire[i] \in Seq(Nat) /\ Range(wire[i]) \subseteq DOMAIN events /\ seen[i] \subseteq DOMAIN events
    BY <1>1, <1>2 DEF ChannelShapes, InFlight, OnWire
  <2>. QED  BY <1>3, <2>1
<1>6. refs \in [Instances -> 0 .. Cardinality(Sockets)]
  <2>1. ASSUME NEW i \in Instances PROVE refs[i] \in 0 .. Cardinality(Sockets)
    <3>1. refs[i] \in Nat /\ refs[i] <= Cardinality(Holders(i))
      BY <1>1 DEF ChannelShapes, References
    <3>. QED  BY <3>1, HoldersAreFinite
  <2>. QED  BY <1>1, <2>1 DEF ChannelShapes
<1>7. \A e \in DOMAIN events : events[e].audience \subseteq Participants
  BY <1>1, EventShapes
<1>. QED  BY <1>1, <1>4, <1>5, <1>6, <1>7 DEF ChannelTypeOK, ChannelShapes, Phases

(* Queues keep their bound, reference counts never exceed the sockets, and  *)
(* every event is for participants only.                                    *)
THEOREM ChannelTypeCorrect == ChannelSpec => []ChannelTypeOK
  BY ChannelInvariant, ChannelTyped, PTL

(* What the invariant says of scenes ... *)
LEMMA PrivateInv == ChannelInv => ScenesStayPrivate
<1>. SUFFICES ASSUME ChannelInv, NEW s \in Sockets, NEW e \in Range(got[s] \o queue[s]), events[e].kind = "view"
              PROVE  MayBeShown(UserOf[s], events[e].source)
  BY DEF ScenesStayPrivate, MayBeShown
<1>1. e \in DOMAIN events /\ UserOf[s] \in events[e].audience
  BY DEF ChannelInv, InFlight, SentSet, Sent, Announced
<1>. QED  BY <1>1 DEF ChannelInv, ViewAudiences

(* What a client is sent of a round, it is sent because its player has      *)
(* guessed, and only of those on the right side (spectating.go), whatever   *)
(* Redis and the subscriptions do.                                          *)
THEOREM ScenesArePrivate == ChannelSpec => []ScenesStayPrivate
  BY ChannelInvariant, PrivateInv, PTL

(* ... of events that travel one way ... *)
LEMMA OnceInv == ChannelInv /\ "unknown" \notin PubFaults => EachEventOnce
  BY DEF ChannelInv, OneWay, EachEventOnce, Sent

(* Where a PUBLISH that fails was not carried, no client is sent an event   *)
(* twice, although Redis repeats and instances share events (fanout.go).    *)
THEOREM NoEventTwice ==
    ASSUME "unknown" \notin PubFaults
    PROVE  ChannelSpec => []EachEventOnce
<1>1. ChannelInv => EachEventOnce
  BY OnceInv
<1>. QED  BY <1>1, ChannelInvariant, PTL

(* ... and of those a client is owed. *)
LEMMA ArrivesInv == ChannelInv => NothingMissed
<1>. SUFFICES ASSUME ChannelInv, NEW s \in Live
              PROVE  /\ Awaited(s) \cap seen[InstanceOf[s]] \subseteq Coming(s)
                     /\ s \in steady => Awaited(s) \subseteq Coming(s) \cup Range(wire[InstanceOf[s]])
  BY DEF NothingMissed
<1>1. Arrived(s) /\ queue[s] \in Seq(Nat) /\ got[s] \in Seq(Nat)
  BY DEF ChannelInv, ChannelShapes, AllArrives, Live
<1>2. Awaited(s) = Owed(s)
  BY DEF Awaited, Owed
<1>3. Coming(s) = SentSet(s)
  BY <1>1, RangeConcatenation DEF Coming, SentSet, Sent
<1>. QED  BY <1>1, <1>2, <1>3 DEF Arrived, OnWire

(* Whatever Redis and the subscriptions do, a served client was or will be  *)
(* sent every event for it that its instance has received since the         *)
(* snapshot; and every one published, while Redis has listened for its      *)
(* instance since then.                                                     *)
THEOREM NoEventIsMissed == ChannelSpec => []NothingMissed
  BY ChannelInvariant, ArrivesInv, PTL

(* With SUBSCRIBEs that do not fail and PUBLISHes that were not carried     *)
(* when they fail: what an instance receives reaches its audience there     *)
(* once and nobody else, and the instance of a served socket stays          *)
(* subscribed through reconnections and other sockets' leaving.             *)
THEOREM DeliveryIsExact ==
    ASSUME ~ SubFaults, "unknown" \notin PubFaults
    PROVE  ChannelSpec => []DeliveredExactly
<1>1. ChannelInv => DeliveredExactly
  BY PrivateInv, OnceInv, ArrivesInv, SubscribedInv DEF DeliveredExactly
<1>. QED  BY <1>1, ChannelInvariant, PTL

-----------------------------------------------------------------------------
(* Both parts.                                                              *)

(* The live side is a channel and a chat: each goes on as if it were alone. *)
THEOREM RealtimeParts == RealtimeSpec => ChannelSpec /\ ChatSpec
<1>1. RealtimeInit => ChannelInit /\ ChatInit
  BY DEF RealtimeInit
<1>2. [RealtimeNext]_realtimeVars => [ChannelNext]_channelVars /\ [ChatNext]_chatVars
  BY DEF RealtimeNext, realtimeVars
<1>. QED  BY <1>1, <1>2, PTL DEF RealtimeSpec, ChannelSpec, ChatSpec

(* Every socket, message, row and object is one the code can produce. *)
THEOREM RealtimeTypeCorrect == RealtimeSpec => []RealtimeTypeOK
<1>1. ChannelTypeOK /\ ChatTypeOK => RealtimeTypeOK
  BY DEF RealtimeTypeOK
<1>. QED  BY <1>1, RealtimeParts, ChannelTypeCorrect, ChatTypeCorrect, PTL
=============================================================================
