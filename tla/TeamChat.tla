------------------------------ MODULE TeamChat ------------------------------
(* The private chat of one team of a match and the files attached to it:       *)
(* matchplay/chat_service.go and chat_repository.go (messages, mutes,           *)
(* reports), uploads/service.go, repository.go and image_sanitizer.go (the      *)
(* way of an image from a presigned upload to a sanitised file), and            *)
(* matchplay/cleanup.go (the retention worker).                                 *)
(*                                                                              *)
(* Time is the age of the match: chat is open while it is played and for the    *)
(* 15 minutes after, raw uploads are swept after a day, messages after 30 days, *)
(* reported ones after 180 days.  A request lasts less than a day: it ends      *)
(* before the first sweep that could meet what it made.                         *)
EXTENDS Naturals, FiniteSets, Functions

CONSTANTS
    Mates,          \* the players of the team
    Texts,          \* the client message ids the team uses
    AuthorOf,       \* the author of each client message id
    Images,         \* the uploads of the team
    OwnerOf,        \* the owner of each upload
    Unfit,          \* those whose stored object is too large or unsafe
    ChatCalls,      \* concurrent requests
    MaxSends,       \* messages of an author within one rate window
    StorageFaults,  \* TRUE: the object store may fail a call
    RetriesOverlap  \* TRUE: an upload may be completed by two calls at once

NoFile == "no file"
Unsent == "unsent"
NoHolder == "free"    \* of a lock

ASSUME ChatAssumption ==
    /\ {NoFile, Unsent} \intersect Images = {} /\ NoHolder \notin ChatCalls
    /\ AuthorOf \in [Texts -> Mates] /\ OwnerOf \in [Images -> Mates]
    /\ Unfit \subseteq Images /\ MaxSends \in Nat
    /\ StorageFaults \in BOOLEAN /\ RetriesOverlap \in BOOLEAN

VARIABLES
    age,        \* how old the match is
    messages,   \* team_messages: client id -> the attached file, or the marks below
    reported,   \* the messages with a report still retained
    counted,    \* per author: messages inside the current rate window
    quotaLock,  \* per author: the call that holds the advisory lock
    mutes,      \* match_mutes: <<muter, muted>>
    uploads,    \* uploads rows: [status, key, raw] (the two storage keys)
    files,      \* the uploads that have a files row
    objects,    \* the objects in storage: <<upload, "raw">>, <<upload, "clean">>
    calls,      \* the requests under way
    sweep       \* the retention worker

chatVars == <<age, messages, reported, counted, quotaLock, mutes, uploads, files, objects, calls, sweep>>

Ages == <<"played", "after", "closed", "stale", "expired", "forgotten">>
Older(a) == Ages[(CHOOSE i \in 1..5 : Ages[i] = a) + 1]

Stands(t) == messages[t] # Unsent
AttachedTo(t) == messages[t] \in Images

NoUpload == [status |-> "none", key |-> "raw", raw |-> FALSE]
NoRequest == [at |-> "idle"]
Resting == [at |-> "idle"]

ChatInit ==
    /\ age = "played"
    /\ messages = [t \in Texts |-> Unsent]
    /\ reported = {}
    /\ counted = [m \in Mates |-> 0]
    /\ quotaLock = [m \in Mates |-> NoHolder]
    /\ mutes = {}
    /\ uploads = [i \in Images |-> NoUpload]
    /\ files = {} /\ objects = {}
    /\ calls = [c \in ChatCalls |-> NoRequest]
    /\ sweep = Resting

(* canChat, authorizeChatAccess: the match runs or ended under 15 minutes ago. *)
CanChat == age \in {"played", "after"}

----------------------------------------------------------------------------
(* Uploads.  CreateUpload stores the pending row before it hands out the        *)
(* presigned URL, through which the client then stores the raw object.          *)
CreateUpload(i) ==
    /\ CanChat /\ uploads[i] = NoUpload
    /\ uploads' = [uploads EXCEPT ![i] = [status |-> "pending", key |-> "raw", raw |-> TRUE]]
    /\ UNCHANGED <<age, messages, reported, counted, quotaLock, mutes, files, objects, calls, sweep>>

StoreRaw(i) ==
    /\ CanChat /\ uploads[i].status = "pending"
    /\ objects' = objects \union {<<i, "raw">>}
    /\ UNCHANGED <<age, messages, reported, counted, quotaLock, mutes, uploads, files, calls, sweep>>

At(c, step) == calls[c].at = step
Goes(c, step) == calls' = [calls EXCEPT ![c] = step]
Ends(c) == Goes(c, NoRequest)

CompletedBy(i) == {c \in ChatCalls : ~At(c, "idle") /\ "upload" \in DOMAIN calls[c] /\ calls[c].upload = i}

(* CompleteUpload: the row is read without a lock.  A completed upload replays  *)
(* its file, a rejected or expired one is refused: neither changes anything.    *)
CompleteUpload(c, i) ==
    /\ At(c, "idle") /\ CanChat /\ uploads[i].status = "pending"
    /\ RetriesOverlap \/ CompletedBy(i) = {}
    /\ Goes(c, [at |-> "head", upload |-> i])
    /\ UNCHANGED <<age, messages, reported, counted, quotaLock, mutes, uploads, files, objects, sweep>>

(* HeadObject: nothing stored, or storage down, ends the call; an object of the *)
(* wrong size is deleted and the upload rejected.                               *)
HeadObject(c) ==
    /\ At(c, "head")
    /\ LET i == calls[c].upload IN
       \/ /\ <<i, "raw">> \in objects
          /\ Goes(c, [at |-> "sanitize", upload |-> i])
          /\ UNCHANGED objects
       \/ /\ <<i, "raw">> \notin objects \/ StorageFaults
          /\ Ends(c) /\ UNCHANGED objects
       \/ /\ <<i, "raw">> \in objects /\ i \in Unfit
          /\ objects' = objects \ {<<i, "raw">>}
          /\ Goes(c, [at |-> "reject", upload |-> i])
    /\ UNCHANGED <<age, messages, reported, counted, quotaLock, mutes, uploads, files, sweep>>

(* sanitizeStoredObject: the raw object is read and the derivative written.  An *)
(* unsafe image is deleted; a raw object that is gone, like storage that        *)
(* fails, leaves everything in place.  All three are errors to the caller.      *)
SanitizeStoredObject(c) ==
    /\ At(c, "sanitize")
    /\ LET i == calls[c].upload IN
       \/ /\ <<i, "raw">> \in objects /\ i \notin Unfit
          /\ objects' = objects \union {<<i, "clean">>}
          /\ Goes(c, [at |-> "finalize", upload |-> i])
       \/ /\ <<i, "raw">> \in objects /\ i \in Unfit
          /\ objects' = objects \ {<<i, "raw">>}
          /\ Goes(c, [at |-> "reject", upload |-> i])
       \/ /\ <<i, "raw">> \notin objects \/ StorageFaults
          /\ UNCHANGED objects
          /\ Goes(c, [at |-> "reject", upload |-> i])
    /\ UNCHANGED <<age, messages, reported, counted, quotaLock, mutes, uploads, files, sweep>>

(* MarkUploadRejected updates the row by its id, whatever its status is now. *)
MarkUploadRejected(c) ==
    /\ At(c, "reject")
    /\ uploads' = [uploads EXCEPT ![calls[c].upload].status = "rejected"]
    /\ Ends(c)
    /\ UNCHANGED <<age, messages, reported, counted, quotaLock, mutes, files, objects, sweep>>

(* FinalizeUpload, one transaction over the locked row: a completed upload      *)
(* gives its file back, one no longer pending is refused, a pending one gets    *)
(* its file and points at the derivative.                                       *)
FinalizeUpload(c) ==
    /\ At(c, "finalize")
    /\ LET i == calls[c].upload IN
       \/ /\ uploads[i].status = "pending"
          /\ files' = files \union {i}
          /\ uploads' = [uploads EXCEPT ![i] = [status |-> "completed", key |-> "clean", raw |-> TRUE]]
          /\ Goes(c, [at |-> "drop", upload |-> i])
       \/ /\ uploads[i].status = "completed"
          /\ UNCHANGED <<files, uploads>>
          /\ Goes(c, [at |-> "drop", upload |-> i])
       \/ /\ uploads[i].status \notin {"pending", "completed"}
          /\ UNCHANGED <<files, uploads>>
          /\ Ends(c)
    /\ UNCHANGED <<age, messages, reported, counted, quotaLock, mutes, objects, sweep>>

(* completeTeamChatUpload: the raw object goes only after the commit; when the  *)
(* delete fails its key stays on the row for the sweep.                         *)
DropRaw(c) ==
    /\ At(c, "drop")
    /\ \/ /\ objects' = objects \ {<<calls[c].upload, "raw">>}
          /\ Goes(c, [at |-> "clear", upload |-> calls[c].upload])
       \/ /\ StorageFaults /\ UNCHANGED objects /\ Ends(c)
    /\ UNCHANGED <<age, messages, reported, counted, quotaLock, mutes, uploads, files, sweep>>

ClearRawStorageKey(c) ==
    /\ At(c, "clear")
    /\ uploads' = [uploads EXCEPT ![calls[c].upload].raw = FALSE]
    /\ Ends(c)
    /\ UNCHANGED <<age, messages, reported, counted, quotaLock, mutes, files, objects, sweep>>

----------------------------------------------------------------------------
(* Messages.  SendMessage replays a known client id, checks access and the      *)
(* attachment (its own file of this match, ready), and then inserts.            *)
SendMessage(c, t) ==
    /\ At(c, "idle") /\ CanChat /\ ~Stands(t)
    /\ \E f \in {NoFile} \union {i \in files : OwnerOf[i] = AuthorOf[t]} :
          Goes(c, [at |-> "quota", text |-> t, file |-> f])
    /\ UNCHANGED <<age, messages, reported, counted, quotaLock, mutes, uploads, files, objects, sweep>>

(* Bug variant: the quota is counted outside the advisory lock. *)
MayLock_Anyone(c, m) == TRUE

(* pg_advisory_xact_lock over match and author. *)
MayLock(c, m) == quotaLock[m] = NoHolder

(* InsertMessageWithLimits up to the counts: a known client id is returned, a   *)
(* full window refuses, otherwise the insert follows under the same lock.       *)
CheckChatLimits(c) ==
    /\ At(c, "quota")
    /\ LET t == calls[c].text
           m == AuthorOf[t] IN
       /\ MayLock(c, m)
       /\ \/ /\ Stands(t) \/ counted[m] >= MaxSends
             /\ Ends(c) /\ UNCHANGED quotaLock
          \/ /\ ~Stands(t) /\ counted[m] < MaxSends
             /\ quotaLock' = [quotaLock EXCEPT ![m] = c]
             /\ Goes(c, [calls[c] EXCEPT !.at = "insert"])
    /\ UNCHANGED <<age, messages, reported, counted, mutes, uploads, files, objects, sweep>>

(* InsertMessage: (match, author, client id) and file_id are unique; a message  *)
(* that meets either replays or fails.                                          *)
InsertMessage(c) ==
    /\ At(c, "insert")
    /\ LET t == calls[c].text
           f == calls[c].file
           m == AuthorOf[t] IN
       /\ \/ /\ ~Stands(t) /\ (f # NoFile => \A u \in Texts : messages[u] # f)
             /\ messages' = [messages EXCEPT ![t] = f]
             /\ counted' = [counted EXCEPT ![m] = @ + 1]
          \/ /\ Stands(t) \/ (f # NoFile /\ \E u \in Texts : messages[u] = f)
             /\ UNCHANGED <<messages, counted>>
       /\ quotaLock' = [quotaLock EXCEPT ![m] = NoHolder]
       /\ Ends(c)
    /\ UNCHANGED <<age, reported, mutes, uploads, files, objects, sweep>>

(* The rate window moves on. *)
WindowPasses(m) ==
    /\ counted[m] > 0
    /\ counted' = [counted EXCEPT ![m] = 0]
    /\ UNCHANGED <<age, messages, reported, quotaLock, mutes, uploads, files, objects, calls, sweep>>

MuteTeammate(v, w) ==
    /\ CanChat /\ v # w
    /\ mutes' = mutes \union {<<v, w>>}
    /\ UNCHANGED <<age, messages, reported, counted, quotaLock, uploads, files, objects, calls, sweep>>

UnmuteTeammate(v, w) ==
    /\ CanChat
    /\ mutes' = mutes \ {<<v, w>>}
    /\ UNCHANGED <<age, messages, reported, counted, quotaLock, uploads, files, objects, calls, sweep>>

(* ReportMessage: while chat is open, a teammate's message, never one's own. *)
MayReport(v, t) == CanChat /\ Stands(t) /\ AuthorOf[t] # v

(* InsertReport: once per reporter and message; the message, its row locked, is *)
(* kept at least as long as the report.                                         *)
ReportMessage(v, t) ==
    /\ MayReport(v, t)
    /\ reported' = reported \union {t}
    /\ UNCHANGED <<age, messages, counted, quotaLock, mutes, uploads, files, objects, calls, sweep>>

(* ListMessages: what a viewer is shown, without the authors he has muted. *)
Listed(v) == {t \in Texts : Stands(t) /\ <<v, AuthorOf[t]>> \notin mutes}

(* GetAttachmentURL: a link to the sanitised object of a listed message. *)
Linked(v) == {t \in Listed(v) : AttachedTo(t)}

----------------------------------------------------------------------------
(* The retention worker (cleanup.go). *)
Expired(t) == Stands(t) /\ (IF t \in reported THEN age = "forgotten" ELSE age \in {"expired", "forgotten"})

(* ListCleanupCandidates and ListProtectedMessageIDs: reports still retained. *)
Protected(t) == t \in reported /\ age # "forgotten"

ListCleanupCandidates ==
    /\ sweep.at = "idle"
    /\ LET due == {t \in Texts : Expired(t) /\ ~Protected(t)} IN
       /\ due # {}
       /\ sweep' = [at |-> "messages", texts |-> due,
                    files |-> {messages[t] : t \in {u \in due : AttachedTo(u)}} \intersect files]
    /\ UNCHANGED <<age, messages, reported, counted, quotaLock, mutes, uploads, files, objects, calls>>

(* Bug variant: the whole chat of the match goes with its first expired message. *)
Swept_Match(t) == TRUE

(* The eligible messages, by their ids. *)
Swept(t) == t \in sweep.texts

(* DeleteMessages: the reports and the messages, in one transaction. *)
DeleteMessages ==
    /\ sweep.at = "messages"
    /\ messages' = [t \in Texts |-> IF Swept(t) THEN Unsent ELSE messages[t]]
    /\ reported' = {t \in reported : ~Swept(t)}
    /\ sweep' = [at |-> "objects", files |-> sweep.files]
    /\ UNCHANGED <<age, counted, quotaLock, mutes, uploads, files, objects, calls>>

(* deleteObjectsWithRetry: each object may fail for good; the file rows go only *)
(* when none did.                                                               *)
DeleteObjects ==
    /\ sweep.at = "objects"
    /\ \E failed \in SUBSET sweep.files :
          /\ failed # {} => StorageFaults
          /\ objects' = objects \ {<<i, "clean">> : i \in sweep.files \ failed}
          /\ sweep' = IF failed = {} THEN [at |-> "rows", files |-> sweep.files] ELSE [at |-> "mutes"]
    /\ UNCHANGED <<age, messages, reported, counted, quotaLock, mutes, uploads, files, calls>>

DeleteFiles ==
    /\ sweep.at = "rows"
    /\ files' = files \ sweep.files
    /\ sweep' = [at |-> "mutes"]
    /\ UNCHANGED <<age, messages, reported, counted, quotaLock, mutes, uploads, objects, calls>>

DeleteMutesForMatches ==
    /\ sweep.at = "mutes"
    /\ mutes' = {}
    /\ sweep' = Resting
    /\ UNCHANGED <<age, messages, reported, counted, quotaLock, uploads, files, objects, calls>>

(* Bug variant: the sweep deletes what the row points at, whatever its status. *)
SweptKeys_Both(i) == {<<i, uploads[i].key>>} \union (IF uploads[i].raw THEN {<<i, "raw">>} ELSE {})

(* cleanupRawUploads: of a completed upload only the raw object, of any other   *)
(* the object its storage key names as well.                                    *)
SweptKeys(i) ==
    (IF uploads[i].status # "completed" THEN {<<i, uploads[i].key>>} ELSE {})
        \union (IF uploads[i].raw THEN {<<i, "raw">>} ELSE {})

RawDue(i) == uploads[i].status \in {"pending", "rejected"} \/ uploads[i].raw

(* ListRawUploadsForCleanup, then the objects, then the rows: no request is     *)
(* left that could change the rows in between.                                  *)
ListRawUploadsForCleanup ==
    /\ sweep.at = "idle" /\ age \notin {"played", "after", "closed"}
    /\ LET due == {i \in Images : RawDue(i)} IN
       /\ due # {}
       /\ \/ /\ objects' = objects \ UNION {SweptKeys(i) : i \in due}
             /\ sweep' = [at |-> "uploads",
                          clear |-> {i \in due : uploads[i].status = "completed"},
                          drop |-> {i \in due : uploads[i].status # "completed"}]
          \/ /\ StorageFaults
             /\ \E gone \in SUBSET UNION {SweptKeys(i) : i \in due} :
                   objects' = objects \ gone
             /\ UNCHANGED sweep
    /\ UNCHANGED <<age, messages, reported, counted, quotaLock, mutes, uploads, files, calls>>

(* ClearUploadRawStorageKeys, DeleteUploads: a deleted upload leaves its file. *)
DeleteUploads ==
    /\ sweep.at = "uploads"
    /\ uploads' = [i \in Images |->
          IF i \in sweep.drop THEN NoUpload
          ELSE IF i \in sweep.clear THEN [uploads[i] EXCEPT !.raw = FALSE]
          ELSE uploads[i]]
    /\ sweep' = Resting
    /\ UNCHANGED <<age, messages, reported, counted, quotaLock, mutes, files, objects, calls>>

(* The worker's process dies; the next pass starts from the tables. *)
SweepDies ==
    /\ sweep # Resting /\ sweep' = Resting
    /\ UNCHANGED <<age, messages, reported, counted, quotaLock, mutes, uploads, files, objects, calls>>

----------------------------------------------------------------------------
(* Requests end before the raw sweep's day is over. *)
TimePasses ==
    /\ age # "forgotten"
    /\ age = "closed" => \A c \in ChatCalls : At(c, "idle")
    /\ age' = Older(age)
    /\ UNCHANGED <<messages, reported, counted, quotaLock, mutes, uploads, files, objects, calls, sweep>>

ChatRequest(c) ==
    \/ \E i \in Images : CompleteUpload(c, i)
    \/ HeadObject(c)
    \/ SanitizeStoredObject(c)
    \/ MarkUploadRejected(c)
    \/ FinalizeUpload(c)
    \/ DropRaw(c)
    \/ ClearRawStorageKey(c)
    \/ \E t \in Texts : SendMessage(c, t)
    \/ CheckChatLimits(c)
    \/ InsertMessage(c)

ChatSweep ==
    \/ ListCleanupCandidates
    \/ DeleteMessages
    \/ DeleteObjects
    \/ DeleteFiles
    \/ DeleteMutesForMatches
    \/ ListRawUploadsForCleanup
    \/ DeleteUploads
    \/ SweepDies

ChatNext ==
    \/ \E i \in Images : CreateUpload(i)
    \/ \E i \in Images : StoreRaw(i)
    \/ \E c \in ChatCalls : ChatRequest(c)
    \/ \E m \in Mates : WindowPasses(m)
    \/ \E v, w \in Mates : MuteTeammate(v, w)
    \/ \E v, w \in Mates : UnmuteTeammate(v, w)
    \/ \E v \in Mates, t \in Texts : ReportMessage(v, t)
    \/ ChatSweep
    \/ TimePasses

ChatSpec == ChatInit /\ [][ChatNext]_chatVars

----------------------------------------------------------------------------
(* Every row, object and call is one the code can produce; concurrent requests  *)
(* of one author never bring more messages into a rate window than its limit.   *)
ChatTypeOK ==
    /\ age \in Range(Ages)
    /\ messages \in [Texts -> Images \union {NoFile, Unsent}]
    /\ reported \subseteq Texts
    /\ counted \in [Mates -> 0..MaxSends]
    /\ quotaLock \in [Mates -> ChatCalls \union {NoHolder}]
    /\ mutes \subseteq Mates \X Mates
    /\ uploads \in [Images -> [status : {"none", "pending", "completed", "rejected"},
                               key : {"raw", "clean"}, raw : BOOLEAN]]
    /\ files \subseteq Images
    /\ objects \subseteq Images \X {"raw", "clean"}

(* What a team is shown can be opened: while a message with an image stands,    *)
(* its file row and the sanitised object do, whatever retries of the upload,    *)
(* failing storage and the sweeps did to the rows around them (research.md:     *)
(* chat and sanitised images are kept 30 days after the match).                 *)
AttachmentsOpen ==
    \A v \in Mates : \A t \in Linked(v) : messages[t] \in files /\ <<messages[t], "clean">> \in objects

(* A reported message, and the image it shows, outlives the ordinary retention: *)
(* no pass of the sweep takes it before the report may be forgotten.            *)
ReportedAreKept ==
    [][\A t \in reported : messages'[t] = messages[t] \/ age = "forgotten"]_chatVars
=============================================================================
