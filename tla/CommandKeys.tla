----------------------------- MODULE CommandKeys -----------------------------
(* Idempotency keys of commands.  A client that hears no answer repeats its     *)
(* command under the same key.  Party commands keep the key in one Redis hash   *)
(* that a Lua script claims (platform/redis/command_idempotency.go, used by     *)
(* parties/service.go); challenge commands read a record and then take a lock   *)
(* (challenges/idempotency.go, challenges/service.go).                          *)
(*                                                                              *)
(* A run is a command whose transaction committed.  Records live for a day,     *)
(* longer than any client repeats, and the challenge lock for two minutes.      *)
EXTENDS Naturals, FiniteSetsExt, Functions

CONSTANTS
    Keys,          \* idempotency keys of one caller and scope
    Bodies,        \* request bodies
    KeyCalls,      \* concurrent requests
    MaxRuns,       \* bound on the runs of a key
    LockOutlives   \* TRUE: no request outlives the challenge lock

ASSUME KeyAssumption == IsFiniteSet(Bodies) /\ MaxRuns \in Nat /\ LockOutlives \in BOOLEAN

VARIABLES
    record,   \* cmd:idempotency:v1:<key>: [hash, status, response], or none
    replay,   \* challenges:idempotency:<key>: the fingerprint stored, or none
    keyLock,  \* challenges:idempotency:<key>:lock
    runs,     \* per service and key: the bodies that ran, as a count per body
    keyCall,  \* the requests: [at, service, key, body]
    answered  \* what clients were told: <<service, key, body, body that ran>>

keyVars == <<record, replay, keyLock, runs, keyCall, answered>>

NoRecord == [hash |-> "none", status |-> "none"]
NoReplay == "none"
Services == {"parties", "challenges"}
Free == [at |-> "free"]

KeyTypeOK ==
    /\ record \in [Keys -> [hash : Bodies \union {"none"}, status : {"none", "pending", "done"}]]
    /\ replay \in [Keys -> Bodies \union {NoReplay}]
    /\ keyLock \in [Keys -> BOOLEAN]
    /\ runs \in [Services \X Keys -> [Bodies -> 0..MaxRuns]]
    /\ answered \subseteq Services \X Keys \X Bodies \X Bodies

KeyInit ==
    /\ record = [k \in Keys |-> NoRecord]
    /\ replay = [k \in Keys |-> NoReplay]
    /\ keyLock = [k \in Keys |-> FALSE]
    /\ runs = [sk \in Services \X Keys |-> [b \in Bodies |-> 0]]
    /\ keyCall = [c \in KeyCalls |-> Free]
    /\ answered = {}

AtStep(c, step) == keyCall[c].at = step
Moves(c, step) == keyCall' = [keyCall EXCEPT ![c].at = step]
Replied(c) == keyCall' = [keyCall EXCEPT ![c] = Free]
Told(c, b) == answered' = answered \union {<<keyCall[c].service, keyCall[c].key, keyCall[c].body, b>>}

RunCount(s, k) == SumFunctionOnSet(runs[<<s, k>>], Bodies)

Ask(c, s, k, b) ==
    /\ keyCall[c] = Free /\ RunCount(s, k) < MaxRuns
    /\ keyCall' = [keyCall EXCEPT ![c] = [at |-> "begin", service |-> s, key |-> k, body |-> b]]
    /\ UNCHANGED <<record, replay, keyLock, runs, answered>>

----------------------------------------------------------------------------
(* Bug variant: a pending key is taken for a crashed command and claimed anew. *)
BeginCode_Takeover(r, b) ==
    IF r = NoRecord \/ r.status = "pending" THEN "claimed"
    ELSE IF r.hash # b THEN "conflict" ELSE "hit"

(* commandIdempotencyBeginScript: claimed, hit, conflict or in flight. *)
BeginCode(r, b) ==
    IF r = NoRecord THEN "claimed"
    ELSE IF r.hash # b THEN "conflict"
    ELSE IF r.status = "done" THEN "hit" ELSE "in flight"

(* beginIdem: a hit is answered from the record, both conflicts are errors, and *)
(* Redis failing refuses the command.                                           *)
Begin(c) ==
    /\ AtStep(c, "begin") /\ keyCall[c].service = "parties"
    /\ LET k == keyCall[c].key
           body == keyCall[c].body
           code == BeginCode(record[k], body) IN
       \/ /\ code = "claimed"
          /\ record' = [record EXCEPT ![k] = [hash |-> body, status |-> "pending"]]
          /\ Moves(c, "run") /\ UNCHANGED answered
       \/ /\ code = "hit"
          /\ Told(c, record[k].hash)
          /\ Replied(c) /\ UNCHANGED record
       \/ /\ code \in {"conflict", "in flight"}
          /\ Replied(c) /\ UNCHANGED <<record, answered>>
    /\ UNCHANGED <<replay, keyLock, runs>>

(* commandIdempotencyCompleteScript: the answer is kept unless the key now      *)
(* belongs to another body.                                                     *)
Kept(r, b) == IF r.hash \notin {"none", b} THEN r ELSE [hash |-> b, status |-> "done"]

(* completeIdem after a run: Redis failing is only logged. *)
Complete(c) ==
    /\ AtStep(c, "store") /\ keyCall[c].service = "parties"
    /\ \/ record' = [record EXCEPT ![keyCall[c].key] = Kept(@, keyCall[c].body)]
       \/ UNCHANGED record
    /\ Told(c, keyCall[c].body)
    /\ Replied(c)
    /\ UNCHANGED <<replay, keyLock, runs>>

(* Release's script: only a pending claim goes. *)
Unclaimed(r) == IF r.status = "pending" THEN NoRecord ELSE r

(* releaseIdem after a failed run. *)
ReleaseClaim(c) ==
    /\ AtStep(c, "over") /\ keyCall[c].service = "parties"
    /\ record' = [record EXCEPT ![keyCall[c].key] = Unclaimed(@)]
    /\ Replied(c)
    /\ UNCHANGED <<replay, keyLock, runs, answered>>

----------------------------------------------------------------------------
(* beginIdempotency: the stored answer first ... *)
GetRecord(c) ==
    /\ AtStep(c, "begin") /\ keyCall[c].service = "challenges"
    /\ LET k == keyCall[c].key IN
       \/ /\ replay[k] = NoReplay
          /\ Moves(c, "claim") /\ UNCHANGED answered
       \/ /\ replay[k] = keyCall[c].body
          /\ Told(c, replay[k]) /\ Replied(c)
       \/ /\ replay[k] \notin {NoReplay, keyCall[c].body}
          /\ Replied(c) /\ UNCHANGED answered
    /\ UNCHANGED <<record, replay, keyLock, runs>>

(* ... then the lock (SETNX), without a second look at the record. *)
ClaimLock(c) ==
    /\ AtStep(c, "claim")
    /\ LET k == keyCall[c].key IN
       IF keyLock[k] THEN Replied(c) /\ UNCHANGED keyLock
       ELSE /\ keyLock' = [keyLock EXCEPT ![k] = TRUE]
            /\ Moves(c, "run")
    /\ UNCHANGED <<record, replay, runs, answered>>

(* storeIdempotencyResponse: Redis failing makes the committed command an error. *)
StoreResponse(c) ==
    /\ AtStep(c, "store") /\ keyCall[c].service = "challenges"
    /\ \/ /\ replay' = [replay EXCEPT ![keyCall[c].key] = keyCall[c].body]
          /\ Told(c, keyCall[c].body)
       \/ UNCHANGED <<replay, answered>>
    /\ Moves(c, "over")
    /\ UNCHANGED <<record, keyLock, runs>>

(* releaseIdempotency, deferred: the lock goes whatever became of the command. *)
ReleaseLock(c) ==
    /\ AtStep(c, "over") /\ keyCall[c].service = "challenges"
    /\ keyLock' = [keyLock EXCEPT ![keyCall[c].key] = FALSE]
    /\ Replied(c)
    /\ UNCHANGED <<record, replay, runs, answered>>

LockExpires(k) ==
    /\ keyLock[k]
    /\ LockOutlives => \A c \in KeyCalls : keyCall[c] # Free => keyCall[c].key # k \/ keyCall[c].at \in {"begin", "claim"}
    /\ keyLock' = [keyLock EXCEPT ![k] = FALSE]
    /\ UNCHANGED <<record, replay, runs, keyCall, answered>>

----------------------------------------------------------------------------
(* The command itself: its transaction commits or rolls back, and the caller    *)
(* learns which.  A commit whose answer is lost (reported as a failure, after   *)
(* which releaseIdem frees the key) is left out.                                *)
Run(c) ==
    /\ AtStep(c, "run")
    /\ LET sk == <<keyCall[c].service, keyCall[c].key>> IN
       \/ /\ RunCount(sk[1], sk[2]) < MaxRuns
          /\ runs' = [runs EXCEPT ![sk][keyCall[c].body] = @ + 1]
          /\ Moves(c, "store")
       \/ /\ Moves(c, "over") /\ UNCHANGED runs
    /\ UNCHANGED <<record, replay, keyLock, answered>>

(* The process that serves a request dies; its Redis keys stay. *)
Dies(c) ==
    /\ keyCall[c] # Free /\ Replied(c)
    /\ UNCHANGED <<record, replay, keyLock, runs, answered>>

KeyNext ==
    \/ \E c \in KeyCalls, s \in Services, k \in Keys, b \in Bodies : Ask(c, s, k, b)
    \/ \E c \in KeyCalls : Begin(c)
    \/ \E c \in KeyCalls : Complete(c)
    \/ \E c \in KeyCalls : ReleaseClaim(c)
    \/ \E c \in KeyCalls : GetRecord(c)
    \/ \E c \in KeyCalls : ClaimLock(c)
    \/ \E c \in KeyCalls : StoreResponse(c)
    \/ \E c \in KeyCalls : ReleaseLock(c)
    \/ \E c \in KeyCalls : Run(c)
    \/ \E c \in KeyCalls : Dies(c)
    \/ \E k \in Keys : LockExpires(k)

KeySpec == KeyInit /\ [][KeyNext]_keyVars

----------------------------------------------------------------------------
(* The runs of a party key are one run of one body. *)
OnlyRun(k, b) == runs[<<"parties", k>>] = [d \in Bodies |-> IF d = b THEN 1 ELSE 0]

(* A party command runs at most once per key, and whoever repeats the key with  *)
(* its body is told the outcome of that one run, whatever requests overlap,     *)
(* processes die or answers are not stored.                                     *)
PartyKeysRunOnce ==
    /\ \A k \in Keys : \A b \in Bodies : runs[<<"parties", k>>][b] > 0 => OnlyRun(k, b)
    /\ \A a \in answered : a[1] = "parties" => a[3] = a[4] /\ OnlyRun(a[2], a[4])

(* A shared challenge is created at most once per key (research.md: shared      *)
(* challenge creation must be idempotent per actor).                            *)
SharedCreatedOnce == \A k \in Keys : RunCount("challenges", k) <= 1
=============================================================================
