-------------------------- MODULE ServicesProofs ----------------------------
(***************************************************************************)
(* Proofs about the services that keep a player's own record: keys of      *)
(* commands (CommandKeys), solo games (SoloGame), the daily challenge with *)
(* its credits (DailyChallenge), the read models beside them               *)
(* (Leaderboards, SeasonPages), and about the types of all the services    *)
(* together (Services).                                                    *)
(***************************************************************************)
EXTENDS Services, GatheringProofs, FiniteSetTheorems, TLAPS

-----------------------------------------------------------------------------
(* Keys of commands, for any keys, bodies and requests: the hash of a key is*)
(* the lock of its only run.  While a request runs, stores or releases      *)
(* under a key the hash is pending with its body, and nobody else holds the *)
(* key (HolderInv); once a command ran, the hash stays with its body for    *)
(* good (RunInv), so no later request claims it.                            *)

(* A request is free, or carries its service, key and body. *)
Requests == {Free} \union [at : {"begin", "claim", "run", "store", "over"},
                           service : Services, key : Keys, body : Bodies]

TypeInv ==
    /\ record \in [Keys -> [hash : Bodies \union {"none"}, status : {"none", "pending", "done"}]]
    /\ runs \in [Services \X Keys -> [Bodies -> Nat]]
    /\ keyCall \in [KeyCalls -> Requests]
    /\ \A c \in KeyCalls : keyCall[c].at = "claim" => keyCall[c].service = "challenges"
    /\ answered \subseteq Services \X Keys \X Bodies \X Bodies

(* c has claimed the party key k and is not done with it. *)
Holds(c, k) ==
    /\ keyCall[c] # Free /\ keyCall[c].at \in {"run", "store", "over"}
    /\ keyCall[c].service = "parties" /\ keyCall[c].key = k

Unrun(k) == \A b \in Bodies : runs[<<"parties", k>>][b] = 0

HolderInv ==
    \A k \in Keys, c \in KeyCalls : Holds(c, k) =>
        /\ record[k] = [hash |-> keyCall[c].body, status |-> "pending"]
        /\ \A d \in KeyCalls : Holds(d, k) => d = c
        /\ IF keyCall[c].at = "store" THEN OnlyRun(k, keyCall[c].body) ELSE Unrun(k)

RunInv ==
    \A k \in Keys :
        /\ \A b \in Bodies : runs[<<"parties", k>>][b] > 0 =>
             OnlyRun(k, b) /\ record[k].hash = b /\ record[k].status # "none"
        /\ record[k].status = "done" => record[k].hash \in Bodies /\ OnlyRun(k, record[k].hash)

AnswerInv == \A a \in answered : a[1] = "parties" => a[3] = a[4] /\ OnlyRun(a[2], a[4])

KInv == TypeInv /\ HolderInv /\ RunInv /\ AnswerInv

-----------------------------------------------------------------------------
LEMMA InitKeys == KeyInit => KInv
<1> SUFFICES ASSUME KeyInit PROVE KInv
  OBVIOUS
<1> USE DEF KeyInit, NoRecord
<1>1. TypeInv
  BY DEF TypeInv, Requests, Services, Free
<1>2. \A c \in KeyCalls, k \in Keys : ~ Holds(c, k)
  BY DEF Holds
<1>3. HolderInv
  BY <1>2 DEF HolderInv
<1>4. \A k \in Keys : \A b \in Bodies : runs[<<"parties", k>>][b] = 0
  BY DEF Services
<1>5. RunInv
  BY <1>4 DEF RunInv
<1>6. AnswerInv
  BY DEF AnswerInv
<1>. QED  BY <1>1, <1>3, <1>5, <1>6 DEF KInv

(* A request at a step carries a service, a key and a body. *)
LEMMA RequestFields ==
    ASSUME TypeInv, NEW c \in KeyCalls, keyCall[c] # Free
    PROVE  /\ keyCall[c] \in [at : {"begin", "claim", "run", "store", "over"},
                              service : Services, key : Keys, body : Bodies]
           /\ keyCall[c].service \in Services /\ keyCall[c].key \in Keys /\ keyCall[c].body \in Bodies
           /\ <<keyCall[c].service, keyCall[c].key>> \in Services \X Keys
  BY DEF TypeInv, Requests

LEMMA AtIsNotFree ==
    ASSUME NEW c, NEW step \in {"begin", "claim", "run", "store", "over"}, AtStep(c, step)
    PROVE  keyCall[c] # Free
  BY DEF AtStep, Free

(* Whoever moves on or replies leaves the other requests alone. *)
LEMMA OthersKeep ==
    ASSUME TypeInv, NEW c \in KeyCalls, NEW r, keyCall' = [keyCall EXCEPT ![c] = r]
    PROVE  /\ keyCall'[c] = r
           /\ \A d \in KeyCalls \ {c} : keyCall'[d] = keyCall[d]
           /\ \A d \in KeyCalls \ {c} : \A k : Holds(d, k)' <=> Holds(d, k)
  BY DEF TypeInv, Holds

(* A step of one request keeps the requests' types. *)
LEMMA CallTypes ==
    ASSUME TypeInv, NEW c \in KeyCalls, NEW r \in Requests, keyCall' = [keyCall EXCEPT ![c] = r],
           r.at = "claim" => r.service = "challenges"
    PROVE  /\ keyCall' \in [KeyCalls -> Requests]
           /\ \A d \in KeyCalls : keyCall'[d].at = "claim" => keyCall'[d].service = "challenges"
<1>1. keyCall'[c] = r /\ \A d \in KeyCalls \ {c} : keyCall'[d] = keyCall[d]
  BY OthersKeep
<1>. QED  BY <1>1 DEF TypeInv

(* Where a request moves to. *)
LEMMA MovedRequest ==
    ASSUME TypeInv, NEW c \in KeyCalls, NEW step \in {"begin", "run", "store", "over"},
           keyCall[c] # Free, Moves(c, step)
    PROVE  LET r == [keyCall[c] EXCEPT !.at = step] IN
           /\ keyCall' = [keyCall EXCEPT ![c] = r] /\ r \in Requests
           /\ r # Free /\ r.at = step
           /\ r.service = keyCall[c].service /\ r.key = keyCall[c].key /\ r.body = keyCall[c].body
<1>1. keyCall[c] \in [at : {"begin", "claim", "run", "store", "over"},
                     service : Services, key : Keys, body : Bodies]
  BY RequestFields
<1>2. keyCall' = [keyCall EXCEPT ![c] = [keyCall[c] EXCEPT !.at = step]]
  BY DEF Moves, TypeInv
<1>. QED  BY <1>1, <1>2 DEF Requests, Free

(* A step that changes no hash and no run, and lets nobody hold a key anew,    *)
(* keeps the invariant.                                                        *)
LEMMA NothingClaimed ==
    ASSUME KInv, TypeInv', AnswerInv', UNCHANGED <<record, runs>>,
           \A d \in KeyCalls, k \in Keys : Holds(d, k)' => Holds(d, k) /\ keyCall'[d] = keyCall[d]
    PROVE  KInv'
<1>0. record' = record /\ runs' = runs
  OBVIOUS
<1>1. ASSUME NEW k \in Keys, NEW c \in KeyCalls, Holds(c, k)'
      PROVE  /\ record'[k] = [hash |-> keyCall'[c].body, status |-> "pending"]
             /\ \A d \in KeyCalls : Holds(d, k)' => d = c
             /\ IF keyCall'[c].at = "store" THEN OnlyRun(k, keyCall[c].body)' ELSE Unrun(k)'
  BY <1>0, <1>1 DEF KInv, HolderInv, OnlyRun, Unrun
<1>2. ASSUME NEW k \in Keys
      PROVE  /\ \A b \in Bodies : runs'[<<"parties", k>>][b] > 0 =>
                   OnlyRun(k, b)' /\ record'[k].hash = b /\ record'[k].status # "none"
             /\ record'[k].status = "done" =>
                   record'[k].hash \in Bodies /\ OnlyRun(k, record[k].hash)'
  BY <1>0 DEF KInv, RunInv, OnlyRun
<1>. QED  BY <1>1, <1>2 DEF KInv, HolderInv, RunInv

(* Answers stay true while nothing runs. *)
LEMMA AnswersKept == ASSUME AnswerInv, UNCHANGED <<runs, answered>> PROVE AnswerInv'
  BY DEF AnswerInv, OnlyRun

(* A reply ends what the request held. *)
LEMMA ReplyTypes ==
    ASSUME TypeInv, NEW c \in KeyCalls, Replied(c)
    PROVE  /\ keyCall' \in [KeyCalls -> Requests]
           /\ \A d \in KeyCalls : keyCall'[d].at = "claim" => keyCall'[d].service = "challenges"
           /\ \A k : ~ Holds(c, k)'
           /\ \A d \in KeyCalls \ {c} : keyCall'[d] = keyCall[d]
           /\ \A d \in KeyCalls \ {c} : \A k : Holds(d, k)' <=> Holds(d, k)
<1>1. keyCall' = [keyCall EXCEPT ![c] = Free]
  BY DEF Replied
<1>2. Free \in Requests /\ Free.at # "claim"
  BY DEF Requests, Free
<1>3. /\ keyCall' \in [KeyCalls -> Requests]
      /\ \A d \in KeyCalls : keyCall'[d].at = "claim" => keyCall'[d].service = "challenges"
  BY <1>1, <1>2, CallTypes
<1>4. /\ keyCall'[c] = Free
      /\ \A d \in KeyCalls \ {c} : keyCall'[d] = keyCall[d]
      /\ \A d \in KeyCalls \ {c} : \A k : Holds(d, k)' <=> Holds(d, k)
  BY <1>1, OthersKeep
<1>. QED  BY <1>3, <1>4 DEF Holds

(* A reply that says nothing, or what ran, keeps the invariant. *)
LEMMA ReplyKeeps ==
    ASSUME KInv, NEW c \in KeyCalls, Replied(c), UNCHANGED <<record, runs>>, AnswerInv',
           answered' \subseteq Services \X Keys \X Bodies \X Bodies
    PROVE  KInv'
<1>1. TypeInv
  BY DEF KInv
<1>2. TypeInv'
  BY <1>1, ReplyTypes DEF TypeInv
<1>3. \A d \in KeyCalls, k \in Keys : Holds(d, k)' => Holds(d, k) /\ keyCall'[d] = keyCall[d]
  BY <1>1, ReplyTypes
<1>. QED  BY <1>2, <1>3, NothingClaimed

-----------------------------------------------------------------------------
(* One lemma for each step of a party command. *)

(* An unclaimed key has never run: whoever claims it is its only holder. *)
LEMMA ClaimKeeps ==
    ASSUME KInv, NEW c \in KeyCalls, AtStep(c, "begin"), keyCall[c].service = "parties",
           record[keyCall[c].key] = NoRecord,
           record' = [record EXCEPT ![keyCall[c].key] = [hash |-> keyCall[c].body, status |-> "pending"]],
           Moves(c, "run"), UNCHANGED <<runs, answered>>
    PROVE  KInv'
<1> DEFINE k == keyCall[c].key
           r == [keyCall[c] EXCEPT !.at = "run"]
<1>0. /\ TypeInv /\ HolderInv /\ RunInv /\ AnswerInv
      /\ keyCall[c] # Free /\ runs' = runs /\ answered' = answered
  BY AtIsNotFree DEF KInv
<1>1. k \in Keys /\ keyCall[c].body \in Bodies
  BY <1>0, RequestFields
<1>2. /\ keyCall' = [keyCall EXCEPT ![c] = r] /\ r \in Requests /\ r # Free /\ r.at = "run"
      /\ r.service = "parties" /\ r.key = k /\ r.body = keyCall[c].body
  BY <1>0, MovedRequest
<1>3. /\ keyCall'[c] = r
      /\ \A d \in KeyCalls \ {c} : keyCall'[d] = keyCall[d]
      /\ \A d \in KeyCalls \ {c} : \A j : Holds(d, j)' <=> Holds(d, j)
  BY <1>0, <1>2, OthersKeep
<1>4. /\ record'[k] = [hash |-> keyCall[c].body, status |-> "pending"]
      /\ \A j \in Keys \ {k} : record'[j] = record[j]
  BY <1>0, <1>1 DEF TypeInv
<1>5. TypeInv'
  <2>1. record' \in [Keys -> [hash : Bodies \union {"none"}, status : {"none", "pending", "done"}]]
    BY <1>0, <1>1 DEF TypeInv
  <2>. QED  BY <2>1, <1>0, <1>2, CallTypes DEF TypeInv
<1>6. Unrun(k)
  <2>1. \A b \in Bodies : ~ (runs[<<"parties", k>>][b] > 0)
    BY <1>0, <1>1 DEF RunInv, NoRecord
  <2>2. \A b \in Bodies : runs[<<"parties", k>>][b] \in Nat
    BY <1>0, <1>1 DEF TypeInv, Services
  <2>. QED  BY <2>1, <2>2 DEF Unrun
<1>7. ASSUME NEW d \in KeyCalls, Holds(d, k) PROVE FALSE
  <2>1. record[k] = [hash |-> keyCall[d].body, status |-> "pending"]
    BY <1>0, <1>1, <1>7 DEF HolderInv
  <2>. QED  BY <2>1 DEF NoRecord
<1>8. \A j : Holds(c, j)' => j = k
  BY <1>2, <1>3 DEF Holds
<1>9. HolderInv'
  <2>1. ASSUME NEW j \in Keys, NEW d \in KeyCalls, Holds(d, j)'
        PROVE  /\ record'[j] = [hash |-> keyCall'[d].body, status |-> "pending"]
               /\ \A e \in KeyCalls : Holds(e, j)' => e = d
               /\ IF keyCall'[d].at = "store" THEN OnlyRun(j, keyCall[d].body)' ELSE Unrun(j)'
    <3>1. CASE d = c
      <4>1. j = k
        BY <2>1, <3>1, <1>8
      <4>2. Unrun(j)'
        BY <4>1, <1>0, <1>6 DEF Unrun
      <4>. QED  BY <3>1, <4>1, <4>2, <1>2, <1>3, <1>4, <1>7
    <3>2. CASE d # c
      <4>1. Holds(d, j) /\ keyCall'[d] = keyCall[d]
        BY <3>2, <2>1, <1>3
      <4>2. j # k
        BY <4>1, <1>7
      <4>3. \A e \in KeyCalls : Holds(e, j)' => e = d
        BY <4>1, <4>2, <1>0, <1>3, <1>8 DEF HolderInv
      <4>4. /\ record[j] = [hash |-> keyCall[d].body, status |-> "pending"]
            /\ IF keyCall[d].at = "store" THEN OnlyRun(j, keyCall[d].body) ELSE Unrun(j)
        BY <4>1, <1>0 DEF HolderInv
      <4>. QED  BY <4>1, <4>2, <4>3, <4>4, <1>0, <1>4 DEF OnlyRun, Unrun
    <3>. QED  BY <3>1, <3>2
  <2>. QED  BY <2>1 DEF HolderInv
<1>10. RunInv'
  <2>1. ASSUME NEW j \in Keys
        PROVE  /\ \A b \in Bodies : runs'[<<"parties", j>>][b] > 0 =>
                     OnlyRun(j, b)' /\ record'[j].hash = b /\ record'[j].status # "none"
               /\ record'[j].status = "done" => record'[j].hash \in Bodies /\ OnlyRun(j, record[j].hash)'
    <3>1. CASE j = k
      BY <3>1, <1>0, <1>4, <1>6 DEF Unrun
    <3>2. CASE j # k
      <4>1. record'[j] = record[j]
        BY <3>2, <1>4
      <4>. QED  BY <4>1, <1>0 DEF RunInv, OnlyRun
    <3>. QED  BY <3>1, <3>2
  <2>. QED  BY <2>1 DEF RunInv
<1>11. AnswerInv'
  BY <1>0, AnswersKept
<1>. QED  BY <1>5, <1>9, <1>10, <1>11 DEF KInv

(* The answers after c was told that b ran. *)
LEMMA ToldKeeps ==
    ASSUME KInv, NEW c \in KeyCalls, keyCall[c] # Free, NEW b \in Bodies, Told(c, b), UNCHANGED runs,
           keyCall[c].service = "parties" => b = keyCall[c].body /\ OnlyRun(keyCall[c].key, b)
    PROVE  AnswerInv' /\ answered' \subseteq Services \X Keys \X Bodies \X Bodies
<1> DEFINE new == <<keyCall[c].service, keyCall[c].key, keyCall[c].body, b>>
<1>1. new \in Services \X Keys \X Bodies \X Bodies
  BY RequestFields DEF KInv
<1>2. answered' = answered \union {new}
  BY DEF Told
<1>3. \A a \in answered : a[1] = "parties" => a[3] = a[4] /\ OnlyRun(a[2], a[4])
  BY DEF KInv, AnswerInv
<1>4. new[1] = "parties" => new[3] = new[4] /\ OnlyRun(new[2], new[4])
  OBVIOUS
<1>5. \A a \in answered' : a[1] = "parties" => a[3] = a[4] /\ OnlyRun(a[2], a[4])'
  BY <1>2, <1>3, <1>4 DEF OnlyRun
<1>. QED  BY <1>1, <1>2, <1>5 DEF KInv, TypeInv, AnswerInv

(* Begin: the key is claimed, or the request is answered. *)
LEMMA BeginKeeps == ASSUME KInv, NEW c \in KeyCalls, Begin(c) PROVE KInv'
<1> DEFINE k == keyCall[c].key
           body == keyCall[c].body
<1>0. TypeInv /\ RunInv /\ AnswerInv /\ keyCall[c] # Free /\ runs' = runs
  BY AtIsNotFree DEF KInv, Begin
<1>1. k \in Keys /\ body \in Bodies
  BY <1>0, RequestFields
<1>2. CASE BeginCode(record[k], body) = "claimed" /\ Moves(c, "run")
           /\ record' = [record EXCEPT ![k] = [hash |-> body, status |-> "pending"]] /\ UNCHANGED answered
  <2>1. record[k] = NoRecord
    BY <1>2 DEF BeginCode
  <2>. QED  BY <1>0, <1>2, <2>1, ClaimKeeps DEF Begin
<1>3. CASE BeginCode(record[k], body) = "hit" /\ Told(c, record[k].hash) /\ Replied(c) /\ UNCHANGED record
  <2>1. record[k].hash = body /\ record[k].status = "done"
    BY <1>3 DEF BeginCode
  <2>2. OnlyRun(k, body)
    BY <2>1, <1>0, <1>1 DEF RunInv
  <2>3. AnswerInv' /\ answered' \subseteq Services \X Keys \X Bodies \X Bodies
    BY <1>0, <1>1, <1>3, <2>1, <2>2, ToldKeeps
  <2>. QED  BY <1>0, <1>3, <2>3, ReplyKeeps
<1>4. CASE Replied(c) /\ UNCHANGED <<record, answered>>
  <2>1. AnswerInv' /\ answered' \subseteq Services \X Keys \X Bodies \X Bodies
    BY <1>0, <1>4, AnswersKept DEF TypeInv
  <2>. QED  BY <1>0, <1>4, <2>1, ReplyKeeps
<1>. QED  BY <1>2, <1>3, <1>4 DEF Begin

(* A holder that lets go of its key: what it leaves fits what ran. *)
LEMMA LetGo ==
    ASSUME KInv, NEW c \in KeyCalls, NEW k \in Keys, Holds(c, k), Replied(c), UNCHANGED runs,
           NEW r \in [hash : Bodies \union {"none"}, status : {"none", "pending", "done"}],
           record' = [record EXCEPT ![k] = r],
           \/ r.hash = keyCall[c].body /\ r.status # "none" /\ OnlyRun(k, r.hash)
           \/ r.status = "none" /\ Unrun(k),
           AnswerInv', answered' \subseteq Services \X Keys \X Bodies \X Bodies
    PROVE  KInv'
<1>0. TypeInv /\ HolderInv /\ RunInv /\ runs' = runs
  BY DEF KInv
<1>1. /\ record'[k] = r /\ \A j \in Keys \ {k} : record'[j] = record[j]
      /\ record' \in [Keys -> [hash : Bodies \union {"none"}, status : {"none", "pending", "done"}]]
  BY <1>0 DEF TypeInv
<1>2. TypeInv'
  BY <1>0, <1>1, ReplyTypes DEF TypeInv
<1>3. \A d \in KeyCalls, j \in Keys : Holds(d, j)' => Holds(d, j) /\ d # c /\ j # k /\ keyCall'[d] = keyCall[d]
  <2>1. ASSUME NEW d \in KeyCalls, NEW j \in Keys, Holds(d, j)'
        PROVE  Holds(d, j) /\ d # c /\ keyCall'[d] = keyCall[d]
    BY <2>1, <1>0, ReplyTypes
  <2>2. \A d \in KeyCalls : Holds(d, k) => d = c
    BY <1>0 DEF HolderInv
  <2>. QED  BY <2>1, <2>2
<1>4. HolderInv'
  <2>1. ASSUME NEW j \in Keys, NEW d \in KeyCalls, Holds(d, j)'
        PROVE  /\ record'[j] = [hash |-> keyCall'[d].body, status |-> "pending"]
               /\ \A e \in KeyCalls : Holds(e, j)' => e = d
               /\ IF keyCall'[d].at = "store" THEN OnlyRun(j, keyCall[d].body)' ELSE Unrun(j)'
    <3>1. Holds(d, j) /\ j # k /\ keyCall'[d] = keyCall[d]
      BY <2>1, <1>3
    <3>2. /\ record[j] = [hash |-> keyCall[d].body, status |-> "pending"]
          /\ \A e \in KeyCalls : Holds(e, j) => e = d
          /\ IF keyCall[d].at = "store" THEN OnlyRun(j, keyCall[d].body) ELSE Unrun(j)
      BY <3>1, <1>0 DEF HolderInv
    <3>. QED  BY <3>1, <3>2, <1>0, <1>1, <1>3 DEF OnlyRun, Unrun
  <2>. QED  BY <2>1 DEF HolderInv
<1>5. RunInv'
  <2>1. ASSUME NEW j \in Keys
        PROVE  /\ \A b \in Bodies : runs'[<<"parties", j>>][b] > 0 =>
                     OnlyRun(j, b)' /\ record'[j].hash = b /\ record'[j].status # "none"
               /\ record'[j].status = "done" => record'[j].hash \in Bodies /\ OnlyRun(j, record[j].hash)'
    <3>1. CASE j = k /\ r.status = "none" /\ Unrun(k)
      BY <3>1, <1>0, <1>1 DEF Unrun
    <3>2. CASE j = k /\ r.hash = keyCall[c].body /\ r.status # "none" /\ OnlyRun(k, r.hash)
      <4>1. keyCall[c].body \in Bodies
        BY <1>0, RequestFields DEF Holds
      <4>2. \A b \in Bodies : runs[<<"parties", k>>][b] > 0 => b = r.hash
        BY <3>2 DEF OnlyRun
      <4>. QED  BY <3>2, <4>1, <4>2, <1>0, <1>1 DEF OnlyRun
    <3>3. CASE j # k
      <4>1. record'[j] = record[j]
        BY <3>3, <1>1
      <4>. QED  BY <4>1, <1>0 DEF RunInv, OnlyRun
    <3>. QED  BY <3>1, <3>2, <3>3
  <2>. QED  BY <2>1 DEF RunInv
<1>. QED  BY <1>2, <1>4, <1>5 DEF KInv

(* Complete: the hash of a command that ran is done, or stays pending. *)
LEMMA CompleteKeeps == ASSUME KInv, NEW c \in KeyCalls, Complete(c) PROVE KInv'
<1> DEFINE k == keyCall[c].key
           body == keyCall[c].body
<1>0. TypeInv /\ HolderInv /\ keyCall[c] # Free /\ runs' = runs /\ Replied(c) /\ Told(c, body)
  BY AtIsNotFree DEF KInv, Complete
<1>1. k \in Keys /\ body \in Bodies
  BY <1>0, RequestFields
<1>2. Holds(c, k) /\ keyCall[c].at = "store"
  BY <1>0 DEF Holds, Complete, AtStep
<1>3. record[k] = [hash |-> body, status |-> "pending"] /\ OnlyRun(k, body)
  BY <1>0, <1>1, <1>2 DEF HolderInv
<1>4. AnswerInv' /\ answered' \subseteq Services \X Keys \X Bodies \X Bodies
  BY <1>0, <1>1, <1>3, ToldKeeps
<1>5. CASE record' = [record EXCEPT ![k] = Kept(@, body)]
  <2>1. Kept(record[k], body) = [hash |-> body, status |-> "done"]
    BY <1>3 DEF Kept
  <2>2. record' = [record EXCEPT ![k] = [hash |-> body, status |-> "done"]]
    BY <1>5, <2>1
  <2>. QED  BY <1>0, <1>1, <1>2, <1>3, <1>4, <2>2, LetGo
<1>6. CASE UNCHANGED record
  BY <1>0, <1>4, <1>6, ReplyKeeps
<1>. QED  BY <1>5, <1>6 DEF Complete

(* ReleaseClaim: a command that did not run gives its key back. *)
LEMMA ReleaseKeeps == ASSUME KInv, NEW c \in KeyCalls, ReleaseClaim(c) PROVE KInv'
<1> DEFINE k == keyCall[c].key
<1>0. TypeInv /\ HolderInv /\ AnswerInv /\ keyCall[c] # Free /\ runs' = runs /\ answered' = answered /\ Replied(c)
  BY AtIsNotFree DEF KInv, ReleaseClaim
<1>1. k \in Keys
  BY <1>0, RequestFields
<1>2. Holds(c, k) /\ keyCall[c].at = "over"
  BY <1>0 DEF Holds, ReleaseClaim, AtStep
<1>3. record[k] = [hash |-> keyCall[c].body, status |-> "pending"] /\ Unrun(k)
  BY <1>0, <1>1, <1>2 DEF HolderInv
<1>4. record' = [record EXCEPT ![k] = NoRecord]
  BY <1>3 DEF ReleaseClaim, Unclaimed
<1>5. AnswerInv' /\ answered' \subseteq Services \X Keys \X Bodies \X Bodies
  BY <1>0, AnswersKept DEF TypeInv
<1>. QED  BY <1>0, <1>1, <1>2, <1>3, <1>4, <1>5, LetGo DEF NoRecord

-----------------------------------------------------------------------------
(* Run: the holder of a party key commits its only run, or gives up; what a    *)
(* challenge runs is no business of the party keys.                            *)
LEMMA RunKeeps == ASSUME KInv, NEW c \in KeyCalls, Run(c) PROVE KInv'
<1> DEFINE sk == <<keyCall[c].service, keyCall[c].key>>
           body == keyCall[c].body
<1>0. /\ TypeInv /\ HolderInv /\ RunInv /\ AnswerInv /\ keyCall[c] # Free
      /\ record' = record /\ answered' = answered /\ keyCall[c].at = "run"
  BY AtIsNotFree DEF KInv, Run, AtStep
<1>1. /\ keyCall[c].key \in Keys /\ body \in Bodies /\ sk \in Services \X Keys
      /\ keyCall[c].service \in {"parties", "challenges"}
  BY <1>0, RequestFields DEF Services
<1>2. PICK step \in {"store", "over"} : Moves(c, step) /\
           IF step = "store" THEN runs' = [runs EXCEPT ![sk][body] = @ + 1] ELSE runs' = runs
  BY DEF Run
<1> DEFINE r == [keyCall[c] EXCEPT !.at = step]
<1>3. /\ keyCall' = [keyCall EXCEPT ![c] = r] /\ r \in Requests /\ r # Free /\ r.at = step
      /\ r.service = keyCall[c].service /\ r.key = keyCall[c].key /\ r.body = body
  <2>1. CASE step = "store"
    <3>1. Moves(c, "store")
      BY <2>1, <1>2
    <3>2. /\ keyCall' = [keyCall EXCEPT ![c] = [keyCall[c] EXCEPT !.at = "store"]]
          /\ [keyCall[c] EXCEPT !.at = "store"] \in Requests \ {Free}
          /\ [keyCall[c] EXCEPT !.at = "store"].at = "store"
          /\ [keyCall[c] EXCEPT !.at = "store"].service = keyCall[c].service
          /\ [keyCall[c] EXCEPT !.at = "store"].key = keyCall[c].key
          /\ [keyCall[c] EXCEPT !.at = "store"].body = body
      BY <3>1, <1>0, MovedRequest
    <3>. QED  BY <2>1, <3>2
  <2>2. CASE step = "over"
    <3>1. Moves(c, "over")
      BY <2>2, <1>2
    <3>2. /\ keyCall' = [keyCall EXCEPT ![c] = [keyCall[c] EXCEPT !.at = "over"]]
          /\ [keyCall[c] EXCEPT !.at = "over"] \in Requests \ {Free}
          /\ [keyCall[c] EXCEPT !.at = "over"].at = "over"
          /\ [keyCall[c] EXCEPT !.at = "over"].service = keyCall[c].service
          /\ [keyCall[c] EXCEPT !.at = "over"].key = keyCall[c].key
          /\ [keyCall[c] EXCEPT !.at = "over"].body = body
      BY <3>1, <1>0, MovedRequest
    <3>. QED  BY <2>2, <3>2
  <2>. QED  BY <2>1, <2>2, <1>2
<1>4. /\ keyCall'[c] = r
      /\ \A d \in KeyCalls \ {c} : keyCall'[d] = keyCall[d]
      /\ \A d \in KeyCalls \ {c} : \A j : Holds(d, j)' <=> Holds(d, j)
  BY <1>0, <1>3, OthersKeep
<1>5. \A d \in KeyCalls : \A j : Holds(d, j)' <=> Holds(d, j)
  BY <1>0, <1>3, <1>4 DEF Holds
<1>6. runs' \in [Services \X Keys -> [Bodies -> Nat]]
  <2>1. runs \in [Services \X Keys -> [Bodies -> Nat]] /\ runs[sk] \in [Bodies -> Nat]
    BY <1>0, <1>1 DEF TypeInv
  <2>2. CASE step = "store"
    <3>1. [runs[sk] EXCEPT ![body] = @ + 1] \in [Bodies -> Nat]
      BY <2>1, <1>1
    <3>2. runs' = [runs EXCEPT ![sk] = [runs[sk] EXCEPT ![body] = @ + 1]]
      BY <2>1, <2>2, <1>1, <1>2
    <3>. QED  BY <2>1, <3>1, <3>2
  <2>. QED  BY <2>1, <2>2, <1>2
<1>7. TypeInv'
  BY <1>0, <1>2, <1>3, <1>6, CallTypes DEF TypeInv
<1>8. \A j \in Keys : <<"parties", j>> # sk => runs'[<<"parties", j>>] = runs[<<"parties", j>>]
  BY <1>0, <1>1, <1>2 DEF TypeInv, Services
<1>9. sk[1] = "parties" =>
         /\ Holds(c, keyCall[c].key) /\ Unrun(keyCall[c].key)
         /\ record[keyCall[c].key] = [hash |-> body, status |-> "pending"]
  BY <1>0, <1>1 DEF Holds, HolderInv
<1>10. sk[1] = "parties" =>
         IF step = "store" THEN OnlyRun(keyCall[c].key, body)' ELSE Unrun(keyCall[c].key)'
  <2>1. CASE sk[1] = "parties" /\ step = "store"
    <3>1. sk = <<"parties", keyCall[c].key>>
      BY <2>1
    <3>2. runs[sk] \in [Bodies -> Nat] /\ runs'[sk] = [runs[sk] EXCEPT ![body] = @ + 1]
      BY <2>1, <1>0, <1>1, <1>2 DEF TypeInv
    <3>3. \A b \in Bodies : runs[sk][b] = 0
      BY <2>1, <3>1, <1>9 DEF Unrun
    <3>4. runs'[sk] = [d \in Bodies |-> IF d = body THEN 1 ELSE 0]
      BY <3>2, <3>3
    <3>5. runs'[<<"parties", keyCall[c].key>>] = [d \in Bodies |-> IF d = body THEN 1 ELSE 0]
      BY <3>1, <3>4
    <3>6. OnlyRun(keyCall[c].key, body)' <=>
            runs'[<<"parties", keyCall'[c].key>>] = [d \in Bodies |-> IF d = keyCall'[c].body THEN 1 ELSE 0]
      BY DEF OnlyRun
    <3>. QED  BY <2>1, <3>5, <3>6, <1>3, <1>4
  <2>2. CASE sk[1] = "parties" /\ step = "over"
    BY <2>2, <1>2, <1>3, <1>4, <1>9 DEF Unrun
  <2>. QED  BY <1>2, <2>1, <2>2
<1>11. \A j \in Keys, d \in KeyCalls : sk[1] = "parties" /\ j = keyCall[c].key /\ Holds(d, j) => d = c
  BY <1>0, <1>1, <1>9 DEF HolderInv
<1>13. HolderInv'
  <2>1. ASSUME NEW j \in Keys, NEW d \in KeyCalls, Holds(d, j)'
        PROVE  /\ record'[j] = [hash |-> keyCall'[d].body, status |-> "pending"]
               /\ \A e \in KeyCalls : Holds(e, j)' => e = d
               /\ IF keyCall'[d].at = "store" THEN OnlyRun(j, keyCall[d].body)' ELSE Unrun(j)'
    <3>1. Holds(d, j) /\ record[j] = [hash |-> keyCall[d].body, status |-> "pending"]
          /\ (\A e \in KeyCalls : Holds(e, j)' => e = d)
          /\ IF keyCall[d].at = "store" THEN OnlyRun(j, keyCall[d].body) ELSE Unrun(j)
      BY <2>1, <1>0, <1>5 DEF HolderInv
    <3>2. CASE d = c
      <4>1. j = keyCall[c].key /\ sk[1] = "parties"
        BY <3>1, <3>2 DEF Holds
      <4>. QED  BY ZenonT(30), <3>1, <3>2, <4>1, <1>0, <1>2, <1>3, <1>4, <1>10
    <3>3. CASE d # c
      <4>1. keyCall'[d] = keyCall[d]
        BY <3>3, <1>4
      <4>2. <<"parties", j>> # sk
        BY <3>1, <3>3, <1>11
      <4>3. keyCall[d].body \in Bodies
        BY <3>1, <1>0, RequestFields DEF Holds
      <4>4. runs'[<<"parties", j>>] = runs[<<"parties", j>>]
        BY <4>2, <1>8
      <4>. QED  BY <3>1, <4>1, <4>3, <4>4, <1>0 DEF OnlyRun, Unrun
    <3>. QED  BY <3>2, <3>3
  <2>. QED  BY <2>1 DEF HolderInv
<1>14. RunInv'
  <2>1. ASSUME NEW j \in Keys
        PROVE  /\ \A b \in Bodies : runs'[<<"parties", j>>][b] > 0 =>
                     OnlyRun(j, b)' /\ record'[j].hash = b /\ record'[j].status # "none"
               /\ record'[j].status = "done" => record'[j].hash \in Bodies /\ OnlyRun(j, record[j].hash)'
    <3>1. CASE <<"parties", j>> # sk
      <4>1. runs'[<<"parties", j>>] = runs[<<"parties", j>>]
        BY <3>1, <1>8
      <4>. QED  BY <4>1, <1>0 DEF RunInv, OnlyRun
    <3>2. CASE <<"parties", j>> = sk
      <4>1. sk[1] = "parties" /\ j = keyCall[c].key
        BY <3>2
      <4>2. record'[j] = [hash |-> body, status |-> "pending"]
        BY <4>1, <1>0, <1>9
      <4>3. CASE step = "store"
        <5>1. runs'[<<"parties", j>>] = [d \in Bodies |-> IF d = body THEN 1 ELSE 0]
          BY <4>1, <4>3, <1>3, <1>4, <1>10 DEF OnlyRun
        <5>2. \A b \in Bodies : runs'[<<"parties", j>>][b] > 0 => b = body
          BY <5>1
        <5>. QED  BY <4>2, <5>1, <5>2 DEF OnlyRun
      <4>4. CASE step = "over"
        BY <4>1, <4>2, <4>4, <1>3, <1>4, <1>10 DEF Unrun
      <4>. QED  BY <1>2, <4>3, <4>4
    <3>. QED  BY <3>1, <3>2
  <2>. QED  BY <2>1 DEF RunInv
<1>15. AnswerInv'
  <2>1. ASSUME NEW a \in answered, a[1] = "parties"
        PROVE  a[3] = a[4] /\ OnlyRun(a[2], a[4])'
    <3>1. a[3] = a[4] /\ OnlyRun(a[2], a[4]) /\ a[2] \in Keys /\ a[4] \in Bodies
      BY <2>1, <1>0 DEF AnswerInv, TypeInv
    <3>2. runs[<<"parties", a[2]>>][a[4]] = 1
      BY <3>1 DEF OnlyRun
    <3>3. <<"parties", a[2]>> # sk
      BY <3>1, <3>2, <1>9 DEF Unrun
    <3>4. runs'[<<"parties", a[2]>>] = runs[<<"parties", a[2]>>]
      BY <3>1, <3>3, <1>8
    <3>. QED  BY <3>1, <3>4 DEF OnlyRun
  <2>. QED  BY <2>1, <1>0 DEF AnswerInv
<1>. QED  BY <1>7, <1>13, <1>14, <1>15 DEF KInv

-----------------------------------------------------------------------------
(* A request that is no party command holds no party key, before and after.    *)
LEMMA ChallengeKeeps ==
    ASSUME KInv, NEW c \in KeyCalls, keyCall[c] # Free, keyCall[c].service = "challenges",
           NEW step \in {"claim", "over"}, keyCall' = [keyCall EXCEPT ![c] = [keyCall[c] EXCEPT !.at = step]],
           UNCHANGED <<record, runs>>, AnswerInv',
           answered' \subseteq Services \X Keys \X Bodies \X Bodies
    PROVE  KInv'
<1> DEFINE r == [keyCall[c] EXCEPT !.at = step]
<1>0. TypeInv
  BY DEF KInv
<1>1. /\ keyCall[c] \in [at : {"begin", "claim", "run", "store", "over"},
                         service : Services, key : Keys, body : Bodies]
  BY <1>0, RequestFields
<1>2. r \in Requests /\ r.service = "challenges"
  BY <1>1 DEF Requests
<1>3. /\ keyCall'[c] = r
      /\ \A d \in KeyCalls \ {c} : keyCall'[d] = keyCall[d]
      /\ \A d \in KeyCalls \ {c} : \A j : Holds(d, j)' <=> Holds(d, j)
  BY <1>0, OthersKeep
<1>4. TypeInv'
  BY <1>0, <1>2, CallTypes DEF TypeInv
<1>5. \A j : ~ Holds(c, j)'
  BY <1>2, <1>3 DEF Holds
<1>6. \A d \in KeyCalls, j \in Keys : Holds(d, j)' => Holds(d, j) /\ keyCall'[d] = keyCall[d]
  BY <1>3, <1>5
<1>. QED  BY <1>4, <1>6, NothingClaimed

LEMMA AskKeeps ==
    ASSUME KInv, NEW c \in KeyCalls, NEW s \in Services, NEW k \in Keys, NEW b \in Bodies, Ask(c, s, k, b)
    PROVE  KInv'
<1> DEFINE r == [at |-> "begin", service |-> s, key |-> k, body |-> b]
<1>0. TypeInv /\ AnswerInv /\ UNCHANGED <<record, runs, answered>> /\ keyCall' = [keyCall EXCEPT ![c] = r]
  BY DEF KInv, Ask
<1>1. r \in Requests /\ r.at = "begin"
  BY DEF Requests
<1>2. TypeInv'
  BY <1>0, <1>1, CallTypes DEF TypeInv
<1>3. \A d \in KeyCalls, j \in Keys : Holds(d, j)' => Holds(d, j) /\ keyCall'[d] = keyCall[d]
  <2>1. /\ keyCall'[c] = r
        /\ \A d \in KeyCalls \ {c} : keyCall'[d] = keyCall[d]
        /\ \A d \in KeyCalls \ {c} : \A j : Holds(d, j)' <=> Holds(d, j)
    BY <1>0, OthersKeep
  <2>. QED  BY <2>1, <1>1 DEF Holds
<1>. QED  BY <1>0, <1>2, <1>3, AnswersKept, NothingClaimed

LEMMA GetRecordKeeps == ASSUME KInv, NEW c \in KeyCalls, GetRecord(c) PROVE KInv'
<1>0. /\ TypeInv /\ AnswerInv /\ keyCall[c] # Free /\ keyCall[c].service = "challenges"
      /\ UNCHANGED <<record, runs>>
  BY AtIsNotFree DEF KInv, GetRecord
<1>1. CASE Moves(c, "claim") /\ UNCHANGED answered
  <2>1. keyCall' = [keyCall EXCEPT ![c] = [keyCall[c] EXCEPT !.at = "claim"]]
    BY <1>0, <1>1 DEF Moves, TypeInv
  <2>2. AnswerInv' /\ answered' \subseteq Services \X Keys \X Bodies \X Bodies
    BY <1>0, <1>1, AnswersKept DEF TypeInv
  <2>. QED  BY <1>0, <2>1, <2>2, ChallengeKeeps
<1>2. CASE replay[keyCall[c].key] = keyCall[c].body /\ Told(c, replay[keyCall[c].key]) /\ Replied(c)
  <2>1. replay[keyCall[c].key] \in Bodies
    BY <1>0, <1>2, RequestFields
  <2>2. AnswerInv' /\ answered' \subseteq Services \X Keys \X Bodies \X Bodies
    BY <1>0, <1>2, <2>1, ToldKeeps
  <2>. QED  BY <1>0, <1>2, <2>2, ReplyKeeps
<1>3. CASE Replied(c) /\ UNCHANGED answered
  <2>1. AnswerInv' /\ answered' \subseteq Services \X Keys \X Bodies \X Bodies
    BY <1>0, <1>3, AnswersKept DEF TypeInv
  <2>. QED  BY <1>0, <1>3, <2>1, ReplyKeeps
<1>. QED  BY <1>1, <1>2, <1>3 DEF GetRecord

(* Replies without an answer: the lock is taken, the request is over or dead.  *)
LEMMA SilentKeeps ==
    ASSUME KInv, NEW c \in KeyCalls, Replied(c), UNCHANGED <<record, runs, answered>>
    PROVE  KInv'
<1>1. TypeInv /\ AnswerInv /\ UNCHANGED <<record, runs>>
  BY DEF KInv
<1>2. AnswerInv' /\ answered' \subseteq Services \X Keys \X Bodies \X Bodies
  BY <1>1, AnswersKept DEF TypeInv
<1>. QED  BY <1>1, <1>2, ReplyKeeps

(* A challenge that runs enters a step a party command holds its key in, but   *)
(* holds none.                                                                 *)
LEMMA ClaimLockKeeps == ASSUME KInv, NEW c \in KeyCalls, ClaimLock(c) PROVE KInv'
<1> DEFINE r == [keyCall[c] EXCEPT !.at = "run"]
<1>0. /\ TypeInv /\ AnswerInv /\ keyCall[c] # Free /\ keyCall[c].service = "challenges"
      /\ UNCHANGED <<record, runs, answered>>
  BY AtIsNotFree DEF KInv, TypeInv, ClaimLock, AtStep
<1>1. CASE Replied(c)
  BY <1>0, <1>1, SilentKeeps
<1>2. CASE Moves(c, "run")
  <2>1. /\ keyCall' = [keyCall EXCEPT ![c] = r] /\ r \in Requests /\ r # Free /\ r.at = "run"
        /\ r.service = "challenges"
    BY <1>0, <1>2, MovedRequest
  <2>2. /\ keyCall'[c] = r
        /\ \A d \in KeyCalls \ {c} : keyCall'[d] = keyCall[d]
        /\ \A d \in KeyCalls \ {c} : \A j : Holds(d, j)' <=> Holds(d, j)
    BY <1>0, <2>1, OthersKeep
  <2>3. TypeInv'
    BY <1>0, <2>1, CallTypes DEF TypeInv
  <2>4. \A d \in KeyCalls, j \in Keys : Holds(d, j)' => Holds(d, j) /\ keyCall'[d] = keyCall[d]
    BY <2>1, <2>2 DEF Holds
  <2>. QED  BY <1>0, <2>3, <2>4, AnswersKept, NothingClaimed
<1>. QED  BY <1>1, <1>2 DEF ClaimLock

LEMMA StoreKeeps == ASSUME KInv, NEW c \in KeyCalls, StoreResponse(c) PROVE KInv'
<1>0. /\ TypeInv /\ AnswerInv /\ keyCall[c] # Free /\ keyCall[c].service = "challenges"
      /\ UNCHANGED <<record, runs>> /\ Moves(c, "over")
  BY AtIsNotFree DEF KInv, StoreResponse
<1>1. keyCall' = [keyCall EXCEPT ![c] = [keyCall[c] EXCEPT !.at = "over"]]
  BY <1>0 DEF Moves, TypeInv
<1>2. AnswerInv' /\ answered' \subseteq Services \X Keys \X Bodies \X Bodies
  <2>1. CASE Told(c, keyCall[c].body)
    <3>1. keyCall[c].body \in Bodies
      BY <1>0, RequestFields
    <3>. QED  BY <1>0, <2>1, <3>1, ToldKeeps
  <2>2. CASE UNCHANGED answered
    BY <1>0, <2>2, AnswersKept DEF TypeInv
  <2>. QED  BY <2>1, <2>2 DEF StoreResponse
<1>. QED  BY <1>0, <1>1, <1>2, ChallengeKeeps

(* What leaves hashes, runs, requests and answers alone. *)
LEMMA QuietKeeps == ASSUME KInv, UNCHANGED <<record, runs, keyCall, answered>> PROVE KInv'
<1>1. TypeInv'
  BY DEF KInv, TypeInv
<1>2. \A d \in KeyCalls, j \in Keys : Holds(d, j)' => Holds(d, j) /\ keyCall'[d] = keyCall[d]
  BY DEF Holds
<1>3. AnswerInv'
  BY AnswersKept DEF KInv
<1>. QED  BY <1>1, <1>2, <1>3, NothingClaimed

LEMMA StepKeeps == ASSUME KInv, [KeyNext]_keyVars PROVE KInv'
<1>1. ASSUME NEW c \in KeyCalls, NEW s \in Services, NEW k \in Keys, NEW b \in Bodies, Ask(c, s, k, b)
      PROVE  KInv'
  BY <1>1, AskKeeps
<1>2. ASSUME NEW c \in KeyCalls, Begin(c) PROVE KInv'
  BY <1>2, BeginKeeps
<1>3. ASSUME NEW c \in KeyCalls, Complete(c) PROVE KInv'
  BY <1>3, CompleteKeeps
<1>4. ASSUME NEW c \in KeyCalls, ReleaseClaim(c) PROVE KInv'
  BY <1>4, ReleaseKeeps
<1>5. ASSUME NEW c \in KeyCalls, GetRecord(c) PROVE KInv'
  BY <1>5, GetRecordKeeps
<1>6. ASSUME NEW c \in KeyCalls, ClaimLock(c) PROVE KInv'
  BY <1>6, ClaimLockKeeps
<1>7. ASSUME NEW c \in KeyCalls, StoreResponse(c) PROVE KInv'
  BY <1>7, StoreKeeps
<1>8. ASSUME NEW c \in KeyCalls, ReleaseLock(c) PROVE KInv'
  BY <1>8, SilentKeeps DEF ReleaseLock
<1>9. ASSUME NEW c \in KeyCalls, Run(c) PROVE KInv'
  BY <1>9, RunKeeps
<1>10. ASSUME NEW c \in KeyCalls, Dies(c) PROVE KInv'
  BY <1>10, SilentKeeps DEF Dies
<1>11. ASSUME NEW k \in Keys, LockExpires(k) PROVE KInv'
  BY <1>11, QuietKeeps DEF LockExpires
<1>12. CASE UNCHANGED keyVars
  BY <1>12, QuietKeeps DEF keyVars
<1>. QED  BY <1>1, <1>2, <1>3, <1>4, <1>5, <1>6, <1>7, <1>8, <1>9, <1>10, <1>11, <1>12 DEF KeyNext

(* The inductive invariant: who holds a key, what its hash says, what ran.     *)
THEOREM KeysAreHeld == KeySpec => []KInv
<1>. QED  BY InitKeys, StepKeeps, PTL DEF KeySpec

(* A party command runs at most once under a key, and every answer given under *)
(* the key is that run's: beginIdem, completeIdem and releaseIdem               *)
(* (parties/service.go:867) keep this whatever processes die or overlap.        *)
THEOREM PartyCommandsRunOnce == KeySpec => []PartyKeysRunOnce
<1>1. KInv => PartyKeysRunOnce
  BY DEF KInv, RunInv, AnswerInv, PartyKeysRunOnce
<1>. QED  BY <1>1, KeysAreHeld, PTL

-----------------------------------------------------------------------------
(* Solo games.                                                              *)

(* Game g has come to round n: what is before it is completed, and what is  *)
(* behind it is yet to be opened, in practice yet to be made.               *)
Stage(g, n) ==
    /\ \A r \in SoloNos :
         /\ r < n => g.round[r] = "completed"
         /\ r > n => g.round[r] = IF g.mode = "practice" THEN "absent" ELSE "pending"
    /\ \/ g.status = "pending" /\ n = 1 /\ g.round[n] = "pending"
       \/ g.status = "active" /\ g.round[n] = "active"
       \/ g.status = "active" /\ g.mode = "practice" /\ g.round[n] = "completed"
       \/ g.status = "completed" /\ g.mode = "practice" /\ g.round[n] \in {"completed", "cancelled"}
       \/ g.status = "completed" /\ g.mode # "practice" /\ n = SoloRounds /\ g.round[n] = "completed"

Guessed(g) == {r \in SoloNos : g.guess[r] = "guess"}

SoundSolo(g, seen) ==
    /\ g \in SoloGames /\ seen \subseteq SoloNos
    /\ \E n \in SoloNos : Stage(g, n)
    /\ \A r \in seen : g.guess[r] # "none"
    /\ \A r \in SoloNos : /\ g.round[r] = "completed" <=> g.guess[r] # "none"
                          /\ g.gkey[r] # "null" => g.guess[r] # "none"
    /\ g.score = Cardinality(Guessed(g))
    /\ \A q, r \in SoloNos : q # r =>
         /\ g.gkey[q] = g.gkey[r] => g.gkey[q] = "null"
         /\ g.ckey[q] = g.ckey[r] => g.ckey[q] = "null"

(* A request under way is about a round, guesses lock the game before the   *)
(* round, and a timeout that waits to end the game keeps its round locked.  *)
SoundTab(t, g) ==
    /\ t.pc = "idle" => t.holds = {}
    /\ t.pc # "idle" => t.rd \in SoloNos
    /\ t.pc = "game" => t.op = "guess" /\ t.holds = {}
    /\ t.pc = "round" => IF t.op = "guess" THEN t.holds = {"game"}
                         ELSE t.op = "expire" /\ t.holds = {} /\ g.mode = "daily"
    /\ t.pc = "finish" => /\ t.holds = {"round"} /\ g.mode = "daily"
                          /\ g.round[t.rd] = "active" /\ \A r \in SoloNos : g.round[r] # "pending"

TabsInv ==
    /\ tab \in [Tabs -> SoloTab] /\ inFlight \subseteq GuessKeys
    /\ \A t \in Tabs : SoundTab(tab[t], solo)
    /\ \A t \in Tabs : \A u \in Tabs \ {t} : tab[t].holds \cap tab[u].holds = {}

SoloInv == SoundSolo(solo, shown) /\ TabsInv

-----------------------------------------------------------------------------
LEMMA StageMeans ==
    ASSUME NEW g \in SoloGames, NEW n \in SoloNos, Stage(g, n)
    PROVE  /\ \A r \in SoloNos : g.round[r] = "active" => r = n /\ g.status = "active"
           /\ g.mode # "practice" =>
                (g.status = "completed" <=> \A r \in SoloNos : g.round[r] \notin {"active", "pending"})
           /\ \A r \in SoloNos : g.round[r] = "active" => \A q \in 1..(r - 1) : g.round[q] = "completed"
<1>1. n \in Nat /\ n >= 1 /\ \A r \in SoloNos : r \in Nat /\ r >= 1 /\ r <= SoloRounds
  BY SoloRoundsAssumption DEF SoloNos
<1>2. \A r \in SoloNos : g.round[r] = "active" => r = n /\ g.status = "active"
  BY <1>1 DEF Stage
<1>3. ASSUME g.mode # "practice", g.status = "completed", NEW r \in SoloNos
      PROVE  g.round[r] \notin {"active", "pending"}
  BY <1>1, <1>3 DEF Stage
<1>4. ASSUME g.mode # "practice", \A r \in SoloNos : g.round[r] \notin {"active", "pending"}
      PROVE  g.status = "completed"
  BY <1>1, <1>4 DEF Stage
<1>5. ASSUME NEW r \in SoloNos, g.round[r] = "active", NEW q \in 1..(r - 1)
      PROVE  g.round[q] = "completed"
  <2>1. r = n /\ q \in SoloNos /\ q < n
    BY <1>1, <1>2, <1>5, SoloRoundsAssumption DEF SoloNos
  <2>. QED  BY <2>1 DEF Stage
<1>. QED  BY <1>2, <1>3, <1>4, <1>5

LEMMA SoundAgrees == SoloInv => SoloRowsAgree
<1>. SUFFICES ASSUME SoloInv PROVE SoloRowsAgree
  OBVIOUS
<1>1. PICK n \in SoloNos : Stage(solo, n)
  BY DEF SoloInv, SoundSolo
<1>2. solo \in SoloGames
  BY DEF SoloInv, SoundSolo
<1>3. /\ \A r \in RoundsIn("active") : \A q \in 1..(r - 1) : solo.round[q] = "completed"
      /\ solo.mode # "practice" => (solo.status = "completed" <=> RoundsIn("active") \cup RoundsIn("pending") = {})
  BY <1>1, <1>2, StageMeans DEF RoundsIn
<1>. QED  BY <1>3 DEF SoloInv, SoundSolo, SoloRowsAgree, Guessed

LEMMA SoloBegins == SoloInit => SoloInv
<1>. SUFFICES ASSUME SoloInit PROVE SoloInv
  OBVIOUS
<1>1. PICK m \in SoloModes, t \in BOOLEAN : solo = SoloBundle(m, t)
  BY DEF SoloInit
<1>2. /\ solo \in SoloGames /\ solo.status = "pending" /\ solo.mode = m /\ solo.score = 0
      /\ \A r \in SoloNos : /\ solo.guess[r] = "none" /\ solo.gkey[r] = "null" /\ solo.ckey[r] = "null"
                            /\ solo.round[r] = IF m = "practice" /\ r > 1 THEN "absent" ELSE "pending"
  BY <1>1 DEF SoloBundle, SoloGames, KeyColumn
<1>3. 1 \in SoloNos /\ \A r \in SoloNos : r \in Nat /\ ~(r < 1) /\ (r > 1 \/ r = 1)
  BY SoloRoundsAssumption DEF SoloNos
<1>4. Stage(solo, 1)
  BY <1>2, <1>3 DEF Stage
<1>5. Guessed(solo) = {}
  BY <1>2 DEF Guessed
<1>6. SoundSolo(solo, shown)
  BY <1>2, <1>3, <1>4, <1>5, FS_EmptySet DEF SoundSolo, SoloInit
<1>7. IdleTab \in SoloTab
  BY SoloRoundsAssumption DEF IdleTab, SoloTab, KeyColumn
<1>8. TabsInv
  BY <1>7 DEF TabsInv, SoundTab, IdleTab, SoloInit
<1>. QED  BY <1>6, <1>8 DEF SoloInv

(* What a tab needs of the game stands while rounds only leave "pending" ... *)
LEMMA TabsStand ==
    ASSUME TabsInv, NEW c \in Tabs, NEW s \in SoloTab, tab' = [tab EXCEPT ![c] = s],
           inFlight' \subseteq GuessKeys,
           SoundTab(s, solo'), \A t \in Tabs \ {c} : SoundTab(tab[t], solo'),
           \A t \in Tabs \ {c} : s.holds \cap tab[t].holds = {}
    PROVE  TabsInv'
<1>1. tab' \in [Tabs -> SoloTab] /\ \A t \in Tabs : tab'[t] = IF t = c THEN s ELSE tab[t]
  BY DEF TabsInv
<1>2. \A t \in Tabs : SoundTab(tab'[t], solo')
  BY <1>1
<1>3. \A t \in Tabs : \A u \in Tabs \ {t} : tab'[t].holds \cap tab'[u].holds = {}
  <2>1. ASSUME NEW t \in Tabs, NEW u \in Tabs \ {t} PROVE tab'[t].holds \cap tab'[u].holds = {}
    <3>1. CASE t = c
      BY <1>1, <2>1, <3>1
    <3>2. CASE u = c
      BY <1>1, <2>1, <3>2
    <3>3. CASE t # c /\ u # c
      BY <1>1, <2>1, <3>3 DEF TabsInv
    <3>. QED  BY <3>1, <3>2, <3>3
  <2>. QED  BY <2>1
<1>. QED  BY <1>1, <1>2, <1>3 DEF TabsInv

LEMMA IdleSolo == IdleTab \in SoloTab /\ IdleTab.holds = {} /\ \A g : SoundTab(IdleTab, g)
BY SoloRoundsAssumption DEF IdleTab, SoloTab, KeyColumn, SoundTab

LEMMA TabEnds ==
    ASSUME TabsInv, NEW c \in Tabs, EndTab(c), \A t \in Tabs \ {c} : SoundTab(tab[t], solo')
    PROVE  TabsInv'
<1>1. tab' = [tab EXCEPT ![c] = IdleTab] /\ inFlight' \subseteq GuessKeys
  BY DEF EndTab, Released, TabsInv
<1>. QED  BY <1>1, IdleSolo, TabsStand

LEMMA TabMoves ==
    ASSUME SoloInv, NEW c \in Tabs, NEW s \in SoloTab, tab' = [tab EXCEPT ![c] = s], UNCHANGED <<solo, shown>>,
           inFlight' \subseteq GuessKeys, SoundTab(s, solo), \A t \in Tabs \ {c} : s.holds \cap tab[t].holds = {}
    PROVE  SoloInv'
<1>1. TabsInv'
  <2>1. \A t \in Tabs \ {c} : SoundTab(tab[t], solo')
    BY DEF SoloInv, TabsInv
  <2>2. SoundTab(s, solo')
    OBVIOUS
  <2>. QED  BY <2>1, <2>2, TabsStand DEF SoloInv
<1>2. SoundSolo(solo', shown')
  BY DEF SoloInv
<1>. QED  BY <1>1, <1>2 DEF SoloInv

LEMMA TabGivesUp ==
    ASSUME SoloInv, NEW c \in Tabs, EndTab(c), UNCHANGED <<solo, shown>>
    PROVE  SoloInv'
<1>1. TabsInv'
  <2>1. \A t \in Tabs \ {c} : SoundTab(tab[t], solo')
    BY DEF SoloInv, TabsInv
  <2>. QED  BY <2>1, TabEnds DEF SoloInv
<1>2. SoundSolo(solo', shown')
  BY DEF SoloInv
<1>. QED  BY <1>1, <1>2 DEF SoloInv

(* The active round is the one the game has come to.                        *)
LEMMA CurrentIsActive ==
    ASSUME SoloInv, SoloCurrent # 0
    PROVE  SoloCurrent \in SoloNos /\ solo.round[SoloCurrent] = "active"
<1>1. RoundsIn("active") # {}
  BY DEF SoloCurrent
<1>2. PICK r \in SoloNos : solo.round[r] = "active"
  BY <1>1 DEF RoundsIn
<1>3. RoundsIn("active") = {r}
  BY <1>2, StageMeans DEF SoloInv, SoundSolo, RoundsIn
<1>4. r \in Nat
  BY DEF SoloNos
<1>5. Min({r}) = r
  BY <1>4 DEF Min
<1>. QED  BY <1>1, <1>2, <1>3, <1>5 DEF SoloCurrent

LEMMA TabRequests ==
    ASSUME SoloInv, NEW t \in Tabs,
           (\E k \in KeyColumn : RequestSoloGuess(t, k)) \/ RequestExpire(t)
    PROVE  SoloInv'
<1>1. ASSUME NEW r \in SoloNos, NEW k \in KeyColumn, NEW s,
             \/ s = [IdleTab EXCEPT !.pc = "game", !.op = "guess", !.rd = r, !.key = k]
             \/ s = [IdleTab EXCEPT !.pc = "round", !.op = "expire", !.rd = r] /\ solo.mode = "daily",
             tab' = [tab EXCEPT ![t] = s], UNCHANGED <<solo, shown>>, inFlight' \subseteq GuessKeys
      PROVE  SoloInv'
  <2>1. r \in 0..SoloRounds /\ "null" \in KeyColumn
    BY SoloRoundsAssumption DEF SoloNos, KeyColumn
  <2>2. s \in SoloTab
    BY <1>1, <2>1 DEF IdleTab, SoloTab
  <2>3. /\ s.holds = {} /\ s.rd = r
        /\ \/ s.pc = "game" /\ s.op = "guess"
           \/ s.pc = "round" /\ s.op = "expire" /\ solo.mode = "daily"
    BY <1>1 DEF IdleTab
  <2>4. SoundTab(s, solo)
    BY <2>3 DEF SoundTab
  <2>. QED  BY <1>1, <2>2, <2>3, <2>4, TabMoves
<1>2. ASSUME NEW k \in KeyColumn, RequestSoloGuess(t, k) PROVE SoloInv'
  <2>1. SoloCurrent \in SoloNos
    BY <1>2, CurrentIsActive DEF RequestSoloGuess
  <2>2. inFlight' \subseteq GuessKeys
    BY <1>2 DEF RequestSoloGuess, SoloInv, TabsInv, KeyColumn
  <2>. QED  BY <1>1, <1>2, <2>1, <2>2 DEF RequestSoloGuess
<1>3. CASE RequestExpire(t)
  <2>1. SoloCurrent \in SoloNos
    BY <1>3, CurrentIsActive DEF RequestExpire
  <2>2. inFlight' \subseteq GuessKeys /\ "null" \in KeyColumn
    BY <1>3 DEF RequestExpire, SoloInv, TabsInv, KeyColumn
  <2>. QED  BY <1>1, <1>3, <2>1, <2>2 DEF RequestExpire
<1>. QED  BY <1>2, <1>3

LEMMA LocksSolo ==
    ASSUME SoloInv, NEW t \in Tabs, LockSolo(t)
    PROVE  SoloInv'
<1>. DEFINE s == [tab[t] EXCEPT !.pc = "round", !.holds = {"game"}]
<1>1. tab[t] \in SoloTab /\ SoundTab(tab[t], solo) /\ tab[t].pc = "game"
  BY DEF SoloInv, TabsInv, LockSolo
<1>2. s \in SoloTab /\ s.pc = "round" /\ s.holds = {"game"} /\ s.op = tab[t].op /\ s.rd = tab[t].rd
  BY <1>1 DEF SoloTab
<1>3. tab' = [tab EXCEPT ![t] = s] /\ UNCHANGED <<solo, shown>> /\ inFlight' \subseteq GuessKeys
  BY DEF LockSolo, SoloInv, TabsInv
<1>. HIDE DEF s
<1>4. SoundTab(s, solo) /\ \A u \in Tabs \ {t} : s.holds \cap tab[u].holds = {}
  BY <1>1, <1>2 DEF SoundTab, LockSolo, TabFree
<1>. QED  BY <1>2, <1>3, <1>4, TabMoves

(* A round that is answered, by a guess or by its timeout, is the one the   *)
(* game has come to, and the game goes on to the next.                      *)
LEMMA RoundAnswered ==
    ASSUME SoloInv, NEW r \in SoloNos, solo.round[r] = "active", NEW g \in SoloGames,
           g.mode = solo.mode, g.status = solo.status, g.round = solo.round, g.ckey = solo.ckey,
           \A q \in SoloNos : /\ g.guess[q] # "none" <=> q = r \/ solo.guess[q] # "none"
                              /\ g.gkey[q] # "null" => g.guess[q] # "none",
           \A p, q \in SoloNos : p # q /\ g.gkey[p] = g.gkey[q] => g.gkey[p] = "null",
           g.score = Cardinality(Guessed(g)),
           solo' = Advanced(g, r), shown' = shown \cup {r}
    PROVE  SoundSolo(solo', shown') /\ solo'.mode = solo.mode
<1>. DEFINE done == [g EXCEPT !.round[r] = "completed", !.due = FALSE]
            pending == RoundsIn("pending")
<1>1. solo \in SoloGames /\ \E n \in SoloNos : Stage(solo, n)
  BY DEF SoloInv, SoundSolo
<1>2. Stage(solo, r) /\ solo.status = "active"
  BY <1>1, StageMeans
<1>3. \A q \in SoloNos : q \in Nat /\ q >= 1 /\ q <= SoloRounds
  BY SoloRoundsAssumption DEF SoloNos
<1>4. pending = IF solo.mode = "practice" THEN {} ELSE {q \in SoloNos : q > r}
  <2>1. \A q \in SoloNos : q > r \/ q = r \/ q < r
    BY <1>3
  <2>. QED  BY <1>2, <2>1 DEF RoundsIn, Stage
<1>5. /\ done \in SoloGames /\ done.mode = g.mode /\ done.status = "active" /\ done.guess = g.guess
      /\ done.gkey = g.gkey /\ done.ckey = g.ckey /\ done.score = g.score
      /\ done.round = [solo.round EXCEPT ![r] = "completed"]
  BY <1>2 DEF SoloGames
<1>6. solo' = IF pending # {} THEN [done EXCEPT !.round[Min(pending)] = "active"]
              ELSE IF g.mode = "practice" THEN done ELSE [done EXCEPT !.status = "completed"]
  BY DEF Advanced
<1>. HIDE DEF done, pending
<1>7. /\ solo' \in SoloGames /\ solo'.mode = solo.mode
      /\ solo'.guess = g.guess /\ solo'.gkey = g.gkey /\ solo'.ckey = solo.ckey /\ solo'.score = g.score
      /\ \A q \in SoloNos : solo'.round[q] = "completed" <=> q = r \/ solo.round[q] = "completed"
      /\ \E n \in SoloNos : Stage(solo', n)
  <2>1. CASE pending # {}
    <3>0. solo.mode # "practice" /\ pending = {q \in SoloNos : q > r}
      BY <1>4, <2>1
    <3>1. PICK n \in SoloNos : n = r + 1
      <4>1. PICK q \in SoloNos : q > r
        BY <2>1, <3>0
      <4>2. r \in Nat /\ q \in Nat /\ q <= SoloRounds /\ SoloRounds \in Nat
        BY <1>3, SoloRoundsAssumption
      <4>3. r + 1 \in 1..SoloRounds
        BY <4>1, <4>2
      <4>. QED  BY <4>3 DEF SoloNos
    <3>2. Min(pending) = n
      <4>1. n \in pending /\ \A q \in pending : n <= q
        BY <1>3, <3>0, <3>1
      <4>2. \A q \in pending : (\A m \in pending : q <= m) => q = n
        BY <1>3, <3>0, <4>1
      <4>. QED  BY <4>1, <4>2 DEF Min
    <3>3. solo' = [done EXCEPT !.round[n] = "active"] /\ n # r /\ solo.mode # "practice"
      <4>1. n # r
        BY <1>3, <3>1
      <4>. QED  BY <1>6, <2>1, <3>0, <3>2, <4>1
    <3>4. /\ solo' \in SoloGames /\ solo'.mode = solo.mode /\ solo'.status = "active"
          /\ solo'.guess = g.guess /\ solo'.gkey = g.gkey /\ solo'.ckey = solo.ckey /\ solo'.score = g.score
          /\ solo'.round = [done.round EXCEPT ![n] = "active"]
      <4>1. solo'.mode = done.mode /\ solo'.status = done.status
        BY <3>3, <1>5 DEF SoloGames
      <4>2. solo'.guess = done.guess /\ solo'.gkey = done.gkey /\ solo'.ckey = done.ckey /\ solo'.score = done.score
        BY <3>3, <1>5 DEF SoloGames
      <4>3. [done.round EXCEPT ![n] = "active"]
                \in [SoloNos -> {"absent", "pending", "active", "completed", "cancelled"}]
        BY <1>5 DEF SoloGames
      <4>4. solo' = [done EXCEPT !.round = [done.round EXCEPT ![n] = "active"]]
        BY <3>3, <1>5 DEF SoloGames
      <4>5. solo'.round = [done.round EXCEPT ![n] = "active"] /\ solo' \in SoloGames
        BY SMTT(30), <1>5, <4>3, <4>4 DEF SoloGames
      <4>. QED  BY <1>5, <4>1, <4>2, <4>5
    <3>5. \A q \in SoloNos : solo'.round[q] = IF q = n THEN "active" ELSE IF q = r THEN "completed" ELSE solo.round[q]
      BY <1>1, <1>5, <3>3, <3>4 DEF SoloGames
    <3>6. solo.round[n] # "completed"
      BY <1>2, <1>3, <3>1, <3>3 DEF Stage
    <3>7. \A q \in SoloNos : (q < n => q < r \/ q = r) /\ (q > n => q > r /\ q # r /\ q # n)
      BY <1>3, <3>1
    <3>8. Stage(solo', n)
      <4>1. \A q \in SoloNos : q < n => solo'.round[q] = "completed"
        BY <1>2, <1>3, <3>5, <3>7 DEF Stage
      <4>2. \A q \in SoloNos : q > n => solo'.round[q] = "pending"
        BY <1>2, <3>3, <3>5, <3>7 DEF Stage
      <4>. QED  BY <3>3, <3>4, <3>5, <4>1, <4>2 DEF Stage
    <3>. QED  BY <3>3, <3>4, <3>5, <3>6, <3>8
  <2>2. CASE pending = {} /\ g.mode = "practice"
    <3>1. solo' = done
      BY <1>6, <2>2
    <3>2. \A q \in SoloNos : solo'.round[q] = IF q = r THEN "completed" ELSE solo.round[q]
      BY <1>1, <1>5, <3>1 DEF SoloGames
    <3>3. \A q \in SoloNos : (q < r \/ q > r) => q # r
      BY <1>3
    <3>4. Stage(solo', r)
      BY <1>2, <1>5, <2>2, <3>1, <3>2, <3>3 DEF Stage
    <3>. QED  BY <1>5, <3>1, <3>2, <3>4
  <2>3. CASE pending = {} /\ g.mode # "practice"
    <3>1. solo' = [done EXCEPT !.status = "completed"]
      BY <1>6, <2>3
    <3>2. /\ solo' \in SoloGames /\ solo'.mode = solo.mode /\ solo'.status = "completed"
          /\ solo'.guess = g.guess /\ solo'.gkey = g.gkey /\ solo'.ckey = solo.ckey /\ solo'.score = g.score
          /\ solo'.round = done.round
      BY <1>5, <3>1 DEF SoloGames
    <3>3. \A q \in SoloNos : solo'.round[q] = IF q = r THEN "completed" ELSE solo.round[q]
      BY <1>1, <1>5, <3>2 DEF SoloGames
    <3>4. r = SoloRounds
      <4>1. SoloRounds \in SoloNos
        BY SoloRoundsAssumption DEF SoloNos
      <4>. QED  BY <1>3, <1>4, <2>3, <4>1
    <3>5. \A q \in SoloNos : (q < r \/ q > r) => q # r
      BY <1>3
    <3>6. Stage(solo', r)
      BY <1>2, <2>3, <3>2, <3>3, <3>4, <3>5 DEF Stage
    <3>. QED  BY <3>2, <3>3, <3>6
  <2>. QED  BY <2>1, <2>2, <2>3
<1>8. Guessed(solo') = Guessed(g)
  BY <1>7 DEF Guessed
<1>9. \A q \in SoloNos : solo'.round[q] = "completed" <=> solo'.guess[q] # "none"
  BY <1>7 DEF SoloInv, SoundSolo
<1>10. shown' \subseteq SoloNos /\ \A q \in shown' : solo'.guess[q] # "none"
  BY <1>7 DEF SoloInv, SoundSolo
<1>11. \A p, q \in SoloNos : p # q =>
         /\ solo'.gkey[p] = solo'.gkey[q] => solo'.gkey[p] = "null"
         /\ solo'.ckey[p] = solo'.ckey[q] => solo'.ckey[p] = "null"
  BY <1>7 DEF SoloInv, SoundSolo
<1>. QED  BY <1>7, <1>8, <1>9, <1>10, <1>11 DEF SoundSolo

LEMMA NotYetAnswered ==
    ASSUME SoloInv, NEW r \in SoloNos, solo.round[r] = "active"
    PROVE  solo.guess[r] = "none" /\ solo.gkey[r] = "null" /\ solo \in SoloGames
BY DEF SoloInv, SoundSolo

LEMMA GuessedAreFinite == ASSUME NEW g PROVE IsFiniteSet(Guessed(g)) /\ Cardinality(Guessed(g)) \in Nat
<1>1. IsFiniteSet(SoloNos)
  BY SoloRoundsAssumption, FS_Interval DEF SoloNos
<1>2. Guessed(g) \in SUBSET SoloNos
  BY DEF Guessed
<1>. QED  BY <1>1, <1>2, FS_Subset, FS_CardinalityType

LEMMA GuessStored ==
    ASSUME SoloInv, NEW r \in SoloNos, solo.round[r] = "active", NEW k \in KeyColumn, k # "null" => ~GuessKeyUsed(k),
           solo' = Advanced([solo EXCEPT !.guess[r] = "guess", !.gkey[r] = k, !.score = @ + 1], r),
           shown' = shown \cup {r}
    PROVE  SoundSolo(solo', shown') /\ solo'.mode = solo.mode
<1>. DEFINE g == [solo EXCEPT !.guess[r] = "guess", !.gkey[r] = k, !.score = @ + 1]
<1>1. /\ g \in SoloGames /\ g.mode = solo.mode /\ g.status = solo.status /\ g.round = solo.round /\ g.ckey = solo.ckey
      /\ g.guess = [solo.guess EXCEPT ![r] = "guess"] /\ g.gkey = [solo.gkey EXCEPT ![r] = k]
      /\ g.score = solo.score + 1 /\ solo' = Advanced(g, r)
  <2>1. solo \in SoloGames
    BY NotYetAnswered
  <2>2. g \in SoloGames
    <3>1. /\ [solo.guess EXCEPT ![r] = "guess"] \in [SoloNos -> {"none", "guess", "timed_out"}]
          /\ [solo.gkey EXCEPT ![r] = k] \in [SoloNos -> KeyColumn] /\ solo.score + 1 \in Nat
      BY <2>1 DEF SoloGames
    <3>2. g = [solo EXCEPT !.guess = [solo.guess EXCEPT ![r] = "guess"], !.gkey = [solo.gkey EXCEPT ![r] = k],
                           !.score = solo.score + 1]
      BY <2>1 DEF SoloGames
    <3>. HIDE DEF g
    <3>. QED  BY <2>1, <3>1, <3>2 DEF SoloGames
  <2>3. g.mode = solo.mode /\ g.status = solo.status /\ g.round = solo.round /\ g.ckey = solo.ckey
    BY <2>1 DEF SoloGames
  <2>4. g.guess = [solo.guess EXCEPT ![r] = "guess"] /\ g.gkey = [solo.gkey EXCEPT ![r] = k] /\ g.score = solo.score + 1
    BY <2>1 DEF SoloGames
  <2>. QED  BY <2>2, <2>3, <2>4
<1>. HIDE DEF g
<1>2. \A q \in SoloNos : /\ g.guess[q] = IF q = r THEN "guess" ELSE solo.guess[q]
                         /\ g.gkey[q] = IF q = r THEN k ELSE solo.gkey[q]
  BY <1>1, NotYetAnswered DEF SoloGames
<1>3. \A q \in SoloNos : /\ g.guess[q] # "none" <=> q = r \/ solo.guess[q] # "none"
                         /\ g.gkey[q] # "null" => g.guess[q] # "none"
  BY <1>2 DEF SoloInv, SoundSolo
<1>4. \A p, q \in SoloNos : p # q /\ g.gkey[p] = g.gkey[q] => g.gkey[p] = "null"
  BY <1>2 DEF SoloInv, SoundSolo, GuessKeyUsed
<1>5. g.score = Cardinality(Guessed(g))
  <2>1. Guessed(g) = Guessed(solo) \cup {r} /\ r \notin Guessed(solo)
    BY <1>2, NotYetAnswered DEF Guessed
  <2>2. Cardinality(Guessed(g)) = Cardinality(Guessed(solo)) + 1
    BY <2>1, GuessedAreFinite, FS_AddElement
  <2>. QED  BY <1>1, <2>2 DEF SoloInv, SoundSolo
<1>. QED  BY <1>1, <1>3, <1>4, <1>5, RoundAnswered

LEMMA TimeoutStored ==
    ASSUME SoloInv, NEW r \in SoloNos, solo.round[r] = "active", solo' = ExpiredGame(r), shown' = shown \cup {r}
    PROVE  SoundSolo(solo', shown') /\ solo'.mode = solo.mode
<1>. DEFINE g == [solo EXCEPT !.guess[r] = "timed_out"]
<1>1. /\ g \in SoloGames /\ g.mode = solo.mode /\ g.status = solo.status /\ g.round = solo.round /\ g.ckey = solo.ckey
      /\ g.guess = [solo.guess EXCEPT ![r] = "timed_out"] /\ g.gkey = solo.gkey
      /\ g.score = solo.score /\ solo' = Advanced(g, r)
  BY NotYetAnswered DEF SoloGames, ExpiredGame
<1>. HIDE DEF g
<1>2. \A q \in SoloNos : g.guess[q] = IF q = r THEN "timed_out" ELSE solo.guess[q]
  BY <1>1, NotYetAnswered DEF SoloGames
<1>3. \A q \in SoloNos : /\ g.guess[q] # "none" <=> q = r \/ solo.guess[q] # "none"
                         /\ g.gkey[q] # "null" => g.guess[q] # "none"
  BY <1>1, <1>2 DEF SoloInv, SoundSolo
<1>4. \A p, q \in SoloNos : p # q /\ g.gkey[p] = g.gkey[q] => g.gkey[p] = "null"
  BY <1>1 DEF SoloInv, SoundSolo
<1>5. Guessed(g) = Guessed(solo)
  BY <1>2, NotYetAnswered DEF Guessed
<1>6. g.score = Cardinality(Guessed(g))
  BY <1>1, <1>5 DEF SoloInv, SoundSolo
<1>. QED  BY <1>1, <1>3, <1>4, <1>6, RoundAnswered

LEMMA OthersWait ==
    ASSUME SoloInv, NEW c \in Tabs, TabFree(c, "round"), solo'.mode = solo.mode
    PROVE  \A t \in Tabs \ {c} : SoundTab(tab[t], solo')
<1>1. \A t \in Tabs \ {c} : tab[t].pc # "finish" /\ SoundTab(tab[t], solo)
  BY DEF SoloInv, TabsInv, SoundTab, TabFree
<1>. QED  BY <1>1 DEF SoundTab

LEMMA AnswersSolo ==
    ASSUME SoloInv, NEW t \in Tabs, SubmitGuessTx(t) \/ ExpireSoloRoundTx(t) \/ FinishExpire(t)
    PROVE  SoloInv'
<1>1. tab[t] \in SoloTab /\ SoundTab(tab[t], solo)
  BY DEF SoloInv, TabsInv
<1>2. PICK r : r = tab[t].rd
  OBVIOUS
<1>3. r \in SoloNos
  BY <1>1, <1>2 DEF SoundTab, SubmitGuessTx, ExpireSoloRoundTx, FinishExpire
<1>4. ASSUME SoundSolo(solo', shown'), solo'.mode = solo.mode, TabFree(t, "round"), EndTab(t) PROVE SoloInv'
  BY <1>4, OthersWait, TabEnds DEF SoloInv
<1>5. CASE SubmitGuessTx(t)
  <2>1. CASE solo.round[r] # "active" \/ (tab[t].key # "null" /\ GuessKeyUsed(tab[t].key))
    BY <1>2, <1>5, <2>1, TabGivesUp DEF SubmitGuessTx
  <2>2. CASE ~(solo.round[r] # "active" \/ (tab[t].key # "null" /\ GuessKeyUsed(tab[t].key)))
    <3>1. /\ solo' = Advanced([solo EXCEPT !.guess[r] = "guess", !.gkey[r] = tab[t].key, !.score = @ + 1], r)
          /\ shown' = shown \cup {r} /\ TabFree(t, "round") /\ EndTab(t)
      BY <1>2, <1>5, <2>2 DEF SubmitGuessTx
    <3>2. tab[t].key \in KeyColumn
      BY <1>1 DEF SoloTab
    <3>3. SoundSolo(solo', shown') /\ solo'.mode = solo.mode
      BY <1>3, <2>2, <3>1, <3>2, GuessStored
    <3>. QED  BY <1>4, <3>1, <3>3
  <2>. QED  BY <2>1, <2>2
<1>6. CASE ExpireSoloRoundTx(t)
  <2>1. CASE ExpireRefused(r)
    BY <1>2, <1>6, <2>1, TabGivesUp DEF ExpireSoloRoundTx
  <2>2. CASE ~ExpireRefused(r) /\ RoundsIn("pending") # {}
    <3>1. solo' = ExpiredGame(r) /\ shown' = shown \cup {r} /\ TabFree(t, "round") /\ EndTab(t)
      BY <1>2, <1>6, <2>2 DEF ExpireSoloRoundTx
    <3>2. SoundSolo(solo', shown') /\ solo'.mode = solo.mode
      BY <1>3, <2>2, <3>1, TimeoutStored DEF ExpireRefused
    <3>. QED  BY <1>4, <3>1, <3>2
  <2>3. CASE ~ExpireRefused(r) /\ RoundsIn("pending") = {}
    <3>. DEFINE s == [tab[t] EXCEPT !.pc = "finish", !.holds = {"round"}]
    <3>1. s \in SoloTab /\ s.pc = "finish" /\ s.holds = {"round"} /\ s.rd = r
      BY <1>1, <1>2 DEF SoloTab
    <3>2. tab' = [tab EXCEPT ![t] = s] /\ UNCHANGED <<solo, shown>> /\ inFlight' \subseteq GuessKeys
      BY <1>2, <1>6, <2>3 DEF ExpireSoloRoundTx, SoloInv, TabsInv
    <3>. HIDE DEF s
    <3>3. solo.mode = "daily" /\ \A u \in Tabs \ {t} : s.holds \cap tab[u].holds = {}
      BY <1>1, <1>6, <3>1 DEF ExpireSoloRoundTx, SoundTab, TabFree
    <3>4. SoundTab(s, solo)
      BY <1>3, <2>3, <3>1, <3>3 DEF SoundTab, ExpireRefused, RoundsIn
    <3>. QED  BY <3>1, <3>2, <3>3, <3>4, TabMoves
  <2>. QED  BY <2>1, <2>2, <2>3
<1>7. CASE FinishExpire(t)
  <2>1. solo.round[r] = "active" /\ tab[t].holds = {"round"}
    BY <1>1, <1>2, <1>7 DEF FinishExpire, SoundTab
  <2>2. TabFree(t, "round")
    BY <2>1 DEF TabFree, SoloInv, TabsInv
  <2>3. SoundSolo(solo', shown') /\ solo'.mode = solo.mode
    BY <1>2, <1>3, <1>7, <2>1, TimeoutStored DEF FinishExpire
  <2>. QED  BY <1>4, <1>7, <2>2, <2>3 DEF FinishExpire
<1>. QED  BY <1>5, <1>6, <1>7

(* Only locations of answered rounds are revealed.                          *)
LEMMA RevealsSolo ==
    ASSUME SoloInv, NEW S \in SUBSET SoloNos, \A r \in S : solo.guess[r] # "none", Reveal(S)
    PROVE  SoloInv'
<1>1. shown' = shown \cup S /\ UNCHANGED <<solo, tab, inFlight>>
  BY DEF Reveal
<1>2. SoundSolo(solo', shown')
  BY <1>1 DEF SoloInv, SoundSolo
<1>. QED  BY <1>1, <1>2 DEF SoloInv, TabsInv

LEMMA AnswersReveal ==
    ASSUME SoloInv, (\E k \in GuessKeys : GuessReplay(k)) \/ GetPracticeHistory \/ GetSoloResults
    PROVE  SoloInv'
<1>1. ASSUME NEW k \in GuessKeys, GuessReplay(k) PROVE SoloInv'
  <2>. DEFINE S == {r \in SoloNos : solo.gkey[r] = k}
  <2>1. S \in SUBSET SoloNos /\ \A r \in S : solo.guess[r] # "none"
    BY GuessKeysAssumption DEF SoloInv, SoundSolo
  <2>2. Reveal(S)
    BY <1>1 DEF GuessReplay
  <2>. QED  BY <2>1, <2>2, RevealsSolo
<1>2. CASE GetPracticeHistory
  <2>1. HistoryRounds \in SUBSET SoloNos /\ \A r \in HistoryRounds : solo.guess[r] # "none"
    BY DEF HistoryRounds
  <2>. QED  BY <1>2, <2>1, RevealsSolo DEF GetPracticeHistory
<1>3. CASE GetSoloResults
  <2>1. PICK n \in SoloNos : Stage(solo, n)
    BY DEF SoloInv, SoundSolo
  <2>2. n = SoloRounds /\ solo.round[n] = "completed" /\ \A r \in SoloNos : r < n \/ r = n
    BY <1>3, <2>1, SoloRoundsAssumption DEF GetSoloResults, Stage, SoloNos
  <2>3. \A r \in SoloNos : solo.round[r] = "completed"
    BY <2>1, <2>2 DEF Stage
  <2>4. ResultRounds \in SUBSET SoloNos /\ \A r \in ResultRounds : solo.guess[r] # "none"
    BY <2>3 DEF ResultRounds, SoloInv, SoundSolo
  <2>. QED  BY <1>3, <2>4, RevealsSolo DEF GetSoloResults
<1>. QED  BY <1>1, <1>2, <1>3

(* Steps that answer nothing: the rounds move on, the guesses stay.         *)
LEMMA OpensSolo ==
    ASSUME SoloInv, solo' \in SoloGames, UNCHANGED <<tab, inFlight, shown>>,
           solo'.mode = solo.mode, solo'.guess = solo.guess, solo'.gkey = solo.gkey, solo'.score = solo.score,
           \A q, r \in SoloNos : q # r /\ solo'.ckey[q] = solo'.ckey[r] => solo'.ckey[q] = "null",
           \A r \in SoloNos : solo'.round[r] = "completed" <=> solo.round[r] = "completed",
           \E n \in SoloNos : Stage(solo', n),
           solo'.round = solo.round \/ \A t \in Tabs : tab[t].pc # "finish"
    PROVE  SoloInv'
<1>1. Guessed(solo') = Guessed(solo)
  BY DEF Guessed
<1>2. SoundSolo(solo', shown')
  BY <1>1 DEF SoloInv, SoundSolo
<1>3. \A t \in Tabs : SoundTab(tab[t], solo')
  BY DEF SoloInv, TabsInv, SoundTab
<1>4. TabsInv'
  BY <1>3 DEF SoloInv, TabsInv
<1>. QED  BY <1>2, <1>4 DEF SoloInv

LEMMA StartsSolo ==
    ASSUME SoloInv, StartSolo
    PROVE  SoloInv'
<1>1. solo \in SoloGames /\ \E n \in SoloNos : Stage(solo, n)
  BY DEF SoloInv, SoundSolo
<1>2. Stage(solo, 1) /\ solo.round[1] = "pending" /\ 1 \in SoloNos
  BY <1>1, SoloRoundsAssumption DEF StartSolo, Stage
<1>3. /\ solo' \in SoloGames /\ solo'.status = "active" /\ solo'.mode = solo.mode /\ solo'.guess = solo.guess
      /\ solo'.gkey = solo.gkey /\ solo'.ckey = solo.ckey /\ solo'.score = solo.score
      /\ solo'.round = [solo.round EXCEPT ![1] = "active"] /\ UNCHANGED <<tab, inFlight, shown>>
  BY <1>1 DEF StartSolo, SoloGames
<1>4. \A r \in SoloNos : solo'.round[r] = IF r = 1 THEN "active" ELSE solo.round[r]
  BY <1>1, <1>3 DEF SoloGames
<1>5. \A r \in SoloNos : (r < 1 \/ r > 1) => r # 1
  OBVIOUS
<1>6. Stage(solo', 1)
  BY <1>2, <1>3, <1>4, <1>5 DEF Stage
<1>7. ASSUME NEW t \in Tabs, tab[t].pc = "finish" PROVE FALSE
  <2>1. tab[t].rd \in SoloNos /\ solo.round[tab[t].rd] = "active"
    BY <1>7 DEF SoloInv, TabsInv, SoundTab
  <2>. QED  BY <1>1, <2>1, StageMeans DEF StartSolo
<1>8. \A q, r \in SoloNos : q # r /\ solo'.ckey[q] = solo'.ckey[r] => solo'.ckey[q] = "null"
  BY <1>3 DEF SoloInv, SoundSolo
<1>. QED  BY <1>2, <1>3, <1>4, <1>6, <1>7, <1>8, OpensSolo

LEMMA SoloFallsDue ==
    ASSUME SoloInv, SoloRoundDue
    PROVE  SoloInv'
<1>1. solo \in SoloGames /\ \E n \in SoloNos : Stage(solo, n)
  BY DEF SoloInv, SoundSolo
<1>2. /\ solo' \in SoloGames /\ solo'.status = solo.status /\ solo'.mode = solo.mode /\ solo'.guess = solo.guess
      /\ solo'.gkey = solo.gkey /\ solo'.ckey = solo.ckey /\ solo'.score = solo.score
      /\ solo'.round = solo.round /\ UNCHANGED <<tab, inFlight, shown>>
  BY <1>1 DEF SoloRoundDue, SoloGames
<1>3. \E n \in SoloNos : Stage(solo', n)
  BY <1>1, <1>2 DEF Stage
<1>4. \A q, r \in SoloNos : q # r /\ solo'.ckey[q] = solo'.ckey[r] => solo'.ckey[q] = "null"
  BY <1>2 DEF SoloInv, SoundSolo
<1>. QED  BY <1>2, <1>3, <1>4, OpensSolo

LEMMA NoTimeoutInPractice ==
    ASSUME SoloInv, solo.mode = "practice", NEW t \in Tabs
    PROVE  tab[t].pc # "finish"
BY DEF SoloInv, TabsInv, SoundTab

LEMMA AppendsRound ==
    ASSUME SoloInv, NEW k \in GuessKeys, AppendPracticeRound(k)
    PROVE  SoloInv'
<1>1. solo \in SoloGames /\ solo.mode = "practice" /\ solo.status = "active"
  BY DEF SoloInv, SoundSolo, AppendPracticeRound
<1>2. PICK n \in SoloNos : Stage(solo, n)
  BY DEF SoloInv, SoundSolo
<1>3. n \in Nat /\ SoloRounds \in Nat /\ n >= 1 /\ n <= SoloRounds /\ \A r \in SoloNos : r \in Nat /\ r >= 1
  BY SoloRoundsAssumption DEF SoloNos
<1>4. SoloNos \ RoundsIn("absent") = 1..n
  <2>1. \A r \in SoloNos : solo.round[r] = "absent" <=> r > n
    BY <1>1, <1>2, <1>3 DEF Stage
  <2>. QED  BY <1>3, <2>1 DEF RoundsIn, SoloNos
<1>5. Cardinality(SoloNos \ RoundsIn("absent")) = n
  <2>1. Cardinality(1..n) = IF 1 > n THEN 0 ELSE n - 1 + 1
    BY <1>3, FS_Interval
  <2>2. Cardinality(1..n) = n
    BY <1>3, <2>1
  <2>. QED  BY <1>4, <2>2
<1>6. PICK m : m = n + 1
  OBVIOUS
<1>7. /\ solo.round[n] = "completed" /\ m \in SoloNos /\ \A r \in SoloNos : solo.ckey[r] # k
      /\ solo' = [solo EXCEPT !.round[m] = "active", !.ckey[m] = k] /\ UNCHANGED <<tab, inFlight, shown>>
  <2>1. /\ solo.round[n] = "completed" /\ n < SoloRounds /\ \A r \in SoloNos : solo.ckey[r] # k
        /\ solo' = [solo EXCEPT !.round[n + 1] = "active", !.ckey[n + 1] = k] /\ UNCHANGED <<tab, inFlight, shown>>
    BY <1>5 DEF AppendPracticeRound
  <2>2. m \in SoloNos
    BY <1>3, <1>6, <2>1 DEF SoloNos
  <2>. QED  BY <1>6, <2>1, <2>2
<1>8. /\ solo'.status = "active" /\ solo'.mode = solo.mode /\ solo'.guess = solo.guess /\ solo'.gkey = solo.gkey
      /\ solo'.score = solo.score
  BY <1>1, <1>7 DEF SoloGames
<1>9. solo'.round = [solo.round EXCEPT ![m] = "active"] /\ solo'.ckey = [solo.ckey EXCEPT ![m] = k]
  BY <1>1, <1>7 DEF SoloGames
<1>10. solo' \in SoloGames
  <2>1. /\ [solo.round EXCEPT ![m] = "active"] \in [SoloNos -> {"absent", "pending", "active", "completed", "cancelled"}]
        /\ [solo.ckey EXCEPT ![m] = k] \in [SoloNos -> KeyColumn]
    BY <1>1 DEF SoloGames, KeyColumn
  <2>2. solo' = [solo EXCEPT !.round = [solo.round EXCEPT ![m] = "active"], !.ckey = [solo.ckey EXCEPT ![m] = k]]
    BY <1>1, <1>7 DEF SoloGames
  <2>. QED  BY <1>1, <2>1, <2>2 DEF SoloGames
<1>11. \A r \in SoloNos : /\ solo'.round[r] = IF r = m THEN "active" ELSE solo.round[r]
                          /\ solo'.ckey[r] = IF r = m THEN k ELSE solo.ckey[r]
  BY <1>1, <1>9 DEF SoloGames
<1>12. solo.round[m] = "absent" /\ \A r \in SoloNos : (r < m => r # m /\ (r < n \/ r = n)) /\ (r > m => r # m /\ r > n)
  BY <1>1, <1>2, <1>3, <1>6, <1>7 DEF Stage
<1>13. Stage(solo', m)
  <2>1. \A r \in SoloNos : r < m => solo'.round[r] = "completed"
    BY <1>2, <1>7, <1>11, <1>12 DEF Stage
  <2>2. \A r \in SoloNos : r > m => solo'.round[r] = "absent"
    BY <1>1, <1>2, <1>11, <1>12 DEF Stage
  <2>. QED  BY <1>1, <1>7, <1>8, <1>11, <2>1, <2>2 DEF Stage
<1>14. \A q, r \in SoloNos : q # r /\ solo'.ckey[q] = solo'.ckey[r] => solo'.ckey[q] = "null"
  BY <1>7, <1>11 DEF SoloInv, SoundSolo
<1>15. \A r \in SoloNos : solo'.round[r] = "completed" <=> solo.round[r] = "completed"
  BY <1>11, <1>12
<1>. QED  BY <1>1, <1>7, <1>8, <1>10, <1>13, <1>14, <1>15, NoTimeoutInPractice, OpensSolo

LEMMA EndsPractice ==
    ASSUME SoloInv, EndPractice
    PROVE  SoloInv'
<1>1. solo \in SoloGames /\ solo.mode = "practice"
  BY DEF SoloInv, SoundSolo, EndPractice
<1>2. PICK n \in SoloNos : Stage(solo, n)
  BY DEF SoloInv, SoundSolo
<1>3. /\ solo'.status = "completed" /\ solo'.mode = solo.mode /\ solo'.guess = solo.guess /\ solo'.gkey = solo.gkey
      /\ solo'.ckey = solo.ckey /\ solo'.score = solo.score /\ solo'.round = ClosedRounds
      /\ UNCHANGED <<tab, inFlight, shown>>
  BY <1>1 DEF EndPractice, SoloGames
<1>4. ClosedRounds \in [SoloNos -> {"absent", "pending", "active", "completed", "cancelled"}]
  BY <1>1 DEF ClosedRounds, SoloGames
<1>5. solo' \in SoloGames
  BY <1>1, <1>4 DEF EndPractice, SoloGames
<1>6. \A r \in SoloNos : solo'.round[r] = IF solo.round[r] \in {"active", "pending"} THEN "cancelled" ELSE solo.round[r]
  BY <1>3 DEF ClosedRounds
<1>7. Stage(solo', n)
  BY <1>1, <1>2, <1>3, <1>6 DEF Stage, EndPractice
<1>8. \A q, r \in SoloNos : q # r /\ solo'.ckey[q] = solo'.ckey[r] => solo'.ckey[q] = "null"
  BY <1>3 DEF SoloInv, SoundSolo
<1>9. \A r \in SoloNos : solo'.round[r] = "completed" <=> solo.round[r] = "completed"
  BY <1>6
<1>. QED  BY <1>1, <1>3, <1>5, <1>7, <1>8, <1>9, NoTimeoutInPractice, OpensSolo

LEMMA SoloStep == SoloInv /\ [SoloNext]_soloVars => SoloInv'
<1>. SUFFICES ASSUME SoloInv, [SoloNext]_soloVars PROVE SoloInv'
  OBVIOUS
<1>1. ASSUME UNCHANGED <<solo, tab, shown>>, inFlight' \subseteq GuessKeys PROVE SoloInv'
  BY <1>1 DEF SoloInv, TabsInv
<1>2. CASE UNCHANGED soloVars
  BY <1>1, <1>2 DEF soloVars, SoloInv, TabsInv
<1>3. ASSUME NEW k \in GuessKeys, SoloClaimLapses(k) PROVE SoloInv'
  BY <1>1, <1>3 DEF SoloClaimLapses, SoloInv, TabsInv
<1>4. ASSUME NEW t \in Tabs, BreakSoloDeadlock(t) PROVE SoloInv'
  BY <1>4, TabGivesUp DEF BreakSoloDeadlock
<1>5. CASE SoloNext
  BY <1>3, <1>4, <1>5, TabRequests, LocksSolo, AnswersSolo, AnswersReveal, AppendsRound, StartsSolo, EndsPractice,
     SoloFallsDue DEF SoloNext
<1>. QED  BY <1>2, <1>5

(* The inductive invariant of a game of one player and its owner's requests.*)
THEOREM SoloInvariant == SoloSpec => []SoloInv
<1>. QED  BY SoloBegins, SoloStep, PTL DEF SoloSpec

(* Guesses, timeouts, retries and new rounds that overlap, for any number   *)
(* of rounds, requests and keys, leave rows that agree, and no location is  *)
(* shown before its round is answered: SoloRowsAgree.                       *)
THEOREM SoloRowsStayTrue == SoloSpec => []SoloRowsAgree
<1>. QED  BY SoundAgrees, SoloInvariant, PTL

-----------------------------------------------------------------------------
(* The daily challenge and its credits.                                     *)

(* Days of P that a streak s claims: those of its run, and those of its best. *)
RunWithin(P, s) ==
    /\ s.count > 0 => \A e \in (s.last - s.count + 1)..s.last : e \in P
    /\ s.best > 0 => \E d \in Days : d + s.best - 1 <= LastDay /\ \A e \in d..(d + s.best - 1) : e \in P

DaysPlayed == {d \in Days : \E n \in GameNos : Completed(d, n)}

AnAttempt == [game : {"none", "pending", "active", "completed"}, status : {"none", "pending", "active", "completed"},
              result : BOOLEAN, awarded : BOOLEAN]
AStreak   == [count : Nat, best : Nat, last : Nat]
AHook     == [pc : {"idle", "mark", "result", "read", "save", "missions", "milestone", "xp"},
              of : Attempts, known : BOOLEAN, saw : AStreak, replay : BOOLEAN]

SoundAttempt(r) ==
    /\ r.game = "none" <=> r.status = "none"
    /\ r.status = "completed" => r.game = "completed"
    /\ r.result => r.game = "completed"
    /\ r.awarded => r.result /\ r.status = "completed"

(* A day's attempts are numbered without a gap, and all before the latest   *)
(* are completed.                                                           *)
InTurn(d, l) == \A n \in GameNos :
    /\ attempt[<<d, n>>].status = "none" <=> n > l
    /\ n < l => Completed(d, n)

AttemptsInv ==
    /\ attempt \in [Attempts -> AnAttempt]
    /\ \A a \in Attempts : SoundAttempt(attempt[a])
    /\ \A d \in Days : \E l \in 0..GamesPerDay : InTurn(d, l)

(* How far a chain is tells what it has done: the attempt is marked before  *)
(* the result is written, both before the streak is read.                   *)
SoundHook(h) == h.pc # "idle" =>
    /\ attempt[h.of].game = "completed"
    /\ h.pc \notin {"idle", "mark"} \/ h.known => attempt[h.of].status = "completed"
    /\ h.pc \notin {"idle", "mark", "result"} => attempt[h.of].result
    /\ h.pc = "save" => RunWithin(DaysPlayed, h.saw)

HooksInv ==
    /\ hook \in [Hooks -> AHook] /\ \A h \in Hooks : SoundHook(hook[h])
    /\ streak \in AStreak /\ RunWithin(DaysPlayed, streak)

MissionsInv ==
    /\ today \in Days
    /\ mission \in [Missions -> [value : Nat, events : SUBSET Sources, claimed : BOOLEAN]]
    /\ \A m \in Missions : /\ mission[m].value = Min({Target(m), Cardinality(mission[m].events)})
                           /\ mission[m].claimed => mission[m].value = Target(m)

Awarded == {a \in Attempts : attempt[a].awarded}
Claimed == {m \in Missions : mission[m].claimed}
XPInv   == xp = Cardinality(Awarded) + Cardinality(Claimed)

DailyInv == AttemptsInv /\ HooksInv /\ MissionsInv /\ XPInv

-----------------------------------------------------------------------------
LEMMA DailyNumbers ==
    /\ LastDay \in Nat /\ GamesPerDay \in Nat /\ Milestone \in Nat /\ LastDay > 0 /\ GamesPerDay > 0 /\ Milestone > 0
    /\ Days \subseteq Nat /\ GameNos \subseteq Nat /\ 0 \notin Days
    /\ IsFiniteSet(Days) /\ IsFiniteSet(GameNos) /\ IsFiniteSet(Missions) /\ IsFiniteSet(Attempts) /\ IsFiniteSet(Sources)
<1>1. /\ LastDay \in Nat /\ GamesPerDay \in Nat /\ Milestone \in Nat /\ LastDay > 0 /\ GamesPerDay > 0 /\ Milestone > 0
  BY DailyAssumption
<1>2. Days \subseteq Nat /\ GameNos \subseteq Nat /\ 0 \notin Days
  BY <1>1 DEF Days, GameNos
<1>3. IsFiniteSet(1..LastDay) /\ IsFiniteSet(1..GamesPerDay) /\ IsFiniteSet(0..GamesPerDay)
  BY <1>1, FS_Interval
<1>4. IsFiniteSet(Days) /\ IsFiniteSet(GameNos)
  BY <1>3 DEF Days, GameNos
<1>5. IsFiniteSet(Days \cup {Week})
  BY <1>4, FS_AddElement
<1>6. IsFiniteSet(Days \X GameNos) /\ IsFiniteSet(Days \X (0..GamesPerDay))
  BY <1>3, <1>4, FS_Product
<1>. QED  BY <1>1, <1>2, <1>4, <1>5, <1>6 DEF Missions, Attempts, Sources

LEMMA DailyBegins == DailyInit => DailyInv
<1>. SUFFICES ASSUME DailyInit PROVE DailyInv
  OBVIOUS
<1>1. NoAttempt \in AnAttempt /\ SoundAttempt(NoAttempt) /\ NoAttempt.status = "none" /\ ~NoAttempt.awarded
  BY DEF NoAttempt, AnAttempt, SoundAttempt
<1>2. \A a \in Attempts : attempt[a] = NoAttempt
  BY DEF DailyInit
<1>3. \A d \in Days : InTurn(d, 0)
  <2>1. \A d \in Days, n \in GameNos : <<d, n>> \in Attempts /\ n > 0 /\ ~(n < 0)
    BY DEF Attempts, GameNos
  <2>. QED  BY <1>1, <1>2, <2>1 DEF InTurn
<1>4. 0 \in 0..GamesPerDay
  BY DailyNumbers
<1>5. AttemptsInv
  BY <1>1, <1>2, <1>3, <1>4 DEF AttemptsInv, DailyInit
<1>6. streak = NoStreak /\ NoStreak \in AStreak /\ RunWithin(DaysPlayed, NoStreak)
  BY DEF DailyInit, NoStreak, AStreak, RunWithin
<1>7. <<1, 1>> \in Attempts
  BY DailyNumbers DEF Attempts, Days, GameNos
<1>8. IdleHook \in AHook /\ SoundHook(IdleHook)
  BY <1>6, <1>7 DEF IdleHook, AHook, SoundHook
<1>9. HooksInv
  BY <1>6, <1>8 DEF HooksInv, DailyInit
<1>10. \A m \in Missions : Target(m) \in Nat
  BY DailyNumbers DEF Target
<1>11. \A m \in Missions : Min({Target(m), 0}) = 0
  <2>1. ASSUME NEW m \in Missions PROVE Min({Target(m), 0}) = 0
    <3>1. PICK k : k = Target(m)
      OBVIOUS
    <3>2. k \in Nat /\ k \in Int /\ 0 \in Int
      BY <1>10, <3>1
    <3>3. Min({k, 0}) = IF k <= 0 THEN k ELSE 0
      BY <3>2, LesserOfTwo
    <3>. QED  BY <3>1, <3>2, <3>3
  <2>. QED  BY <2>1
<1>12. today \in Days
  BY DailyNumbers DEF DailyInit, Days
<1>13. \A m \in Missions : mission[m].value = 0 /\ mission[m].events = {} /\ ~mission[m].claimed
  BY DEF DailyInit
<1>14. mission \in [Missions -> [value : Nat, events : SUBSET Sources, claimed : BOOLEAN]]
  BY DEF DailyInit
<1>15. MissionsInv
  BY <1>11, <1>12, <1>13, <1>14, FS_EmptySet DEF MissionsInv
<1>16. Awarded = {} /\ Claimed = {} /\ xp = 0
  BY <1>1, <1>2, <1>13 DEF Awarded, Claimed, DailyInit
<1>17. XPInv
  BY <1>16, FS_EmptySet DEF XPInv
<1>. QED  BY <1>5, <1>9, <1>15, <1>17 DEF DailyInv

(* What an attempt never loses: its game's end, its own and its result.     *)
Grows(r, q) ==
    /\ r.game = "completed" => q.game = "completed"
    /\ r.status = "completed" => q.status = "completed"
    /\ r.result => q.result

LEMMA RunsStay ==
    ASSUME NEW P, NEW Q, P \subseteq Q, NEW s, RunWithin(P, s) PROVE RunWithin(Q, s)
  BY DEF RunWithin

(* What attempts never lose, chains and streaks may rely on.                *)
LEMMA AttemptsOnlyGrow ==
    ASSUME AttemptsInv, AttemptsInv', \A a \in Attempts : Grows(attempt[a], attempt'[a])
    PROVE  /\ DaysPlayed \subseteq DaysPlayed'
           /\ \A s \in AStreak : RunWithin(DaysPlayed, s) => RunWithin(DaysPlayed, s)'
           /\ \A h \in AHook : SoundHook(h) => SoundHook(h)'
<1>1. \A d \in Days, n \in GameNos : <<d, n>> \in Attempts
  BY DEF Attempts
<1>2. DaysPlayed \subseteq DaysPlayed'
  <2>1. \A d \in Days, n \in GameNos : Completed(d, n) => Completed(d, n)'
    BY <1>1 DEF Grows, Completed
  <2>. QED  BY <2>1 DEF DaysPlayed
<1>3. \A s \in AStreak : RunWithin(DaysPlayed, s) => RunWithin(DaysPlayed, s)'
  <2>1. ASSUME NEW s \in AStreak, RunWithin(DaysPlayed, s) PROVE RunWithin(DaysPlayed', s)
    BY <1>2, <2>1, RunsStay
  <2>2. \A s \in AStreak : RunWithin(DaysPlayed', s) => RunWithin(DaysPlayed, s)'
    BY DEF RunWithin
  <2>. QED  BY <2>1, <2>2
<1>4. ASSUME NEW h \in AHook, SoundHook(h) PROVE SoundHook(h)'
  <2>1. h.of \in Attempts /\ h.saw \in AStreak
    BY DEF AHook
  <2>2. Grows(attempt[h.of], attempt'[h.of])
    BY <2>1
  <2>3. h.pc = "save" => RunWithin(DaysPlayed, h.saw)'
    BY <1>3, <1>4, <2>1 DEF SoundHook
  <2>. QED  BY <1>4, <2>2, <2>3 DEF SoundHook, Grows
<1>. QED  BY <1>2, <1>3, <1>4

(* One attempt moves on, not to or from being none: the turns stay.         *)
LEMMA AttemptMoves ==
    ASSUME AttemptsInv, NEW a \in Attempts, NEW r \in AnAttempt, SoundAttempt(r), Grows(attempt[a], r),
           r.status = "none" <=> attempt[a].status = "none",
           attempt' = [attempt EXCEPT ![a] = r]
    PROVE  AttemptsInv' /\ \A o \in Attempts : Grows(attempt[o], attempt'[o])
<1>1. /\ attempt' \in [Attempts -> AnAttempt] /\ attempt'[a] = r
      /\ \A o \in Attempts : o # a => attempt'[o] = attempt[o]
  BY DEF AttemptsInv
<1>2. \A o \in Attempts : Grows(attempt[o], attempt'[o])
  BY <1>1 DEF Grows
<1>3. \A o \in Attempts : SoundAttempt(attempt[o])'
  <2>1. \A o \in Attempts : SoundAttempt(attempt'[o])
    BY <1>1 DEF AttemptsInv
  <2>. QED  BY <2>1 DEF SoundAttempt
<1>4. \A o \in Attempts : attempt'[o].status = "none" <=> attempt[o].status = "none"
  BY <1>1
<1>5. \A d \in Days, n \in GameNos : <<d, n>> \in Attempts
  BY DEF Attempts
<1>6. ASSUME NEW d \in Days PROVE \E l \in 0..GamesPerDay : InTurn(d, l)'
  <2>1. PICK l \in 0..GamesPerDay : InTurn(d, l)
    BY DEF AttemptsInv
  <2>2. InTurn(d, l)'
    BY <1>2, <1>4, <1>5, <2>1 DEF InTurn, Completed, Grows
  <2>. QED  BY <2>2
<1>. QED  BY <1>1, <1>2, <1>3, <1>6 DEF AttemptsInv

(* The latest attempt of a day is the one the turns end at.                 *)
LEMMA LatestIsLast ==
    ASSUME AttemptsInv, NEW d \in Days, NEW l \in 0..GamesPerDay, InTurn(d, l)
    PROVE  LatestNo(d) = l
<1>1. Created(d) = {n \in GameNos : n <= l}
  <2>1. \A n \in GameNos : ~(n > l) <=> n <= l
    BY DailyNumbers DEF GameNos
  <2>. QED  BY <2>1 DEF Created, InTurn
<1>2. l = 0 => Created(d) = {}
  BY <1>1, DailyNumbers DEF GameNos
<1>3. ASSUME l # 0 PROVE l \in Created(d) /\ \A n \in Created(d) : l >= n
  BY <1>1, <1>3, DailyNumbers DEF GameNos
<1>4. ASSUME l # 0 PROVE Max(Created(d)) = l
  <2>1. PICK k : k = Max(Created(d))
    OBVIOUS
  <2>2. k \in Created(d) /\ \A n \in Created(d) : k >= n
    BY <1>3, <1>4, <2>1 DEF Max
  <2>3. k >= l
    BY <1>3, <1>4, <2>2
  <2>4. k <= l /\ k \in Nat
    BY <1>1, <2>2, DailyNumbers
  <2>. QED  BY <2>1, <2>3, <2>4, DailyNumbers
<1>. QED  BY <1>2, <1>3, <1>4 DEF LatestNo

LEMMA Creates ==
    ASSUME AttemptsInv, NEW d \in Days, CreateAttempt(d)
    PROVE  AttemptsInv' /\ (\A o \in Attempts : Grows(attempt[o], attempt'[o])) /\ Awarded' = Awarded
<1>1. PICK l \in 0..GamesPerDay : InTurn(d, l)
  BY DEF AttemptsInv
<1>2. LatestNo(d) = l
  BY <1>1, LatestIsLast
<1>3. PICK n : n = NewAttemptNo(d)
  OBVIOUS
<1>4. n # 0 /\ attempt' = [attempt EXCEPT ![<<d, n>>].game = "pending", ![<<d, n>>].status = "pending"]
  BY <1>3 DEF CreateAttempt
<1>5. n = l + 1 /\ n \in GameNos /\ (l # 0 => Completed(d, l))
  BY <1>2, <1>3, <1>4, DailyNumbers DEF NewAttemptNo, GameNos
<1>6. <<d, n>> \in Attempts
  BY <1>5 DEF Attempts
<1>7. attempt[<<d, n>>].status = "none"
  <2>1. n > l
    BY <1>5, DailyNumbers
  <2>. QED  BY <1>1, <1>5, <2>1 DEF InTurn
<1>8. PICK r : r = [attempt[<<d, n>>] EXCEPT !.game = "pending", !.status = "pending"]
  OBVIOUS
<1>9. attempt[<<d, n>>] \in AnAttempt /\ SoundAttempt(attempt[<<d, n>>])
  BY <1>6 DEF AttemptsInv
<1>10. r \in AnAttempt /\ r.game = "pending" /\ r.status = "pending"
       /\ r.result = attempt[<<d, n>>].result /\ r.awarded = attempt[<<d, n>>].awarded
  BY <1>8, <1>9 DEF AnAttempt
<1>11. ~r.result /\ ~r.awarded /\ attempt[<<d, n>>].game # "completed"
  BY <1>7, <1>9, <1>10 DEF SoundAttempt
<1>12. attempt' = [attempt EXCEPT ![<<d, n>>] = r]
  BY <1>4, <1>6, <1>8 DEF AttemptsInv
<1>13. /\ attempt' \in [Attempts -> AnAttempt] /\ attempt'[<<d, n>>] = r
       /\ \A o \in Attempts : o # <<d, n>> => attempt'[o] = attempt[o]
  BY <1>6, <1>10, <1>12 DEF AttemptsInv
<1>14. \A o \in Attempts : Grows(attempt[o], attempt'[o])
  BY <1>7, <1>10, <1>11, <1>13 DEF Grows
<1>15. \A o \in Attempts : SoundAttempt(attempt[o])'
  <2>1. \A o \in Attempts : SoundAttempt(attempt'[o])
    BY <1>10, <1>11, <1>13 DEF AttemptsInv, SoundAttempt
  <2>. QED  BY <2>1 DEF SoundAttempt
<1>16. ASSUME NEW e \in Days PROVE \E m \in 0..GamesPerDay : InTurn(e, m)'
  <2>1. \A m \in GameNos : <<e, m>> \in Attempts
    BY DEF Attempts
  <2>2. CASE e # d
    <3>1. PICK m \in 0..GamesPerDay : InTurn(e, m)
      BY DEF AttemptsInv
    <3>2. \A k \in GameNos : attempt'[<<e, k>>] = attempt[<<e, k>>]
      BY <1>13, <2>1, <2>2
    <3>3. InTurn(e, m)'
      BY <3>1, <3>2 DEF InTurn, Completed
    <3>. QED  BY <3>3
  <2>3. CASE e = d
    <3>1. \A k \in GameNos : k # n => attempt'[<<d, k>>] = attempt[<<d, k>>]
      BY <1>13, <2>1, <2>3
    <3>2. \A k \in GameNos : attempt'[<<d, k>>].status = "none" <=> k > n
      <4>1. \A k \in GameNos : k # n => (k > l <=> k > n)
        BY <1>5, DailyNumbers
      <4>2. ~(n > n)
        BY <1>5, DailyNumbers
      <4>. QED  BY <1>1, <1>5, <1>10, <1>13, <3>1, <4>1, <4>2 DEF InTurn
    <3>3. ASSUME NEW k \in GameNos, k < n PROVE attempt'[<<d, k>>].status = "completed"
      <4>1. k < l \/ (k = l /\ l # 0)
        BY <1>5, <3>3, DailyNumbers DEF GameNos
      <4>2. k # n
        BY <1>5, <3>3, DailyNumbers
      <4>. QED  BY <1>1, <1>5, <3>1, <4>1, <4>2 DEF InTurn, Completed
    <3>4. InTurn(d, n)'
      BY <3>2, <3>3 DEF InTurn, Completed
    <3>5. n \in 0..GamesPerDay
      BY <1>5, DailyNumbers DEF GameNos
    <3>. QED  BY <2>3, <3>4, <3>5
  <2>. QED  BY <2>2, <2>3
<1>17. Awarded' = Awarded
  BY <1>10, <1>13 DEF Awarded
<1>. QED  BY <1>13, <1>14, <1>15, <1>16, <1>17 DEF AttemptsInv

(* The endpoints move a game on from a state that is not its end.           *)
LEMMA StartsAttempt ==
    ASSUME AttemptsInv, NEW d \in Days, StartAttemptGame(d)
    PROVE  AttemptsInv' /\ (\A o \in Attempts : Grows(attempt[o], attempt'[o])) /\ Awarded' = Awarded
<1>1. PICK l \in 0..GamesPerDay : InTurn(d, l)
  BY DEF AttemptsInv
<1>2. LatestNo(d) = l
  BY <1>1, LatestIsLast
<1>3. PICK a : a = <<d, l>>
  OBVIOUS
<1>4. /\ l # 0 /\ attempt[a].game \in {"pending", "active"}
      /\ attempt' = [attempt EXCEPT ![a].game = "active", ![a].status = "active"]
  BY <1>2, <1>3 DEF StartAttemptGame
<1>5. a \in Attempts
  <2>1. l \in GameNos
    BY <1>4, DailyNumbers DEF GameNos
  <2>. QED  BY <1>3, <2>1 DEF Attempts
<1>6. attempt[a] \in AnAttempt /\ SoundAttempt(attempt[a])
  BY <1>5 DEF AttemptsInv
<1>7. attempt[a].status # "none" /\ attempt[a].status # "completed" /\ ~attempt[a].result /\ ~attempt[a].awarded
  BY <1>4, <1>6 DEF SoundAttempt
<1>8. PICK r : r = [attempt[a] EXCEPT !.game = "active", !.status = "active"]
  OBVIOUS
<1>9. r \in AnAttempt /\ r.game = "active" /\ r.status = "active" /\ r.result = attempt[a].result /\ r.awarded = attempt[a].awarded
  BY <1>6, <1>8 DEF AnAttempt
<1>10. attempt' = [attempt EXCEPT ![a] = r]
  BY <1>4, <1>5, <1>8 DEF AttemptsInv
<1>11. SoundAttempt(r) /\ Grows(attempt[a], r)
  BY <1>4, <1>7, <1>9 DEF SoundAttempt, Grows
<1>12. r.status = "none" <=> attempt[a].status = "none"
  BY <1>7, <1>9
<1>13. AttemptsInv' /\ \A o \in Attempts : Grows(attempt[o], attempt'[o])
  BY <1>5, <1>9, <1>10, <1>11, <1>12, AttemptMoves
<1>14. \A o \in Attempts : attempt'[o].awarded = attempt[o].awarded
  BY <1>5, <1>9, <1>10 DEF AttemptsInv
<1>. QED  BY <1>13, <1>14 DEF Awarded

LEMMA PlaysAttempt ==
    ASSUME AttemptsInv, NEW a \in Attempts, StartGameOfAttempt(a) \/ CompleteGameOfAttempt(a)
    PROVE  AttemptsInv' /\ (\A o \in Attempts : Grows(attempt[o], attempt'[o])) /\ Awarded' = Awarded
<1>1. PICK g \in {"active", "completed"} :
        attempt[a].game \in {"pending", "active"} /\ attempt' = [attempt EXCEPT ![a].game = g]
  BY DEF StartGameOfAttempt, CompleteGameOfAttempt
<1>2. attempt[a] \in AnAttempt /\ SoundAttempt(attempt[a])
  BY DEF AttemptsInv
<1>3. attempt[a].status # "none" /\ attempt[a].status # "completed" /\ ~attempt[a].result /\ ~attempt[a].awarded
  BY <1>1, <1>2 DEF SoundAttempt
<1>4. PICK r : r = [attempt[a] EXCEPT !.game = g]
  OBVIOUS
<1>5. /\ r \in AnAttempt /\ r.game = g /\ r.status = attempt[a].status /\ r.result = attempt[a].result
      /\ r.awarded = attempt[a].awarded
  BY <1>1, <1>2, <1>4 DEF AnAttempt
<1>6. attempt' = [attempt EXCEPT ![a] = r]
  BY <1>1, <1>4 DEF AttemptsInv
<1>7. SoundAttempt(r) /\ Grows(attempt[a], r)
  BY <1>1, <1>3, <1>5 DEF SoundAttempt, Grows
<1>8. AttemptsInv' /\ \A o \in Attempts : Grows(attempt[o], attempt'[o])
  BY <1>5, <1>6, <1>7, AttemptMoves
<1>9. \A o \in Attempts : attempt'[o].awarded = attempt[o].awarded
  BY <1>5, <1>6 DEF AttemptsInv
<1>. QED  BY <1>8, <1>9 DEF Awarded

(* A chain that moves on while the streak stays.                            *)
LEMMA HookMoves ==
    ASSUME HooksInv, NEW h \in Hooks, NEW n \in AHook, SoundHook(n), hook' = [hook EXCEPT ![h] = n],
           UNCHANGED <<attempt, streak>>
    PROVE  HooksInv'
<1>1. DaysPlayed' = DaysPlayed
  BY DEF DaysPlayed, Completed
<1>2. \A i \in Hooks : SoundHook(hook'[i])
  BY DEF HooksInv
<1>3. \A i \in Hooks : SoundHook(hook[i])'
  BY <1>1, <1>2 DEF SoundHook, RunWithin
<1>4. RunWithin(DaysPlayed, streak)'
  BY <1>1 DEF HooksInv, RunWithin
<1>. QED  BY <1>3, <1>4 DEF HooksInv

(* Attempts that only grow, while chains and the streak stay.               *)
LEMMA HooksStand ==
    ASSUME AttemptsInv, AttemptsInv', \A a \in Attempts : Grows(attempt[a], attempt'[a]),
           HooksInv, UNCHANGED <<hook, streak>>
    PROVE  HooksInv'
<1>1. \A i \in Hooks : hook[i] \in AHook /\ SoundHook(hook[i]) /\ hook'[i] = hook[i]
  BY DEF HooksInv
<1>2. \A i \in Hooks : SoundHook(hook[i])'
  <2>1. ASSUME NEW i \in Hooks PROVE SoundHook(hook[i])'
    <3>1. PICK n : n = hook[i]
      OBVIOUS
    <3>2. SoundHook(n)'
      BY <1>1, <3>1, AttemptsOnlyGrow
    <3>3. n = hook'[i]
      BY <1>1, <3>1
    <3>. QED  BY <3>2, <3>3 DEF SoundHook
  <2>. QED  BY <2>1
<1>3. RunWithin(DaysPlayed, streak)'
  <2>1. PICK s : s = streak
    OBVIOUS
  <2>2. s \in AStreak /\ RunWithin(DaysPlayed, s)
    BY <2>1 DEF HooksInv
  <2>3. RunWithin(DaysPlayed, s)'
    BY <2>2, AttemptsOnlyGrow
  <2>4. s = streak'
    BY <2>1
  <2>. QED  BY <2>3, <2>4 DEF RunWithin
<1>. QED  BY <1>2, <1>3 DEF HooksInv

(* One more day makes a run of played days one longer, or begins a new one. *)
LEMMA RunsGrow ==
    ASSUME NEW s \in AStreak, RunWithin(DaysPlayed, s), NEW d \in DaysPlayed
    PROVE  ApplyDailyCompletion(s, d) \in AStreak /\ RunWithin(DaysPlayed, ApplyDailyCompletion(s, d))
<1>1. CASE s.last = d
  BY <1>1 DEF ApplyDailyCompletion
<1>2. CASE s.last # d
  <2>1. PICK c : c = (IF s.last # 0 /\ s.last + 1 = d THEN s.count + 1 ELSE 1)
    OBVIOUS
  <2>2. s.count \in Nat /\ s.best \in Nat /\ s.last \in Nat /\ d \in Days /\ d \in Nat
    BY DailyNumbers DEF AStreak, DaysPlayed
  <2>3. c \in Nat /\ c > 0 /\ ((c = s.count + 1 /\ s.last + 1 = d) \/ c = 1)
    BY <2>1, <2>2
  <2>4. PICK m : m = Max({s.best, c})
    OBVIOUS
  <2>5. m = IF s.best >= c THEN s.best ELSE c
    <3>1. s.best \in Int /\ c \in Int
      BY <2>2, <2>3
    <3>. QED  BY <2>4, <3>1, GreaterOfTwo
  <2>6. m \in Nat
    BY <2>2, <2>3, <2>5
  <2>7. ApplyDailyCompletion(s, d) = [count |-> c, best |-> m, last |-> d]
    BY <1>2, <2>1, <2>4 DEF ApplyDailyCompletion
  <2>8. \A e \in (d - c + 1)..d : e \in DaysPlayed
    <3>1. CASE c = 1
      BY <2>2, <3>1
    <3>2. CASE c = s.count + 1 /\ s.last + 1 = d
      <4>1. \A e \in (d - c + 1)..d : e = d \/ (s.count > 0 /\ e \in (s.last - s.count + 1)..s.last)
        BY <2>2, <3>2
      <4>. QED  BY <4>1 DEF RunWithin
    <3>. QED  BY <2>3, <3>1, <3>2
  <2>9. \E b \in Days : b + c - 1 <= LastDay /\ \A e \in b..(b + c - 1) : e \in DaysPlayed
    <3>1. PICK b : b = d - c + 1
      OBVIOUS
    <3>2. b \in Int /\ b \in (d - c + 1)..d /\ b + c - 1 = d
      BY <2>2, <2>3, <3>1
    <3>3. b \in Days
      BY <2>8, <3>2 DEF DaysPlayed
    <3>4. b..(b + c - 1) = (d - c + 1)..d /\ d <= LastDay
      BY <2>2, <3>1, <3>2, DailyNumbers DEF Days
    <3>. QED  BY <2>8, <3>2, <3>3, <3>4
  <2>10. m > 0 => \E b \in Days : b + m - 1 <= LastDay /\ \A e \in b..(b + m - 1) : e \in DaysPlayed
    <3>1. CASE m = c
      BY <2>9, <3>1
    <3>2. CASE m = s.best
      BY <3>2 DEF RunWithin
    <3>. QED  BY <2>5, <3>1, <3>2
  <2>11. [count |-> c, best |-> m, last |-> d] \in AStreak
    BY <2>2, <2>3, <2>6 DEF AStreak
  <2>12. RunWithin(DaysPlayed, [count |-> c, best |-> m, last |-> d])
    BY <2>8, <2>10 DEF RunWithin
  <2>. QED  BY <2>7, <2>11, <2>12
<1>. QED  BY <1>1, <1>2

(* The chain's steps that write nothing, or only the mission.               *)
LEMMA HookPasses ==
    ASSUME AttemptsInv, HooksInv, NEW h \in Hooks,
           \/ ReadStreak(h) \/ FireDailyMission(h) \/ FireMilestone(h) \/ HookDies(h)
           \/ \E a \in Attempts : OnGameCompleted(h, a)
    PROVE  HooksInv' /\ UNCHANGED <<attempt, streak>>
<1>1. UNCHANGED <<attempt, streak>>
  BY DEF ReadStreak, FireDailyMission, FireMilestone, HookDies, OnGameCompleted
<1>2. hook[h] \in AHook /\ SoundHook(hook[h]) /\ hook \in [Hooks -> AHook]
  BY DEF HooksInv
<1>3. CASE HookDies(h)
  <2>1. <<1, 1>> \in Attempts
    BY DailyNumbers DEF Attempts, Days, GameNos
  <2>2. IdleHook \in AHook /\ SoundHook(IdleHook)
    BY <2>1 DEF IdleHook, AHook, SoundHook, NoStreak, AStreak
  <2>. QED  BY <1>1, <1>3, <2>2, HookMoves DEF HookDies
<1>4. ASSUME NEW a \in Attempts, OnGameCompleted(h, a) PROVE HooksInv'
  <2>1. PICK n : n = [IdleHook EXCEPT !.pc = "mark", !.of = a, !.known = (attempt[a].status = "completed"),
                                      !.replay = (a \in finished)]
    OBVIOUS
  <2>2. n = [pc |-> "mark", of |-> a, known |-> (attempt[a].status = "completed"), saw |-> NoStreak,
             replay |-> (a \in finished)]
    BY <2>1 DEF IdleHook
  <2>3. n \in AHook
    BY <2>2 DEF AHook, NoStreak, AStreak
  <2>4. attempt[a].game = "completed" /\ hook' = [hook EXCEPT ![h] = n]
    BY <1>4, <2>1 DEF OnGameCompleted
  <2>5. SoundHook(n)
    BY <2>2, <2>4 DEF SoundHook
  <2>. QED  BY <1>1, <2>3, <2>4, <2>5, HookMoves
<1>5. ASSUME NEW p \in {"missions", "milestone", "xp"}, hook[h].pc \in {"missions", "milestone", "xp"},
             hook' = [hook EXCEPT ![h].pc = p]
      PROVE  HooksInv'
  <2>1. PICK n : n = [hook[h] EXCEPT !.pc = p]
    OBVIOUS
  <2>2. n \in AHook /\ n.pc = p /\ n.of = hook[h].of /\ n.known = hook[h].known
    BY <1>2, <2>1 DEF AHook
  <2>3. SoundHook(n)
    BY <1>2, <1>5, <2>2 DEF SoundHook
  <2>4. hook' = [hook EXCEPT ![h] = n]
    BY <1>2, <1>5, <2>1
  <2>. QED  BY <1>1, <2>2, <2>3, <2>4, HookMoves
<1>6. CASE FireDailyMission(h) \/ FireMilestone(h)
  BY <1>5, <1>6 DEF FireDailyMission, FireMilestone, HookTo
<1>7. CASE ReadStreak(h)
  <2>1. PICK n : n = [hook[h] EXCEPT !.pc = "save", !.saw = streak]
    OBVIOUS
  <2>2. /\ n.pc = "save" /\ n.of = hook[h].of /\ n.known = hook[h].known /\ n.saw = streak /\ n.replay = hook[h].replay
        /\ n = [pc |-> "save", of |-> hook[h].of, known |-> hook[h].known, saw |-> streak, replay |-> hook[h].replay]
    BY <1>2, <2>1 DEF AHook
  <2>3. n \in AHook
    BY <1>2, <2>2 DEF AHook, HooksInv
  <2>4. hook[h].pc = "read" /\ hook' = [hook EXCEPT ![h] = n]
    BY <1>2, <1>7, <2>1 DEF ReadStreak
  <2>5. RunWithin(DaysPlayed, n.saw)
    BY <2>2 DEF HooksInv
  <2>6. SoundHook(n)
    BY <1>2, <2>2, <2>4, <2>5 DEF SoundHook
  <2>. QED  BY <1>1, <2>3, <2>4, <2>6, HookMoves
<1>. QED  BY <1>1, <1>3, <1>4, <1>6, <1>7

LEMMA SavesStreak ==
    ASSUME AttemptsInv, HooksInv, NEW h \in Hooks, SaveStreak(h)
    PROVE  HooksInv' /\ attempt' = attempt
<1>1. PICK d : d = hook[h].of[1]
  OBVIOUS
<1>2. /\ hook[h].pc = "save" /\ attempt' = attempt
      /\ streak' = (IF ApplyDailyCompletion(hook[h].saw, d).count = hook[h].saw.count THEN streak
                    ELSE ApplyDailyCompletion(hook[h].saw, d))
      /\ hook' = [hook EXCEPT ![h].pc = "missions", ![h].saw = NoStreak]
  BY <1>1 DEF SaveStreak
<1>3. hook[h] \in AHook /\ SoundHook(hook[h]) /\ hook \in [Hooks -> AHook]
  BY DEF HooksInv
<1>4. hook[h].of \in Attempts /\ hook[h].saw \in AStreak
  BY <1>3 DEF AHook
<1>5. PICK n \in GameNos : hook[h].of = <<d, n>> /\ d \in Days
  BY <1>1, <1>4 DEF Attempts
<1>6. d \in DaysPlayed /\ RunWithin(DaysPlayed, hook[h].saw)
  BY <1>2, <1>3, <1>5 DEF SoundHook, DaysPlayed, Completed
<1>7. PICK s : s = streak'
  OBVIOUS
<1>8. s \in AStreak /\ RunWithin(DaysPlayed, s)
  BY <1>2, <1>4, <1>6, <1>7, RunsGrow DEF HooksInv
<1>9. DaysPlayed' = DaysPlayed
  BY <1>2 DEF DaysPlayed, Completed
<1>10. RunWithin(DaysPlayed, streak)'
  BY <1>7, <1>8, <1>9 DEF RunWithin
<1>11. PICK r : r = [hook[h] EXCEPT !.pc = "missions", !.saw = NoStreak]
  OBVIOUS
<1>12. r = [pc |-> "missions", of |-> hook[h].of, known |-> hook[h].known, saw |-> NoStreak, replay |-> hook[h].replay]
  BY <1>3, <1>11 DEF AHook
<1>13. r \in AHook
  BY <1>3, <1>12 DEF AHook, NoStreak, AStreak
<1>14. SoundHook(r)
  BY <1>2, <1>3, <1>12 DEF SoundHook
<1>15. hook' = [hook EXCEPT ![h] = r]
  BY <1>2, <1>3, <1>11
<1>16. hook' \in [Hooks -> AHook] /\ \A i \in Hooks : SoundHook(hook'[i])
  BY <1>3, <1>13, <1>14, <1>15 DEF HooksInv
<1>17. \A i \in Hooks : SoundHook(hook[i])'
  BY <1>2, <1>9, <1>16 DEF SoundHook, RunWithin
<1>. QED  BY <1>2, <1>7, <1>8, <1>10, <1>16, <1>17 DEF HooksInv

(* The chain's steps that write the attempt: to it and to the chain.        *)
LEMMA HookWrites ==
    ASSUME AttemptsInv, HooksInv, NEW h \in Hooks, NEW r \in AnAttempt, NEW n \in AHook,
           SoundAttempt(r), Grows(attempt[hook[h].of], r), attempt[hook[h].of].game = "completed",
           r.status # "none",
           attempt' = [attempt EXCEPT ![hook[h].of] = r] \/ (attempt' = attempt /\ r = attempt[hook[h].of]),
           hook' = [hook EXCEPT ![h] = n], streak' = streak,
           n.pc # "idle" => /\ n.of = hook[h].of
                            /\ n.pc \in {"result", "read"} /\ r.status = "completed" /\ (n.pc = "read" => r.result)
    PROVE  AttemptsInv' /\ HooksInv'
<1>1. PICK a : a = hook[h].of
  OBVIOUS
<1>2. a \in Attempts /\ attempt \in [Attempts -> AnAttempt] /\ hook \in [Hooks -> AHook]
  BY <1>1 DEF HooksInv, AHook, AttemptsInv
<1>3. attempt' = [attempt EXCEPT ![a] = r]
  BY <1>1, <1>2
<1>4. attempt[a].status # "none"
  BY <1>1, <1>2 DEF AttemptsInv, SoundAttempt
<1>5. Grows(attempt[a], r) /\ (r.status = "none" <=> attempt[a].status = "none")
  BY <1>1, <1>4
<1>6. AttemptsInv' /\ \A o \in Attempts : Grows(attempt[o], attempt'[o])
  BY <1>2, <1>3, <1>5, AttemptMoves
<1>7. attempt'[a] = r /\ r.game = "completed"
  BY <1>1, <1>2, <1>3 DEF Grows
<1>8. SoundHook(n)'
  BY <1>1, <1>7 DEF SoundHook
<1>9. ASSUME NEW i \in Hooks PROVE SoundHook(hook[i])'
  <2>1. CASE i = h
    <3>1. hook'[i] = n
      BY <1>2, <2>1
    <3>. QED  BY <1>8, <3>1 DEF SoundHook
  <2>2. CASE i # h
    <3>1. PICK m : m = hook[i]
      OBVIOUS
    <3>2. m \in AHook /\ SoundHook(m) /\ hook'[i] = m
      BY <1>2, <2>2, <3>1 DEF HooksInv
    <3>3. SoundHook(m)'
      BY <1>6, <3>2, AttemptsOnlyGrow
    <3>. QED  BY <3>2, <3>3 DEF SoundHook
  <2>. QED  BY <2>1, <2>2
<1>10. RunWithin(DaysPlayed, streak)'
  <2>1. PICK s : s = streak
    OBVIOUS
  <2>2. s \in AStreak /\ RunWithin(DaysPlayed, s)
    BY <2>1 DEF HooksInv
  <2>3. RunWithin(DaysPlayed, s)'
    BY <1>6, <2>2, AttemptsOnlyGrow
  <2>4. s = streak'
    BY <2>1
  <2>. QED  BY <2>3, <2>4 DEF RunWithin
<1>11. hook' \in [Hooks -> AHook] /\ streak' \in AStreak
  BY <1>2 DEF HooksInv
<1>. QED  BY <1>6, <1>9, <1>10, <1>11 DEF HooksInv

LEMMA MarksAttempt ==
    ASSUME AttemptsInv, HooksInv, NEW h \in Hooks, UpdateAttemptCompletion(h)
    PROVE  AttemptsInv' /\ HooksInv' /\ Awarded' = Awarded
<1>1. PICK a : a = hook[h].of
  OBVIOUS
<1>2. /\ hook[h].pc = "mark" /\ hook' = [hook EXCEPT ![h].pc = "result", ![h].known = FALSE] /\ streak' = streak
      /\ attempt' = (IF hook[h].known THEN attempt ELSE [attempt EXCEPT ![a].status = "completed"])
  BY <1>1 DEF UpdateAttemptCompletion
<1>3. hook[h] \in AHook /\ SoundHook(hook[h]) /\ hook \in [Hooks -> AHook]
  BY DEF HooksInv
<1>4. a \in Attempts /\ attempt[a].game = "completed" /\ (hook[h].known => attempt[a].status = "completed")
  BY <1>1, <1>2, <1>3 DEF SoundHook, AHook
<1>5. attempt[a] \in AnAttempt /\ SoundAttempt(attempt[a])
  BY <1>4 DEF AttemptsInv
<1>6. PICK r : r = IF hook[h].known THEN attempt[a] ELSE [attempt[a] EXCEPT !.status = "completed"]
  OBVIOUS
<1>7. /\ r \in AnAttempt /\ r.status = "completed" /\ r.game = "completed" /\ r.result = attempt[a].result
      /\ r.awarded = attempt[a].awarded
  BY <1>4, <1>5, <1>6 DEF AnAttempt
<1>8. SoundAttempt(r) /\ Grows(attempt[a], r)
  BY <1>5, <1>7 DEF SoundAttempt, Grows
<1>9. attempt' = [attempt EXCEPT ![a] = r] \/ (attempt' = attempt /\ r = attempt[a])
  BY <1>2, <1>6 DEF AttemptsInv
<1>10. PICK n : n = [hook[h] EXCEPT !.pc = "result", !.known = FALSE]
  OBVIOUS
<1>11. n = [pc |-> "result", of |-> a, known |-> FALSE, saw |-> hook[h].saw, replay |-> hook[h].replay]
  BY <1>1, <1>3, <1>10 DEF AHook
<1>12. n \in AHook /\ n.pc = "result" /\ n.of = a
  BY <1>3, <1>4, <1>11 DEF AHook
<1>13. hook' = [hook EXCEPT ![h] = n]
  BY <1>2, <1>3, <1>10
<1>14. AttemptsInv' /\ HooksInv'
  <2>1. n.pc # "idle" => /\ n.of = hook[h].of
                         /\ n.pc \in {"result", "read"} /\ r.status = "completed" /\ (n.pc = "read" => r.result)
    BY <1>1, <1>7, <1>12
  <2>2. r.status # "none"
    BY <1>7
  <2>3. attempt' = [attempt EXCEPT ![hook[h].of] = r] \/ (attempt' = attempt /\ r = attempt[hook[h].of])
    BY <1>1, <1>9
  <2>4. Grows(attempt[hook[h].of], r) /\ attempt[hook[h].of].game = "completed" /\ r \in AnAttempt /\ SoundAttempt(r)
    BY <1>1, <1>4, <1>7, <1>8
  <2>5. n \in AHook /\ hook' = [hook EXCEPT ![h] = n] /\ streak' = streak
    BY <1>2, <1>12, <1>13
  <2>. QED  BY <2>1, <2>2, <2>3, <2>4, <2>5, HookWrites
<1>15. \A o \in Attempts : attempt'[o].awarded = attempt[o].awarded
  BY <1>4, <1>7, <1>9 DEF AttemptsInv
<1>. QED  BY <1>14, <1>15 DEF Awarded

LEMMA WritesResult ==
    ASSUME AttemptsInv, HooksInv, NEW h \in Hooks, CreateResult(h)
    PROVE  AttemptsInv' /\ HooksInv' /\ Awarded' = Awarded
<1>1. PICK a : a = hook[h].of
  OBVIOUS
<1>2. /\ hook[h].pc = "result" /\ hook' = [hook EXCEPT ![h].pc = "read"] /\ streak' = streak
      /\ attempt' = [attempt EXCEPT ![a].result = TRUE]
  BY <1>1 DEF CreateResult, HookTo
<1>3. hook[h] \in AHook /\ SoundHook(hook[h]) /\ hook \in [Hooks -> AHook]
  BY DEF HooksInv
<1>4. a \in Attempts /\ attempt[a].game = "completed" /\ attempt[a].status = "completed"
  BY <1>1, <1>2, <1>3 DEF SoundHook, AHook
<1>5. attempt[a] \in AnAttempt /\ SoundAttempt(attempt[a])
  BY <1>4 DEF AttemptsInv
<1>6. PICK r : r = [attempt[a] EXCEPT !.result = TRUE]
  OBVIOUS
<1>7. r \in AnAttempt /\ r.status = "completed" /\ r.game = "completed" /\ r.result /\ r.awarded = attempt[a].awarded
  BY <1>4, <1>5, <1>6 DEF AnAttempt
<1>8. SoundAttempt(r) /\ Grows(attempt[a], r)
  BY <1>5, <1>7 DEF SoundAttempt, Grows
<1>9. attempt' = [attempt EXCEPT ![a] = r]
  BY <1>2, <1>6 DEF AttemptsInv
<1>10. PICK n : n = [hook[h] EXCEPT !.pc = "read"]
  OBVIOUS
<1>11. n \in AHook /\ n.pc = "read" /\ n.of = a
  BY <1>1, <1>3, <1>10 DEF AHook
<1>12. hook' = [hook EXCEPT ![h] = n]
  BY <1>2, <1>3, <1>10
<1>13. AttemptsInv' /\ HooksInv'
  <2>1. n.pc # "idle" => /\ n.of = hook[h].of
                         /\ n.pc \in {"result", "read"} /\ r.status = "completed" /\ (n.pc = "read" => r.result)
    BY <1>1, <1>7, <1>11
  <2>2. r.status # "none"
    BY <1>7
  <2>3. attempt' = [attempt EXCEPT ![hook[h].of] = r] \/ (attempt' = attempt /\ r = attempt[hook[h].of])
    BY <1>1, <1>9
  <2>4. Grows(attempt[hook[h].of], r) /\ attempt[hook[h].of].game = "completed" /\ r \in AnAttempt /\ SoundAttempt(r)
    BY <1>1, <1>4, <1>7, <1>8
  <2>5. n \in AHook /\ hook' = [hook EXCEPT ![h] = n] /\ streak' = streak
    BY <1>2, <1>11, <1>12
  <2>. QED  BY <2>1, <2>2, <2>3, <2>4, <2>5, HookWrites
<1>14. \A o \in Attempts : attempt'[o].awarded = attempt[o].awarded
  BY <1>4, <1>7, <1>9 DEF AttemptsInv
<1>. QED  BY <1>13, <1>14 DEF Awarded

LEMMA AwardsAreFinite ==
    /\ IsFiniteSet(Awarded) /\ IsFiniteSet(Claimed)
    /\ Cardinality(Awarded) \in Nat /\ Cardinality(Claimed) \in Nat
<1>1. Awarded \in SUBSET Attempts /\ Claimed \in SUBSET Missions
  BY DEF Awarded, Claimed
<1>. QED  BY <1>1, DailyNumbers, FS_Subset, FS_CardinalityType

LEMMA AwardsXP ==
    ASSUME AttemptsInv, HooksInv, XPInv, NEW h \in Hooks, AwardAccountXP(h)
    PROVE  AttemptsInv' /\ HooksInv' /\ XPInv'
<1>1. PICK a : a = hook[h].of
  OBVIOUS
<1>2. /\ hook[h].pc = "xp" /\ hook' = [hook EXCEPT ![h] = IdleHook] /\ UNCHANGED <<streak, mission>>
      /\ attempt' = [attempt EXCEPT ![a].awarded = TRUE]
      /\ xp' = IF ~attempt[a].awarded THEN xp + 1 ELSE xp
  BY <1>1 DEF AwardAccountXP, AwardDue
<1>3. hook[h] \in AHook /\ SoundHook(hook[h])
  BY DEF HooksInv
<1>4. a \in Attempts /\ attempt[a].game = "completed" /\ attempt[a].status = "completed" /\ attempt[a].result
  BY <1>1, <1>2, <1>3 DEF SoundHook, AHook
<1>5. attempt[a] \in AnAttempt /\ SoundAttempt(attempt[a])
  BY <1>4 DEF AttemptsInv
<1>6. PICK r : r = [attempt[a] EXCEPT !.awarded = TRUE]
  OBVIOUS
<1>7. r \in AnAttempt /\ r.status = "completed" /\ r.game = "completed" /\ r.result /\ r.awarded
  BY <1>4, <1>5, <1>6 DEF AnAttempt
<1>8. SoundAttempt(r) /\ Grows(attempt[a], r)
  BY <1>7 DEF SoundAttempt, Grows
<1>9. attempt' = [attempt EXCEPT ![a] = r]
  BY <1>2, <1>6 DEF AttemptsInv
<1>10. IdleHook \in AHook /\ IdleHook.pc = "idle"
  <2>1. <<1, 1>> \in Attempts
    BY DailyNumbers DEF Attempts, Days, GameNos
  <2>. QED  BY <2>1 DEF IdleHook, AHook, NoStreak, AStreak
<1>11. AttemptsInv' /\ HooksInv'
  BY <1>1, <1>2, <1>4, <1>7, <1>8, <1>9, <1>10, HookWrites
<1>12. Claimed' = Claimed /\ Awarded' = Awarded \cup {a} /\ (a \in Awarded <=> attempt[a].awarded)
  BY <1>2, <1>4, <1>7, <1>9 DEF Claimed, Awarded, AttemptsInv
<1>13. Cardinality(Awarded') = IF attempt[a].awarded THEN Cardinality(Awarded) ELSE Cardinality(Awarded) + 1
  BY <1>12, AwardsAreFinite, FS_AddElement
<1>14. XPInv'
  <2>1. CASE attempt[a].awarded
    BY <1>2, <1>12, <1>13, <2>1, AwardsAreFinite DEF XPInv
  <2>2. CASE ~attempt[a].awarded
    BY <1>2, <1>12, <1>13, <2>2, AwardsAreFinite DEF XPInv
  <2>. QED  BY <2>1, <2>2
<1>. QED  BY <1>11, <1>14

-----------------------------------------------------------------------------
LEMMA TargetIsNat == ASSUME NEW m \in Missions PROVE Target(m) \in Nat /\ Target(m) > 0
  BY DailyNumbers DEF Target

(* An event counts once; progress is that of distinct events, to the target. *)
LEMMA EventCounts ==
    ASSUME MissionsInv, NEW k \in Missions, NEW e \in Sources,
           mission' = [mission EXCEPT ![k] = WithEvent(mission[k], e, Target(k))], today' = today
    PROVE  MissionsInv' /\ Claimed' = Claimed
<1>. DEFINE Rec == [value : Nat, events : SUBSET Sources, claimed : BOOLEAN]
<1>1. mission[k] \in Rec /\ mission \in [Missions -> Rec]
  BY DEF MissionsInv
<1>2. PICK w : w = WithEvent(mission[k], e, Target(k))
  OBVIOUS
<1>3. PICK t, v : t = Target(k) /\ v = mission[k].value
  OBVIOUS
<1>4. PICK c : c = Cardinality(mission[k].events)
  OBVIOUS
<1>5. t \in Nat /\ v \in Nat /\ c \in Nat /\ t > 0
  <2>1. IsFiniteSet(mission[k].events)
    BY <1>1, DailyNumbers, FS_Subset
  <2>. QED  BY <1>1, <1>3, <1>4, <2>1, TargetIsNat, FS_CardinalityType
<1>6. v = IF t <= c THEN t ELSE c
  <2>1. t \in Int /\ c \in Int
    BY <1>5
  <2>2. Min({t, c}) = IF t <= c THEN t ELSE c
    BY <2>1, LesserOfTwo
  <2>3. v = Min({t, c})
    BY <1>3, <1>4 DEF MissionsInv
  <2>. QED  BY <2>2, <2>3
<1>7. CASE e \in mission[k].events
  <2>1. w = mission[k]
    BY <1>2, <1>7 DEF WithEvent
  <2>2. mission' = mission
    BY <1>1, <1>2, <2>1
  <2>. QED  BY <2>2 DEF MissionsInv, Claimed
<1>8. CASE e \notin mission[k].events
  <2>1. w = [mission[k] EXCEPT !.events = mission[k].events \cup {e}, !.value = Min({v + 1, t})]
    BY <1>2, <1>3, <1>8 DEF WithEvent
  <2>2. w = [value |-> Min({v + 1, t}), events |-> mission[k].events \cup {e}, claimed |-> mission[k].claimed]
    BY <1>1, <2>1
  <2>3. Cardinality(mission[k].events \cup {e}) = c + 1
    <3>1. IsFiniteSet(mission[k].events)
      BY <1>1, DailyNumbers, FS_Subset
    <3>. QED  BY <1>4, <1>8, <3>1, FS_AddElement
  <2>4. Min({v + 1, t}) = IF v + 1 <= t THEN v + 1 ELSE t
    <3>1. v + 1 \in Int /\ t \in Int
      BY <1>5
    <3>. QED  BY <3>1, LesserOfTwo
  <2>5. Min({t, c + 1}) = IF t <= c + 1 THEN t ELSE c + 1
    <3>1. c + 1 \in Int /\ t \in Int
      BY <1>5
    <3>. QED  BY <3>1, LesserOfTwo
  <2>6. w.value = Min({t, Cardinality(w.events)}) /\ w.value \in Nat /\ (v = t => w.value = t)
    BY SMTT(30), <1>5, <1>6, <2>2, <2>3, <2>4, <2>5
  <2>7. w \in Rec /\ w.claimed = mission[k].claimed
    BY <1>1, <2>2, <2>6
  <2>8. w.claimed => w.value = t
    BY <1>3, <2>6, <2>7 DEF MissionsInv
  <2>9. mission' \in [Missions -> Rec] /\ mission'[k] = w /\ \A m \in Missions : m # k => mission'[m] = mission[m]
    BY <1>1, <1>2, <2>7
  <2>10. \A m \in Missions : Target(m)' = Target(m)
    BY DEF Target
  <2>11. ASSUME NEW m \in Missions
         PROVE  /\ mission'[m].value = Min({Target(m), Cardinality(mission'[m].events)})
                /\ mission'[m].claimed => mission'[m].value = Target(m)
    <3>1. CASE m = k
      BY <1>3, <2>6, <2>8, <2>9, <3>1
    <3>2. CASE m # k
      BY <2>9, <3>2 DEF MissionsInv
    <3>. QED  BY <3>1, <3>2
  <2>12. Claimed' = Claimed
    BY <2>7, <2>9 DEF Claimed
  <2>. QED  BY <2>9, <2>10, <2>11, <2>12 DEF MissionsInv
<1>. QED  BY <1>7, <1>8

LEMMA ChainFiresMissions ==
    ASSUME MissionsInv, HooksInv, NEW h \in Hooks, FireDailyMission(h) \/ FireMilestone(h)
    PROVE  MissionsInv' /\ Claimed' = Claimed /\ xp' = xp
<1>1. hook[h].of \in Attempts
  BY DEF HooksInv, AHook
<1>2. PICK d \in Days, n \in GameNos : hook[h].of = <<d, n>>
  BY <1>1 DEF Attempts
<1>3. <<d, n>> \in Sources /\ <<d, 0>> \in Sources
  BY DailyNumbers DEF Sources, GameNos
<1>4. CASE FireDailyMission(h)
  <2>1. mission' = [mission EXCEPT ![today] = WithEvent(mission[today], <<d, n>>, 1)] /\ today' = today /\ xp' = xp
    BY <1>2, <1>4 DEF FireDailyMission
  <2>2. today \in Missions /\ Target(today) = 1
    BY DailyNumbers DEF MissionsInv, Missions, Target, Week
  <2>. QED  BY <1>3, <2>1, <2>2, EventCounts
<1>5. CASE FireMilestone(h)
  <2>1. mission' = [mission EXCEPT ![Week] = WithEvent(mission[Week], <<d, 0>>, Milestone)] /\ today' = today /\ xp' = xp
    BY <1>2, <1>5 DEF FireMilestone
  <2>2. Week \in Missions /\ Target(Week) = Milestone
    BY DEF Missions, Target
  <2>. QED  BY <1>3, <2>1, <2>2, EventCounts
<1>. QED  BY <1>4, <1>5

LEMMA ClaimsOnce ==
    ASSUME MissionsInv, XPInv, NEW m \in Missions, ClaimMission(m)
    PROVE  MissionsInv' /\ XPInv'
<1>1. /\ MissionStatus(m) = "completed" /\ mission' = [mission EXCEPT ![m].claimed = TRUE]
      /\ xp' = xp + 1 /\ UNCHANGED <<today, attempt>>
  BY DEF ClaimMission
<1>2. ~mission[m].claimed /\ mission[m].value >= Target(m)
  BY <1>1 DEF MissionStatus
<1>3. mission[m].value = Target(m)
  <2>1. IsFiniteSet(mission[m].events)
    BY DailyNumbers, FS_Subset DEF MissionsInv
  <2>2. PICK t, c : t = Target(m) /\ c = Cardinality(mission[m].events)
    OBVIOUS
  <2>3. t \in Int /\ c \in Int
    BY <2>1, <2>2, TargetIsNat, FS_CardinalityType
  <2>4. mission[m].value = IF t <= c THEN t ELSE c
    BY <2>2, <2>3, LesserOfTwo DEF MissionsInv
  <2>. QED  BY <1>2, <2>2, <2>3, <2>4
<1>4. /\ mission' \in [Missions -> [value : Nat, events : SUBSET Sources, claimed : BOOLEAN]]
      /\ \A k \in Missions : /\ mission'[k].value = mission[k].value /\ mission'[k].events = mission[k].events
                             /\ mission'[k].claimed <=> mission[k].claimed \/ k = m
  BY <1>1 DEF MissionsInv
<1>5. MissionsInv'
  <2>1. \A k \in Missions : Target(k)' = Target(k)
    BY DEF Target
  <2>. QED  BY <1>1, <1>3, <1>4, <2>1 DEF MissionsInv
<1>6. Claimed' = Claimed \cup {m} /\ m \notin Claimed /\ Awarded' = Awarded
  BY <1>1, <1>2, <1>4 DEF Claimed, Awarded
<1>7. Cardinality(Claimed') = Cardinality(Claimed) + 1
  BY <1>6, AwardsAreFinite, FS_AddElement
<1>. QED  BY <1>1, <1>5, <1>6, <1>7, AwardsAreFinite DEF XPInv

-----------------------------------------------------------------------------
LEMMA DailyStep == DailyInv /\ [DailyNext]_dailyVars => DailyInv'
<1>. SUFFICES ASSUME DailyInv, [DailyNext]_dailyVars PROVE DailyInv'
  OBVIOUS
<1>1. AttemptsInv /\ HooksInv /\ MissionsInv /\ XPInv
  BY DEF DailyInv
<1>2. ASSUME AttemptsInv', \A o \in Attempts : Grows(attempt[o], attempt'[o]), Awarded' = Awarded,
             UNCHANGED <<today, streak, mission, xp, hook>>
      PROVE  DailyInv'
  <2>1. HooksInv'
    BY <1>1, <1>2, HooksStand
  <2>2. MissionsInv' /\ Claimed' = Claimed
    BY <1>1, <1>2 DEF MissionsInv, Target, Claimed
  <2>. QED  BY <1>1, <1>2, <2>1, <2>2 DEF DailyInv, XPInv
<1>3. ASSUME UNCHANGED attempt PROVE AttemptsInv' /\ Awarded' = Awarded
  BY <1>1, <1>3 DEF AttemptsInv, Awarded, InTurn, Completed
<1>4. ASSUME UNCHANGED <<today, mission>> PROVE MissionsInv' /\ Claimed' = Claimed
  BY <1>1, <1>4 DEF MissionsInv, Target, Claimed
<1>5. ASSUME NEW d \in Days, CreateAttempt(d) PROVE DailyInv'
  <2>1. UNCHANGED <<today, streak, mission, xp, hook>>
    BY <1>5 DEF CreateAttempt
  <2>. QED  BY <1>1, <1>2, <1>5, <2>1, Creates
<1>6. CASE StartDailyAttempt
  <2>1. today \in Days /\ CreateAttempt(today)
    BY <1>1, <1>6 DEF MissionsInv, StartDailyAttempt
  <2>. QED  BY <1>5, <2>1
<1>7. ASSUME NEW d \in Days, StartChallengeAttempt(d) \/ StartAttemptGame(d) PROVE DailyInv'
  <2>1. CASE StartChallengeAttempt(d)
    BY <1>5, <2>1 DEF StartChallengeAttempt
  <2>2. CASE StartAttemptGame(d)
    <3>1. UNCHANGED <<today, streak, mission, xp, hook>>
      BY <2>2 DEF StartAttemptGame
    <3>. QED  BY <1>1, <1>2, <2>2, <3>1, StartsAttempt
  <2>. QED  BY <1>7, <2>1, <2>2
<1>8. ASSUME NEW a \in Attempts, StartGameOfAttempt(a) \/ CompleteGameOfAttempt(a) PROVE DailyInv'
  <2>1. UNCHANGED <<today, streak, mission, xp, hook>>
    BY <1>8 DEF StartGameOfAttempt, CompleteGameOfAttempt
  <2>. QED  BY <1>1, <1>2, <1>8, <2>1, PlaysAttempt
<1>9. ASSUME NEW h \in Hooks, UpdateAttemptCompletion(h) \/ CreateResult(h) PROVE DailyInv'
  <2>1. UNCHANGED <<today, mission, xp>>
    BY <1>9 DEF UpdateAttemptCompletion, CreateResult
  <2>2. AttemptsInv' /\ HooksInv' /\ Awarded' = Awarded
    BY <1>1, <1>9, MarksAttempt, WritesResult
  <2>. QED  BY <1>1, <1>4, <2>1, <2>2 DEF DailyInv, XPInv
<1>10. ASSUME NEW h \in Hooks, FireDailyMission(h) \/ FireMilestone(h) PROVE DailyInv'
  <2>1. HooksInv' /\ UNCHANGED attempt
    BY <1>1, <1>10, HookPasses
  <2>2. MissionsInv' /\ Claimed' = Claimed /\ xp' = xp
    BY <1>1, <1>10, ChainFiresMissions
  <2>. QED  BY <1>1, <1>3, <2>1, <2>2 DEF DailyInv, XPInv
<1>11. ASSUME NEW h \in Hooks,
              ReadStreak(h) \/ HookDies(h) \/ SaveStreak(h) \/ \E a \in Attempts : OnGameCompleted(h, a)
       PROVE  DailyInv'
  <2>1. UNCHANGED <<today, mission, xp, attempt>>
    BY <1>11 DEF ReadStreak, HookDies, SaveStreak, OnGameCompleted
  <2>2. HooksInv'
    BY <1>1, <1>11, HookPasses, SavesStreak
  <2>. QED  BY <1>1, <1>3, <1>4, <2>1, <2>2 DEF DailyInv, XPInv
<1>12. ASSUME NEW h \in Hooks, AwardAccountXP(h) PROVE DailyInv'
  <2>1. UNCHANGED <<today, mission>>
    BY <1>12 DEF AwardAccountXP
  <2>. QED  BY <1>1, <1>4, <1>12, <2>1, AwardsXP DEF DailyInv
<1>13. ASSUME NEW m \in Missions, ClaimMission(m) PROVE DailyInv'
  <2>1. UNCHANGED <<attempt, streak, hook>>
    BY <1>13 DEF ClaimMission
  <2>2. \A a \in Attempts : Grows(attempt[a], attempt'[a])
    BY <2>1 DEF Grows
  <2>. QED  BY <1>1, <1>3, <1>13, <2>1, <2>2, HooksStand, ClaimsOnce DEF DailyInv
<1>14. ASSUME UNCHANGED <<attempt, streak, hook, mission, xp>>, today' \in Days PROVE DailyInv'
  <2>1. \A a \in Attempts : Grows(attempt[a], attempt'[a])
    BY <1>14 DEF Grows
  <2>2. HooksInv'
    BY <1>1, <1>3, <1>14, <2>1, HooksStand
  <2>3. MissionsInv' /\ Claimed' = Claimed
    BY <1>1, <1>14 DEF MissionsInv, Target, Claimed
  <2>. QED  BY <1>1, <1>3, <1>14, <2>2, <2>3 DEF DailyInv, XPInv
<1>15. CASE NextDay
  <2>1. today' \in Days /\ UNCHANGED <<attempt, streak, hook, mission, xp>>
    BY <1>1, <1>15, DailyNumbers DEF NextDay, MissionsInv, Days
  <2>. QED  BY <1>14, <2>1
<1>16. CASE UNCHANGED dailyVars
  BY <1>1, <1>14, <1>16 DEF dailyVars, MissionsInv
<1>17. CASE DailyNext
  BY <1>6, <1>7, <1>8, <1>9, <1>10, <1>11, <1>12, <1>13, <1>15, <1>17 DEF DailyNext
<1>. QED  BY <1>16, <1>17

(* The games a day counts are the attempts completed on it.                 *)
LEMMA CountsGames ==
    ASSUME DailyInv, NEW d \in Days
    PROVE  GamesPlayed(d) = Cardinality({n \in GameNos : Completed(d, n)})
<1>1. AttemptsInv
  BY DEF DailyInv
<1>2. PICK l \in 0..GamesPerDay : InTurn(d, l)
  BY <1>1 DEF AttemptsInv
<1>3. LatestNo(d) = l /\ l \in Nat /\ l <= GamesPerDay
  BY <1>1, <1>2, LatestIsLast, DailyNumbers
<1>4. PICK k \in 0..l : k = IF l = 0 THEN 0 ELSE IF Completed(d, l) THEN l ELSE l - 1
  BY <1>3
<1>5. ASSUME NEW n \in GameNos PROVE Completed(d, n) <=> n <= k
  <2>1. n \in Nat /\ n > 0
    BY DailyNumbers DEF GameNos
  <2>2. CASE n < l
    <3>1. Completed(d, n)
      BY <1>2, <2>2 DEF InTurn
    <3>2. k = l \/ k = l - 1
      BY <1>3, <1>4, <2>1, <2>2
    <3>3. n <= k
      BY <1>3, <2>1, <2>2, <3>2
    <3>. QED  BY <3>1, <3>3
  <2>3. CASE n = l
    BY <1>3, <1>4, <2>1, <2>3
  <2>4. CASE n > l
    <3>1. attempt[<<d, n>>].status = "none"
      BY <1>2, <2>4 DEF InTurn
    <3>. QED  BY <1>3, <1>4, <2>1, <2>4, <3>1 DEF Completed
  <2>. QED  BY <1>3, <2>1, <2>2, <2>3, <2>4
<1>6. {n \in GameNos : Completed(d, n)} = 1..k
  <2>1. {n \in GameNos : Completed(d, n)} = {n \in GameNos : n <= k}
    BY <1>5
  <2>2. {n \in GameNos : n <= k} = 1..k
    BY <1>3, <1>4, DailyNumbers DEF GameNos
  <2>. QED  BY <2>1, <2>2
<1>7. Cardinality(1..k) = k
  <2>1. Cardinality(1..k) = IF 1 > k THEN 0 ELSE k - 1 + 1
    BY <1>3, <1>4, FS_Interval
  <2>. QED  BY <1>3, <1>4, <2>1
<1>8. GamesPlayed(d) = k
  BY <1>3, <1>4 DEF GamesPlayed
<1>. QED  BY <1>6, <1>7, <1>8

LEMMA CreditsFollow == DailyInv => CreditsStand
<1>. SUFFICES ASSUME DailyInv PROVE CreditsStand
  OBVIOUS
<1>1. AttemptsInv /\ HooksInv /\ MissionsInv /\ XPInv
  BY DEF DailyInv
<1>2. \A a \in Attempts : SoundAttempt(attempt[a])
  BY <1>1 DEF AttemptsInv
<1>3. xp = Cardinality({a \in Attempts : attempt[a].awarded}) + Cardinality({m \in Missions : mission[m].claimed})
  BY <1>1 DEF XPInv, Awarded, Claimed
<1>4. RewardsAddUp
  BY <1>1, <1>2, <1>3, CountsGames DEF RewardsAddUp, MissionsInv, SoundAttempt
<1>5. StreakNeverOverstated
  <2>1. RunWithin(DaysPlayed, streak)
    BY <1>1 DEF HooksInv
  <2>. QED  BY <2>1 DEF RunWithin, DaysPlayed, StreakNeverOverstated
<1>. QED  BY <1>4, <1>5 DEF CreditsStand

(* However completion chains overlap, die and are repeated, rewards add up  *)
(* and no streak claims a day without a completed daily.                    *)
THEOREM CreditsAlwaysStand == DailySpec => []CreditsStand
<1>. QED  BY DailyBegins, DailyStep, CreditsFollow, PTL DEF DailySpec

-----------------------------------------------------------------------------
(* Leaderboards.                                                            *)

(* What EntryIsBest needs: only completed games are projected.              *)
EntryInv ==
    /\ score \in [BoardGames -> 0..BestScore]
    /\ entry.score \in 0..BestScore /\ entry.played \in Nat
    /\ projected \subseteq Played
    /\ projection \in [Projections -> [pc : {"idle", "boards", "bump"}, game : BoardGames \cup {"none"}]]
    /\ \A p \in Projections : projection[p].pc # "idle" => projection[p].game \in Played
    /\ EntryIsBest

(* A read n of r under a version began with the commits announced by it, as *)
(* did every other read under that version; the cached page is no older.    *)
FitsRead(r, n) == n.pc # "idle" =>
    /\ n.ver <= CurrentVersion /\ n.floor <= commits
    /\ n.ver = CurrentVersion => n.floor = sealed
    /\ n.pc \in {"get", "set"} => n.ver >= 1
    /\ n.pc \in {"set", "reply"} => n.page >= n.floor
    /\ n.ver >= 1 =>
         /\ pages[n.ver] # -1 => pages[n.ver] >= n.floor
         /\ \A q \in Readers : q # r /\ reader[q].pc # "idle" /\ reader[q].ver = n.ver =>
              reader[q].floor = n.floor

Read == [pc : {"idle", "get", "load", "set", "reply"}, ver : 0..(MaxBumps + 1), page : Nat, floor : Nat]

(* What PagesFollowBumps needs: who reads under the same version began with *)
(* the same commits announced, and no page of that version is older.        *)
BoardPagesInv ==
    /\ commits \in Nat /\ version \in 0..MaxBumps /\ sealed \in 0..commits
    /\ pages \in [1..(MaxBumps + 1) -> Nat \cup {-1}]
    /\ reader \in [Readers -> Read]
    /\ \A v \in 1..(MaxBumps + 1) : pages[v] # -1 => v <= CurrentVersion
    /\ pages[CurrentVersion] # -1 => pages[CurrentVersion] >= sealed
    /\ \A r \in Readers : FitsRead(r, reader[r])

-----------------------------------------------------------------------------
LEMMA BoardBegins == BoardInit => EntryInv /\ BoardPagesInv
<1>. SUFFICES ASSUME BoardInit PROVE EntryInv /\ BoardPagesInv
  OBVIOUS
<1>1. Played = {} /\ projected = {} /\ entry.score = 0 /\ entry.played = 0 /\ Cardinality({}) = 0
  BY FS_EmptySet DEF BoardInit, Played, NoEntry
<1>2. EntryInv
  BY <1>1, BoardAssumption DEF BoardInit, EntryInv, EntryIsBest, IdleProjection
<1>3. \A v \in 1..(MaxBumps + 1) : pages[v] = -1
  BY DEF BoardInit
<1>4. CurrentVersion = 1 /\ 1 \in 1..(MaxBumps + 1) /\ 0 \in 0..(MaxBumps + 1) /\ 0 \in 0..MaxBumps
  BY BoardAssumption DEF BoardInit, CurrentVersion
<1>5. IdleReader \in Read
      /\ IdleReader.pc = "idle"
  BY <1>4 DEF IdleReader, Read
<1>6. /\ reader \in [Readers -> Read]
      /\ \A r \in Readers : reader[r].pc = "idle"
  BY <1>5 DEF BoardInit
<1>7. /\ pages \in [1..(MaxBumps + 1) -> Nat \cup {-1}] /\ commits = 0 /\ sealed = 0 /\ version = 0
  BY DEF BoardInit
<1>8. BoardPagesInv
  BY <1>3, <1>4, <1>6, <1>7 DEF BoardPagesInv, FitsRead
<1>. QED  BY <1>2, <1>8

LEMMA PlayedAreFinite ==
    /\ IsFiniteSet(Played) /\ Cardinality(Played) \in Nat
    /\ \A S \in SUBSET Played : IsFiniteSet(S) /\ Cardinality(S) \in Nat /\ Cardinality(S) <= Cardinality(Played)
<1>1. Played \in SUBSET BoardGames
  BY DEF Played
<1>2. IsFiniteSet(Played)
  BY <1>1, BoardAssumption, FS_Subset
<1>. QED  BY <1>2, FS_Subset, FS_CardinalityType

LEMMA BestGameIsBest ==
    ASSUME score \in [BoardGames -> 0..BestScore], NEW g \in Played
    PROVE  BestGame(g) \in Played /\ \A o \in Played : score[BestGame(g)] >= score[o]
<1>. DEFINE T == {BestScore - score[o] : o \in Played}
<1>1. \A o \in Played : score[o] \in 0..BestScore /\ BestScore \in Nat
  BY BoardAssumption DEF Played
<1>2. T \in SUBSET Nat /\ T # {}
  BY <1>1
<1>3. PICK n \in T : \A m \in T : n <= m
  BY <1>2, LeastNumber
<1>4. PICK b \in Played : n = BestScore - score[b]
  BY <1>3
<1>5. \A o \in Played : score[b] >= score[o]
  <2>1. TAKE o \in Played
  <2>2. BestScore - score[o] \in T
    OBVIOUS
  <2>3. BestScore - score[b] <= BestScore - score[o]
    BY <1>3, <1>4, <2>2
  <2>. QED  BY <1>1, <1>4, <2>3
<1>. QED  BY <1>4, <1>5 DEF BestGame

LEMMA CompletesGame ==
    ASSUME EntryInv, NEW g \in BoardGames, NEW s \in 1..BestScore, CompleteBoardGame(g, s)
    PROVE  EntryInv'
<1>1. /\ score' = [score EXCEPT ![g] = s] /\ score[g] = 0 /\ UNCHANGED <<entry, projected, projection>>
  BY DEF CompleteBoardGame
<1>2. s \in 0..BestScore /\ s > 0
  BY BoardAssumption
<1>3. score' \in [BoardGames -> 0..BestScore] /\ \A o \in BoardGames : score'[o] = IF o = g THEN s ELSE score[o]
  BY <1>1, <1>2 DEF EntryInv
<1>4. Played' = Played \cup {g} /\ g \notin Played
  BY <1>1, <1>2, <1>3 DEF Played
<1>5. Cardinality(Played') = Cardinality(Played) + 1
  BY <1>4, PlayedAreFinite, FS_AddElement
<1>6. \A o \in Played : score'[o] = score[o] /\ o \in BoardGames
  BY <1>3, <1>4 DEF Played
<1>7. entry'.score > 0 => entry'.game \in Played' /\ score'[entry'.game] = entry'.score
  BY <1>1, <1>4, <1>6 DEF EntryInv, EntryIsBest
<1>8. \A o \in projected' : entry'.score >= score'[o]
  BY <1>1, <1>6 DEF EntryInv, EntryIsBest
<1>9. Cardinality(projected') <= entry'.played /\ entry'.played <= Cardinality(Played')
  <2>1. entry.played \in Nat /\ entry.played <= Cardinality(Played) /\ Cardinality(projected) <= entry.played
    BY DEF EntryInv, EntryIsBest
  <2>. QED  BY <1>1, <1>5, <2>1, PlayedAreFinite
<1>10. EntryIsBest'
  BY <1>7, <1>8, <1>9 DEF EntryIsBest
<1>11. projected' \subseteq Played' /\ \A p \in Projections : projection'[p].pc # "idle" => projection'[p].game \in Played'
  BY <1>1, <1>4 DEF EntryInv
<1>. QED  BY <1>1, <1>3, <1>10, <1>11 DEF EntryInv

LEMMA Materializes ==
    ASSUME EntryInv, NEW p \in Projections, MaterializeCompletedGame(p)
    PROVE  EntryInv'
<1>1. PICK g : g = projection[p].game
  OBVIOUS
<1>2. /\ g \in Played /\ entry' = UpsertBestEntry(g) /\ projected' = projected \cup {g} /\ score' = score
      /\ projection' = [projection EXCEPT ![p].pc = "bump"]
  BY <1>1 DEF MaterializeCompletedGame, EntryInv
<1>3. PICK b \in Played : b = BestGame(g) /\ \A o \in Played : score[b] >= score[o]
  BY <1>2, BestGameIsBest DEF EntryInv
<1>4. score[b] \in 0..BestScore /\ score[b] > 0 /\ \A o \in Played : score[o] \in Nat
  BY <1>3, BoardAssumption DEF EntryInv, Played
<1>5. Played' = Played
  BY <1>2 DEF Played
<1>6. /\ entry'.played = Cardinality(Played)
      /\ \/ score[b] > entry.score /\ entry'.score = score[b] /\ entry'.game = b
         \/ ~(score[b] > entry.score) /\ entry'.score = entry.score /\ entry'.game = entry.game
  <2>1. PICK new : new = [score |-> score[b], played |-> Cardinality(Played), game |-> b]
    OBVIOUS
  <2>2. entry' = BetterEntry(entry, new)
    BY <1>2, <1>3, <2>1 DEF UpsertBestEntry
  <2>3. CASE score[b] > entry.score
    BY <2>1, <2>2, <2>3 DEF BetterEntry
  <2>4. CASE ~(score[b] > entry.score)
    <3>1. entry' = [entry EXCEPT !.played = new.played] /\ new.played = Cardinality(Played)
      BY <2>1, <2>2, <2>4 DEF BetterEntry
    <3>. QED  BY <2>4, <3>1 DEF EntryInv
  <2>. QED  BY <2>3, <2>4
<1>7. entry.score \in 0..BestScore /\ entry'.score >= score[b] /\ entry'.score \in 0..BestScore /\ entry'.score >= entry.score
  BY <1>4, <1>6, BoardAssumption DEF EntryInv
<1>8. entry'.score > 0 => entry'.game \in Played' /\ score'[entry'.game] = entry'.score
  BY <1>2, <1>3, <1>5, <1>6 DEF EntryInv, EntryIsBest
<1>9. \A o \in projected' : entry'.score >= score'[o]
  <2>1. ASSUME NEW o \in Played PROVE entry'.score >= score[o]
    BY <1>3, <1>4, <1>7, BoardAssumption
  <2>. QED  BY <1>2, <2>1 DEF EntryInv
<1>10. projected' \in SUBSET Played
  BY <1>2 DEF EntryInv
<1>11. Cardinality(projected') <= entry'.played /\ entry'.played <= Cardinality(Played') /\ entry'.played \in Nat
  BY <1>5, <1>6, <1>10, PlayedAreFinite
<1>12. EntryIsBest'
  BY <1>8, <1>9, <1>11 DEF EntryIsBest
<1>13. /\ projection' \in [Projections -> [pc : {"idle", "boards", "bump"}, game : BoardGames \cup {"none"}]]
       /\ \A q \in Projections : projection'[q].pc # "idle" => projection'[q].game \in Played'
  <2>1. \A q \in Projections : projection[q] \in [pc : {"idle", "boards", "bump"}, game : BoardGames \cup {"none"}]
    BY DEF EntryInv
  <2>2. \A q \in Projections : projection'[q].game = projection[q].game /\ (q # p => projection'[q] = projection[q])
    BY <1>2, <2>1 DEF EntryInv
  <2>. QED  BY <1>1, <1>2, <1>5, <2>2 DEF EntryInv
<1>. QED  BY <1>2, <1>5, <1>7, <1>10, <1>11, <1>12, <1>13 DEF EntryInv

LEMMA EntryStep == EntryInv /\ [BoardNext]_boardVars => EntryInv'
<1>. SUFFICES ASSUME EntryInv, [BoardNext]_boardVars PROVE EntryInv'
  OBVIOUS
<1>1. ASSUME UNCHANGED <<score, entry, projected>>,
             projection' \in [Projections -> [pc : {"idle", "boards", "bump"}, game : BoardGames \cup {"none"}]],
             \A p \in Projections : projection'[p].pc # "idle" => projection'[p].game \in Played
      PROVE  EntryInv'
  BY <1>1 DEF EntryInv, EntryIsBest, Played
<1>2. CASE UNCHANGED <<score, entry, projected, projection>>
  BY <1>1, <1>2 DEF EntryInv
<1>3. ASSUME NEW p \in Projections, NEW g \in BoardGames, StartProjection(p, g) PROVE EntryInv'
  BY <1>1, <1>3 DEF StartProjection, EntryInv, Played
<1>4. ASSUME NEW p \in Projections, BumpVersion(p) \/ ProjectionDies(p) PROVE EntryInv'
  BY <1>1, <1>4 DEF BumpVersion, ProjectionDies, IdleProjection, EntryInv
<1>5. ASSUME NEW r \in Readers,
             StartRead(r) \/ CacheGet(r) \/ LoadPage(r) \/ CacheSet(r) \/ FriendsPage(r) \/ ReplyPage(r)
      PROVE  UNCHANGED <<score, entry, projected, projection>>
  BY <1>5 DEF StartRead, CacheGet, LoadPage, CacheSet, FriendsPage, ReplyPage
<1>6. CASE BoardNext
  BY <1>2, <1>3, <1>4, <1>5, <1>6, CompletesGame, Materializes DEF BoardNext
<1>. QED  BY <1>2, <1>6 DEF boardVars

(* A read that moves on, nothing else changing.                             *)
LEMMA ReadMoves ==
    ASSUME BoardPagesInv, NEW r \in Readers, NEW n \in Read, FitsRead(r, n),
           reader' = [reader EXCEPT ![r] = n], UNCHANGED <<commits, version, sealed, pages>>
    PROVE  BoardPagesInv'
<1>1. /\ reader' \in [Readers -> Read] /\ reader'[r] = n /\ \A q \in Readers : q # r => reader'[q] = reader[q]
      /\ \A q \in Readers : FitsRead(q, reader[q]) /\ reader[q] \in Read
  BY DEF BoardPagesInv
<1>2. CurrentVersion' = CurrentVersion
  BY DEF CurrentVersion
<1>3. FitsRead(r, n)'
  BY <1>1, <1>2 DEF FitsRead
<1>4. ASSUME NEW q \in Readers, q # r PROVE FitsRead(q, reader[q])'
  <2>1. reader'[q] = reader[q] /\ FitsRead(q, reader[q]) /\ reader[q] \in Read
    BY <1>1, <1>4
  <2>2. n.pc # "idle" /\ reader[q].pc # "idle" /\ n.ver = reader[q].ver /\ n.ver >= 1 => n.floor = reader[q].floor
    BY <1>4 DEF FitsRead
  <2>. QED  BY <1>1, <1>2, <1>4, <2>1, <2>2 DEF FitsRead
<1>5. \A q \in Readers : FitsRead(q, reader[q])'
  BY <1>1, <1>3, <1>4
<1>. QED  BY <1>1, <1>2, <1>5 DEF BoardPagesInv

LEMMA CurrentVersionType ==
    ASSUME BoardPagesInv
    PROVE  /\ CurrentVersion \in 1..(MaxBumps + 1) /\ CurrentVersion \in 0..(MaxBumps + 1) /\ CurrentVersion \in Int
           /\ sealed \in Nat /\ sealed <= commits /\ commits \in Nat
  BY BoardAssumption DEF BoardPagesInv, CurrentVersion

LEMMA StartsRead ==
    ASSUME BoardPagesInv, NEW r \in Readers, StartRead(r) PROVE BoardPagesInv'
<1>1. PICK v \in {CurrentVersion, 0} :
        reader' = [reader EXCEPT ![r] = [pc |-> IF v = 0 THEN "load" ELSE "get",
                                         ver |-> v, page |-> 0, floor |-> sealed]]
  BY DEF StartRead
<1>2. PICK n : n = [pc |-> IF v = 0 THEN "load" ELSE "get", ver |-> v, page |-> 0, floor |-> sealed]
  OBVIOUS
<1>3. v \in 0..(MaxBumps + 1)
  BY CurrentVersionType, BoardAssumption
<1>4. n \in Read
  BY <1>2, <1>3, CurrentVersionType DEF Read
<1>5. FitsRead(r, n)
  <2>1. v >= 1 => v = CurrentVersion
    OBVIOUS
  <2>2. \A q \in Readers : reader[q].pc # "idle" /\ reader[q].ver = CurrentVersion => reader[q].floor = sealed
    BY DEF BoardPagesInv, FitsRead
  <2>3. pages[CurrentVersion] # -1 => pages[CurrentVersion] >= sealed
    BY DEF BoardPagesInv
  <2>4. n.ver = v /\ n.floor = sealed /\ n.page = 0 /\ n.pc = IF v = 0 THEN "load" ELSE "get"
    BY <1>2
  <2>5. v = 0 \/ v >= 1
    BY <1>3
  <2>6. v <= CurrentVersion
    BY CurrentVersionType
  <2>. QED  BY <2>1, <2>2, <2>3, <2>4, <2>5, <2>6, CurrentVersionType DEF FitsRead
<1>6. UNCHANGED <<commits, version, sealed, pages>>
  BY DEF StartRead
<1>. QED  BY <1>1, <1>2, <1>4, <1>5, <1>6, ReadMoves

LEMMA GetsPage ==
    ASSUME BoardPagesInv, NEW r \in Readers, CacheGet(r) PROVE BoardPagesInv'
<1>1. reader[r] \in Read /\ reader[r].pc = "get" /\ FitsRead(r, reader[r]) /\ UNCHANGED <<commits, version, sealed, pages>>
  BY DEF CacheGet, BoardPagesInv
<1>2. reader[r].ver \in 1..(MaxBumps + 1)
  BY <1>1 DEF FitsRead, Read
<1>3. CASE reader' = [reader EXCEPT ![r].pc = "load"]
  <2>1. PICK n : n = [reader[r] EXCEPT !.pc = "load"]
    OBVIOUS
  <2>2. n \in Read /\ n.pc = "load" /\ n.ver = reader[r].ver /\ n.floor = reader[r].floor
    BY <1>1, <2>1 DEF Read
  <2>3. FitsRead(r, n)
    BY <1>1, <2>2 DEF FitsRead
  <2>4. reader' = [reader EXCEPT ![r] = n]
    BY <1>3, <2>1 DEF BoardPagesInv
  <2>. QED  BY <1>1, <2>2, <2>3, <2>4, ReadMoves
<1>4. CASE pages[reader[r].ver] # -1 /\ reader' = [reader EXCEPT ![r].pc = "reply", ![r].page = pages[reader[r].ver]]
  <2>1. PICK n : n = [reader[r] EXCEPT !.pc = "reply", !.page = pages[reader[r].ver]]
    OBVIOUS
  <2>2. pages[reader[r].ver] \in Nat
    BY <1>2, <1>4 DEF BoardPagesInv
  <2>3. n.pc = "reply" /\ n.ver = reader[r].ver /\ n.floor = reader[r].floor /\ n.page = pages[reader[r].ver]
    BY <1>1, <2>1 DEF Read
  <2>4. n \in Read
    <3>1. n = [pc |-> "reply", ver |-> reader[r].ver, page |-> pages[reader[r].ver], floor |-> reader[r].floor]
      BY <1>1, <2>1 DEF Read
    <3>. QED  BY <1>1, <2>2, <3>1 DEF Read
  <2>5. FitsRead(r, n)
    BY <1>1, <1>2, <1>4, <2>3 DEF FitsRead
  <2>6. reader' = [reader EXCEPT ![r] = n]
    BY <1>4, <2>1 DEF BoardPagesInv
  <2>. QED  BY <1>1, <2>4, <2>5, <2>6, ReadMoves
<1>. QED  BY <1>3, <1>4 DEF CacheGet

LEMMA LoadsPage ==
    ASSUME BoardPagesInv, NEW r \in Readers, LoadPage(r) PROVE BoardPagesInv'
<1>1. reader[r] \in Read /\ reader[r].pc = "load" /\ FitsRead(r, reader[r]) /\ UNCHANGED <<commits, version, sealed, pages>>
  BY DEF LoadPage, BoardPagesInv
<1>2. PICK to \in {"set", "reply"} : to = (IF reader[r].ver = 0 THEN "reply" ELSE "set")
  OBVIOUS
<1>3. PICK n : n = [reader[r] EXCEPT !.pc = to, !.page = commits]
  OBVIOUS
<1>4. n = [pc |-> to, ver |-> reader[r].ver, page |-> commits, floor |-> reader[r].floor]
  BY <1>1, <1>3 DEF Read
<1>5. n \in Read
  BY <1>1, <1>2, <1>4, CurrentVersionType DEF Read
<1>6. reader' = [reader EXCEPT ![r] = n]
  BY <1>2, <1>3 DEF BoardPagesInv, LoadPage
<1>7. reader[r].ver \in Nat
  BY <1>1 DEF Read
<1>8. FitsRead(r, n)
  BY <1>1, <1>2, <1>4, <1>7, CurrentVersionType DEF FitsRead
<1>. QED  BY <1>1, <1>5, <1>6, <1>8, ReadMoves

LEMMA SetsPage ==
    ASSUME BoardPagesInv, NEW r \in Readers, CacheSet(r) PROVE BoardPagesInv'
<1>1. /\ reader[r] \in Read /\ reader[r].pc = "set" /\ FitsRead(r, reader[r]) /\ UNCHANGED <<commits, version, sealed>>
      /\ reader' = [reader EXCEPT ![r].pc = "reply"] /\ reader \in [Readers -> Read]
  BY DEF CacheSet, BoardPagesInv
<1>2. PICK k : k = reader[r].ver
  OBVIOUS
<1>3. /\ k \in 1..(MaxBumps + 1) /\ k <= CurrentVersion /\ reader[r].page >= reader[r].floor /\ reader[r].page \in Nat
      /\ reader[r].floor \in Nat
  BY <1>1, <1>2 DEF FitsRead, Read
<1>4. pages' = pages \/ pages' = [pages EXCEPT ![k] = reader[r].page]
  BY <1>2 DEF CacheSet, CacheKey
<1>5. /\ pages' \in [1..(MaxBumps + 1) -> Nat \cup {-1}]
      /\ \A v \in 1..(MaxBumps + 1) : pages'[v] = pages[v] \/ (v = k /\ pages'[v] = reader[r].page)
  BY <1>3, <1>4 DEF BoardPagesInv
<1>6. CurrentVersion' = CurrentVersion
  BY <1>1 DEF CurrentVersion
<1>7. k = CurrentVersion => reader[r].floor = sealed
  BY <1>1, <1>2 DEF FitsRead
<1>8. pages'[CurrentVersion] # -1 => pages'[CurrentVersion] >= sealed
  BY <1>3, <1>5, <1>7, CurrentVersionType DEF BoardPagesInv
<1>9. \A v \in 1..(MaxBumps + 1) : pages'[v] # -1 => v <= CurrentVersion
  BY <1>3, <1>5 DEF BoardPagesInv
<1>10. \A q \in Readers : /\ reader'[q].ver = reader[q].ver /\ reader'[q].floor = reader[q].floor
                          /\ reader'[q].page = reader[q].page /\ reader'[q] \in Read
                          /\ (reader'[q].pc = "idle") = (reader[q].pc = "idle")
                          /\ reader'[q].pc = reader[q].pc \/ (q = r /\ reader'[q].pc = "reply")
  BY <1>1 DEF Read
<1>11. ASSUME NEW q \in Readers PROVE FitsRead(q, reader[q])'
  <2>1. FitsRead(q, reader[q]) /\ reader[q] \in Read
    BY DEF BoardPagesInv
  <2>2. SUFFICES ASSUME reader[q].pc # "idle" PROVE FitsRead(q, reader[q])'
    BY <1>10 DEF FitsRead
  <2>3. reader[q].ver = k => reader[q].floor = reader[r].floor
    BY <1>1, <1>2, <1>3, <2>1, <2>2 DEF FitsRead
  <2>4. ASSUME reader[q].ver >= 1 PROVE pages'[reader[q].ver] # -1 => pages'[reader[q].ver] >= reader[q].floor
    <3>1. reader[q].ver \in 1..(MaxBumps + 1)
      BY <2>1, <2>4 DEF Read
    <3>2. CASE pages'[reader[q].ver] = pages[reader[q].ver]
      BY <2>1, <2>2, <2>4, <3>2 DEF FitsRead
    <3>3. CASE reader[q].ver = k /\ pages'[reader[q].ver] = reader[r].page
      BY <1>3, <2>3, <3>3
    <3>. QED  BY <1>5, <3>1, <3>2, <3>3
  <2>5. reader'[q].pc \in {"set", "reply"} => reader[q].page >= reader[q].floor
    BY <1>3, <1>10, <2>1, <2>2 DEF FitsRead
  <2>6. reader'[q].pc \in {"get", "set"} => reader[q].ver >= 1
    BY <1>10, <2>1, <2>2 DEF FitsRead
  <2>7. /\ reader[q].ver <= CurrentVersion /\ reader[q].floor <= commits
        /\ reader[q].ver = CurrentVersion => reader[q].floor = sealed
        /\ reader[q].ver >= 1 => \A p \in Readers :
             p # q /\ reader[p].pc # "idle" /\ reader[p].ver = reader[q].ver => reader[p].floor = reader[q].floor
    BY <2>1, <2>2 DEF FitsRead
  <2>. QED  BY <1>1, <1>6, <1>10, <2>4, <2>5, <2>6, <2>7 DEF FitsRead
<1>12. reader' \in [Readers -> Read]
  BY <1>1, <1>10
<1>. QED  BY <1>1, <1>5, <1>6, <1>8, <1>9, <1>11, <1>12 DEF BoardPagesInv

LEMMA RepliesPage ==
    ASSUME BoardPagesInv, NEW r \in Readers, FriendsPage(r) \/ ReplyPage(r) PROVE BoardPagesInv'
<1>1. UNCHANGED <<commits, version, sealed, pages>>
  BY DEF FriendsPage, ReplyPage
<1>2. 0 \in 0..(MaxBumps + 1)
  BY BoardAssumption
<1>3. CASE FriendsPage(r)
  <2>1. PICK n : n = [pc |-> "reply", ver |-> 0, page |-> commits, floor |-> sealed]
    OBVIOUS
  <2>2. n \in Read
    BY <1>2, <2>1, CurrentVersionType DEF Read
  <2>3. FitsRead(r, n)
    BY <2>1, CurrentVersionType DEF FitsRead
  <2>. QED  BY <1>1, <1>3, <2>1, <2>2, <2>3, ReadMoves DEF FriendsPage, ListFriendsEntries
<1>4. CASE ReplyPage(r)
  <2>1. IdleReader \in Read /\ FitsRead(r, IdleReader)
    BY <1>2 DEF IdleReader, Read, FitsRead
  <2>. QED  BY <1>1, <1>4, <2>1, ReadMoves DEF ReplyPage
<1>. QED  BY <1>3, <1>4

LEMMA BumpsVersion ==
    ASSUME BoardPagesInv, NEW p \in Projections, BumpVersion(p) PROVE BoardPagesInv'
<1>1. /\ version < MaxBumps /\ version' = version + 1 /\ sealed' = (IF version = 0 THEN sealed ELSE commits)
      /\ UNCHANGED <<commits, pages, reader>> /\ version \in 0..MaxBumps
  BY DEF BumpVersion, BoardPagesInv
<1>2. version' \in 0..MaxBumps /\ sealed' \in 0..commits
  BY <1>1, CurrentVersionType, BoardAssumption
<1>3. CASE version = 0
  <2>1. CurrentVersion' = CurrentVersion /\ sealed' = sealed
    BY <1>1, <1>3 DEF CurrentVersion
  <2>. QED  BY <1>1, <1>2, <2>1 DEF BoardPagesInv, FitsRead
<1>4. CASE version # 0
  <2>1. CurrentVersion = version /\ CurrentVersion' = version + 1 /\ CurrentVersion' \in 1..(MaxBumps + 1)
    BY <1>1, <1>4, BoardAssumption DEF CurrentVersion
  <2>2. \A v \in 1..(MaxBumps + 1) : pages[v] # -1 => v <= version
    BY <2>1 DEF BoardPagesInv
  <2>3. pages'[CurrentVersion'] = -1
    BY <1>1, <2>1, <2>2
  <2>4. ASSUME NEW r \in Readers PROVE FitsRead(r, reader[r])'
    <3>1. FitsRead(r, reader[r]) /\ reader[r] \in Read
      BY DEF BoardPagesInv
    <3>2. reader[r].pc # "idle" => reader[r].ver <= version /\ reader[r].ver \in Nat
      BY <2>1, <3>1 DEF FitsRead, Read
    <3>3. reader[r].pc # "idle" => reader[r].ver < CurrentVersion'
      BY <1>1, <2>1, <3>2
    <3>4. reader[r].pc # "idle" => reader[r].ver <= CurrentVersion' /\ reader[r].ver # CurrentVersion'
      BY <1>1, <2>1, <3>2, <3>3
    <3>. QED  BY <1>1, <3>1, <3>4 DEF FitsRead
  <2>5. \A v \in 1..(MaxBumps + 1) : pages'[v] # -1 => v <= CurrentVersion'
    BY <1>1, <2>1, <2>2
  <2>. QED  BY <1>1, <1>2, <2>3, <2>4, <2>5 DEF BoardPagesInv
<1>. QED  BY <1>3, <1>4

LEMMA BoardPagesStep == BoardPagesInv /\ [BoardNext]_boardVars => BoardPagesInv'
<1>. SUFFICES ASSUME BoardPagesInv, [BoardNext]_boardVars PROVE BoardPagesInv'
  OBVIOUS
<1>1. CASE UNCHANGED <<commits, version, sealed, pages, reader>>
  BY <1>1 DEF BoardPagesInv, FitsRead, CurrentVersion
<1>2. ASSUME NEW p \in Projections, MaterializeCompletedGame(p) PROVE BoardPagesInv'
  <2>1. commits' = commits + 1 /\ UNCHANGED <<version, sealed, pages, reader>>
    BY <1>2 DEF MaterializeCompletedGame
  <2>2. CurrentVersion' = CurrentVersion /\ commits' \in Nat /\ sealed' \in 0..commits'
    BY <2>1, CurrentVersionType DEF CurrentVersion
  <2>3. ASSUME NEW r \in Readers PROVE FitsRead(r, reader[r])'
    <3>1. FitsRead(r, reader[r]) /\ reader[r] \in Read
      BY DEF BoardPagesInv
    <3>2. reader[r].pc # "idle" => reader[r].floor <= commits'
      BY <2>1, <3>1, CurrentVersionType DEF FitsRead, Read
    <3>. QED  BY <2>1, <2>2, <3>1, <3>2 DEF FitsRead
  <2>. QED  BY <2>1, <2>2, <2>3 DEF BoardPagesInv
<1>3. ASSUME NEW g \in BoardGames, NEW s \in 1..BestScore, CompleteBoardGame(g, s) PROVE BoardPagesInv'
  BY <1>1, <1>3 DEF CompleteBoardGame
<1>4. ASSUME NEW p \in Projections, NEW g \in BoardGames, StartProjection(p, g) PROVE BoardPagesInv'
  BY <1>1, <1>4 DEF StartProjection
<1>5. ASSUME NEW p \in Projections, ProjectionDies(p) PROVE BoardPagesInv'
  BY <1>1, <1>5 DEF ProjectionDies
<1>6. CASE BoardNext
  BY <1>2, <1>3, <1>4, <1>5, <1>6, StartsRead, GetsPage, LoadsPage, SetsPage, RepliesPage, BumpsVersion DEF BoardNext
<1>7. CASE UNCHANGED boardVars
  BY <1>1, <1>7 DEF boardVars
<1>. QED  BY <1>6, <1>7

-----------------------------------------------------------------------------
(* However projections repeat, die and overlap, a player's entry is the     *)
(* best of the games projected and counts them (repository.go:386).         *)
THEOREM BoardEntryIsBest == BoardSpec => []EntryIsBest
<1>1. BoardInit => EntryInv
  BY BoardBegins
<1>2. EntryInv /\ [BoardNext]_boardVars => EntryInv'
  BY EntryStep
<1>3. EntryInv => EntryIsBest
  BY DEF EntryInv
<1>. QED  BY <1>1, <1>2, <1>3, PTL DEF BoardSpec

(* A read that begins after a bump never answers with a page older than the *)
(* commits it announced, whoever else reads, caches or bumps.               *)
THEOREM BoardPagesFollow == BoardSpec => []PagesFollowBumps
<1>1. BoardInit => BoardPagesInv
  BY BoardBegins
<1>2. BoardPagesInv /\ [BoardNext]_boardVars => BoardPagesInv'
  BY BoardPagesStep
<1>3. BoardPagesInv => PagesFollowBumps
  BY DEF BoardPagesInv, FitsRead, PagesFollowBumps
<1>. QED  BY <1>1, <1>2, <1>3, PTL DEF BoardSpec

-----------------------------------------------------------------------------
(* The pages of a season.                                                   *)

(* A cached page p of a kind under generation g shows at least the commits  *)
(* announced by g; a closed page shows the season's last one.               *)
KeptPage(k, g, p) == p # NoPage =>
    g <= generation /\ g <= p + 1 /\ p <= rated /\ (k = "closed" => closedAt > 0 /\ p = closedAt)

Stages == {"version", "lookup", "rows", "set"}

(* A request n at each of its steps: what it has read so far.               *)
SoundReading(n) ==
    \/ n = Reader0
    \/ /\ n.at \in Stages /\ n.kind \in PageKinds /\ n.since \in Nat /\ n.since + 1 <= generation
       /\ n.kind = "closed" => closedAt > 0
       /\ n.at # "version" => /\ n.version \in Nat /\ 1 <= n.version /\ n.version <= generation
                              /\ ~CacheFaults => n.since + 1 <= n.version
       /\ n.at = "set" => /\ n.rows \in Nat /\ n.rows <= rated /\ n.version <= n.rows + 1
                          /\ n.kind = "closed" => n.rows = closedAt

PagesInv ==
    /\ rated \in 0..MaxRatings /\ closedAt \in Nat /\ (closedAt > 0 => closedAt = rated)
    /\ owed \subseteq 1..rated /\ generation = 1 + rated - Cardinality(owed)
    /\ seasonPages \in [PageKinds \X Generations -> 0..(MaxRatings + 1)]
    /\ \A k \in PageKinds, g \in Generations : KeptPage(k, g, seasonPages[<<k, g>>])
    /\ DOMAIN reading = PageReaders /\ reading = [r \in PageReaders |-> reading[r]]
    /\ \A r \in PageReaders : SoundReading(reading[r])
    /\ lastAnswer.rows \in Nat /\ lastAnswer.since \in Nat
    /\ ~CacheFaults => lastAnswer.rows >= lastAnswer.since
    /\ lastAnswer.kind = "closed" => closedAt > 0 /\ lastAnswer.rows = closedAt

-----------------------------------------------------------------------------
LEMMA PagesBegin == PagesInit => PagesInv
<1>. SUFFICES ASSUME PagesInit PROVE PagesInv
  OBVIOUS
<1>1. rated = 0 /\ closedAt = 0 /\ owed = {} /\ generation = 1 /\ Cardinality({}) = 0
  BY FS_EmptySet DEF PagesInit
<1>2. MaxRatings + 1 \in 0..(MaxRatings + 1) /\ 0 \in 0..MaxRatings
  BY PageAssumption
<1>3. /\ seasonPages \in [PageKinds \X Generations -> 0..(MaxRatings + 1)]
      /\ \A k \in PageKinds, g \in Generations : seasonPages[<<k, g>>] = NoPage
  BY <1>2 DEF PagesInit, NoPage
<1>4. DOMAIN reading = PageReaders /\ \A r \in PageReaders : reading[r] = Reader0
  BY DEF PagesInit
<1>5. reading = [r \in PageReaders |-> reading[r]]
  BY DEF PagesInit
<1>6. lastAnswer.rows = 0 /\ lastAnswer.since = 0 /\ lastAnswer.kind = "live"
  BY DEF PagesInit
<1>. QED  BY <1>1, <1>2, <1>3, <1>4, <1>5, <1>6 DEF PagesInv, KeptPage, SoundReading

LEMMA OwedIsFinite ==
    ASSUME PagesInv
    PROVE  /\ IsFiniteSet(owed) /\ Cardinality(owed) \in Nat /\ Cardinality(owed) <= rated
           /\ generation \in 1..(rated + 1) /\ generation \in Generations
<1>1. rated \in Nat /\ rated <= MaxRatings /\ owed \subseteq 1..rated
  BY PageAssumption DEF PagesInv
<1>2. IsFiniteSet(1..rated) /\ Cardinality(1..rated) = (IF 1 > rated THEN 0 ELSE rated - 1 + 1)
  BY <1>1, FS_Interval
<1>3. Cardinality(1..rated) = rated
  BY <1>1, <1>2
<1>4. IsFiniteSet(owed) /\ Cardinality(owed) <= rated /\ Cardinality(owed) \in Nat
  BY <1>1, <1>2, <1>3, FS_Subset, FS_CardinalityType
<1>. QED  BY <1>1, <1>4, PageAssumption DEF PagesInv, Generations

(* What has been announced is no more than the generation counts: the       *)
(* commits not yet announced are among those from the first of them on.     *)
LEMMA AnnouncedIsCounted ==
    ASSUME PagesInv PROVE Announced \in Nat /\ Announced + 1 <= generation
<1>1. CASE owed = {}
  <2>1. generation = 1 + rated /\ rated \in Nat
    BY <1>1, FS_EmptySet DEF PagesInv
  <2>. QED  BY <1>1, <2>1 DEF Announced
<1>2. CASE owed # {}
  <2>1. owed \in SUBSET Nat /\ rated \in Nat
    BY DEF PagesInv
  <2>2. PICK c \in owed : \A d \in owed : c <= d
    BY <1>2, <2>1, LeastNumber
  <2>3. PICK m : m = CHOOSE e \in owed : \A d \in owed : e <= d
    OBVIOUS
  <2>4. m \in owed /\ \A d \in owed : m <= d
    BY <2>2, <2>3
  <2>5. m \in 1..rated /\ owed \subseteq m..rated
    BY <2>1, <2>4 DEF PagesInv
  <2>6. IsFiniteSet(m..rated) /\ Cardinality(m..rated) = (IF m > rated THEN 0 ELSE rated - m + 1)
    BY <2>1, <2>5, FS_Interval
  <2>7. Cardinality(m..rated) = rated - m + 1
    BY <2>1, <2>5, <2>6
  <2>8. Cardinality(owed) <= rated - m + 1
    <3>1. owed \in SUBSET (m..rated) /\ IsFiniteSet(m..rated)
      BY <2>5, <2>6
    <3>2. Cardinality(owed) <= Cardinality(m..rated)
      BY <3>1, FS_Subset
    <3>. QED  BY <2>7, <3>2
  <2>9. Announced = m - 1
    BY <1>2, <2>3 DEF Announced
  <2>10. generation = 1 + rated - Cardinality(owed) /\ Cardinality(owed) \in Nat
    BY OwedIsFinite DEF PagesInv
  <2>. QED  BY <2>1, <2>5, <2>8, <2>9, <2>10
<1>. QED  BY <1>1, <1>2

(* A request that moves on, nothing else changing.                          *)
LEMMA ReadingMoves ==
    ASSUME PagesInv, NEW r \in PageReaders, NEW n, SoundReading(n), reading' = [reading EXCEPT ![r] = n],
           UNCHANGED <<rated, closedAt, owed, generation, seasonPages, lastAnswer>>
    PROVE  PagesInv'
<1>1. DOMAIN reading' = PageReaders /\ reading' = [q \in PageReaders |-> reading'[q]]
  BY DEF PagesInv
<1>2. \A q \in PageReaders : SoundReading(reading'[q])
  BY DEF PagesInv
<1>3. \A q \in PageReaders : SoundReading(reading[q])'
  BY <1>2 DEF SoundReading, NoPage
<1>. QED  BY <1>1, <1>3 DEF PagesInv, KeptPage, NoPage, Generations

LEMMA Rates == ASSUME PagesInv, Rate PROVE PagesInv'
<1>1. /\ rated < MaxRatings /\ closedAt = 0 /\ rated' = rated + 1 /\ owed' = owed \union {rated + 1}
      /\ closedAt' = 0 \/ closedAt' = rated + 1
      /\ UNCHANGED <<generation, seasonPages, reading, lastAnswer>>
  BY DEF Rate
<1>2. rated \in Nat /\ rated' \in 0..MaxRatings /\ closedAt' \in Nat /\ (closedAt' > 0 => closedAt' = rated')
  BY <1>1, PageAssumption DEF PagesInv
<1>3. owed' \subseteq 1..rated' /\ rated + 1 \notin owed
  BY <1>1, <1>2 DEF PagesInv
<1>4. Cardinality(owed') = Cardinality(owed) + 1
  BY <1>1, <1>3, OwedIsFinite, FS_AddElement
<1>5. generation' = 1 + rated' - Cardinality(owed')
  BY <1>1, <1>2, <1>4, OwedIsFinite DEF PagesInv
<1>6. \A k \in PageKinds, g \in Generations : seasonPages[<<k, g>>] \in Nat
  <2>1. \A kg \in PageKinds \X Generations : seasonPages[kg] \in 0..(MaxRatings + 1)
    BY DEF PagesInv
  <2>2. 0..(MaxRatings + 1) \subseteq Nat
    BY PageAssumption
  <2>. QED  BY <2>1, <2>2
<1>7. \A k \in PageKinds, g \in Generations : KeptPage(k, g, seasonPages[<<k, g>>])'
  BY <1>1, <1>2, <1>6 DEF PagesInv, KeptPage, NoPage
<1>8. \A r \in PageReaders : SoundReading(reading[r])'
  <2>1. TAKE r \in PageReaders
  <2>2. SoundReading(reading[r]) /\ ~(closedAt > 0)
    BY <1>1, <1>2 DEF PagesInv
  <2>3. reading[r].at = "set" /\ reading[r].rows \in Nat /\ reading[r].rows <= rated => reading[r].rows <= rated'
    BY <1>1, <1>2
  <2>. QED  BY <1>1, <2>2, <2>3 DEF SoundReading
<1>9. lastAnswer.kind # "closed"
  BY <1>1, <1>2 DEF PagesInv
<1>. QED  BY <1>1, <1>2, <1>3, <1>5, <1>7, <1>8, <1>9 DEF PagesInv, Generations

LEMMA Invalidates == ASSUME PagesInv, NEW c \in owed, InvalidateSeason(c) PROVE PagesInv'
<1>1. owed' = owed \ {c} /\ generation' = generation + 1 /\ UNCHANGED <<rated, closedAt, seasonPages, reading, lastAnswer>>
  BY DEF InvalidateSeason
<1>2. Cardinality(owed') = Cardinality(owed) - 1
  BY <1>1, OwedIsFinite, FS_RemoveElement
<1>3. generation \in Nat /\ rated \in Nat /\ generation' = 1 + rated' - Cardinality(owed')
  BY <1>1, <1>2, OwedIsFinite DEF PagesInv
<1>4. \A k \in PageKinds, g \in Generations : KeptPage(k, g, seasonPages[<<k, g>>])'
  <2>1. \A g \in Generations : g \in Int
    BY DEF Generations
  <2>. QED  BY <1>1, <1>3, <2>1 DEF PagesInv, KeptPage, NoPage
<1>5. \A r \in PageReaders : SoundReading(reading[r])'
  <2>1. TAKE r \in PageReaders
  <2>2. SoundReading(reading[r])
    BY DEF PagesInv
  <2>3. ASSUME NEW i \in Nat, i <= generation PROVE i <= generation'
    BY <1>1, <1>3, <2>3
  <2>. QED  BY <1>1, <1>3, <2>2, <2>3 DEF SoundReading
<1>. QED  BY <1>1, <1>3, <1>4, <1>5 DEF PagesInv, Generations

LEMMA Opening ==
    ASSUME PagesInv, NEW r \in PageReaders, NEW k \in PageKinds, k = "closed" => closedAt > 0, Opens(r, k)
    PROVE  PagesInv'
<1>1. PICK n : n = [at |-> "version", kind |-> k, since |-> Announced]
  OBVIOUS
<1>2. SoundReading(n)
  BY <1>1, AnnouncedIsCounted DEF SoundReading, Stages
<1>. QED  BY <1>1, <1>2, ReadingMoves DEF Opens

LEMMA ReadsVersion == ASSUME PagesInv, NEW r \in PageReaders, CacheVersion(r) PROVE PagesInv'
<1>1. PICK v \in {generation} \union (IF CacheFaults THEN {1} ELSE {}) :
        reading' = [reading EXCEPT ![r] = [at |-> "lookup", kind |-> @.kind, since |-> @.since, version |-> v]]
  BY DEF CacheVersion
<1>2. PICK n : n = [at |-> "lookup", kind |-> reading[r].kind, since |-> reading[r].since, version |-> v]
  OBVIOUS
<1>3. reading[r].at = "version" /\ reading[r] # Reader0
  BY DEF CacheVersion, ReadsAt, Reader0
<1>4. v \in Nat /\ 1 <= v /\ v <= generation /\ (~CacheFaults => v = generation)
  BY OwedIsFinite
<1>5. SoundReading(reading[r])
  BY DEF PagesInv
<1>6. SoundReading(n)
  BY <1>2, <1>3, <1>4, <1>5 DEF SoundReading, Stages
<1>7. reading' = [reading EXCEPT ![r] = n]
  BY <1>1, <1>2 DEF PagesInv
<1>. QED  BY <1>6, <1>7, ReadingMoves DEF CacheVersion

(* An answer: the request ends, and the answer is sound.                    *)
LEMMA Answers ==
    ASSUME PagesInv, NEW r \in PageReaders, NEW p \in Nat, reading[r] # Reader0, reading[r].at # "version",
           p <= rated, reading[r].version <= p + 1, reading[r].kind = "closed" => p = closedAt,
           Show(r, p), reading' = [reading EXCEPT ![r] = Reader0],
           seasonPages' \in [PageKinds \X Generations -> 0..(MaxRatings + 1)],
           \A k \in PageKinds, g \in Generations : KeptPage(k, g, seasonPages'[<<k, g>>]),
           UNCHANGED <<rated, closedAt, owed, generation>>
    PROVE  PagesInv'
<1>1. DOMAIN reading' = PageReaders /\ reading' = [q \in PageReaders |-> reading'[q]]
  BY DEF PagesInv
<1>2. \A q \in PageReaders : SoundReading(reading'[q])
  BY DEF PagesInv, SoundReading
<1>3. \A q \in PageReaders : SoundReading(reading[q])'
  BY <1>2 DEF SoundReading
<1>4. SoundReading(reading[r])
  BY DEF PagesInv
<1>5. lastAnswer'.rows = p /\ lastAnswer'.since = reading[r].since /\ lastAnswer'.kind = reading[r].kind
  BY DEF Show
<1>6. reading[r].since \in Nat /\ reading[r].version \in Nat /\ (~CacheFaults => reading[r].since + 1 <= reading[r].version)
  BY <1>4 DEF SoundReading
<1>7. ~CacheFaults => p >= reading[r].since
  BY <1>6
<1>8. reading[r].kind = "closed" => closedAt > 0
  BY <1>4 DEF SoundReading
<1>9. \A k \in PageKinds, g \in Generations : KeptPage(k, g, seasonPages[<<k, g>>])'
  BY DEF KeptPage, NoPage
<1>. QED  BY <1>1, <1>3, <1>5, <1>6, <1>7, <1>8, <1>9 DEF PagesInv, Generations

LEMMA LooksUp == ASSUME PagesInv, NEW r \in PageReaders, CachedPage(r) PROVE PagesInv'
<1>1. PICK k, g, p : k = reading[r].kind /\ g = reading[r].version /\ p = seasonPages[<<k, g>>]
  OBVIOUS
<1>2. reading[r].at = "lookup" /\ reading[r] # Reader0 /\ SoundReading(reading[r])
  BY DEF CachedPage, ReadsAt, Reader0, PagesInv
<1>3. k \in PageKinds /\ g \in Nat /\ 1 <= g /\ g <= generation
  BY <1>1, <1>2 DEF SoundReading
<1>4. g \in Generations /\ rated \in Nat /\ rated <= MaxRatings
  BY <1>3, OwedIsFinite, PageAssumption DEF Generations, PagesInv
<1>5. p \in Nat /\ KeptPage(k, g, p)
  BY <1>1, <1>3, <1>4, PageAssumption DEF PagesInv
<1>6. CASE p # NoPage /\ Show(r, p) /\ reading' = [reading EXCEPT ![r] = Reader0]
  <2>1. UNCHANGED <<rated, closedAt, owed, generation, seasonPages>>
    BY DEF CachedPage
  <2>2. /\ seasonPages' \in [PageKinds \X Generations -> 0..(MaxRatings + 1)]
        /\ \A j \in PageKinds, h \in Generations : KeptPage(j, h, seasonPages'[<<j, h>>])
    BY <2>1 DEF PagesInv
  <2>3. p <= rated /\ g <= p + 1 /\ (k = "closed" => p = closedAt)
    BY <1>5, <1>6 DEF KeptPage
  <2>. QED  BY <1>1, <1>2, <1>5, <1>6, <2>1, <2>2, <2>3, Answers
<1>7. CASE reading' = [reading EXCEPT ![r].at = "rows"] /\ UNCHANGED lastAnswer
  <2>1. PICK n : n = [reading[r] EXCEPT !.at = "rows"]
    OBVIOUS
  <2>2. reading' = [reading EXCEPT ![r] = n]
    BY <1>7, <2>1 DEF PagesInv
  <2>3. n.at = "rows" /\ n.kind = reading[r].kind /\ n.since = reading[r].since /\ n.version = reading[r].version
    BY <1>2, <2>1 DEF SoundReading
  <2>4. SoundReading(n)
    BY <1>2, <2>3 DEF SoundReading, Stages
  <2>. QED  BY <1>7, <2>2, <2>4, ReadingMoves DEF CachedPage
<1>. QED  BY <1>1, <1>6, <1>7 DEF CachedPage

LEMMA ListsStandings == ASSUME PagesInv, NEW r \in PageReaders, ListStandings(r) PROVE PagesInv'
<1>1. PICK n : n = [at |-> "set", kind |-> reading[r].kind, since |-> reading[r].since,
                    version |-> reading[r].version, rows |-> rated]
  OBVIOUS
<1>2. reading[r].at = "rows" /\ reading[r] # Reader0 /\ SoundReading(reading[r])
  BY DEF ListStandings, ReadsAt, Reader0, PagesInv
<1>3. rated \in Nat /\ generation <= rated + 1 /\ generation \in Nat /\ (closedAt > 0 => rated = closedAt)
  BY OwedIsFinite DEF PagesInv
<1>4. reading[r].version \in Nat /\ reading[r].version <= rated + 1
  BY <1>2, <1>3 DEF SoundReading
<1>5. SoundReading(n)
  BY <1>1, <1>2, <1>3, <1>4 DEF SoundReading, Stages
<1>6. reading' = [reading EXCEPT ![r] = n]
  BY <1>1 DEF ListStandings, PagesInv
<1>. QED  BY <1>5, <1>6, ReadingMoves DEF ListStandings

LEMMA StoresPage == ASSUME PagesInv, NEW r \in PageReaders, SetPage(r) PROVE PagesInv'
<1>1. PICK k, g, p : k = reading[r].kind /\ g = reading[r].version /\ p = reading[r].rows
  OBVIOUS
<1>2. reading[r].at = "set" /\ reading[r] # Reader0 /\ SoundReading(reading[r])
  BY DEF SetPage, ReadsAt, Reader0, PagesInv
<1>3. /\ k \in PageKinds /\ g \in Nat /\ 1 <= g /\ g <= generation /\ p \in Nat /\ p <= rated /\ g <= p + 1
      /\ k = "closed" => closedAt > 0 /\ p = closedAt
  BY <1>1, <1>2 DEF SoundReading
<1>4. g \in Generations /\ rated \in Nat /\ rated <= MaxRatings
  BY <1>3, OwedIsFinite, PageAssumption DEF Generations, PagesInv
<1>5. p \in 0..(MaxRatings + 1) /\ KeptPage(k, g, p)
  BY <1>3, <1>4, PageAssumption DEF KeptPage
<1>6. seasonPages' = seasonPages \/ seasonPages' = [seasonPages EXCEPT ![<<k, g>>] = p]
  BY <1>1 DEF SetPage, PageKey
<1>7. /\ seasonPages' \in [PageKinds \X Generations -> 0..(MaxRatings + 1)]
      /\ \A kg \in PageKinds \X Generations :
           seasonPages'[kg] = seasonPages[kg] \/ (kg = <<k, g>> /\ seasonPages'[kg] = p)
  BY <1>3, <1>4, <1>5, <1>6 DEF PagesInv
<1>8. ASSUME NEW j \in PageKinds, NEW h \in Generations PROVE KeptPage(j, h, seasonPages'[<<j, h>>])
  <2>1. CASE seasonPages'[<<j, h>>] = seasonPages[<<j, h>>]
    BY <2>1 DEF PagesInv
  <2>2. CASE j = k /\ h = g /\ seasonPages'[<<j, h>>] = p
    BY <1>5, <2>2
  <2>. QED  BY <1>7, <2>1, <2>2
<1>9. Show(r, p) /\ reading' = [reading EXCEPT ![r] = Reader0] /\ UNCHANGED <<rated, closedAt, owed, generation>>
  BY <1>1 DEF SetPage
<1>. QED  BY <1>1, <1>2, <1>3, <1>7, <1>8, <1>9, Answers

LEMMA Expires ==
    ASSUME PagesInv, NEW k \in PageKinds, NEW g \in Generations, PageExpires(k, g) PROVE PagesInv'
<1>1. seasonPages' = [seasonPages EXCEPT ![<<k, g>>] = NoPage] /\ NoPage \in 0..(MaxRatings + 1)
      /\ UNCHANGED <<rated, closedAt, owed, generation, reading, lastAnswer>>
  BY PageAssumption DEF PageExpires, NoPage
<1>2. /\ seasonPages' \in [PageKinds \X Generations -> 0..(MaxRatings + 1)]
      /\ \A kg \in PageKinds \X Generations : seasonPages'[kg] = seasonPages[kg] \/ seasonPages'[kg] = NoPage
  BY <1>1 DEF PagesInv
<1>3. \A j \in PageKinds, h \in Generations : KeptPage(j, h, seasonPages[<<j, h>>])'
  BY <1>1, <1>2 DEF PagesInv, KeptPage, NoPage
<1>. QED  BY <1>1, <1>2, <1>3 DEF PagesInv, SoundReading, Generations

THEOREM SeasonPagesInvariant == PagesSpec => []PagesInv
<1>1. PagesInit => PagesInv
  BY PagesBegin
<1>2. PagesInv /\ [PagesNext]_pageVars => PagesInv'
  <2>. SUFFICES ASSUME PagesInv, [PagesNext]_pageVars PROVE PagesInv'
    OBVIOUS
  <2>1. ASSUME NEW r \in PageReaders, GetProfile(r) \/ GetLeaderboard(r) \/ GetClosedLeaderboard(r)
        PROVE  PagesInv'
    <3>1. PICK k \in PageKinds : Opens(r, k) /\ (k = "closed" => closedAt > 0)
      BY <2>1 DEF GetProfile, GetLeaderboard, GetClosedLeaderboard, PageKinds
    <3>. QED  BY <3>1, Opening
  <2>2. CASE UNCHANGED pageVars
    BY <2>2 DEF pageVars, PagesInv, KeptPage, SoundReading, NoPage, Generations
  <2>3. CASE PagesNext
    BY <2>1, <2>3, Rates, Invalidates, ReadsVersion, LooksUp, ListsStandings, StoresPage, Expires DEF PagesNext
  <2>. QED  BY <2>2, <2>3
<1>. QED  BY <1>1, <1>2, PTL DEF PagesSpec

(* While the cache can give its generation, a page opened after a rating    *)
(* was announced shows it, whichever reader filled the cache and however    *)
(* slowly; the page of a closed season shows its final standings.           *)
THEOREM SeasonPagesKeepUp == ASSUME ~CacheFaults PROVE PagesSpec => []PagesKeepUp
<1>1. PagesInv => PagesKeepUp
  BY DEF PagesInv, PagesKeepUp
<1>. QED  BY <1>1, SeasonPagesInvariant, PTL

(* Even while it cannot, the answer of a closed season is its final one.    *)
THEOREM ClosedPagesAreFinal ==
    PagesSpec => [](lastAnswer.kind = "closed" => lastAnswer.rows = closedAt)
<1>1. PagesInv => (lastAnswer.kind = "closed" => lastAnswer.rows = closedAt)
  BY DEF PagesInv
<1>. QED  BY <1>1, SeasonPagesInvariant, PTL

(* The read models keep up, as far as the cache gives its generation.       *)
THEOREM BoardsAlwaysKeepUp == ASSUME ~CacheFaults PROVE BoardSpec /\ PagesSpec => []BoardsKeepUp
<1>1. EntryIsBest /\ PagesFollowBumps /\ PagesKeepUp => BoardsKeepUp
  BY DEF BoardsKeepUp
<1>. QED  BY <1>1, BoardEntryIsBest, BoardPagesFollow, SeasonPagesKeepUp, PTL

-----------------------------------------------------------------------------
(* The types of the services.  Where an invariant above already bounds every *)
(* row, it says the types ...                                                *)
LEMMA GatheringsTyped == (RoomInv => RoomTypeOK) /\ (PartyInv => PartyTypeOK)
<1>1. ASSUME PartyInv, NEW p \in PartyIds PROVE party[p].ready \subseteq ToSet(party[p].roster)
  BY <1>1 DEF PartyInv, ReadyInv
<1>. QED  BY <1>1 DEF RoomInv, PartyInv, PartyRows, PartyRow, InviteRow, PartyCallRow, PartyTypeOK

LEMMA GamesTyped == SoloInv => SoloTypeOK
BY DEF SoloInv, SoundSolo, TabsInv, SoloTypeOK

LEMMA PagesTyped == PagesInv => PageTypeOK
<1>. SUFFICES ASSUME PagesInv PROVE PageTypeOK
  OBVIOUS
<1>1. rated \in 0..MaxRatings /\ closedAt \in Nat /\ (closedAt > 0 => closedAt = rated) /\ MaxRatings \in Nat
  BY PageAssumption DEF PagesInv
<1>2. closedAt \in 0..rated
  BY <1>1
<1>. QED  BY <1>1, <1>2 DEF PagesInv, PageTypeOK

(* ... and what they leave out: waiting ends at its bound, ... *)
LEMMA SearchTypeStep ==
    ASSUME SearchInv, SearchTypeOK, [SearchNext]_searchVars PROVE SearchTypeOK'
<1>1. SearchInv' /\ MaxWait \in Nat
  BY SearchStep, SearchAssumption
<1>2. ASSUME NEW s \in Sought, HalfMinute(s) PROVE waited' \in [Sought -> 0..MaxWait]
  BY <1>1, <1>2 DEF HalfMinute, SearchTypeOK
<1>3. waited' \in [Sought -> 0..MaxWait]
  BY <1>2 DEF SearchNext, JoinRanked, ClaimRanked, SearchTypeOK, searchVars
<1>. QED  BY <1>1, <1>3 DEF SearchInv, SearchTypeOK

LEMMA SearchTypeCorrect == SearchSpec => []SearchTypeOK
<1>1. SearchInit => SearchInv /\ SearchTypeOK
  BY SearchAssumption DEF SearchInit, SearchInv, SearchTypeOK
<1>2. SearchInv /\ [SearchNext]_searchVars => SearchInv'
  BY SearchStep
<1>. QED  BY <1>1, <1>2, SearchTypeStep, PTL DEF SearchSpec

(* ... no body runs more often than its key's bound, ... *)
LEMMA RunsCounted ==
    ASSUME TypeInv, NEW s \in Services, NEW k \in Keys, NEW b \in Bodies
    PROVE  runs[<<s, k>>][b] <= RunCount(s, k) /\ RunCount(s, k) \in Nat
<1>. DEFINE f == runs[<<s, k>>]
<1>1. f \in [Bodies -> Nat] /\ IsFiniteSet(Bodies) /\ IsFiniteSet(Bodies \ {b})
  BY KeyAssumption, FS_Subset DEF TypeInv
<1>2. /\ \A c \in Bodies : f[c] \in Nat /\ f[c] \in Int
      /\ \A c \in Bodies \ {b} : f[c] \in Nat
  BY <1>1
<1>3. SumFunctionOnSet(f, Bodies) = f[b] + SumFunctionOnSet(f, Bodies \ {b})
  BY <1>1, <1>2, SumTakesOut
<1>4. SumFunctionOnSet(f, Bodies \ {b}) \in Nat /\ SumFunctionOnSet(f, Bodies) \in Nat
  BY <1>1, <1>2, SumIsNat
<1>. QED  BY <1>2, <1>3, <1>4 DEF RunCount

LEMMA KeyTypeStep ==
    ASSUME KInv, KeyTypeOK, [KeyNext]_keyVars PROVE KeyTypeOK'
<1>1. KInv' /\ TypeInv /\ TypeInv' /\ MaxRuns \in Nat
  BY StepKeeps, KeyAssumption DEF KInv
<1>2. \A c \in KeyCalls : keyCall[c] # Free => /\ keyCall[c].service \in Services
                                               /\ keyCall[c].key \in Keys /\ keyCall[c].body \in Bodies
  BY <1>1 DEF TypeInv, Requests
<1>3. ASSUME NEW c \in KeyCalls, keyCall[c].at # "free" PROVE keyCall[c] # Free
  BY <1>3 DEF Free
<1>4. runs' \in [Services \X Keys -> [Bodies -> 0..MaxRuns]]
  <2>1. CASE UNCHANGED runs
    BY <2>1 DEF KeyTypeOK
  <2>2. ASSUME NEW c \in KeyCalls, Run(c) PROVE runs' \in [Services \X Keys -> [Bodies -> 0..MaxRuns]]
    <3>1. PICK s, k, b : s = keyCall[c].service /\ k = keyCall[c].key /\ b = keyCall[c].body
      OBVIOUS
    <3>2. s \in Services /\ k \in Keys /\ b \in Bodies
      BY <1>2, <1>3, <2>2, <3>1 DEF Run, AtStep
    <3>3. \/ runs' = runs
          \/ RunCount(s, k) < MaxRuns /\ runs' = [runs EXCEPT ![<<s, k>>][b] = @ + 1]
      BY <2>2, <3>1 DEF Run
    <3>4. RunCount(s, k) < MaxRuns => runs[<<s, k>>][b] + 1 \in 0..MaxRuns
      <4>1. runs[<<s, k>>] \in [Bodies -> Nat]
        BY <1>1, <3>2 DEF TypeInv
      <4>. QED  BY <1>1, <3>2, <4>1, RunsCounted
    <3>5. CASE runs' = [runs EXCEPT ![<<s, k>>][b] = @ + 1] /\ runs[<<s, k>>][b] + 1 \in 0..MaxRuns
      <4>1. [runs[<<s, k>>] EXCEPT ![b] = @ + 1] \in [Bodies -> 0..MaxRuns]
        BY <3>2, <3>5 DEF KeyTypeOK
      <4>. QED  BY <3>2, <3>5, <4>1 DEF KeyTypeOK
    <3>. QED  BY <3>3, <3>4, <3>5 DEF KeyTypeOK
  <2>. QED  BY <2>1, <2>2 DEF KeyNext, keyVars, Ask, Begin, Complete, ReleaseClaim, GetRecord, ClaimLock, StoreResponse,
               ReleaseLock, Dies, LockExpires
<1>5. replay' \in [Keys -> Bodies \union {NoReplay}]
  <2>1. ASSUME NEW c \in KeyCalls, StoreResponse(c) PROVE replay' \in [Keys -> Bodies \union {NoReplay}]
    BY <1>2, <1>3, <2>1 DEF StoreResponse, AtStep, KeyTypeOK
  <2>. QED  BY <2>1 DEF KeyTypeOK, KeyNext, keyVars, Ask, Begin, Complete, ReleaseClaim, GetRecord, ClaimLock, Run,
               ReleaseLock, Dies, LockExpires
<1>6. keyLock' \in [Keys -> BOOLEAN]
  BY DEF KeyTypeOK, KeyNext, keyVars, Ask, Begin, Complete, ReleaseClaim, GetRecord, ClaimLock, Run, StoreResponse,
     ReleaseLock, Dies, LockExpires
<1>. QED  BY <1>1, <1>4, <1>5, <1>6 DEF TypeInv, KeyTypeOK

LEMMA KeyTypeCorrect == KeySpec => []KeyTypeOK
<1>1. KeyInit => KeyTypeOK
  BY KeyAssumption DEF KeyInit, NoRecord, KeyTypeOK
<1>. QED  BY <1>1, InitKeys, StepKeeps, KeyTypeStep, PTL DEF KeySpec

(* ... days and chains end at their bounds, as what streaks count is days ... *)
LEMMA RunsAreDays ==
    ASSUME NEW P \in SUBSET Days, NEW s \in AStreak, RunWithin(P, s), s.last \in 0..LastDay
    PROVE  s \in Streaks
<1>1. LastDay \in Nat /\ Days \subseteq Nat
  BY DailyNumbers
<1>2. s.count \in Nat /\ s.best \in Nat /\ s.last \in Nat
      /\ s = [count |-> s.count, best |-> s.best, last |-> s.last]
  BY DEF AStreak
<1>3. s.count \in 0..LastDay
  <2>1. CASE s.count = 0
    BY <1>1, <2>1
  <2>2. CASE s.count > 0
    <3>1. s.last - s.count + 1 \in (s.last - s.count + 1)..s.last
      BY <1>2, <2>2
    <3>2. s.last - s.count + 1 \in 1..LastDay
      BY <1>1, <2>2, <3>1 DEF RunWithin, Days
    <3>. QED  BY <1>1, <1>2, <3>2
  <2>. QED  BY <1>2, <2>1, <2>2
<1>4. s.best \in 0..LastDay
  BY <1>1, <1>2 DEF RunWithin, Days
<1>. QED  BY <1>2, <1>3, <1>4 DEF Streaks

LEMMA DailyTypeStep ==
    ASSUME DailyInv, DailyTypeOK, [DailyNext]_dailyVars PROVE DailyTypeOK'
<1>1. DailyInv' /\ LastDay \in Nat /\ MaxChains \in Nat
  BY DailyStep, DailyAssumption
<1>2. /\ today' \in Days /\ attempt' \in [Attempts -> AnAttempt]
      /\ mission' \in [Missions -> [value : Nat, events : SUBSET Sources, claimed : BOOLEAN]]
  BY <1>1 DEF DailyInv, AttemptsInv, MissionsInv
<1>3. xp' \in Nat
  <2>1. xp' \in {xp, xp + 1}
    BY DEF DailyNext, dailyVars, StartDailyAttempt, StartChallengeAttempt, CreateAttempt, StartAttemptGame,
     StartGameOfAttempt, CompleteGameOfAttempt, OnGameCompleted, UpdateAttemptCompletion, CreateResult, ReadStreak,
     SaveStreak, FireDailyMission, FireMilestone, AwardAccountXP, HookDies, ClaimMission, NextDay
  <2>. QED  BY <2>1 DEF DailyTypeOK
<1>4. chains' \in 0..MaxChains
  <2>1. chains' = chains \/ (chains < MaxChains /\ chains' = chains + 1)
    BY DEF DailyNext, dailyVars, StartDailyAttempt, StartChallengeAttempt, CreateAttempt, StartAttemptGame,
     StartGameOfAttempt, CompleteGameOfAttempt, OnGameCompleted, UpdateAttemptCompletion, CreateResult, ReadStreak,
     SaveStreak, FireDailyMission, FireMilestone, AwardAccountXP, HookDies, ClaimMission, NextDay
  <2>. QED  BY <1>1, <2>1 DEF DailyTypeOK
<1>5. finished' \subseteq Attempts
  <2>1. finished' = finished \/ \E h \in Hooks : finished' = finished \cup {hook[h].of}
    BY DEF DailyNext, dailyVars, StartDailyAttempt, StartChallengeAttempt, CreateAttempt, StartAttemptGame,
     StartGameOfAttempt, CompleteGameOfAttempt, OnGameCompleted, UpdateAttemptCompletion, CreateResult, ReadStreak,
     SaveStreak, FireDailyMission, FireMilestone, AwardAccountXP, HookDies, ClaimMission, NextDay
  <2>. QED  BY <2>1 DEF DailyTypeOK
<1>6. streak' \in Streaks
  <2>1. ASSUME NEW h \in Hooks, SaveStreak(h) PROVE streak' = streak \/ streak'.last \in Days
    <3>1. hook[h].of[1] \in Days
      BY DEF DailyTypeOK, Attempts
    <3>2. ASSUME NEW s, NEW d \in Days PROVE ApplyDailyCompletion(s, d).last = d
      BY DEF ApplyDailyCompletion
    <3>. QED  BY <2>1, <3>1, <3>2 DEF SaveStreak
  <2>2. streak' = streak \/ streak'.last \in Days
    BY <2>1 DEF DailyNext, dailyVars, StartDailyAttempt, StartChallengeAttempt, CreateAttempt, StartAttemptGame,
       StartGameOfAttempt, CompleteGameOfAttempt, OnGameCompleted, UpdateAttemptCompletion, CreateResult, ReadStreak,
       FireDailyMission, FireMilestone, AwardAccountXP, HookDies, ClaimMission, NextDay
  <2>3. ASSUME streak'.last \in Days PROVE streak' \in Streaks
    <3>1. streak' \in AStreak /\ RunWithin(DaysPlayed', streak') /\ DaysPlayed' \subseteq Days
      BY <1>1 DEF DailyInv, HooksInv, DaysPlayed, RunWithin
    <3>2. streak'.last \in 0..LastDay
      BY <1>1, <2>3 DEF Days
    <3>. QED  BY <3>1, <3>2, RunsAreDays
  <2>. QED  BY <2>2, <2>3 DEF DailyTypeOK
<1>7. hook' \in [Hooks -> [pc : {"idle", "mark", "result", "read", "save", "missions", "milestone", "xp"},
                          of : Attempts, known : BOOLEAN, saw : Streaks, replay : BOOLEAN]]
  <2>1. NoStreak \in Streaks
    BY <1>1 DEF NoStreak, Streaks
  <2>2. hook' \in [Hooks -> AHook]
    BY <1>1 DEF DailyInv, HooksInv
  <2>3. \A h \in Hooks : hook'[h].saw \in {hook[h].saw, streak, NoStreak}
    <3>1. \A h \in Hooks : hook[h] \in [pc : {"idle", "mark", "result", "read", "save", "missions", "milestone", "xp"},
                                       of : Attempts, known : BOOLEAN, saw : Streaks, replay : BOOLEAN]
      BY DEF DailyTypeOK
    <3>2. \/ hook' = hook
          \/ \E g \in Hooks : \E r : /\ hook' = [hook EXCEPT ![g] = r]
                                   /\ r.saw \in {hook[g].saw, streak, NoStreak}
      <4>1. CASE UNCHANGED hook
        BY <4>1
      <4>2. ASSUME NEW g \in Hooks, NEW a \in Attempts, OnGameCompleted(g, a)
            PROVE  \E r : hook' = [hook EXCEPT ![g] = r] /\ r.saw \in {hook[g].saw, streak, NoStreak}
        <5>1. PICK r : r = [IdleHook EXCEPT !.pc = "mark", !.of = a, !.known = (attempt[a].status = "completed"),
                                            !.replay = (a \in finished)]
          OBVIOUS
        <5>2. r.saw = NoStreak /\ hook' = [hook EXCEPT ![g] = r]
          BY <4>2, <5>1 DEF OnGameCompleted, IdleHook
        <5>. QED  BY <5>2
      <4>3. ASSUME NEW g \in Hooks, \/ UpdateAttemptCompletion(g) \/ CreateResult(g) \/ ReadStreak(g) \/ SaveStreak(g)
                                    \/ FireDailyMission(g) \/ FireMilestone(g) \/ AwardAccountXP(g) \/ HookDies(g)
            PROVE  \E r : hook' = [hook EXCEPT ![g] = r] /\ r.saw \in {hook[g].saw, streak, NoStreak}
        <5>1. IdleHook.saw = NoStreak
          BY DEF IdleHook
        <5>. QED  BY <3>1, <4>3, <5>1 DEF UpdateAttemptCompletion, CreateResult, ReadStreak, SaveStreak, FireDailyMission,
                     FireMilestone, AwardAccountXP, HookDies, HookTo
      <4>. QED  BY <4>1, <4>2, <4>3 DEF DailyNext, dailyVars, StartDailyAttempt, StartChallengeAttempt, CreateAttempt,
                   StartAttemptGame, StartGameOfAttempt, CompleteGameOfAttempt, ClaimMission, NextDay
    <3>. QED  BY <3>2 DEF DailyTypeOK
  <2>4. \A h \in Hooks : hook'[h].saw \in Streaks
    BY <2>1, <2>3 DEF DailyTypeOK
  <2>5. \A h \in Hooks : hook'[h] \in [pc : {"idle", "mark", "result", "read", "save", "missions", "milestone", "xp"},
                          of : Attempts, known : BOOLEAN, saw : Streaks, replay : BOOLEAN]
    BY <2>2, <2>4 DEF AHook
  <2>. QED  BY <2>2, <2>5
<1>. QED  BY <1>2, <1>3, <1>4, <1>5, <1>6, <1>7 DEF AnAttempt, DailyTypeOK

LEMMA DailyTypeCorrect == DailySpec => []DailyTypeOK
<1>1. DailyInit => DailyTypeOK
  BY DailyNumbers, DailyAssumption DEF DailyInit, DailyTypeOK, NoAttempt, NoStreak, Streaks, IdleHook, Attempts, Days, GameNos
<1>. QED  BY <1>1, DailyBegins, DailyStep, DailyTypeStep, PTL DEF DailySpec

(* ... boards never count more than there are games and commits, ... *)
LEMMA BoardTypeStep ==
    ASSUME EntryInv, BoardPagesInv, BoardTypeOK, [BoardNext]_boardVars PROVE BoardTypeOK'
<1>1. EntryInv' /\ BoardPagesInv' /\ MaxCommits \in Nat /\ MaxBumps \in Nat /\ IsFiniteSet(BoardGames)
  BY EntryStep, BoardPagesStep, BoardAssumption
<1>2. commits \in 0..MaxCommits /\ commits' \in 0..MaxCommits
  <2>1. commits' = commits \/ (commits < MaxCommits /\ commits' = commits + 1)
    BY DEF BoardNext, boardVars, CompleteBoardGame, StartProjection, MaterializeCompletedGame, BumpVersion, ProjectionDies,
       StartRead, CacheGet, LoadPage, CacheSet, FriendsPage, ReplyPage
  <2>. QED  BY <1>1, <2>1 DEF BoardTypeOK
<1>3. sealed' \in 0..MaxCommits /\ version' \in 0..MaxBumps
  BY <1>1, <1>2 DEF BoardPagesInv
<1>4. ASSUME NEW p \in Projections, MaterializeCompletedGame(p)
      PROVE  entry' \in [score : 0..BestScore, played : 0..Cardinality(BoardGames), game : BoardGames \cup {"none"}]
  <2>1. projection[p].game \in Played /\ Played \subseteq BoardGames
    BY <1>4 DEF MaterializeCompletedGame, EntryInv, Played
  <2>2. PICK b : b = BestGame(projection[p].game)
    OBVIOUS
  <2>3. b \in BoardGames /\ score[b] \in 0..BestScore
    BY <2>1, <2>2, BestGameIsBest DEF EntryInv, BestGame
  <2>4. Cardinality(Played) \in 0..Cardinality(BoardGames)
    BY <1>1, <2>1, FS_Subset, FS_CardinalityType
  <2>5. entry' = BetterEntry(entry, [score |-> score[b], played |-> Cardinality(Played), game |-> b])
    BY <1>4, <2>2 DEF MaterializeCompletedGame, UpsertBestEntry
  <2>. QED  BY <2>3, <2>4, <2>5 DEF BetterEntry, BoardTypeOK
<1>5. entry' \in [score : 0..BestScore, played : 0..Cardinality(BoardGames), game : BoardGames \cup {"none"}]
  BY <1>4 DEF BoardTypeOK, BoardNext, boardVars, CompleteBoardGame, StartProjection, BumpVersion, ProjectionDies,
     StartRead, CacheGet, LoadPage, CacheSet, FriendsPage, ReplyPage
<1>6. projected' \subseteq BoardGames
  BY <1>1 DEF EntryInv, Played
<1>7. ASSUME NEW r \in Readers PROVE reader'[r].page \in 0..MaxCommits /\ reader'[r].floor \in 0..MaxCommits
  <2>1. reader[r] \in [pc : {"idle", "get", "load", "set", "reply"}, ver : 0..(MaxBumps + 1), page : 0..MaxCommits,
                       floor : 0..MaxCommits] /\ sealed \in 0..MaxCommits /\ reader \in [Readers -> Read]
    BY DEF BoardTypeOK, BoardPagesInv
  <2>2. ASSUME NEW q \in Readers, CacheGet(q) PROVE reader'[r].page \in 0..MaxCommits /\ reader'[r].floor \in 0..MaxCommits
    <3>1. CASE reader' = [reader EXCEPT ![q].pc = "load"]
      BY <2>1, <3>1
    <3>2. CASE pages[reader[q].ver] # -1 /\ reader' = [reader EXCEPT ![q].pc = "reply", ![q].page = pages[reader[q].ver]]
      <4>1. reader[q].ver \in 1..(MaxBumps + 1)
        <5>1. FitsRead(q, reader[q]) /\ reader[q] \in Read /\ reader[q].pc = "get"
          BY <2>2 DEF BoardPagesInv, CacheGet
        <5>. QED  BY <1>1, <5>1 DEF FitsRead, Read
      <4>2. pages[reader[q].ver] \in 0..MaxCommits
        BY <1>1, <3>2, <4>1 DEF BoardTypeOK
      <4>. QED  BY <2>1, <3>2, <4>2
    <3>. QED  BY <2>2, <3>1, <3>2 DEF CacheGet
  <2>3. ASSUME NEW q \in Readers, LoadPage(q) \/ CacheSet(q) PROVE reader'[r].page \in 0..MaxCommits /\ reader'[r].floor \in 0..MaxCommits
    BY <1>2, <2>1, <2>3 DEF LoadPage, CacheSet
  <2>4. ASSUME NEW q \in Readers, StartRead(q) \/ FriendsPage(q) \/ ReplyPage(q)
        PROVE  reader'[r].page \in 0..MaxCommits /\ reader'[r].floor \in 0..MaxCommits
    BY <1>1, <1>2, <2>1, <2>4 DEF StartRead, FriendsPage, ReplyPage, ListFriendsEntries, IdleReader
  <2>. QED  BY <2>1, <2>2, <2>3, <2>4 DEF BoardNext, boardVars, CompleteBoardGame, StartProjection, MaterializeCompletedGame,
               BumpVersion, ProjectionDies
<1>8. reader' \in [Readers -> [pc : {"idle", "get", "load", "set", "reply"}, ver : 0..(MaxBumps + 1), page : 0..MaxCommits,
                               floor : 0..MaxCommits]]
  BY <1>1, <1>7 DEF BoardPagesInv, Read
<1>9. pages' \in [1..(MaxBumps + 1) -> -1..MaxCommits]
  <2>1. ASSUME NEW r \in Readers, CacheSet(r) PROVE pages' \in [1..(MaxBumps + 1) -> -1..MaxCommits]
    <3>1. reader[r].page \in -1..MaxCommits
      BY <1>1 DEF BoardTypeOK
    <3>. QED  BY <2>1, <3>1 DEF CacheSet, BoardTypeOK
  <2>. QED  BY <2>1 DEF BoardTypeOK, BoardNext, boardVars, CompleteBoardGame, StartProjection, MaterializeCompletedGame,
               BumpVersion, ProjectionDies, StartRead, CacheGet, LoadPage, FriendsPage, ReplyPage
<1>. QED  BY <1>1, <1>2, <1>3, <1>5, <1>6, <1>8, <1>9 DEF EntryInv, BoardTypeOK

LEMMA BoardTypeCorrect == BoardSpec => []BoardTypeOK
<1>1. BoardInit => BoardTypeOK
  <2>1. Cardinality(BoardGames) \in Nat /\ MaxCommits \in Nat /\ MaxBumps \in Nat /\ BestScore \in Nat
    BY BoardAssumption, FS_CardinalityType
  <2>. QED  BY <2>1 DEF BoardInit, BoardTypeOK, NoEntry, IdleProjection, IdleReader
<1>2. EntryInv /\ [BoardNext]_boardVars => EntryInv'
  BY EntryStep
<1>3. BoardPagesInv /\ [BoardNext]_boardVars => BoardPagesInv'
  BY BoardPagesStep
<1>. QED  BY <1>1, <1>2, <1>3, BoardBegins, BoardTypeStep, PTL DEF BoardSpec

(* Whatever part runs, every part takes a step of its own or none. *)
LEMMA ServicesParts ==
    ServicesSpec => /\ RoomSpec /\ PartySpec /\ PairSpec /\ SearchSpec /\ KeySpec
                    /\ SoloSpec /\ DailySpec /\ BoardSpec /\ PagesSpec
<1>1. ServicesInit => /\ RoomInit /\ PartyInit /\ PairInit /\ SearchInit /\ KeyInit
                      /\ SoloInit /\ DailyInit /\ BoardInit /\ PagesInit
  BY DEF ServicesInit
<1>2. [ServicesNext]_servicesVars =>
        /\ [RoomNext]_roomVars /\ [PartyNext]_partyVars /\ [PairNext]_pairVars /\ [SearchNext]_searchVars
        /\ [KeyNext]_keyVars /\ [SoloNext]_soloVars /\ [DailyNext]_dailyVars /\ [BoardNext]_boardVars
        /\ [PagesNext]_pageVars
  <2>1. FriendsNext \/ PartiesNext => PartyNext
    BY DEF FriendsNext, PartiesNext, PartyNext
  <2>. QED  BY <2>1 DEF ServicesNext, servicesVars
<1>. QED  BY <1>1, <1>2, PTL DEF ServicesSpec, RoomSpec, PartySpec, PairSpec, SearchSpec, KeySpec, SoloSpec,
             DailySpec, BoardSpec, PagesSpec

(* Type correctness of the services, whichever part runs: every room, party,  *)
(* queue, search, key, game, challenge, board and page, and every request for *)
(* one, is of its type, for any users, keys, bounds and interleavings.        *)
THEOREM ServicesTypeCorrect == ServicesSpec => []ServicesTypeOK
<1>. DEFINE Typed == /\ RoomTypeOK /\ PartyTypeOK /\ PairTypeOK /\ SearchTypeOK /\ KeyTypeOK
                     /\ SoloTypeOK /\ DailyTypeOK /\ BoardTypeOK /\ PageTypeOK
             Known == part \in Parts
<1>1. ServicesSpec => []Typed
  <2>1. ServicesSpec => [](RoomTypeOK /\ PartyTypeOK)
    BY ServicesParts, RoomInvariant, PartyInvariant, GatheringsTyped, PTL
  <2>2. ServicesSpec => [](SoloTypeOK /\ PageTypeOK)
    BY ServicesParts, SoloInvariant, GamesTyped, SeasonPagesInvariant, PagesTyped, PTL
  <2>3. ServicesSpec => [](PairTypeOK /\ SearchTypeOK /\ KeyTypeOK /\ DailyTypeOK /\ BoardTypeOK)
    BY ServicesParts, PairTypeCorrect, SearchTypeCorrect, KeyTypeCorrect, DailyTypeCorrect, BoardTypeCorrect, PTL
  <2>. QED  BY <2>1, <2>2, <2>3, PTL
<1>2. ServicesInit => Known
  BY DEF ServicesInit
<1>3. Known /\ [ServicesNext]_servicesVars => Known'
  BY DEF ServicesNext, servicesVars
<1>4. Known /\ Typed => ServicesTypeOK
  <2>1. PartyTypeOK => FriendTypeOK
    BY DEF PartyTypeOK
  <2>. QED  BY <2>1, PartsAssumption DEF ServicesTypeOK
<1>. HIDE DEF Typed, Known
<1>. QED  BY <1>1, <1>2, <1>3, <1>4, PTL DEF ServicesSpec
=============================================================================
