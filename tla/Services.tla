------------------------------ MODULE Services -------------------------------
(* The services around the matches, which share no state with one another       *)
(* (each keeps its own tables and keys): a behaviour is of one part of them,    *)
(* chosen at the start, and leaves the others as they begin.                    *)
EXTENDS HostedRoom, Parties, Searching, CommandKeys, SoloGame, DailyChallenge, ReadModels

CONSTANTS
    Parts,       \* the parts explored
    Restless,    \* pairs of users that change what they are beside the parties
    PartySocial  \* bound: how often they do

ASSUME PartsAssumption ==
    Parts \subseteq {"rooms", "friends", "parties", "pairs", "search", "keys", "solo", "challenges", "boards", "seasons"}

VARIABLE part

servicesVars == <<part, roomVars, partyVars, pairVars, searchVars, keyVars, soloVars, dailyVars,
                  boardVars, pageVars>>

(* A part that is left alone stands in one initial state. *)
ServicesInit ==
    /\ part \in Parts
    /\ RoomInit    /\ (part # "rooms" => room.max = Max(Capacities))
    /\ PartyInit   /\ PairInit
    /\ SearchInit  /\ (part # "search" =>
                          \A s \in Sought, i \in 1..TeamSize : team[s][i] = [rating |-> Max(Ratings), placed |-> TRUE])
    /\ KeyInit
    /\ SoloInit    /\ (part # "solo" => solo.mode = "daily")
    /\ DailyInit   /\ BoardInit /\ PagesInit

(* Beside the parties, some pairs of users change what they are to each other. *)
PartiesNext ==
    /\ PartyNext
    /\ social' <= PartySocial
    /\ \A q \in Pairs \ Restless : pair'[q] = pair[q]

FriendsNext == FriendNext /\ UNCHANGED <<party, invite, partyCall, ticket, match, vouched>>

ServicesNext ==
    /\ UNCHANGED part
    /\ IF part = "rooms" THEN RoomNext ELSE UNCHANGED roomVars
    /\ CASE part = "parties" -> PartiesNext
         [] part = "friends" -> FriendsNext
         [] OTHER            -> UNCHANGED partyVars
    /\ IF part = "pairs"      THEN PairNext    ELSE UNCHANGED pairVars
    /\ IF part = "search"     THEN SearchNext  ELSE UNCHANGED searchVars
    /\ IF part = "keys"       THEN KeyNext     ELSE UNCHANGED keyVars
    /\ IF part = "solo"       THEN SoloNext    ELSE UNCHANGED soloVars
    /\ IF part = "challenges" THEN DailyNext   ELSE UNCHANGED dailyVars
    /\ IF part = "boards"     THEN BoardNext   ELSE UNCHANGED boardVars
    /\ IF part = "seasons"    THEN PagesNext   ELSE UNCHANGED pageVars

ServicesSpec == ServicesInit /\ [][ServicesNext]_servicesVars

(* Every table, key and request of the services is one the code can produce. *)
ServicesTypeOK ==
    CASE part = "rooms"      -> RoomTypeOK
      [] part = "friends"    -> FriendTypeOK
      [] part = "parties"    -> PartyTypeOK
      [] part = "pairs"      -> PairTypeOK
      [] part = "search"     -> SearchTypeOK
      [] part = "keys"       -> KeyTypeOK
      [] part = "solo"       -> SoloTypeOK
      [] part = "challenges" -> DailyTypeOK
      [] part = "boards"     -> BoardTypeOK
      [] part = "seasons"    -> PageTypeOK
=============================================================================
