------------------------------ MODULE Realtime -------------------------------
(* The live side of a match: its channel and the chat of a team in it, which    *)
(* share no state.  A behaviour is of one of the two parts and leaves the other *)
(* as it begins.                                                                *)
EXTENDS MatchChannel, TeamChat

CONSTANT Parts    \* the parts explored: a subset of {"channel", "chat"}

VARIABLE part

realtimeVars == <<part, channelVars, chatVars>>

RealtimeInit == part \in Parts /\ ChannelInit /\ ChatInit

RealtimeNext ==
    /\ UNCHANGED part
    /\ IF part = "channel" THEN ChannelNext ELSE UNCHANGED channelVars
    /\ IF part = "chat"    THEN ChatNext    ELSE UNCHANGED chatVars

RealtimeSpec == RealtimeInit /\ [][RealtimeNext]_realtimeVars

(* The fairness of ChannelLive. *)
RealtimeLive ==
    /\ RealtimeSpec
    /\ WF_realtimeVars(ChannelServer /\ UNCHANGED <<part, chatVars>>)
    /\ \A s \in Sockets : WF_realtimeVars(Served(s) /\ UNCHANGED <<part, chatVars>>)
    /\ \A i \in Instances : WF_realtimeVars(SubscribeLands(i) /\ UNCHANGED <<part, chatVars>>)

(* Every socket, message, row and object is one the code can produce. *)
RealtimeTypeOK == ChannelTypeOK /\ ChatTypeOK
=============================================================================
