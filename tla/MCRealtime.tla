----------------------------- MODULE MCRealtime ------------------------------
(* Two players with a socket each; two teammates with a message and an upload   *)
(* each, and two requests at a time.                                            *)
EXTENDS Realtime, TLC

CONSTANTS
    v1, v2, s1, s2, \* two players of a match and their sockets
    i1, i2,         \* API instances
    m1, m2,         \* two teammates
    t1, t2, u1, u2, \* their messages and uploads
    x, y            \* requests in progress at one time

MCTeamOf      == v1 :> 1 @@ v2 :> 1
MCUserOf      == s1 :> v1 @@ s2 :> v2
MCInstanceOf  == s1 :> i1 @@ s2 :> i1
MCAuthorOf    == t1 :> m1 @@ t2 :> m1
MCOwnerOf     == u1 :> m1
MCTwoOwnersOf == u1 :> m1 @@ u2 :> m1

(* Requests are exchanged together with the two players of the match.  *)
MCExchange == x :> y @@ y :> x @@ v1 :> v2 @@ v2 :> v1 @@ s1 :> s2 @@ s2 :> s1
MCSymmetry == Permutations({x, y}) \union {MCExchange}
=============================================================================
