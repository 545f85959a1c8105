------------------------------ MODULE ReadModels ------------------------------
(* The read models a finished game reaches: leaderboards and the pages of its   *)
(* season.                                                                      *)
EXTENDS Leaderboards, SeasonPages

(* The boards keep up with the games: the player's entry is the best game's,    *)
(* and no cached page, of a board or of a season, is older than what was        *)
(* announced before it was opened.                                              *)
BoardsKeepUp == EntryIsBest /\ PagesFollowBumps /\ PagesKeepUp
==============================================================================
