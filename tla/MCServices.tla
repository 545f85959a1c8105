----------------------------- MODULE MCServices ------------------------------
(* Small instances of the services, each with a rival for every row.            *)
EXTENDS Services, TLC

CONSTANTS
    a, b,   \* players, keys or request bodies, whatever a part has two of
    x, y    \* requests in progress at one time

MCEntries    == 1..2
MCClaims     == 1..2
MCRestless   == {PairOf(a, b)}

(* The parts share their values, so that the group of symmetries stays small. *)
MCSymmetry == Permutations({a, b}) \union Permutations({x, y})
=============================================================================
