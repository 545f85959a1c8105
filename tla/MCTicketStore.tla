---------------------------- MODULE MCTicketStore ----------------------------
(* TicketStore on duo rosters, two of which overlap. *)
EXTENDS TicketStore, TLC

CONSTANTS u1, u2, u3, u4, u5, u6

MCUsers   == {u1, u2, u3, u4, u5, u6}
MCRosters == {{u1, u2}, {u3, u4}, {u1, u3}, {u5, u6}}
=============================================================================
