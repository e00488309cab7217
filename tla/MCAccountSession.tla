-------------------------- MODULE MCAccountSession ---------------------------
(* Instance of AccountSession: two users, two tabs of one browser. *)
EXTENDS AccountSession, TLC

CONSTANTS alice, bob, left, right

TwoUsers == {alice, bob}
TwoTabs  == {left, right}
=============================================================================
