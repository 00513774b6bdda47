-------------------------------- MODULE Game --------------------------------
(***************************************************************************)
(* What the game of src/examples/game_server.cxx is to its players: every  *)
(* hit takes effect at once, on the monster and on the player, and the     *)
(* players stop when the monster is dead.                                  *)
(***************************************************************************)
EXTENDS Naturals

CONSTANTS
    HitPoints, \* of the monster at first
    Damages    \* what a hit may take from it

VARIABLES
    hp,   \* hit points the monster has left; with 0 it is gone
    xp,   \* monsters the player has been rewarded for
    hits, \* hits that have taken effect
    over  \* the players have been told that the monster is gone

gameVars == <<hp, xp, hits, over>>

GameInit == hp = HitPoints /\ xp = 0 /\ hits = 0 /\ over = FALSE

Hit(damage) ==
    /\ hp > 0
    /\ hp' = IF damage < hp THEN hp - damage ELSE 0
    /\ xp' = IF hp' = 0 THEN xp + 1 ELSE xp
    /\ hits' = hits + 1
    /\ UNCHANGED over

Over ==
    /\ hp = 0
    /\ over' = TRUE
    /\ UNCHANGED <<hp, xp, hits>>

GameNext == (\E damage \in Damages : Hit(damage)) \/ Over

GameSpec == GameInit /\ [][GameNext]_gameVars
=============================================================================
