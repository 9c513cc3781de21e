---------------------------- MODULE SessionPhases ----------------------------
(***************************************************************************)
(* What a connection is promised about its way into and out of dungeons:   *)
(* the phases at the head of session-transitions.js, and what its client   *)
(* holds and has been told in each.  DungeonEntry is shown to implement it *)
(* for every connection.                                                   *)
(*                                                                         *)
(* "exiting" is the file's "leaving" of an exit; "leaving" that of a door, *)
(* which goes on to the next dungeon.                                      *)
(***************************************************************************)
VARIABLES
  phase,    \* what the connection is doing
  dungeon,  \* whether its client holds objects of a dungeon
  home      \* whether ExitComplete is the last it heard, no entry asked for since

vars == <<phase, dungeon, home>>

Init == phase = "town" /\ dungeon = FALSE /\ home = FALSE

Moves(from, to) == phase \in from /\ phase' = to

\* The client asks for a dungeon: only in town
RequestEntry == Moves({"town"}, "admitting") /\ home' = FALSE /\ UNCHANGED dungeon
\* A place is reserved, in a run or for a door
Admitted == Moves({"admitting"}, "loading") /\ UNCHANGED <<dungeon, home>>
\* The run appears on the client, which has not been sent home meanwhile
Shown == Moves({"loading", "exiting"}, phase) /\ ~home /\ dungeon' = TRUE /\ UNCHANGED home
Started == Moves({"loading"}, "active") /\ UNCHANGED <<dungeon, home>>
\* A refusal, or an entry that failed: nothing of a run is left on the client
GivenUp == Moves({"admitting", "loading"}, "town") /\ ~dungeon' /\ UNCHANGED home

\* A door: the next dungeon is asked about, the old one left, the next entered
DoorTried == Moves({"active"}, "checking") /\ UNCHANGED <<dungeon, home>>
DoorRefused == Moves({"checking"}, "active") /\ UNCHANGED <<dungeon, home>>
DoorTaken == Moves({"checking"}, "leaving") /\ UNCHANGED <<dungeon, home>>
DoorPassed == Moves({"checking", "leaving"}, "admitting") /\ ~dungeon' /\ UNCHANGED home

\* An exit: from anything; ExitComplete when nothing of the dungeon is left on the client
Exit == phase \notin {"exiting", "gone"} /\ phase' = "exiting" /\ UNCHANGED <<dungeon, home>>
ExitComplete ==
  /\ phase' \in {"exiting", "town"} /\ (phase' = "town" \/ phase \in {"exiting", "admitting"})
  /\ ~dungeon' /\ home' = TRUE
Exited == Moves({"exiting"}, "town") /\ UNCHANGED <<dungeon, home>>
\* The connection closes, for good
Closed == phase # "gone" /\ phase' = "gone" /\ UNCHANGED <<dungeon, home>>

Next ==
  \/ RequestEntry \/ Admitted \/ Shown \/ Started \/ GivenUp
  \/ DoorTried \/ DoorRefused \/ DoorTaken \/ DoorPassed
  \/ Exit \/ ExitComplete \/ Exited \/ Closed

Spec == Init /\ [][Next]_vars
=============================================================================
