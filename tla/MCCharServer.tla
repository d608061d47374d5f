---------------------------- MODULE MCCharServer ----------------------------
(***************************************************************************)
(* An instance of two parts of the char server that share no variable: its *)
(* socket loop (module Sockets, the same code in all three servers) and    *)
(* its chat rooms (module ChatRooms).  focus is chosen once: a behaviour   *)
(* moves in one part and the other stays in its initial state, so the      *)
(* states are the sum of the two instances and not their product.          *)
(***************************************************************************)
EXTENDS Sockets, ChatRooms

VARIABLE focus

mcVars == <<sockVars, roomVars, focus>>

MCInit == SockInit /\ RoomInit /\ focus \in {"sockets", "rooms"}

MCNext ==
  \/ focus = "sockets" /\ SockNext /\ UNCHANGED <<roomVars, focus>>
  \/ focus = "rooms" /\ RoomNext /\ UNCHANGED <<sockVars, focus>>

\* The main loop of the server is never left; nothing is assumed of the peers
\* or of the players.
MCSpec ==
  MCInit /\ [][MCNext]_mcVars
         /\ WF_mcVars(focus = "sockets" /\ ServerLoop /\ UNCHANGED <<roomVars, focus>>)
=============================================================================
