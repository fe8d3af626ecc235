----------------------------- MODULE WsSessions -----------------------------
(***************************************************************************)
(* What the callback of a WebSocket server's sketch is promised: the       *)
(* events of a slot are sessions.  CONNECTED begins one, of one client;    *)
(* all messages until DISCONNECTED come from that client, in the order it  *)
(* sent them and none twice or left out; no client is in two sessions at   *)
(* once.  (DISCONNECTED may also come where no session was: see README.)   *)
(***************************************************************************)
EXTENDS Integers

CONSTANTS Slots, Links, None

VARIABLES
  session,    (* of each slot, the client it is about                      *)
  heard       (* of each slot, the number of the session's last message    *)

vars == <<session, heard>>

Init == session = [n \in Slots |-> None] /\ heard = [n \in Slots |-> 0]

Begin(n, k) ==
  /\ session[n] = None /\ \A o \in Slots : session[o] # k
  /\ session' = [session EXCEPT ![n] = k] /\ heard' = [heard EXCEPT ![n] = 0]
Hear(n) ==
  /\ session[n] # None
  /\ heard' = [heard EXCEPT ![n] = @ + 1] /\ UNCHANGED session
End(n) ==
  /\ session' = [session EXCEPT ![n] = None] /\ heard' = [heard EXCEPT ![n] = 0]

Next == \E n \in Slots : Hear(n) \/ End(n) \/ \E k \in Links : Begin(n, k)
Spec == Init /\ [][Next]_vars
=============================================================================
