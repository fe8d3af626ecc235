------------------------------ MODULE WsSystem ------------------------------
(***************************************************************************)
(* A WebSocketsServer, its clients and the network between them.           *)
(***************************************************************************)
EXTENDS WsServer, WsClient

vars == <<net, server, client>>

(* a connection that no program, and no event on its way, refers to        *)
IsFree(k) ==
  /\ Unused(k) /\ k \notin Range(backlog)
  /\ \A n \in Slots : slot[n].tcp # k /\ session[n] # k
  /\ \A i \in DOMAIN todo : todo[i].tcp # k
NextLink == {k \in Links : IsFree(k) /\ \A o \in 1 .. k - 1 : ~IsFree(o)}

Init == NetInit /\ ServerInit /\ ClientInit

NetStep == \E k \in Links, e \in Ends : Learn(k, e) \/ Break(k, e)
ServerStep == ServerNext /\ UNCHANGED client
Opens(p) == ~ClientIsConnected(p) /\ \E k \in NextLink : Reconnects(p, k) \/ BrowserAsks(p, k)
ClientStep(p) ==
  ClientWorks(p) \/ Opens(p) \/ SendTXT(p) \/ Disconnect(p) \/ BrowserGoes(p)

Next ==
  \/ NetStep /\ UNCHANGED <<server, client>>
  \/ ServerStep
  \/ (Tick \/ \E p \in Peers : ClientStep(p)) /\ UNCHANGED server

Spec == Init /\ [][Next]_vars

(* both sketches call loop() again and again, time passes, and an end      *)
(* learns in the end that the other has stopped                            *)
FairSpec ==
  /\ Spec
  /\ WF_vars(ServerWorks /\ UNCHANGED client)
  /\ \A k \in Links : WF_vars(Learn(k, "server") /\ UNCHANGED <<server, client>>)

-----------------------------------------------------------------------------
Held(k) == {n \in Slots : slot[n].tcp = k}
Waiting(k) ==
  k \in Range(backlog) \/ \E i \in DOMAIN todo : todo[i].op = "newClient" /\ todo[i].tcp = k

TypeOK ==
  /\ \A n \in Slots : /\ slot[n].tcp \in Links \cup {None}
                      /\ slot[n].status = "NOT_CONNECTED" <=> slot[n].tcp = None
                      /\ slot[n].tcp = None => ~slot[n].ws
  /\ \A p \in Peers : client[p].holdOff \in 0 .. Interval
  /\ \A i \in DOMAIN todo : todo[i].n \in 1 .. MAX_CLIENTS + 1

(* Every connection whose server end is open is in one slot, or waits for  *)
(* one: a slot is not given to a second client, and none is forgotten.     *)
OneSlotEach ==
  \A k \in Links : link[k].up["server"] =>
    \/ Waiting(k) /\ Held(k) = {}
    \/ ~Waiting(k) /\ \E n \in Slots : Held(k) = {n}

(* Slots and connections belong together, and a slot given back is empty.  *)
SlotsSound == TypeOK /\ OneSlotEach

(* A client that holds itself CONNECTED is a client of the server, or the  *)
(* server has already given up its end.                                    *)
BothAgree ==
  \A p \in Clients :
    ClientIsConnected(p) /\ client[p].status = "CONNECTED" /\ link[tcp(p)].up["server"]
      => \E n \in Slots : slot[n].tcp = tcp(p) /\ slot[n].status = "CONNECTED"

(* Only a client whose own request asked for it gets a session: what an    *)
(* earlier client of the slot sent does not count.                         *)
OnlyWebSockets == \A p \in Browsers, n \in Slots : tcp(p) # None => session[n] # tcp(p)

(* The events of a slot are sessions (WsSessions).                         *)
Sessions == INSTANCE WsSessions
EventsAreSessions == Sessions!Spec

(* While loop() returns again and again (handleNewClients() stays in it as *)
(* long as connections come in), a slot whose client has gone is given     *)
(* back, whatever the network and the sketches do.                         *)
LoopReturns == []<>(Top = {})
SlotsComeBack ==
  LoopReturns =>
    \A n \in Slots : slot[n].tcp # None /\ ~Up(slot[n].tcp, "client") ~> slot[n].tcp = None

(* "do not flood the server": a client that did not get its session waits  *)
(* for _reconnectInterval before it tries again.                           *)
DoesNotFlood ==
  [][\A p \in Clients : client'[p].since = 0 /\ client[p].since < Interval => client[p].met]_vars
=============================================================================
