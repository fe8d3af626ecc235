------------------------------ MODULE WsServer ------------------------------
(***************************************************************************)
(* WebSocketsServer of src/web: the slots of its clients, loop() and the   *)
(* calls a sketch makes, from its own loop or from inside its callback.    *)
(*                                                                         *)
(* One thread runs the library and the sketch.  todo is its stack: what is *)
(* on top is done next, and a callback is put on top of the rest of the    *)
(* function that raised the event.  The network goes on between any two of *)
(* these steps.                                                            *)
(*                                                                         *)
(* The header lines a handshake needs (GET, Connection, Upgrade,           *)
(* Sec-WebSocket-Version and -Key) are one unit, "WS", and the lines of    *)
(* any other request are "GET".  The sketch may refuse a request by        *)
(* onValidateHttpHeader(); it uses no setAuthorization().                  *)
(***************************************************************************)
EXTENDS TcpLinks

CONSTANTS
  MAX_CLIENTS,   (* WEBSOCKETS_SERVER_CLIENT_MAX                           *)
  Reactions      (* what the sketch's callback may do: "send" to the client*)
                 (* of the event, "broadcast", "disconnect" it             *)

ASSUME ServerAssumption == MAX_CLIENTS \in Nat

Slots == 1 .. MAX_CLIENTS

VARIABLES
  slot,       (* _clients[]: tcp, status; ws: cUrl, cKey, cVersion,        *)
              (* cIsUpgrade, cIsWebsocket and cHttpHeadersValid are as a   *)
              (* handshake needs them                                      *)
  todo,       (* the stack of the thread                                   *)
  session,    (* history: whose CONNECTED event the sketch had last, None  *)
              (* after DISCONNECTED                                        *)
  heard       (* history: messages of the session it had                   *)

server == <<slot, todo, session, heard>>

Free == [tcp |-> None, status |-> "NOT_CONNECTED", ws |-> FALSE]

ServerInit ==
  /\ slot = [n \in Slots |-> Free] /\ todo = <<>>
  /\ session = [n \in Slots |-> None] /\ heard = [n \in Slots |-> 0]

Events == {"CONNECTED", "TEXT", "DISCONNECTED"}

(* what is on the stack *)
Task(op, n, tcp, no) == [op |-> op, n |-> n, tcp |-> tcp, no |-> no]
handleNewClients == Task("accept", 1, None, 0)
newClient(n, k) == Task("newClient", n, k, 0)
handleClientData(n) == Task("data", n, None, 0)
sendTXT(n) == Task("send", n, None, 0)
disconnect(n) == Task("disconnect", n, None, 0)
runCbEvent(n, type, k, no) == Task(type, n, k, no)
ForAll(call(_)) == [n \in Slots |-> call(n)]

(* clientIsConnected() says yes; its client has been lost                  *)
IsConnected(n) == Up(slot[n].tcp, "server") /\ slot[n].status # "NOT_CONNECTED"
IsLost(n) == slot[n].tcp # None /\ ~Up(slot[n].tcp, "server")

(* the thread passes at once over what has nothing to do                   *)
Idle(t) ==
  \/ t.op = "accept" /\ backlog = <<>>
  \/ t.op = "data" /\ slot[t.n].tcp = None
  \/ t.op = "data" /\ IsConnected(t.n) /\ ~Available(slot[t.n].tcp, "server")
  \/ t.op \in {"send", "disconnect"} /\ slot[t.n].tcp = None
IsNext(i) == ~Idle(todo[i]) /\ \A j \in 1 .. i - 1 : Idle(todo[j])
Top == {i \in DOMAIN todo : IsNext(i)}

(* of the task on top, i: what it is, its client, what comes after it      *)
Doing(i, op) == todo[i].op = op
num(i) == todo[i].n
tcpOf(i) == slot[num(i)].tcp
rest(i) == SubSeq(todo, i + 1, Len(todo))
Return(i) == todo' = rest(i)
Call(i, tasks) == todo' = tasks \o rest(i)

-----------------------------------------------------------------------------
(* clientIsConnected(): a client whose connection is gone is released on   *)
(* the spot, and the sketch told, before the caller goes on                *)
KeepsRequest(n) ==            \* defect: ws is left as the client had it
  [slot EXCEPT ![n].tcp = None, ![n].status = "NOT_CONNECTED"]
Released(n) == [slot EXCEPT ![n] = Free]

NotTold(n, k) == <<>>         \* defect: the sketch is not told
Told(n, k) == <<runCbEvent(n, "DISCONNECTED", k, 0)>>

LetsGo(l, n) == l             \* defect: the client is forgotten, not stopped
Stops(l, n) == Stopped(l, slot[n].tcp, "server")

(* clientDisconnect() of client n while its link is as in l                *)
clientDisconnect(l, n, then) ==
  /\ link' = Stops(l, n)
  /\ slot' = Released(n)
  /\ todo' = Told(n, slot[n].tcp) \o then
  /\ UNCHANGED <<session, heard>>

ClientLost(i) ==
  /\ \E op \in {"newClient", "data", "send", "disconnect"} : Doing(i, op)
  /\ num(i) \in Slots /\ IsLost(num(i))
  /\ clientDisconnect(link, num(i), <<todo[i]>> \o rest(i))
  /\ UNCHANGED backlog

-----------------------------------------------------------------------------
OnlyNewClients == <<handleNewClients>>   \* defect: nobody looks at the others
Round == <<handleNewClients>> \o ForAll(handleClientData)

loop ==
  /\ Top = {}
  /\ todo' = Round
  /\ UNCHANGED <<net, slot, session, heard>>

(* handleNewClients() takes what the backlog holds, one after the other    *)
AcceptNext(i) ==
  /\ Doing(i, "accept")
  /\ Call(i, <<newClient(1, Head(backlog)), todo[i]>>)
  /\ backlog' = Tail(backlog)
  /\ UNCHANGED <<link, slot, session, heard>>

TakesAny(n) == TRUE           \* defect: the first slot, whoever has it
Takes(n) == slot[n].tcp = None

PlaceClient(i) ==
  /\ Doing(i, "newClient")
  /\ LET k == todo[i].tcp IN
     \/ /\ num(i) \in Slots /\ Takes(num(i))
        /\ slot' = [slot EXCEPT ![num(i)].tcp = k, ![num(i)].status = "HEADER"]
        /\ Return(i) /\ UNCHANGED link
     \/ /\ num(i) \in Slots /\ IsConnected(num(i)) /\ ~Takes(num(i))
        /\ Call(i, <<newClient(num(i) + 1, k)>>) /\ UNCHANGED <<link, slot>>
     \/ /\ num(i) \notin Slots
        /\ link' = Stopped(link, k, "server")
        /\ Return(i) /\ UNCHANGED slot
  /\ UNCHANGED <<backlog, session, heard>>

-----------------------------------------------------------------------------
(* handleClientData() *)
Reading(i, status) ==
  /\ Doing(i, "data") /\ IsConnected(num(i)) /\ slot[num(i)].status = status
  /\ Available(tcpOf(i), "server")

(* handleHeader(): a line of the request, then the empty line              *)
RequestLine(i) ==
  /\ Reading(i, "HEADER")
  /\ \/ Incoming(tcpOf(i), "server").kind = "GET" /\ UNCHANGED slot
     \/ /\ Incoming(tcpOf(i), "server").kind = "WS"
        /\ \E valid \in BOOLEAN : slot' = [slot EXCEPT ![num(i)].ws = valid]
  /\ link' = Taken(link, tcpOf(i), "server")
  /\ Return(i)
  /\ UNCHANGED <<backlog, session, heard>>

Handshake == <<Line("101"), Line("END"), Line("ping")>>
BadRequest == <<Line("400"), Line("END")>>

RequestEnd(i) ==
  /\ Reading(i, "HEADER") /\ Incoming(tcpOf(i), "server").kind = "END"
  /\ LET l == Taken(link, tcpOf(i), "server") IN
     \/ /\ slot[num(i)].ws
        /\ slot' = [slot EXCEPT ![num(i)].status = "CONNECTED"]
        /\ link' = Sent(l, tcpOf(i), "server", Handshake)
        /\ Call(i, <<runCbEvent(num(i), "CONNECTED", tcpOf(i), 0)>>)
        /\ UNCHANGED <<session, heard>>
     \/ /\ ~slot[num(i)].ws
        /\ clientDisconnect(Sent(l, tcpOf(i), "server", BadRequest), num(i), rest(i))
  /\ UNCHANGED backlog

(* handleWebsocket(): a frame; it may turn out to be cut, or late          *)
ServerFrame(i) ==
  /\ Reading(i, "CONNECTED")
  /\ LET l == Taken(link, tcpOf(i), "server")
         f == Incoming(tcpOf(i), "server") IN
     \/ /\ f.kind = "text"
        /\ link' = l
        /\ Call(i, <<runCbEvent(num(i), "TEXT", tcpOf(i), f.no)>>)
        /\ UNCHANGED <<slot, session, heard>>
     \/ /\ f.kind = "pong" /\ link' = l
        /\ Return(i) /\ UNCHANGED <<slot, session, heard>>
     \/ /\ f.kind = "close"
        /\ clientDisconnect(Sent(l, tcpOf(i), "server", <<Line("close")>>), num(i), rest(i))
  /\ UNCHANGED backlog

FrameCut(i) ==
  /\ Reading(i, "CONNECTED")
  /\ clientDisconnect(Sent(link, tcpOf(i), "server", <<Line("close")>>), num(i), rest(i))
  /\ UNCHANGED backlog

-----------------------------------------------------------------------------
(* sendTXT() and disconnect() *)
SendText(i) ==
  /\ Doing(i, "send") /\ IsConnected(num(i))
  /\ link' = IF slot[num(i)].status = "CONNECTED"
             THEN Sent(link, tcpOf(i), "server", <<Line("text")>>) ELSE link
  /\ Return(i)
  /\ UNCHANGED <<backlog, slot, session, heard>>

DisconnectClient(i) ==
  /\ Doing(i, "disconnect") /\ IsConnected(num(i))
  /\ clientDisconnect(IF slot[num(i)].status = "CONNECTED"
                      THEN Sent(link, tcpOf(i), "server", <<Line("close")>>) ELSE link,
                      num(i), rest(i))
  /\ UNCHANGED backlog

(* what the sketch may call: in its callback, and between two loop()s      *)
Calls(n) ==
  {<<>>} \cup (IF "send" \in Reactions THEN {<<sendTXT(n)>>} ELSE {})
         \cup (IF "broadcast" \in Reactions THEN {ForAll(sendTXT)} ELSE {})
         \cup (IF "disconnect" \in Reactions THEN {<<disconnect(n)>>} ELSE {})

Callback(i) ==
  /\ \E e \in Events : Doing(i, e)
  /\ CASE Doing(i, "CONNECTED")    -> /\ session' = [session EXCEPT ![num(i)] = todo[i].tcp]
                                   /\ heard' = [heard EXCEPT ![num(i)] = 0]
       [] Doing(i, "TEXT")         -> /\ heard' = [heard EXCEPT ![num(i)] = todo[i].no]
                                   /\ UNCHANGED session
       [] Doing(i, "DISCONNECTED") -> /\ session' = [session EXCEPT ![num(i)] = None]
                                   /\ heard' = [heard EXCEPT ![num(i)] = 0]
  /\ \E calls \in Calls(num(i)) : Call(i, calls)
  /\ UNCHANGED <<net, slot>>

Sketch ==
  /\ Top = {}
  /\ \E n \in Slots : \E calls \in Calls(n) \ {<<>>} : todo' = calls
  /\ UNCHANGED <<net, slot, session, heard>>

ServerWorks ==
  \/ loop
  \/ \E i \in Top :
       \/ ClientLost(i) \/ AcceptNext(i) \/ PlaceClient(i) \/ RequestLine(i)
       \/ RequestEnd(i) \/ ServerFrame(i) \/ SendText(i) \/ DisconnectClient(i)
       \/ Callback(i)
ServerNext == ServerWorks \/ (\E i \in Top : FrameCut(i)) \/ Sketch
=============================================================================
