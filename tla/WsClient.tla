------------------------------ MODULE WsClient ------------------------------
(***************************************************************************)
(* WebSocketsClient of src/web: loop(), which connects, goes through the   *)
(* handshake and reads frames, and the calls of its sketch; and, beside    *)
(* it, peers that are no WebSocket clients (external) but knock at the     *)
(* same port: a browser's plain GET.                                       *)
(*                                                                         *)
(* A call of loop() does little and waits for nobody: it is one step.  The *)
(* lines of the answer (101, Connection, Upgrade, Sec-WebSocket-Accept)    *)
(* are one unit, "101".  Of the clock only what is compared is kept: how   *)
(* long loop() still holds off, and how long ago it last tried to connect. *)
(***************************************************************************)
EXTENDS TcpLinks

CONSTANTS
  Browsers,        (* the peers that are no WebSocket clients              *)
  Interval,        (* _reconnectInterval                                   *)
  MaxSaid          (* bound: messages sent in one session                  *)

ASSUME WsClientAssumption == Browsers \subseteq Peers /\ Interval \in Nat

VARIABLES
  client      (* of each peer: tcp, status; accepted: the fields of the    *)
              (* answer are as they should be; holdOff: what is left of    *)
              (* the interval since _lastConnectionFail; said: messages    *)
              (* sent; since, met: history, the time since connect() was   *)
              (* last called and whether it led to CONNECTED               *)

Clients == Peers \ Browsers
Refused == -1      (* a WiFiClient whose connect() failed                  *)

New == [tcp |-> None, status |-> "NOT_CONNECTED", accepted |-> FALSE,
        holdOff |-> 0, said |-> 0, since |-> Interval, met |-> FALSE]

ClientInit == client = [p \in Peers |-> New]

tcp(p) == client[p].tcp
ClientIsConnected(p) == Up(tcp(p), "client") /\ client[p].status # "NOT_CONNECTED"

(* clientDisconnect(): what is left of the client's record                 *)
Disconnected(c) ==
  [c EXCEPT !.tcp = None, !.status = "NOT_CONNECTED", !.accepted = FALSE]

Failed(c) == [c EXCEPT !.holdOff = Interval]

Request(p) == IF p \in Browsers THEN <<Line("GET"), Line("END")>>
              ELSE <<Line("WS"), Line("END")>>

(* a connection that none of the two programs still holds                  *)
Unused(k) == /\ \A e \in Ends : ~link[k].up[e]
             /\ \A p \in Peers : tcp(p) # k

(* connect() succeeds: sendHeader(), and the time of the last failure is   *)
(* forgotten                                                               *)
Connect(p, c, k) ==
  /\ Len(backlog) < Backlog
  /\ link' = Connected(link, k, Request(p)) /\ backlog' = Append(backlog, k)
  /\ client' = [client EXCEPT ![p] = [c EXCEPT !.tcp = k, !.status = "HEADER", !.holdOff = 0,
                                               !.said = 0, !.since = 0, !.met = FALSE]]

ConnectFails(p, c) ==
  /\ client' = [client EXCEPT ![p] = [Failed(c) EXCEPT !.tcp = Refused, !.since = 0,
                                                       !.met = FALSE]]
  /\ UNCHANGED <<link, backlog>>

(* loop() of a client that is not connected: what is left of the last      *)
(* connection goes, and unless the interval holds it off it connects again *)
HoldsOff(p) ==
  /\ p \in Clients /\ ~ClientIsConnected(p)
  /\ client[p].holdOff > 0 /\ tcp(p) # None
  /\ client' = [client EXCEPT ![p] = Disconnected(@)]
  /\ UNCHANGED net

Reconnects(p, k) ==
  /\ p \in Clients /\ ~ClientIsConnected(p)
  /\ client[p].holdOff = 0
  /\ \/ Connect(p, Disconnected(client[p]), k)
     \/ ConnectFails(p, Disconnected(client[p]))

ClientReading(p, status) ==
  /\ p \in Clients /\ ClientIsConnected(p) /\ client[p].status = status
  /\ Available(tcp(p), "client")

(* handleHeader() *)
AnswerLine(p) ==
  /\ ClientReading(p, "HEADER")
  /\ \/ Incoming(tcp(p), "client").kind = "400" /\ UNCHANGED client
     \/ /\ Incoming(tcp(p), "client").kind = "101"
        /\ client' = [client EXCEPT ![p].accepted = TRUE]
  /\ link' = Taken(link, tcp(p), "client")
  /\ UNCHANGED backlog

AnswerEnd(p) ==
  /\ ClientReading(p, "HEADER") /\ Incoming(tcp(p), "client").kind = "END"
  /\ LET l == Taken(link, tcp(p), "client") IN
     \/ /\ client[p].accepted
        /\ client' = [client EXCEPT ![p].status = "CONNECTED", ![p].met = TRUE]
        /\ link' = l
     \/ /\ ~client[p].accepted
        /\ client' = [client EXCEPT ![p] = Failed(Disconnected(@))]
        /\ link' = Stopped(l, tcp(p), "client")
  /\ UNCHANGED backlog

(* handleWebsocket() *)
ClientFrame(p) ==
  /\ ClientReading(p, "CONNECTED")
  /\ LET l == Taken(link, tcp(p), "client")
         f == Incoming(tcp(p), "client") IN
     \/ f.kind = "text" /\ link' = l /\ UNCHANGED client
     \/ /\ f.kind = "ping"
        /\ link' = Sent(l, tcp(p), "client", <<Line("pong")>>) /\ UNCHANGED client
     \/ /\ f.kind = "close"
        /\ link' = Stopped(Sent(l, tcp(p), "client", <<Line("close")>>), tcp(p), "client")
        /\ client' = [client EXCEPT ![p] = Disconnected(@)]
  /\ UNCHANGED backlog

(* sendTXT() and disconnect() of the sketch                                *)
SendTXT(p) ==
  /\ p \in Clients /\ ClientIsConnected(p) /\ client[p].status = "CONNECTED"
  /\ client[p].said < MaxSaid
  /\ link' = Sent(link, tcp(p), "client", <<Unit("text", client[p].said + 1)>>)
  /\ link' # link
  /\ client' = [client EXCEPT ![p].said = @ + 1]
  /\ UNCHANGED backlog

Disconnect(p) ==
  /\ p \in Clients /\ ClientIsConnected(p)
  /\ LET l == IF client[p].status = "CONNECTED"
              THEN Sent(link, tcp(p), "client", <<Line("close")>>) ELSE link IN
     link' = Stopped(l, tcp(p), "client")
  /\ client' = [client EXCEPT ![p] = Disconnected(@)]
  /\ UNCHANGED backlog

Tick ==
  /\ \E p \in Clients : client[p].holdOff > 0 \/ client[p].since < Interval
  /\ client' = [p \in Peers |->
       [client[p] EXCEPT !.holdOff = IF @ = 0 THEN 0 ELSE @ - 1,
                         !.since = IF @ = Interval THEN Interval ELSE @ + 1]]
  /\ UNCHANGED net

(* a browser asks, and goes when it has its answer or is tired of waiting  *)
BrowserAsks(p, k) ==
  /\ p \in Browsers /\ tcp(p) = None
  /\ Connect(p, New, k)
BrowserGoes(p) ==
  /\ p \in Browsers /\ tcp(p) # None
  /\ link' = Stopped(link, tcp(p), "client")
  /\ client' = [client EXCEPT ![p] = New]
  /\ UNCHANGED backlog

ClientWorks(p) == HoldsOff(p) \/ AnswerLine(p) \/ AnswerEnd(p) \/ ClientFrame(p)
=============================================================================
