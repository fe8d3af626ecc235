------------------------------ MODULE TcpLinks ------------------------------
(***************************************************************************)
(* TCP between WebSocket clients and one server, as WiFiClient and         *)
(* WiFiServer of the ESP32 core offer it to src/web (external: modelled    *)
(* from what the code there relies on).                                    *)
(*                                                                         *)
(* Each end has its own view of a connection: stop() at one end shows at   *)
(* the other some time later, when what was sent before may or may not     *)
(* have been read.  A connection can also break, at one end first.  The    *)
(* unit is a header line or a whole frame (see WsFrames for bytes).        *)
(***************************************************************************)
EXTENDS Integers, Sequences, SequencesExt

CONSTANTS
  Peers,      (* the programs that connect to the server                   *)
  MaxLinks,   (* bound: connections that exist at the same time            *)
  MaxQueue,   (* bound: units in flight in one direction                   *)
  Backlog     (* connections WiFiServer keeps until available() takes them *)

ASSUME TcpAssumption == MaxLinks \in Nat /\ MaxQueue \in Nat /\ Backlog \in Nat

Links == 1 .. MaxLinks
None == 0

VARIABLES
  link,       (* up: connected() at the "client" and "server" end; to: what*)
              (* is on its way to that end                                 *)
  backlog     (* what hasClient() sees                                     *)

net == <<link, backlog>>

Ends == {"client", "server"}
Other(e) == CHOOSE o \in Ends : o # e
Down == [up |-> [e \in Ends |-> FALSE], to |-> [e \in Ends |-> <<>>]]

NetInit ==
  /\ link = [k \in Links |-> Down] /\ backlog = <<>>

Up(k, e) == k \in Links /\ link[k].up[e]
Available(k, e) == link[k].to[e] # <<>>

(* a header line, or a frame; a text frame has a number                    *)
Unit(kind, no) == [kind |-> kind, no |-> no]
Line(kind) == Unit(kind, 0)
Incoming(k, e) == Head(link[k].to[e])

(* stop() at the end e of link k of l                                      *)
Stopped(l, k, e) ==
  IF k \notin Links THEN l
  ELSE [l EXCEPT ![k].up[e] = FALSE, ![k].to[e] = <<>>]

(* write() at the end e; what does not fit is not sent                     *)
Sent(l, k, e, units) ==
  IF k \in Links /\ l[k].up[e] /\ l[k].up[Other(e)]
               /\ Len(l[k].to[Other(e)]) + Len(units) <= MaxQueue
  THEN [l EXCEPT ![k].to[Other(e)] = @ \o units]
  ELSE l

Taken(l, k, e) == [l EXCEPT ![k].to[e] = Tail(@)]

(* connect() by a peer: the connection waits in the backlog                *)
Connected(l, k, request) ==
  [l EXCEPT ![k] = [up |-> [e \in Ends |-> TRUE],
                    to |-> [e \in Ends |-> IF e = "server" THEN request ELSE <<>>]]]

(* an end learns that the other has stopped                                *)
Learn(k, e) ==
  /\ Up(k, e) /\ ~Up(k, Other(e))
  /\ link' = Stopped(link, k, e)
  /\ UNCHANGED backlog

Break(k, e) ==
  /\ Up(k, e) /\ link' = Stopped(link, k, e)
  /\ UNCHANGED backlog
=============================================================================
