--------------------------- MODULE WsSystemProofs ---------------------------
(***************************************************************************)
(* WsSystem for any number of slots, connections and peers, any backlog,   *)
(* any bound on what is in flight and any reactions of the sketch: slots   *)
(* and connections belong together, the two ends agree on who has a        *)
(* session, a browser never has one, and the events of a slot are sessions *)
(* (WsSessions).                                                           *)
(*                                                                         *)
(* Three facts carry the argument.  A connection that is up at the server  *)
(* waits in one place or has one slot.  An event is handled before         *)
(* anything else the thread does, so at most one is pending, on top of the *)
(* stack.  And the text frames on their way to a slot carry the numbers    *)
(* from the one after its last message to the last that was sent.          *)
(***************************************************************************)
EXTENDS WsSystem, SequenceTheorems, WellFoundedInduction, TLAPS

-----------------------------------------------------------------------------
(* Types *)
UnitKinds == {"GET", "WS", "END", "101", "400", "ping", "pong", "text", "close"}
Units == [kind : UnitKinds, no : Nat]
Views == [Ends -> BOOLEAN]
Queues == [Ends -> Seq(Units)]
LinkRecord == [up : Views, to : Queues]
Statuses == {"NOT_CONNECTED", "HEADER", "CONNECTED"}
SlotRecord == [tcp : Links \cup {None}, status : Statuses, ws : BOOLEAN]
Ops == {"accept", "newClient", "data", "send", "disconnect"} \cup Events
Tasks == {t \in [op : Ops, n : 1 .. MAX_CLIENTS + 1, tcp : Links \cup {None}, no : Nat] :
            /\ t.op = "newClient" => t.tcp \in Links
            /\ t.op \notin {"accept", "newClient"} => t.n \in Slots
            /\ t.op \in Events => t.tcp \in Links}
Sockets == Links \cup {None, Refused}
Times == 0 .. Interval
ClientRecord ==
  [tcp : Sockets, status : Statuses, accepted : BOOLEAN,
   holdOff : Times, said : Nat, since : Times, met : BOOLEAN]

Typed ==
  /\ link \in [Links -> LinkRecord] /\ backlog \in Seq(Links)
  /\ slot \in [Slots -> SlotRecord] /\ todo \in Seq(Tasks)
  /\ session \in [Slots -> Links \cup {None}] /\ heard \in [Slots -> Nat]
  /\ client \in [Peers -> ClientRecord]
  /\ \A p \in Browsers : tcp(p) # Refused

(* What is in a queue, as sets *)
Has(q, kind) == \E i \in DOMAIN q : q[i].kind = kind
Nos(q) == {q[i].no : i \in {j \in DOMAIN q : q[j].kind = "text"}}
Ordered(q) ==
  \A i, j \in DOMAIN q : i < j /\ q[i].kind = "text" /\ q[j].kind = "text" => q[i].no < q[j].no

(* An end that has stopped has nothing to read *)
Opened == \A k \in Links, e \in Ends : link[k].to[e] # <<>> => link[k].up[e]
InOrder == \A k \in Links : Ordered(link[k].to["server"])

(* What a step may do to any connection at any time: an end stops, the     *)
(* answers and events on their way go, no message is lost or made, and     *)
(* nothing that opens a session is sent                                    *)
Sound(a) ==
  /\ a \in LinkRecord /\ Ordered(a.to["server"])
  /\ \A e \in Ends : a.to[e] # <<>> => a.up[e]
Keeps(a, b) ==
  /\ \A e \in Ends : b.up[e] => a.up[e]
  /\ b.up["server"] => Nos(b.to["server"]) = Nos(a.to["server"])
  /\ Has(b.to["server"], "WS") => Has(a.to["server"], "WS")
Calmer(a, b) == Keeps(a, b) /\ (Has(b.to["client"], "101") => Has(a.to["client"], "101"))
AllSound(l) == l \in [Links -> LinkRecord] /\ \A k \in Links : Sound(l[k])
Harmless(l, m) == AllSound(m) /\ \A k \in Links : Calmer(l[k], m[k])

(* What is on the stack, as sets *)
Placing(t) == {t[j].tcp : j \in {i \in DOMAIN t : t[i].op = "newClient"}}
PlacesOnce(t) ==
  \A i, j \in DOMAIN t :
    t[i].op = "newClient" /\ t[j].op = "newClient" /\ t[i].tcp = t[j].tcp => i = j
Silent(t) == \A j \in DOMAIN t : t[j].op \notin Events
OneEvent == \A j \in DOMAIN todo : j > 1 => todo[j].op \notin Events

(* Where a connection is: in the backlog, in newClient(), or in a slot *)
NoTwoPlaces ==
  /\ \A i, j \in DOMAIN backlog : backlog[i] = backlog[j] => i = j
  /\ PlacesOnce(todo)
  /\ \A i \in DOMAIN backlog : backlog[i] \notin Placing(todo)
  /\ \A n, m \in Slots : slot[n].tcp = slot[m].tcp /\ slot[n].tcp # None => n = m
  /\ \A n \in Slots : ~Waiting(slot[n].tcp)
  /\ \A p, q \in Peers : tcp(p) = tcp(q) /\ tcp(p) \in Links => p = q
OnePlace ==
  \A k \in Links : link[k].up["server"] => Waiting(k) \/ \E n \in Slots : slot[n].tcp = k

(* The client's end has, or will have, the answer that makes it CONNECTED *)
Met(k) ==
  \/ Has(link[k].to["client"], "101")
  \/ \E p \in Clients : tcp(p) = k /\ (client[p].accepted \/ client[p].status = "CONNECTED")
Agreed ==
  \A k \in Links : link[k].up["server"] /\ Met(k)
    => \E n \in Slots : slot[n].tcp = k /\ slot[n].status = "CONNECTED"

(* Nothing of a browser's connection looks like a WebSocket client's *)
Vetted ==
  \A p \in Browsers : tcp(p) # None =>
    /\ ~Has(link[tcp(p)].to["server"], "WS")
    /\ \A n \in Slots : /\ slot[n].tcp = tcp(p) => ~slot[n].ws /\ slot[n].status # "CONNECTED"
                        /\ session[n] # tcp(p)

(* The sketch knows of the session a slot is in, or is about to be told *)
Current(n) == IF slot[n].status = "CONNECTED" THEN slot[n].tcp ELSE None
Told1(n) == todo # <<>> /\ todo[1].op \in Events /\ todo[1].n = n
Informed ==
  \A n \in Slots :
    /\ ~Told1(n) => session[n] = Current(n)
    /\ Told1(n) /\ todo[1].op = "CONNECTED" =>
         session[n] = None /\ Current(n) = todo[1].tcp /\ todo[1].no = 0
    /\ Told1(n) /\ todo[1].op = "TEXT" =>
         session[n] = Current(n) /\ Current(n) # None /\ todo[1].no = heard[n] + 1
    /\ Told1(n) /\ todo[1].op = "DISCONNECTED" => slot[n].tcp = None

(* The text frames on their way to a slot go on from its last message *)
Count(n) ==
  IF Current(n) = None THEN 0 ELSE IF Told1(n) THEN todo[1].no ELSE heard[n]
Follows(k, h) ==
  \E m \in Nat : /\ h <= m /\ Nos(link[k].to["server"]) = h + 1 .. m
                 /\ \A p \in Peers : tcp(p) = k => client[p].said = m
Numbered ==
  \A k \in Links : link[k].up["server"] =>
    /\ Waiting(k) => Follows(k, 0)
    /\ \A n \in Slots : slot[n].tcp = k => Follows(k, Count(n))

IInv ==
  /\ Typed /\ TypeOK /\ Opened /\ InOrder /\ OneEvent /\ NoTwoPlaces /\ OnePlace
  /\ Agreed /\ Vetted /\ Informed /\ Numbered

-----------------------------------------------------------------------------
(* Sequences *)

LEMMA Concat ==
  ASSUME NEW S, NEW q \in Seq(S), NEW u \in Seq(S)
  PROVE  /\ q \o u \in Seq(S)
         /\ \A i \in DOMAIN q : i \in DOMAIN (q \o u) /\ (q \o u)[i] = q[i]
         /\ \A j \in DOMAIN u :
              Len(q) + j \in DOMAIN (q \o u) /\ (q \o u)[Len(q) + j] = u[j]
         /\ \A i \in DOMAIN (q \o u) :
              i \in DOMAIN q \/ (i - Len(q) \in DOMAIN u /\ (q \o u)[i] = u[i - Len(q)])
<1>1. q \o u \in Seq(S) /\ Len(q \o u) = Len(q) + Len(u)
  BY ConcatProperties
<1>2. DOMAIN q = 1 .. Len(q) /\ DOMAIN u = 1 .. Len(u) /\ DOMAIN (q \o u) = 1 .. Len(q) + Len(u)
  BY <1>1
<1>3. \A i \in 1 .. Len(q) + Len(u) :
        (q \o u)[i] = IF i <= Len(q) THEN q[i] ELSE u[i - Len(q)]
  BY ConcatProperties
<1>4. Len(q) \in Nat /\ Len(u) \in Nat
  OBVIOUS
<1>5. \A j \in 1 .. Len(u) : Len(q) + j \in 1 .. Len(q) + Len(u) /\ (q \o u)[Len(q) + j] = u[j]
  <2> TAKE j \in 1 .. Len(u)
  <2>1. Len(q) + j \in 1 .. Len(q) + Len(u) /\ ~(Len(q) + j <= Len(q)) /\ Len(q) + j - Len(q) = j
    BY <1>4
  <2>2. QED BY <1>3, <2>1
<1>6. \A i \in 1 .. Len(q) + Len(u) : ~(i <= Len(q)) => i - Len(q) \in 1 .. Len(u)
  BY <1>4
<1>7. QED BY <1>1, <1>2, <1>3, <1>4, <1>5, <1>6

LEMMA Rest ==
  ASSUME NEW S, NEW q \in Seq(S), NEW i \in DOMAIN q
  PROVE  LET r == SubSeq(q, i + 1, Len(q)) IN
         /\ r \in Seq(S)
         /\ \A j \in DOMAIN r : i + j \in DOMAIN q /\ r[j] = q[i + j] /\ j \in Nat \ {0}
         /\ \A j \in DOMAIN q : j > i => j - i \in DOMAIN r /\ r[j - i] = q[j]
<1> DEFINE r == SubSeq(q, i + 1, Len(q))
<1>1. Len(q) \in Nat /\ i \in 1 .. Len(q) /\ DOMAIN q = 1 .. Len(q)
  OBVIOUS
<1>2. r \in Seq(S) /\ Len(r) = Len(q) - i /\ \A j \in 1 .. Len(q) - i : r[j] = q[i + j]
  <2>1. \A j \in i + 1 .. Len(q) : j \in 1 .. Len(q)
    BY <1>1
  <2>2. r \in Seq(S) /\ Len(r) = IF i + 1 <= Len(q) THEN Len(q) - (i + 1) + 1 ELSE 0
    BY <1>1, <2>1, SubSeqProperties
  <2>3. \A j \in 1 .. Len(q) - (i + 1) + 1 : r[j] = q[i + 1 + j - 1]
    BY <1>1, <2>1, SubSeqProperties
  <2>4. QED BY <1>1, <2>2, <2>3
<1>3. DOMAIN r = 1 .. Len(q) - i
  BY <1>2
<1> HIDE DEF r
<1>4. \A j \in 1 .. Len(q) - i : i + j \in 1 .. Len(q) /\ j \in Nat \ {0}
  BY <1>1
<1>5. \A j \in 1 .. Len(q) : j > i => j - i \in 1 .. Len(q) - i /\ i + (j - i) = j
  BY <1>1
<1>6. QED BY <1>1, <1>2, <1>3, <1>4, <1>5 DEF r

LEMMA TailIs ==
  ASSUME NEW S, NEW q \in Seq(S), q # <<>>
  PROVE  /\ Tail(q) \in Seq(S) /\ Head(q) \in S /\ 1 \in DOMAIN q /\ q[1] = Head(q)
         /\ \A j \in DOMAIN Tail(q) : 1 + j \in DOMAIN q /\ Tail(q)[j] = q[1 + j] /\ j \in Nat \ {0}
         /\ \A j \in DOMAIN q : j # 1 => j - 1 \in DOMAIN Tail(q) /\ Tail(q)[j - 1] = q[j]
<1>1. Len(q) \in Nat /\ Len(q) # 0 /\ DOMAIN q = 1 .. Len(q)
  BY EmptySeq
<1>2. Tail(q) \in Seq(S) /\ Len(Tail(q)) = Len(q) - 1 /\ Head(q) = q[1] /\ Head(q) \in S
      /\ \A j \in 1 .. Len(q) - 1 : Tail(q)[j] = q[j + 1]
  BY <1>1, HeadTailProperties
<1>3. DOMAIN Tail(q) = 1 .. Len(q) - 1
  BY <1>2
<1>4. \A j \in 1 .. Len(q) - 1 : 1 + j \in 1 .. Len(q) /\ j \in Nat \ {0}
  BY <1>1
<1>5. \A j \in 1 .. Len(q) : j # 1 => j - 1 \in 1 .. Len(q) - 1 /\ (j - 1) + 1 = j
  BY <1>1
<1>6. QED BY <1>1, <1>2, <1>3, <1>4, <1>5

-----------------------------------------------------------------------------
(* Queues *)

LEMMA TailOf ==
  ASSUME NEW q \in Seq(Units), q # <<>>, Ordered(q)
  PROVE  /\ Tail(q) \in Seq(Units) /\ Ordered(Tail(q))
         /\ \A kind : Has(Tail(q), kind) => Has(q, kind)
         /\ \A kind : Has(q, kind) /\ Head(q).kind # kind => Has(Tail(q), kind)
         /\ Head(q).kind # "text" => Nos(Tail(q)) = Nos(q)
         /\ Head(q).kind = "text" =>
              /\ Nos(q) = {Head(q).no} \cup Nos(Tail(q))
              /\ \A no \in Nos(Tail(q)) : Head(q).no < no
<1> DEFINE r == Tail(q)
<1>1. /\ r \in Seq(Units) /\ Head(q) \in Units /\ 1 \in DOMAIN q /\ q[1] = Head(q)
      /\ \A j \in DOMAIN r : 1 + j \in DOMAIN q /\ r[j] = q[1 + j] /\ j \in Nat \ {0}
      /\ \A j \in DOMAIN q : j # 1 => j - 1 \in DOMAIN r /\ r[j - 1] = q[j]
  BY TailIs
<1> HIDE DEF r
<1>2. Ordered(r)
  <2> SUFFICES ASSUME NEW i \in DOMAIN r, NEW j \in DOMAIN r,
                      i < j, r[i].kind = "text", r[j].kind = "text"
               PROVE  r[i].no < r[j].no
    BY DEF Ordered
  <2>1. 1 + i < 1 + j
    BY <1>1
  <2>2. QED BY <1>1, <2>1 DEF Ordered
<1>3. \A kind : Has(r, kind) => Has(q, kind)
  BY <1>1 DEF Has
<1>4. \A kind : Has(q, kind) /\ Head(q).kind # kind => Has(r, kind)
  BY <1>1 DEF Has
<1>5. Nos(r) \subseteq Nos(q)
  BY <1>1 DEF Nos
<1>6. ASSUME Head(q).kind # "text" PROVE Nos(q) \subseteq Nos(r)
  BY <1>1, <1>6 DEF Nos
<1>7. ASSUME Head(q).kind = "text"
      PROVE  /\ Nos(q) = {Head(q).no} \cup Nos(r)
             /\ \A no \in Nos(r) : Head(q).no < no
  <2>1. Nos(q) \subseteq {Head(q).no} \cup Nos(r)
    <3> SUFFICES ASSUME NEW j \in DOMAIN q, q[j].kind = "text", j # 1 PROVE q[j].no \in Nos(r)
      BY <1>1 DEF Nos
    <3>1. j - 1 \in DOMAIN r /\ r[j - 1] = q[j]
      BY <1>1
    <3>2. QED BY <3>1 DEF Nos
  <2>2. Head(q).no \in Nos(q)
    BY <1>1, <1>7 DEF Nos
  <2>3. \A no \in Nos(r) : Head(q).no < no
    <3> TAKE no \in Nos(r)
    <3>1. PICK j \in DOMAIN r : r[j].kind = "text" /\ r[j].no = no
      BY DEF Nos
    <3>2. 1 < 1 + j
      BY <1>1
    <3>3. QED BY <1>1, <1>7, <3>1, <3>2 DEF Ordered
  <2>4. QED BY <1>5, <2>1, <2>2, <2>3
<1>8. QED BY <1>1, <1>2, <1>3, <1>4, <1>5, <1>6, <1>7 DEF r

LEMMA Sends ==
  ASSUME NEW q \in Seq(Units), NEW u \in Seq(Units), ~Has(u, "text"), Ordered(q)
  PROVE  /\ q \o u \in Seq(Units) /\ Ordered(q \o u)
         /\ Nos(q \o u) = Nos(q)
         /\ \A kind : Has(q \o u, kind) <=> Has(q, kind) \/ Has(u, kind)
<1> DEFINE r == q \o u
<1>1. /\ r \in Seq(Units)
      /\ \A i \in DOMAIN q : i \in DOMAIN r /\ r[i] = q[i]
      /\ \A j \in DOMAIN u : Len(q) + j \in DOMAIN r /\ r[Len(q) + j] = u[j]
      /\ \A i \in DOMAIN r : i \in DOMAIN q \/ (i - Len(q) \in DOMAIN u /\ r[i] = u[i - Len(q)])
  BY Concat
<1> HIDE DEF r
<1>2. \A kind : Has(r, kind) <=> Has(q, kind) \/ Has(u, kind)
  BY <1>1 DEF Has
<1>3. \A i \in DOMAIN r : r[i].kind = "text" => i \in DOMAIN q /\ r[i] = q[i]
  BY <1>1 DEF Has
<1>4. Ordered(r)
  BY <1>1, <1>3 DEF Ordered
<1>5. Nos(r) = Nos(q)
  BY <1>1, <1>3 DEF Nos
<1>6. QED BY <1>1, <1>2, <1>4, <1>5 DEF r

LEMMA SaysNext ==
  ASSUME NEW q \in Seq(Units), Ordered(q), NEW no \in Nat, \A x \in Nos(q) : x < no
  PROVE  LET r == q \o <<Unit("text", no)>> IN
         /\ r \in Seq(Units) /\ Ordered(r)
         /\ Nos(r) = Nos(q) \cup {no}
         /\ \A kind : kind # "text" /\ Has(r, kind) => Has(q, kind)
<1> DEFINE x == Unit("text", no)
           u == <<x>>
           r == q \o u
<1>1. x \in Units /\ x.kind = "text" /\ x.no = no
  BY DEF Unit, Units, UnitKinds
<1> HIDE DEF x
<1>2. u \in Seq(Units) /\ DOMAIN u = {1} /\ u[1] = x
  BY <1>1
<1> HIDE DEF u
<1>3. /\ r \in Seq(Units)
      /\ \A i \in DOMAIN q : i \in DOMAIN r /\ r[i] = q[i]
      /\ \A j \in DOMAIN u : Len(q) + j \in DOMAIN r /\ r[Len(q) + j] = u[j]
      /\ \A i \in DOMAIN r : i \in DOMAIN q \/ (i - Len(q) \in DOMAIN u /\ r[i] = u[i - Len(q)])
  BY <1>2, Concat
<1> HIDE DEF r
<1>4. \A kind : kind # "text" /\ Has(r, kind) => Has(q, kind)
  BY <1>1, <1>2, <1>3 DEF Has
<1>5. Nos(r) = Nos(q) \cup {no}
  <2>1. \A i \in DOMAIN r : i \in DOMAIN q \/ r[i] = x
    BY <1>2, <1>3
  <2>2. Nos(r) \subseteq Nos(q) \cup {no}
    BY <1>1, <1>3, <2>1 DEF Nos
  <2>3. Nos(q) \subseteq Nos(r)
    BY <1>3 DEF Nos
  <2>4. no \in Nos(r)
    BY <1>1, <1>2, <1>3 DEF Nos
  <2>5. QED BY <2>2, <2>3, <2>4
<1>6. Ordered(r)
  <2> SUFFICES ASSUME NEW i \in DOMAIN r, NEW j \in DOMAIN r,
                      i < j, r[i].kind = "text", r[j].kind = "text"
               PROVE  r[i].no < r[j].no
    BY DEF Ordered
  <2>1. Len(q) \in Nat /\ i \in Nat /\ j \in Nat /\ DOMAIN q = 1 .. Len(q) /\ DOMAIN r \subseteq Nat \ {0}
    BY <1>3
  <2>2. CASE j \in DOMAIN q
    <3>1. i \in DOMAIN q
      BY <2>1, <2>2
    <3>2. QED BY <1>3, <2>2, <3>1 DEF Ordered
  <2>3. CASE j \notin DOMAIN q
    <3>1. j - Len(q) = 1 /\ r[j] = x
      BY <1>2, <1>3, <2>3
    <3>2. i \in DOMAIN q /\ r[i] = q[i]
      BY <1>2, <1>3, <2>1, <3>1
    <3>3. r[i].no \in Nos(q)
      BY <3>2 DEF Nos
    <3>4. QED BY <1>1, <3>1, <3>3
  <2>4. QED BY <2>2, <2>3
<1>7. QED BY <1>3, <1>4, <1>5, <1>6 DEF r, u, x

-----------------------------------------------------------------------------
(* Connections *)

LEMMA TwoEnds ==
  /\ "client" \in Ends /\ "server" \in Ends
  /\ Other("client") = "server" /\ Other("server") = "client"
<1>1. \A o \in Ends : o # "client" <=> o = "server"
  BY DEF Ends
<1>2. \A o \in Ends : o # "server" <=> o = "client"
  BY DEF Ends
<1>3. Other("client") = "server"
  BY <1>1 DEF Other, Ends
<1>4. Other("server") = "client"
  BY <1>2 DEF Other, Ends
<1>5. QED BY <1>3, <1>4 DEF Ends

(* stop(), field by field *)
LEMMA StoppedFields ==
  ASSUME NEW l, NEW k, l[k] \in LinkRecord, NEW e
  PROVE  [l EXCEPT ![k].up[e] = FALSE, ![k].to[e] = <<>>] =
           [l EXCEPT ![k] = [up |-> [l[k].up EXCEPT ![e] = FALSE],
                             to |-> [l[k].to EXCEPT ![e] = <<>>]]]
<1> DEFINE a == l[k]
           v == FALSE
           q == <<>>
           x == [a.up EXCEPT ![e] = v]
           b == [up |-> x, to |-> a.to]
<1>1. a \in [up : Views, to : Queues]
  BY DEF LinkRecord
<1>2. [l EXCEPT ![k].up[e] = v, ![k].to[e] = q] =
        [l EXCEPT ![k] = [[a EXCEPT !.up[e] = v] EXCEPT !.to[e] = q]]
  <2> HIDE DEF v, q
  <2>1. QED OBVIOUS
<1> HIDE DEF a, v, q
<1>3. [a EXCEPT !.up[e] = v] = b
  BY <1>1
<1> HIDE DEF x
<1>4. b \in [up : {x}, to : Queues] /\ b.up = x /\ b.to = a.to
  BY <1>1
<1> HIDE DEF b
<1>5. [b EXCEPT !.to[e] = q] = [up |-> b.up, to |-> [b.to EXCEPT ![e] = q]]
  BY <1>4
<1>6. QED BY <1>2, <1>3, <1>4, <1>5 DEF a, v, q, x

(* One record in the place of another *)
LEMMA OneLink ==
  ASSUME NEW l, AllSound(l), NEW k \in Links, NEW b, Sound(b), Calmer(l[k], b)
  PROVE  Harmless(l, [l EXCEPT ![k] = b])
<1> DEFINE m == [l EXCEPT ![k] = b]
<1>1. b \in LinkRecord /\ l \in [Links -> LinkRecord]
  BY DEF AllSound, Sound
<1>2. m \in [Links -> LinkRecord] /\ \A j \in Links : m[j] = IF j = k THEN b ELSE l[j]
  BY <1>1
<1> HIDE DEF m
<1>3. \A j \in Links : Sound(m[j]) /\ Calmer(l[j], m[j])
  <2> TAKE j \in Links
  <2>1. CASE j = k
    BY <1>2, <2>1
  <2>2. CASE j # k
    BY <1>2, <2>2 DEF AllSound, Calmer, Keeps
  <2>3. QED BY <2>1, <2>2
<1>4. QED BY <1>2, <1>3 DEF Harmless, AllSound, m

LEMMA Nothing ==
  ASSUME NEW l, AllSound(l)
  PROVE  Harmless(l, l)
BY DEF Harmless, Calmer, Keeps

LEMMA Both ==
  ASSUME NEW l, NEW m, NEW o, AllSound(l), Harmless(l, m), Harmless(m, o)
  PROVE  Harmless(l, o)
BY TwoEnds DEF Harmless, Calmer, Keeps

LEMMA StoppedIs ==
  ASSUME NEW l, AllSound(l), NEW k, NEW e \in Ends
  PROVE  /\ Harmless(l, Stopped(l, k, e))
         /\ k \in Links => ~Stopped(l, k, e)[k].up[e]
<1>1. CASE k \notin Links
  BY <1>1, Nothing DEF Stopped
<1>2. CASE k \in Links
  <2> DEFINE a == l[k]
             b == [up |-> [a.up EXCEPT ![e] = FALSE], to |-> [a.to EXCEPT ![e] = <<>>]]
  <2>1. a \in LinkRecord /\ Sound(a) /\ l \in [Links -> LinkRecord]
    BY <1>2 DEF AllSound
  <2>2. a.up \in [Ends -> BOOLEAN] /\ a.to \in [Ends -> Seq(Units)]
    BY <2>1 DEF LinkRecord, Views, Queues
  <2>3. Stopped(l, k, e) = [l EXCEPT ![k] = b]
    BY <1>2, <2>1, StoppedFields DEF Stopped
  <2>4. <<>> \in Seq(Units) /\ Ordered(<<>>) /\ \A kind : ~Has(<<>>, kind)
    BY DEF Ordered, Has
  <2>5. b \in LinkRecord /\ ~b.up[e]
    BY <2>2, <2>4 DEF LinkRecord, Views, Queues
  <2>6. \A d \in Ends : /\ b.up[d] = IF d = e THEN FALSE ELSE a.up[d]
                        /\ b.to[d] = IF d = e THEN <<>> ELSE a.to[d]
    BY <2>2
  <2> HIDE DEF a, b
  <2>7. Sound(b)
    BY <2>1, <2>4, <2>5, <2>6, TwoEnds DEF Sound
  <2>8. Calmer(a, b)
    BY <2>4, <2>6, TwoEnds DEF Calmer, Keeps
  <2> DEFINE m == [l EXCEPT ![k] = b]
  <2>9. Harmless(l, m)
    BY <1>2, <2>7, <2>8, OneLink DEF a
  <2>10. m[k] = b
    BY <1>2, <2>1
  <2>11. QED BY <2>3, <2>5, <2>9, <2>10
<1>3. QED BY <1>1, <1>2

(* What is read is no message, or the line is the client's *)
LEMMA TakenIs ==
  ASSUME NEW l, AllSound(l), NEW k \in Links, NEW e \in Ends, l[k].to[e] # <<>>,
         e = "server" => Head(l[k].to[e]).kind # "text"
  PROVE  Harmless(l, Taken(l, k, e))
<1> DEFINE a == l[k]
           b == [up |-> a.up, to |-> [a.to EXCEPT ![e] = Tail(a.to[e])]]
<1>1. a \in LinkRecord /\ Sound(a) /\ l \in [Links -> LinkRecord]
  BY DEF AllSound
<1>2. a.up \in [Ends -> BOOLEAN] /\ a.to \in [Ends -> Seq(Units)]
  BY <1>1 DEF LinkRecord, Views, Queues
<1>3. Taken(l, k, e) = [l EXCEPT ![k] = b]
  <2> DEFINE q == Tail(l[k].to[e])
  <2>1. Taken(l, k, e) = [l EXCEPT ![k].to[e] = q]
    BY DEF Taken
  <2> HIDE DEF q
  <2>2. [l EXCEPT ![k].to[e] = q] = [l EXCEPT ![k] = [a EXCEPT !.to[e] = q]]
    OBVIOUS
  <2>3. [a EXCEPT !.to[e] = q] = [up |-> a.up, to |-> [a.to EXCEPT ![e] = q]]
    <3> HIDE DEF a
    <3>1. QED BY <1>1 DEF LinkRecord
  <2>4. QED BY <2>1, <2>2, <2>3 DEF q
<1>4. Tail(a.to[e]) \in Seq(Units)
  BY <1>2, HeadTailProperties
<1>5. b \in LinkRecord
  BY <1>2, <1>4 DEF LinkRecord, Views, Queues
<1>6. b.up = a.up /\ \A d \in Ends : b.to[d] = IF d = e THEN Tail(a.to[d]) ELSE a.to[d]
  BY <1>2
<1>7. e = "server" => /\ Ordered(Tail(a.to[e])) /\ Nos(Tail(a.to[e])) = Nos(a.to[e])
                      /\ Has(Tail(a.to[e]), "WS") => Has(a.to[e], "WS")
  BY <1>1, <1>2, TailOf DEF Sound
<1>8. Has(Tail(a.to[e]), "101") => Has(a.to[e], "101")
  BY <1>2, TailIs DEF Has
<1>9. a.to[e] # <<>>
  OBVIOUS
<1> HIDE DEF a, b
<1>10. Sound(b)
  BY <1>1, <1>5, <1>6, <1>7, <1>9, TwoEnds DEF Sound
<1>11. Calmer(a, b)
  BY <1>6, <1>7, <1>8, TwoEnds DEF Calmer, Keeps
<1>12. Harmless(l, [l EXCEPT ![k] = b])
  BY <1>10, <1>11, OneLink DEF a
<1>13. QED BY <1>3, <1>12

(* What is sent is no message, and opens no session *)
LEMMA SentIs ==
  ASSUME NEW l, AllSound(l), NEW k, NEW e \in Ends, NEW u \in Seq(Units),
         e = "client" => ~Has(u, "text") /\ ~Has(u, "WS"), ~Has(u, "101")
  PROVE  Harmless(l, Sent(l, k, e, u))
<1> DEFINE d == Other(e)
<1>1. d \in Ends
  BY TwoEnds DEF Ends
<1>2. CASE ~(k \in Links /\ l[k].up[e] /\ l[k].up[d] /\ Len(l[k].to[d]) + Len(u) <= MaxQueue)
  BY <1>2, Nothing DEF Sent
<1>3. CASE k \in Links /\ l[k].up[e] /\ l[k].up[d] /\ Len(l[k].to[d]) + Len(u) <= MaxQueue
  <2> DEFINE a == l[k]
             b == [up |-> a.up, to |-> [a.to EXCEPT ![d] = a.to[d] \o u]]
  <2>1. a \in LinkRecord /\ Sound(a) /\ l \in [Links -> LinkRecord]
    BY <1>3 DEF AllSound
  <2>2. a.up \in [Ends -> BOOLEAN] /\ a.to \in [Ends -> Seq(Units)]
    BY <2>1 DEF LinkRecord, Views, Queues
  <2>3. Sent(l, k, e, u) = [l EXCEPT ![k] = b]
    <3> DEFINE q == l[k].to[d] \o u
    <3>1. Sent(l, k, e, u) = [l EXCEPT ![k].to[d] = q]
      BY <1>3 DEF Sent
    <3> HIDE DEF q, d
    <3>2. [l EXCEPT ![k].to[d] = q] = [l EXCEPT ![k] = [a EXCEPT !.to[d] = q]]
      OBVIOUS
    <3>3. [a EXCEPT !.to[d] = q] = [up |-> a.up, to |-> [a.to EXCEPT ![d] = q]]
      <4> HIDE DEF a
      <4>1. QED BY <2>1 DEF LinkRecord
    <3>4. QED BY <3>1, <3>2, <3>3 DEF q
  <2>4. a.to[d] \o u \in Seq(Units)
    BY <1>1, <2>2, Concat
  <2>5. b \in LinkRecord
    BY <2>2, <2>4 DEF LinkRecord, Views, Queues
  <2>6. b.up = a.up /\ \A c \in Ends : b.to[c] = IF c = d THEN a.to[d] \o u ELSE a.to[c]
    BY <2>2
  <2>7. d = "server" => /\ Ordered(a.to[d] \o u) /\ Nos(a.to[d] \o u) = Nos(a.to[d])
                        /\ Has(a.to[d] \o u, "WS") => Has(a.to[d], "WS")
    <3> SUFFICES ASSUME d = "server"
                 PROVE  /\ Ordered(a.to[d] \o u) /\ Nos(a.to[d] \o u) = Nos(a.to[d])
                        /\ Has(a.to[d] \o u, "WS") => Has(a.to[d], "WS")
      OBVIOUS
    <3>1. e = "client"
      BY TwoEnds DEF Ends
    <3>2. Ordered(a.to[d]) /\ a.to[d] \in Seq(Units)
      BY <1>1, <2>1, <2>2 DEF Sound
    <3> HIDE DEF a, d
    <3>3. QED BY <3>1, <3>2, Sends
  <2>8. Has(a.to[d] \o u, "101") => Has(a.to[d], "101")
    <3>1. a.to[d] \in Seq(Units)
      BY <1>1, <2>2
    <3>2. \A i \in DOMAIN (a.to[d] \o u) :
            \/ i \in DOMAIN a.to[d] /\ (a.to[d] \o u)[i] = a.to[d][i]
            \/ i - Len(a.to[d]) \in DOMAIN u /\ (a.to[d] \o u)[i] = u[i - Len(a.to[d])]
      BY <3>1, Concat
    <3>3. QED BY <3>2 DEF Has
  <2>9. a.up[d]
    BY <1>3
  <2> HIDE DEF a, b, d
  <2>10. Sound(b)
    BY <1>1, <2>1, <2>5, <2>6, <2>7, <2>9, TwoEnds DEF Sound
  <2>11. Calmer(a, b)
    BY <1>1, <2>6, <2>7, <2>8, TwoEnds DEF Calmer, Keeps
  <2>12. Harmless(l, [l EXCEPT ![k] = b])
    BY <1>3, <2>10, <2>11, OneLink DEF a
  <2>13. QED BY <2>3, <2>12
<1>4. QED BY <1>2, <1>3

(* A line that is neither *)
LEMMA SentLine ==
  ASSUME NEW l, AllSound(l), NEW k, NEW e \in Ends,
         NEW kind \in {"ping", "pong", "close", "text"}, e = "client" => kind # "text"
  PROVE  Harmless(l, Sent(l, k, e, <<Line(kind)>>))
<1> DEFINE x == Line(kind)
<1>1. x \in Units /\ x.kind = kind
  BY DEF Line, Unit, Units, UnitKinds
<1> HIDE DEF x
<1>2. /\ <<x>> \in Seq(Units) /\ ~Has(<<x>>, "WS") /\ ~Has(<<x>>, "101")
      /\ e = "client" => ~Has(<<x>>, "text")
  BY <1>1 DEF Has
<1> HIDE DEF x
<1>3. QED BY <1>2, SentIs DEF x

-----------------------------------------------------------------------------
(* The stack *)

(* calls that raise no event yet, and place nobody *)
Quiet(t) == t \in Seq(Tasks) /\ Silent(t) /\ Placing(t) = {}

LEMMA Stacked ==
  ASSUME NEW t \in Seq(Tasks), NEW u \in Seq(Tasks), Silent(u)
  PROVE  /\ t \o u \in Seq(Tasks)
         /\ Placing(t \o u) = Placing(t) \cup Placing(u)
         /\ Silent(t) => Silent(t \o u)
         /\ PlacesOnce(t) /\ PlacesOnce(u) /\ Placing(t) \cap Placing(u) = {} => PlacesOnce(t \o u)
<1> DEFINE r == t \o u
<1>1. /\ r \in Seq(Tasks)
      /\ \A i \in DOMAIN t : i \in DOMAIN r /\ r[i] = t[i]
      /\ \A j \in DOMAIN u : Len(t) + j \in DOMAIN r /\ r[Len(t) + j] = u[j]
      /\ \A i \in DOMAIN r : i \in DOMAIN t \/ (i - Len(t) \in DOMAIN u /\ r[i] = u[i - Len(t)])
  BY Concat
<1>2. Len(t) \in Nat /\ DOMAIN r \subseteq Nat
  BY <1>1
<1> HIDE DEF r
<1>3. Placing(r) \subseteq Placing(t) \cup Placing(u)
  BY <1>1 DEF Placing
<1>4. Placing(t) \subseteq Placing(r) /\ Placing(u) \subseteq Placing(r)
  BY <1>1 DEF Placing
<1>5. Silent(t) => Silent(r)
  BY <1>1 DEF Silent
<1>6. ASSUME PlacesOnce(t), PlacesOnce(u), Placing(t) \cap Placing(u) = {}
      PROVE  PlacesOnce(r)
  <2> SUFFICES ASSUME NEW i \in DOMAIN r, NEW j \in DOMAIN r, r[i].op = "newClient",
                      r[j].op = "newClient", r[i].tcp = r[j].tcp
               PROVE  i = j
    BY DEF PlacesOnce
  <2>1. \A h \in DOMAIN t : t[h].op = "newClient" => t[h].tcp \in Placing(t)
    BY DEF Placing
  <2>2. \A h \in DOMAIN u : u[h].op = "newClient" => u[h].tcp \in Placing(u)
    BY DEF Placing
  <2>3. i \in DOMAIN t <=> j \in DOMAIN t
    BY <1>1, <1>6, <2>1, <2>2
  <2>4. CASE i \in DOMAIN t
    BY <1>1, <1>6, <2>3, <2>4 DEF PlacesOnce
  <2>5. CASE i \notin DOMAIN t
    <3>1. i - Len(t) = j - Len(t)
      BY <1>1, <1>6, <2>3, <2>5 DEF PlacesOnce
    <3>2. QED BY <1>2, <3>1
  <2>6. QED BY <2>4, <2>5
<1>7. QED BY <1>1, <1>3, <1>4, <1>5, <1>6 DEF r

LEMMA OneTask ==
  ASSUME NEW x \in Tasks
  PROVE  /\ <<x>> \in Seq(Tasks) /\ PlacesOnce(<<x>>)
         /\ Placing(<<x>>) = IF x.op = "newClient" THEN {x.tcp} ELSE {}
         /\ x.op \notin Events => Silent(<<x>>)
         /\ x.op \notin Events \cup {"newClient"} => Quiet(<<x>>)
BY DEF PlacesOnce, Placing, Silent, Quiet

(* The task on top, and the rest of the stack *)
LEMMA OnTop ==
  ASSUME todo \in Seq(Tasks), OneEvent, PlacesOnce(todo), NEW i \in Top
  PROVE  /\ i \in DOMAIN todo /\ todo[i] \in Tasks
         /\ rest(i) \in Seq(Tasks) /\ Silent(rest(i)) /\ PlacesOnce(rest(i))
         /\ Placing(todo) = (IF todo[i].op = "newClient" THEN {todo[i].tcp} ELSE {}) \cup Placing(rest(i))
         /\ todo[i].op = "newClient" => todo[i].tcp \notin Placing(rest(i))
         /\ todo[i].op \in Events => i = 1
         /\ todo[i].op \notin Events => \A n \in Slots : ~Told1(n)
<1>1. i \in DOMAIN todo /\ IsNext(i)
  BY DEF Top
<1>2. i \in Nat \ {0} /\ todo[i] \in Tasks /\ DOMAIN todo = 1 .. Len(todo) /\ Len(todo) \in Nat
  BY <1>1
<1> DEFINE r == rest(i)
<1>3. /\ r \in Seq(Tasks)
      /\ \A j \in DOMAIN r : i + j \in DOMAIN todo /\ r[j] = todo[i + j] /\ j \in Nat \ {0}
      /\ \A j \in DOMAIN todo : j > i => j - i \in DOMAIN r /\ r[j - i] = todo[j]
  BY <1>1, Rest DEF rest
<1> HIDE DEF r
<1>4. \A j \in DOMAIN todo : j < i => todo[j].op \notin Events \cup {"newClient"}
  BY <1>1, <1>2 DEF IsNext, Idle, Events
<1>5. Silent(r)
  <2>1. \A j \in DOMAIN r : i + j > 1
    BY <1>2, <1>3
  <2>2. QED BY <1>3, <2>1 DEF Silent, OneEvent
<1>6. PlacesOnce(r)
  <2> SUFFICES ASSUME NEW j \in DOMAIN r, NEW h \in DOMAIN r, r[h].op = "newClient",
                      r[j].op = "newClient", r[h].tcp = r[j].tcp
               PROVE  h = j
    BY DEF PlacesOnce
  <2>1. i + h = i + j
    BY <1>3 DEF PlacesOnce
  <2>2. QED BY <1>2, <1>3, <2>1
<1>7. Placing(r) \subseteq Placing(todo)
  BY <1>3 DEF Placing
<1>8. todo[i].op = "newClient" => todo[i].tcp \in Placing(todo)
  BY <1>1 DEF Placing
<1>9. todo[i].op = "newClient" => todo[i].tcp \notin Placing(r)
  <2> SUFFICES ASSUME todo[i].op = "newClient", NEW j \in DOMAIN r, r[j].op = "newClient",
                      r[j].tcp = todo[i].tcp
               PROVE  FALSE
    BY DEF Placing
  <2>1. i + j = i
    BY <1>1, <1>3 DEF PlacesOnce
  <2>2. QED BY <1>2, <1>3, <2>1
<1>10. Placing(todo) \subseteq (IF todo[i].op = "newClient" THEN {todo[i].tcp} ELSE {}) \cup Placing(r)
  <2> SUFFICES ASSUME NEW j \in DOMAIN todo, todo[j].op = "newClient", j # i
               PROVE  todo[j].tcp \in Placing(r)
    BY DEF Placing
  <2>1. j > i
    BY <1>2, <1>4
  <2>2. j - i \in DOMAIN r /\ r[j - i] = todo[j]
    BY <1>3, <2>1
  <2>3. QED BY <2>2 DEF Placing
<1>11. todo[i].op \in Events => i = 1
  BY <1>1, <1>2 DEF OneEvent
<1>12. todo[i].op \notin Events => \A n \in Slots : ~Told1(n)
  <2>1. todo[i].op \notin Events => todo[1].op \notin Events
    BY <1>1, <1>2, <1>4
  <2>2. QED BY <2>1 DEF Told1
<1>13. QED BY <1>1, <1>2, <1>3, <1>5, <1>6, <1>7, <1>8, <1>9, <1>10, <1>11, <1>12 DEF r

(* A set of numbers has a least one *)
LEMMA Least ==
  ASSUME NEW S, S \subseteq Nat, S # {}
  PROVE  \E m \in S : \A n \in S : m <= n
<1> DEFINE R == OpToRel(<, Nat)
<1>1. IsWellFoundedOn(R, Nat)
  BY NatLessThanWellFounded
<1>2. \A x, y \in Nat : y < x => <<y, x>> \in R
  BY DEF OpToRel
<1> HIDE DEF R
<1>3. \E x \in S : \A y \in S : ~(<<y, x>> \in R)
  BY <1>1, WFMin
<1>4. PICK m \in S : \A y \in S : ~(<<y, m>> \in R)
  BY <1>3
<1>5. \A n \in S : ~(n < m)
  BY <1>2, <1>4
<1>6. QED BY <1>4, <1>5

(* When nothing is on top, nothing that matters is left *)
LEMMA NothingOnTop ==
  ASSUME todo \in Seq(Tasks), Top = {}
  PROVE  /\ Silent(todo) /\ Placing(todo) = {}
         /\ \A n \in Slots : ~Told1(n)
<1> DEFINE S == {i \in DOMAIN todo : ~Idle(todo[i])}
<1>1. DOMAIN todo = 1 .. Len(todo) /\ Len(todo) \in Nat
  OBVIOUS
<1>2. S = {}
  <2> SUFFICES ASSUME S # {} PROVE FALSE
    OBVIOUS
  <2>1. S \subseteq Nat
    BY <1>1
  <2>2. PICK i \in S : \A j \in S : i <= j
    <3> HIDE DEF S
    <3>1. QED BY <2>1, Least
  <2>3. \A j \in 1 .. i - 1 : j \in DOMAIN todo /\ ~(i <= j)
    BY <1>1, <2>2
  <2>4. \A j \in 1 .. i - 1 : Idle(todo[j])
    BY <2>2, <2>3
  <2>5. i \in Top
    BY <2>2, <2>4 DEF Top, IsNext
  <2>6. QED BY <2>5
<1>3. \A i \in DOMAIN todo : todo[i].op \notin Events \cup {"newClient"}
  BY <1>2 DEF Idle, Events
<1>4. QED BY <1>1, <1>3 DEF Silent, Placing, Told1

(* The calls of the sketch, and the round of loop() *)
LEMMA ForAllIs ==
  ASSUME NEW op \in Ops \ (Events \cup {"newClient"})
  PROVE  Quiet([n \in Slots |-> Task(op, n, None, 0)])
<1> DEFINE f == [n \in Slots |-> Task(op, n, None, 0)]
<1>1. \A n \in Slots : Task(op, n, None, 0) \in Tasks /\ Task(op, n, None, 0).op = op
  BY ServerAssumption DEF Task, Tasks, Slots, Ops, Events, None
<1>2. f \in [1 .. MAX_CLIENTS -> Tasks] /\ MAX_CLIENTS \in Nat
  BY <1>1, ServerAssumption DEF Slots
<1>3. f \in Seq(Tasks)
  BY <1>2, SeqDef
<1>4. \A j \in DOMAIN f : f[j].op = op
  BY <1>1
<1> HIDE DEF f
<1>5. QED BY <1>3, <1>4 DEF Quiet, Silent, Placing, f

LEMMA QuietConcat ==
  ASSUME NEW t, NEW u, Quiet(t), Quiet(u)
  PROVE  Quiet(t \o u)
<1>1. Quiet(t \o u)
  BY Stacked DEF Quiet
<1>2. QED BY <1>1

LEMMA CallsAreQuiet ==
  /\ Quiet(Round) /\ Quiet(<<>>)
  /\ \A n \in Slots : \A calls \in Calls(n) : Quiet(calls)
<1>1. Quiet(<<>>)
  BY DEF Quiet, Silent, Placing
<1>2. \A n \in Slots, op \in {"send", "disconnect"} : Task(op, n, None, 0) \in Tasks
  BY ServerAssumption DEF Task, Tasks, Slots, Ops, Events, None
<1>3. \A n \in Slots, op \in {"send", "disconnect"} : Quiet(<<Task(op, n, None, 0)>>)
  BY <1>2, OneTask DEF Task, Events
<1>4. \A n \in Slots : \A calls \in Calls(n) : Quiet(calls)
  <2> SUFFICES ASSUME NEW n \in Slots, NEW calls \in Calls(n) PROVE Quiet(calls)
    OBVIOUS
  <2>1. Quiet(<<sendTXT(n)>>) /\ Quiet(<<disconnect(n)>>)
    BY <1>3 DEF sendTXT, disconnect
  <2>2. Quiet(ForAll(sendTXT))
    BY ForAllIs DEF ForAll, sendTXT, Ops, Events
  <2>3. QED BY <1>1, <2>1, <2>2 DEF Calls
<1>5. Quiet(Round)
  <2>1. handleNewClients \in Tasks /\ handleNewClients.op = "accept"
    BY ServerAssumption DEF handleNewClients, Task, Tasks, Slots, Ops, Events, None
  <2>2. Quiet(<<handleNewClients>>)
    BY <2>1, OneTask DEF Events
  <2>3. Quiet(ForAll(handleClientData))
    BY ForAllIs DEF ForAll, handleClientData, Ops, Events
  <2>4. QED BY <2>2, <2>3, QuietConcat DEF Round
<1>6. QED BY <1>1, <1>4, <1>5

-----------------------------------------------------------------------------
(* Steps *)

LEMMA WaitingIs ==
  /\ \A k : Waiting(k) <=> k \in Range(backlog) \cup Placing(todo)
  /\ \A k : Waiting(k)' <=> k \in Range(backlog') \cup Placing(todo')
BY DEF Waiting, Placing

LEMMA LinksAreSound ==
  ASSUME Typed, Opened, InOrder
  PROVE  AllSound(link)
BY DEF Typed, Opened, InOrder, AllSound, Sound

(* A step that opens no session, places nobody and says nothing: some      *)
(* connections lose an end, some answers go, the clients forget            *)
Forgets ==
  /\ client' \in [Peers -> ClientRecord] /\ \A p \in Browsers : tcp(p)' # Refused
  /\ \A p \in Peers : \/ tcp(p)' = tcp(p) /\ client'[p].said = client[p].said
                      \/ tcp(p)' \notin Links
  /\ \A p \in Clients : /\ tcp(p)' \in Links
                        /\ client'[p].accepted \/ client'[p].status = "CONNECTED"
                        => Met(tcp(p)) /\ tcp(p)' = tcp(p)
GoesOn ==
  /\ todo' \in Seq(Tasks) /\ PlacesOnce(todo') /\ Placing(todo') = Placing(todo)
  /\ \/ todo' = todo
     \/ Silent(todo') /\ \A n \in Slots : ~Told1(n)
KeepsSlots ==
  /\ slot' \in [Slots -> SlotRecord]
  /\ \A n \in Slots :
       /\ slot'[n].tcp = slot[n].tcp /\ slot'[n].status = slot[n].status
       /\ slot'[n].ws /\ ~slot[n].ws =>
            slot[n].tcp # None /\ \A p \in Browsers : tcp(p) # slot[n].tcp

LEMMA ForgetsNothing ==
  ASSUME IInv, client' = client
  PROVE  Forgets
<1>1. client' \in [Peers -> ClientRecord] /\ \A p \in Browsers : tcp(p)' # Refused
  BY DEF IInv, Typed, tcp
<1>2. \A p \in Peers : tcp(p)' = tcp(p)
  BY DEF tcp
<1>3. ASSUME NEW p \in Clients, client'[p].accepted \/ client'[p].status = "CONNECTED"
      PROVE  Met(tcp(p))
  BY <1>3 DEF Met
<1>4. \A p \in Clients : p \in Peers
  BY DEF Clients
<1>5. QED BY <1>1, <1>2, <1>3, <1>4 DEF Forgets

LEMMA Calm ==
  ASSUME IInv, Harmless(link, link'), backlog' = backlog, GoesOn, KeepsSlots,
         UNCHANGED <<session, heard>>, Forgets
  PROVE  IInv'
<1>1. \A n \in Slots : (~Told1(n)' /\ ~Told1(n)) \/ (todo' = todo /\ (Told1(n)' <=> Told1(n)))
  BY DEF GoesOn, Told1, Silent
<1>2. \A k : Waiting(k)' <=> Waiting(k)
  BY WaitingIs DEF GoesOn
<1>3. Typed'
  BY DEF IInv, Typed, Harmless, AllSound, GoesOn, KeepsSlots, Forgets, tcp
<1>4. TypeOK'
  <2>1. \A n \in Slots : slot[n].tcp = None => ~slot'[n].ws
    BY DEF IInv, TypeOK, KeepsSlots
  <2>2. \A n \in Slots :
          /\ slot'[n].tcp \in Links \cup {None}
          /\ slot'[n].status = "NOT_CONNECTED" <=> slot'[n].tcp = None
          /\ slot'[n].tcp = None => ~slot'[n].ws
    BY <2>1 DEF IInv, TypeOK, KeepsSlots
  <2>3. \A p \in Peers : client'[p].holdOff \in 0 .. Interval
    BY DEF Forgets, ClientRecord, Sockets, Times
  <2>4. \A i \in DOMAIN todo' : todo'[i].n \in 1 .. MAX_CLIENTS + 1
    BY DEF GoesOn, Tasks
  <2>5. QED BY <2>2, <2>3, <2>4 DEF TypeOK
<1>5. Opened' /\ InOrder'
  BY DEF Opened, InOrder, Harmless, AllSound, Sound
<1>6. OneEvent'
  BY DEF IInv, OneEvent, GoesOn, Silent
<1>7. NoTwoPlaces'
  <2>1. \A p, q \in Peers : tcp(p)' = tcp(q)' /\ tcp(p)' \in Links => p = q
    BY DEF IInv, NoTwoPlaces, Forgets
  <2>2. QED BY <1>2, <2>1 DEF IInv, NoTwoPlaces, GoesOn, KeepsSlots
<1>8. OnePlace'
  BY <1>2, TwoEnds DEF IInv, OnePlace, Harmless, Calmer, Keeps, KeepsSlots
<1>9. Agreed'
  <2>1. \A k \in Links : Met(k)' => Met(k)
    BY DEF Met, Harmless, Calmer, Forgets
  <2>2. QED BY <2>1, TwoEnds DEF IInv, Agreed, Harmless, Calmer, Keeps, KeepsSlots
<1>10. Vetted'
  <2> SUFFICES ASSUME NEW p \in Browsers, tcp(p)' # None
               PROVE  /\ ~Has(link'[tcp(p)'].to["server"], "WS")
                      /\ \A n \in Slots :
                           /\ slot'[n].tcp = tcp(p)' => ~slot'[n].ws /\ slot'[n].status # "CONNECTED"
                           /\ session'[n] # tcp(p)'
    BY DEF Vetted
  <2>1. p \in Peers
    BY WsClientAssumption
  <2>2. tcp(p)' \in Links
    BY <2>1 DEF Forgets, ClientRecord, Sockets, Times, tcp
  <2>3. tcp(p)' = tcp(p)
    BY <2>1, <2>2 DEF Forgets
  <2>4. QED BY <2>2, <2>3 DEF IInv, Vetted, Harmless, Calmer, Keeps, KeepsSlots
<1>11. \A n \in Slots : Current(n)' = Current(n)
  BY DEF Current, KeepsSlots
<1>12. Informed'
  BY <1>1, <1>11 DEF IInv, Informed, KeepsSlots
<1>13. Numbered'
  <2>1. \A n \in Slots : Count(n)' = Count(n)
    BY <1>1, <1>11 DEF Count
  <2>2. ASSUME NEW k \in Links, link'[k].up["server"], NEW h, Follows(k, h)
        PROVE  Follows(k, h)'
    <3>1. PICK m \in Nat :
            /\ h <= m /\ Nos(link[k].to["server"]) = h + 1 .. m
            /\ \A p \in Peers : tcp(p) = k => client[p].said = m
      BY <2>2 DEF Follows
    <3>2. Nos(link'[k].to["server"]) = Nos(link[k].to["server"])
      BY <2>2 DEF Harmless, Calmer, Keeps
    <3>3. \A p \in Peers : tcp(p)' = k => client'[p].said = m
      BY <3>1 DEF Forgets
    <3>4. QED BY <3>1, <3>2, <3>3 DEF Follows
  <2>3. \A k \in Links : link'[k].up["server"] => link[k].up["server"]
    BY TwoEnds DEF Harmless, Calmer, Keeps
  <2>4. QED BY <1>2, <2>1, <2>2, <2>3 DEF IInv, Numbered, KeepsSlots
<1>14. QED BY <1>3, <1>4, <1>5, <1>6, <1>7, <1>8, <1>9, <1>10, <1>12, <1>13 DEF IInv

LEMMA KeepsAllSlots ==
  ASSUME IInv, slot' = slot
  PROVE  KeepsSlots
BY DEF IInv, Typed, KeepsSlots

LEMMA CalmClient ==
  ASSUME IInv, Harmless(link, link'), backlog' = backlog, UNCHANGED server, Forgets
  PROVE  IInv'
<1>1. GoesOn
  BY DEF server, IInv, Typed, NoTwoPlaces, GoesOn
<1>2. KeepsSlots
  BY KeepsAllSlots DEF server
<1>3. QED BY <1>1, <1>2, Calm DEF server

(* A client's record that has lost its connection, or goes on with it *)
LEMMA OneForgets ==
  ASSUME IInv, NEW p \in Peers, NEW c \in ClientRecord, client' = [client EXCEPT ![p] = c],
         \/ c.tcp \notin Links /\ (p \in Browsers => c.tcp # Refused)
         \/ p \in Clients /\ c.tcp = tcp(p) /\ c.said = client[p].said /\ Met(tcp(p))
  PROVE  Forgets
<1>1. client \in [Peers -> ClientRecord] /\ \A q \in Browsers : tcp(q) # Refused
  BY DEF IInv, Typed
<1>2. /\ client' \in [Peers -> ClientRecord]
      /\ \A q \in Peers : client'[q] = IF q = p THEN c ELSE client[q]
  BY <1>1
<1>3. \A q \in Browsers : q \in Peers
  BY WsClientAssumption
<1>4. \A q \in Browsers : tcp(q)' # Refused
  <2> TAKE q \in Browsers
  <2>1. CASE q # p
    BY <1>1, <1>2, <1>3, <2>1 DEF tcp
  <2>2. CASE q = p
    BY <1>2, <1>3, <2>2 DEF Clients, tcp
  <2>3. QED BY <2>1, <2>2
<1>5. \A q \in Peers :
        \/ tcp(q)' = tcp(q) /\ client'[q].said = client[q].said
        \/ tcp(q)' \notin Links
  BY <1>2 DEF tcp
<1>6. ASSUME NEW q \in Clients, tcp(q)' \in Links,
             client'[q].accepted \/ client'[q].status = "CONNECTED"
      PROVE  Met(tcp(q)) /\ tcp(q)' = tcp(q)
  <2>1. q \in Peers
    BY DEF Clients
  <2>2. CASE q = p
    BY <1>2, <1>6, <2>1, <2>2 DEF tcp
  <2>3. CASE q # p
    BY <1>2, <1>6, <2>1, <2>3 DEF tcp, Met
  <2>4. QED BY <2>2, <2>3
<1>7. QED BY <1>2, <1>4, <1>5, <1>6 DEF Forgets

LEMMA DisconnectedIs ==
  ASSUME NEW c \in ClientRecord
  PROVE  /\ Disconnected(c) \in ClientRecord /\ Disconnected(c).tcp = None
         /\ Failed(Disconnected(c)) \in ClientRecord /\ Failed(Disconnected(c)).tcp = None
         /\ None \notin Links /\ None # Refused /\ Refused \notin Links
<1>1. Interval \in 0 .. Interval
  BY WsClientAssumption
<1>2. Disconnected(c) \in ClientRecord /\ Disconnected(c).tcp = None
  BY DEF Disconnected, ClientRecord, Sockets, Times, Statuses
<1>3. Failed(Disconnected(c)) \in ClientRecord /\ Failed(Disconnected(c)).tcp = None
  BY <1>1, <1>2 DEF Failed, ClientRecord, Sockets, Times
<1>4. QED BY <1>2, <1>3, TcpAssumption DEF None, Refused, Links

(* The steps of the network *)
LEMMA NetSteps ==
  ASSUME IInv, NetStep, UNCHANGED <<server, client>>
  PROVE  IInv'
<1>1. AllSound(link)
  BY LinksAreSound DEF IInv
<1>2. PICK k \in Links, e \in Ends : link' = Stopped(link, k, e) /\ backlog' = backlog
  BY DEF NetStep, Learn, Break
<1>3. QED BY <1>1, <1>2, StoppedIs, ForgetsNothing, CalmClient

(* What a client that is not reading does *)
LEMMA Reader ==
  ASSUME IInv, NEW p \in Peers
  PROVE  /\ AllSound(link) /\ client[p] \in ClientRecord
         /\ \A k \in Links : link[k] \in LinkRecord
         /\ p \in Clients /\ ClientIsConnected(p) => tcp(p) \in Links /\ link[tcp(p)].up["client"]
BY LinksAreSound DEF IInv, Typed, ClientIsConnected, Up

LEMMA Loses ==
  ASSUME IInv, NEW p \in Peers, NEW l, Harmless(link, l), link' = Stopped(l, tcp(p), "client"),
         NEW c \in ClientRecord, c.tcp = None, client' = [client EXCEPT ![p] = c],
         backlog' = backlog, UNCHANGED server
  PROVE  IInv'
<1>1. AllSound(link) /\ AllSound(l)
  BY Reader DEF Harmless
<1>2. Harmless(link, link')
  <2>1. Harmless(l, Stopped(l, tcp(p), "client"))
    BY <1>1, StoppedIs, TwoEnds
  <2>2. QED BY <1>1, <2>1, Both
<1>3. Forgets
  BY OneForgets, DisconnectedIs
<1>4. QED BY <1>2, <1>3, CalmClient

LEMMA HoldsOffStep ==
  ASSUME IInv, NEW p \in Peers, HoldsOff(p), UNCHANGED server
  PROVE  IInv'
<1>1. client[p] \in ClientRecord /\ AllSound(link)
  BY Reader
<1>2. link' = link /\ backlog' = backlog /\ client' = [client EXCEPT ![p] = Disconnected(client[p])]
  BY DEF HoldsOff, net
<1>3. Forgets
  BY <1>1, <1>2, DisconnectedIs, OneForgets
<1>4. QED BY <1>1, <1>2, <1>3, Nothing, CalmClient

LEMMA FailsStep ==
  ASSUME IInv, NEW p \in Clients, ConnectFails(p, Disconnected(client[p])), UNCHANGED server
  PROVE  IInv'
<1> DEFINE d == Failed(Disconnected(client[p]))
           c == [d EXCEPT !.tcp = Refused, !.since = 0, !.met = FALSE]
<1>1. p \in Peers /\ p \notin Browsers
  BY DEF Clients
<1>2. client[p] \in ClientRecord /\ AllSound(link)
  BY <1>1, Reader
<1>3. d \in ClientRecord /\ Refused \notin Links
  BY <1>2, DisconnectedIs
<1>4. client' = [client EXCEPT ![p] = c] /\ link' = link /\ backlog' = backlog
  BY DEF ConnectFails
<1> HIDE DEF d
<1>5. c \in ClientRecord /\ c.tcp = Refused
  <2>1. 0 \in 0 .. Interval
    BY WsClientAssumption
  <2>2. Refused \in Sockets /\ 0 \in Times
    BY <2>1 DEF Sockets, Times
  <2>3. QED BY <1>3, <2>2 DEF ClientRecord
<1>6. Forgets
  <2> HIDE DEF c
  <2>1. QED BY <1>1, <1>3, <1>4, <1>5, OneForgets
<1>7. QED BY <1>2, <1>4, <1>6, Nothing, CalmClient

LEMMA DisconnectStep ==
  ASSUME IInv, NEW p \in Peers, Disconnect(p), UNCHANGED server
  PROVE  IInv'
<1> DEFINE l == IF client[p].status = "CONNECTED"
                THEN Sent(link, tcp(p), "client", <<Line("close")>>) ELSE link
<1>1. client[p] \in ClientRecord /\ AllSound(link)
  BY Reader
<1>2. Harmless(link, l)
  BY <1>1, Nothing, SentLine, TwoEnds
<1>3. /\ link' = Stopped(l, tcp(p), "client") /\ backlog' = backlog
      /\ client' = [client EXCEPT ![p] = Disconnected(client[p])]
  BY DEF Disconnect
<1> HIDE DEF l
<1>4. QED BY <1>1, <1>2, <1>3, DisconnectedIs, Loses

LEMMA BrowserGoesStep ==
  ASSUME IInv, NEW p \in Peers, BrowserGoes(p), UNCHANGED server
  PROVE  IInv'
<1>1. New \in ClientRecord /\ New.tcp = None
  BY WsClientAssumption DEF New, ClientRecord, Sockets, Times, Statuses
<1>2. AllSound(link)
  BY Reader
<1>3. Harmless(link, link)
  BY <1>2, Nothing
<1>4. QED BY <1>1, <1>3, Loses DEF BrowserGoes

(* What is read by a client that is connected *)
LEMMA ClientTakes ==
  ASSUME IInv, NEW p \in Peers, NEW status, ClientReading(p, status)
  PROVE  /\ p \in Clients /\ tcp(p) \in Links /\ client[p].status = status
         /\ Harmless(link, Taken(link, tcp(p), "client"))
         /\ AllSound(Taken(link, tcp(p), "client"))
         /\ \A kind : Incoming(tcp(p), "client").kind = kind => Has(link[tcp(p)].to["client"], kind)
<1>1. p \in Clients /\ ClientIsConnected(p) /\ client[p].status = status
      /\ link[tcp(p)].to["client"] # <<>>
  BY DEF ClientReading, Available
<1>2. tcp(p) \in Links /\ AllSound(link) /\ link[tcp(p)] \in LinkRecord
  BY <1>1, Reader
<1>3. Harmless(link, Taken(link, tcp(p), "client"))
  BY <1>1, <1>2, TakenIs, TwoEnds
<1>4. link[tcp(p)].to["client"] \in Seq(Units)
  BY <1>2, TwoEnds DEF LinkRecord, Queues
<1>5. \A kind : Incoming(tcp(p), "client").kind = kind => Has(link[tcp(p)].to["client"], kind)
  BY <1>1, <1>4, TailIs DEF Has, Incoming
<1>6. QED BY <1>1, <1>2, <1>3, <1>5 DEF Harmless

LEMMA AnswerLineStep ==
  ASSUME IInv, NEW p \in Peers, AnswerLine(p), UNCHANGED server
  PROVE  IInv'
<1>1. ClientReading(p, "HEADER") /\ link' = Taken(link, tcp(p), "client") /\ backlog' = backlog
  BY DEF AnswerLine
<1>2. /\ p \in Clients /\ tcp(p) \in Links /\ Harmless(link, link')
      /\ \A kind : Incoming(tcp(p), "client").kind = kind => Has(link[tcp(p)].to["client"], kind)
  BY <1>1, ClientTakes
<1>3. CASE client' = client
  BY <1>1, <1>2, <1>3, ForgetsNothing, CalmClient
<1>4. CASE Incoming(tcp(p), "client").kind = "101" /\ client' = [client EXCEPT ![p].accepted = TRUE]
  <2> DEFINE c == [client[p] EXCEPT !.accepted = TRUE]
  <2>1. client[p] \in ClientRecord
    BY Reader
  <2>2. c \in ClientRecord /\ c.tcp = tcp(p) /\ c.said = client[p].said
    BY <2>1 DEF ClientRecord, Sockets, Times, tcp
  <2>3. client' = [client EXCEPT ![p] = c]
    BY <1>4
  <2>4. Met(tcp(p))
    BY <1>2, <1>4 DEF Met
  <2>5. Forgets
    <3> HIDE DEF c
    <3>1. QED BY <1>2, <2>2, <2>3, <2>4, OneForgets
  <2>6. QED BY <1>1, <1>2, <2>5, CalmClient
<1>5. QED BY <1>3, <1>4 DEF AnswerLine

LEMMA AnswerEndStep ==
  ASSUME IInv, NEW p \in Peers, AnswerEnd(p), UNCHANGED server
  PROVE  IInv'
<1> DEFINE l == Taken(link, tcp(p), "client")
<1>1. ClientReading(p, "HEADER") /\ backlog' = backlog
  BY DEF AnswerEnd
<1>2. p \in Clients /\ tcp(p) \in Links /\ Harmless(link, l) /\ AllSound(l)
  BY <1>1, ClientTakes
<1>3. client[p] \in ClientRecord
  BY Reader
<1>4. CASE client[p].accepted /\ link' = l
           /\ client' = [client EXCEPT ![p].status = "CONNECTED", ![p].met = TRUE]
  <2> DEFINE c == [client[p] EXCEPT !.status = "CONNECTED", !.met = TRUE]
  <2>1. c \in ClientRecord /\ c.tcp = tcp(p) /\ c.said = client[p].said
    BY <1>3 DEF ClientRecord, Sockets, Times, Statuses, tcp
  <2>2. client' = [client EXCEPT ![p] = c]
    BY <1>4
  <2>3. Met(tcp(p))
    BY <1>2, <1>4 DEF Met
  <2>4. Forgets
    <3> HIDE DEF c
    <3>1. QED BY <1>2, <2>1, <2>2, <2>3, OneForgets
  <2>5. QED BY <1>1, <1>2, <1>4, <2>4, CalmClient
<1>5. CASE /\ link' = Stopped(l, tcp(p), "client")
           /\ client' = [client EXCEPT ![p] = Failed(Disconnected(client[p]))]
  <2> HIDE DEF l
  <2>1. QED BY <1>1, <1>2, <1>3, <1>5, DisconnectedIs, Loses
<1>6. QED BY <1>4, <1>5 DEF AnswerEnd

LEMMA ClientFrameStep ==
  ASSUME IInv, NEW p \in Peers, ClientFrame(p), UNCHANGED server
  PROVE  IInv'
<1> DEFINE l == Taken(link, tcp(p), "client")
           s(kind) == Sent(l, tcp(p), "client", <<Line(kind)>>)
<1>1. ClientReading(p, "CONNECTED") /\ backlog' = backlog
  BY DEF ClientFrame
<1>2. p \in Clients /\ tcp(p) \in Links /\ Harmless(link, l) /\ AllSound(l)
  BY <1>1, ClientTakes
<1>3. client[p] \in ClientRecord /\ AllSound(link)
  BY Reader
<1> HIDE DEF l
<1>4. Harmless(link, s("pong")) /\ Harmless(link, s("close"))
  BY <1>2, <1>3, SentLine, Both, TwoEnds
<1>5. CASE link' = l /\ client' = client
  BY <1>1, <1>2, <1>5, ForgetsNothing, CalmClient
<1>6. CASE link' = s("pong") /\ client' = client
  BY <1>1, <1>4, <1>6, ForgetsNothing, CalmClient
<1>7. CASE /\ link' = Stopped(s("close"), tcp(p), "client")
           /\ client' = [client EXCEPT ![p] = Disconnected(client[p])]
  <2> HIDE DEF s
  <2>1. QED BY <1>1, <1>3, <1>4, <1>7, DisconnectedIs, Loses
<1>8. QED BY <1>5, <1>6, <1>7 DEF ClientFrame, l

LEMMA TickStep ==
  ASSUME IInv, Tick, UNCHANGED server
  PROVE  IInv'
<1>1. client \in [Peers -> ClientRecord] /\ \A q \in Browsers : tcp(q) # Refused
  BY DEF IInv, Typed
<1> DEFINE ticked(p) == [client[p] EXCEPT !.holdOff = IF @ = 0 THEN 0 ELSE @ - 1,
                                         !.since = IF @ = Interval THEN Interval ELSE @ + 1]
<1>2. client' = [p \in Peers |-> ticked(p)] /\ link' = link /\ backlog' = backlog
  BY DEF Tick, net
<1>3. \A p \in Peers :
        /\ ticked(p) \in ClientRecord /\ ticked(p).tcp = client[p].tcp
        /\ ticked(p).said = client[p].said /\ ticked(p).status = client[p].status
        /\ ticked(p).accepted = client[p].accepted
  <2> TAKE p \in Peers
  <2> DEFINE c == client[p]
             h == IF c.holdOff = 0 THEN 0 ELSE c.holdOff - 1
             t == IF c.since = Interval THEN Interval ELSE c.since + 1
  <2>1. c \in ClientRecord
    BY <1>1
  <2>2. c.holdOff \in 0 .. Interval /\ c.since \in 0 .. Interval
    BY <2>1 DEF ClientRecord, Sockets, Times
  <2>3. h \in 0 .. Interval /\ t \in 0 .. Interval
    BY <2>2, WsClientAssumption
  <2>4. ticked(p) = [c EXCEPT !.holdOff = h, !.since = t]
    BY <2>1 DEF ClientRecord, Sockets, Times
  <2> HIDE DEF h, t, ticked
  <2>5. QED BY <2>1, <2>3, <2>4 DEF ClientRecord, Times
<1> HIDE DEF ticked
<1>4. /\ client' \in [Peers -> ClientRecord]
      /\ \A p \in Peers : /\ tcp(p)' = tcp(p) /\ client'[p].said = client[p].said
                          /\ client'[p].status = client[p].status
                          /\ client'[p].accepted = client[p].accepted
  BY <1>2, <1>3 DEF tcp
<1>5. (\A p \in Browsers : p \in Peers) /\ (\A p \in Clients : p \in Peers)
  BY WsClientAssumption DEF Clients
<1>6. ASSUME NEW p \in Clients, client'[p].accepted \/ client'[p].status = "CONNECTED"
      PROVE  Met(tcp(p))
  BY <1>4, <1>5, <1>6 DEF Met
<1>7. Forgets
  BY <1>1, <1>4, <1>5, <1>6 DEF Forgets
<1>8. AllSound(link)
  BY LinksAreSound DEF IInv
<1>9. QED BY <1>2, <1>7, <1>8, Nothing, CalmClient

LEMMA AppendIs ==
  ASSUME NEW q \in Seq(Links), NEW k \in Links
  PROVE  /\ Append(q, k) \in Seq(Links) /\ Range(Append(q, k)) = Range(q) \cup {k}
         /\ k \notin Range(q) /\ (\A i, j \in DOMAIN q : q[i] = q[j] => i = j)
              => \A i, j \in DOMAIN Append(q, k) : Append(q, k)[i] = Append(q, k)[j] => i = j
<1> DEFINE r == Append(q, k)
<1>1. Len(q) \in Nat /\ DOMAIN q = 1 .. Len(q)
  OBVIOUS
<1>2. /\ r \in Seq(Links) /\ DOMAIN r = 1 .. Len(q) + 1
      /\ \A i \in 1 .. Len(q) : r[i] = q[i]
      /\ r[Len(q) + 1] = k
  BY AppendProperties
<1> HIDE DEF r
<1>3. \A i \in 1 .. Len(q) + 1 : i \in 1 .. Len(q) \/ i = Len(q) + 1
  BY <1>1
<1>4. \A i \in 1 .. Len(q) : i \in 1 .. Len(q) + 1
  BY <1>1
<1>5. Len(q) + 1 \in 1 .. Len(q) + 1
  BY <1>1
<1>6. Range(r) = Range(q) \cup {k}
  BY <1>1, <1>2, <1>3, <1>4, <1>5 DEF Range
<1>7. ASSUME k \notin Range(q), \A i, j \in DOMAIN q : q[i] = q[j] => i = j
      PROVE  \A i, j \in DOMAIN r : r[i] = r[j] => i = j
  <2>1. \A i \in 1 .. Len(q) : q[i] # k
    BY <1>1, <1>7 DEF Range
  <2>2. QED BY <1>1, <1>2, <1>3, <1>7, <2>1
<1>8. QED BY <1>2, <1>6, <1>7 DEF r

(* A new connection: nothing but the request is on its way *)
LEMMA ConnectedIs ==
  ASSUME IInv, NEW p \in Peers, NEW k \in Links, link' = Connected(link, k, Request(p))
  PROVE  /\ AllSound(link')
         /\ \A j \in Links : j # k => link'[j] = link[j]
         /\ Nos(link'[k].to["server"]) = {}
         /\ ~Has(link'[k].to["client"], "101")
         /\ p \in Browsers => ~Has(link'[k].to["server"], "WS")
<1> DEFINE q == Request(p)
           up == [e \in Ends |-> TRUE]
           to == [e \in Ends |-> IF e = "server" THEN q ELSE <<>>]
           b == [up |-> up, to |-> to]
<1>1. link \in [Links -> LinkRecord] /\ AllSound(link)
  BY LinksAreSound DEF IInv, Typed
<1>2. \A kind \in {"GET", "WS", "END"} : Line(kind) \in Units /\ Line(kind).kind = kind
  BY DEF Line, Unit, Units, UnitKinds
<1>3. /\ q \in Seq(Units) /\ DOMAIN q = 1 .. 2
      /\ \A i \in 1 .. 2 : q[i].kind # "text" /\ (p \in Browsers => q[i].kind # "WS")
  BY <1>2 DEF Request
<1> HIDE DEF q
<1>4. Ordered(q) /\ Nos(q) = {} /\ (p \in Browsers => ~Has(q, "WS"))
  BY <1>3 DEF Ordered, Nos, Has
<1>5. up \in Views /\ to \in Queues
  BY <1>3 DEF Views, Queues
<1>6. up["client"] /\ up["server"] /\ to["server"] = q /\ to["client"] = <<>>
  BY TwoEnds
<1>7. \A e \in Ends : up[e]
  OBVIOUS
<1> HIDE DEF up, to
<1>8. b \in LinkRecord /\ b.up = up /\ b.to = to
  BY <1>5 DEF LinkRecord
<1>9. link' = [link EXCEPT ![k] = b]
  BY DEF Connected, up, to, q
<1> HIDE DEF b
<1>10. Sound(b)
  BY <1>4, <1>6, <1>7, <1>8 DEF Sound
<1>11. /\ link' \in [Links -> LinkRecord]
       /\ \A j \in Links : link'[j] = IF j = k THEN b ELSE link[j]
  BY <1>1, <1>8, <1>9
<1>12. AllSound(link')
  BY <1>1, <1>10, <1>11 DEF AllSound
<1>13. ~Has(<<>>, "101")
  BY DEF Has
<1>14. QED BY <1>4, <1>6, <1>8, <1>11, <1>12, <1>13

LEMMA ConnectStep ==
  ASSUME IInv, NEW p \in Peers, NEW k \in NextLink, NEW c \in ClientRecord, ~c.accepted,
         Connect(p, c, k), UNCHANGED server
  PROVE  IInv'
<1>1. k \in Links /\ IsFree(k)
  BY DEF NextLink
<1>2. /\ \A q \in Peers : tcp(q) # k
      /\ k \notin Range(backlog) /\ \A n \in Slots : slot[n].tcp # k /\ session[n] # k
      /\ k \notin Placing(todo)
  BY <1>1 DEF IsFree, Unused, Placing
<1>3. k # None /\ k # Refused
  BY <1>1, TcpAssumption DEF Links, None, Refused
<1> DEFINE d == [c EXCEPT !.tcp = k, !.status = "HEADER", !.holdOff = 0,
                          !.said = 0, !.since = 0, !.met = FALSE]
<1>4. link' = Connected(link, k, Request(p)) /\ backlog' = Append(backlog, k)
      /\ client' = [client EXCEPT ![p] = d]
  BY DEF Connect
<1>5. d \in ClientRecord /\ d.tcp = k /\ d.said = 0 /\ ~d.accepted /\ d.status = "HEADER"
  <2>1. k \in Sockets /\ 0 \in Times /\ "HEADER" \in Statuses
    BY <1>1, WsClientAssumption DEF Sockets, Times, Statuses
  <2>2. QED BY <2>1 DEF ClientRecord
<1> HIDE DEF d
<1>6. /\ AllSound(link')
      /\ \A j \in Links : j # k => link'[j] = link[j]
      /\ Nos(link'[k].to["server"]) = {}
      /\ ~Has(link'[k].to["client"], "101")
      /\ p \in Browsers => ~Has(link'[k].to["server"], "WS")
  BY <1>1, <1>4, ConnectedIs
<1>7. /\ client' \in [Peers -> ClientRecord] /\ tcp(p)' = k /\ client'[p] = d
      /\ \A q \in Peers : q # p => client'[q] = client[q] /\ tcp(q)' = tcp(q)
  BY <1>4, <1>5 DEF IInv, Typed, tcp
<1>8. backlog \in Seq(Links) /\ backlog' \in Seq(Links) /\ Range(backlog') = Range(backlog) \cup {k}
  BY <1>1, <1>4, AppendIs DEF IInv, Typed
<1>9. slot' = slot /\ todo' = todo /\ session' = session /\ heard' = heard
  BY DEF server
<1>10. \A j : j # k => (Waiting(j)' <=> Waiting(j))
  BY <1>8, <1>9, WaitingIs
<1>11. Waiting(k)'
  BY <1>8, WaitingIs
<1>12. (\A q \in Browsers : q \in Peers) /\ (\A q \in Clients : q \in Peers)
  BY WsClientAssumption DEF Clients
<1>13. Typed'
  <2>1. \A q \in Browsers : tcp(q)' # Refused
    BY <1>3, <1>7, <1>12 DEF IInv, Typed
  <2>2. QED BY <1>6, <1>7, <1>8, <1>9, <2>1 DEF IInv, Typed, AllSound
<1>14. TypeOK'
  <2>1. \A q \in Peers : client'[q].holdOff \in 0 .. Interval
    BY <1>7 DEF ClientRecord, Times
  <2>2. QED BY <1>9, <2>1 DEF IInv, TypeOK
<1>15. Opened' /\ InOrder'
  BY <1>6 DEF Opened, InOrder, AllSound, Sound
<1>16. OneEvent'
  BY <1>9 DEF IInv, OneEvent
<1>17. NoTwoPlaces'
  <2>1. \A i, j \in DOMAIN backlog' : backlog'[i] = backlog'[j] => i = j
    BY <1>1, <1>2, <1>4, <1>8, AppendIs DEF IInv, NoTwoPlaces
  <2>2. \A i \in DOMAIN backlog' : backlog'[i] \notin Placing(todo')
    BY <1>2, <1>8, <1>9 DEF IInv, NoTwoPlaces, Range
  <2>3. \A n \in Slots : ~Waiting(slot[n].tcp)'
    BY <1>2, <1>9, <1>10 DEF IInv, NoTwoPlaces
  <2>4. \A q, r \in Peers : tcp(q)' = tcp(r)' /\ tcp(q)' \in Links => q = r
    BY <1>2, <1>7 DEF IInv, NoTwoPlaces
  <2>5. QED BY <1>9, <2>1, <2>2, <2>3, <2>4 DEF IInv, NoTwoPlaces
<1>18. OnePlace'
  BY <1>6, <1>9, <1>10, <1>11 DEF IInv, OnePlace
<1>19. Agreed'
  <2>1. ~Met(k)'
    BY <1>2, <1>5, <1>6, <1>7, <1>12 DEF Met
  <2>2. \A j \in Links : j # k /\ Met(j)' => Met(j)
    BY <1>6, <1>7, <1>12 DEF Met
  <2>3. QED BY <1>6, <1>9, <2>1, <2>2 DEF IInv, Agreed
<1>20. Vetted'
  <2> SUFFICES ASSUME NEW q \in Browsers, tcp(q)' # None
               PROVE  /\ ~Has(link'[tcp(q)'].to["server"], "WS")
                      /\ \A n \in Slots :
                           /\ slot'[n].tcp = tcp(q)' => ~slot'[n].ws /\ slot'[n].status # "CONNECTED"
                           /\ session'[n] # tcp(q)'
    BY DEF Vetted
  <2>1. CASE q = p
    BY <1>2, <1>6, <1>7, <1>9, <2>1
  <2>2. CASE q # p
    <3>1. tcp(q)' = tcp(q) /\ tcp(q) # k /\ tcp(q) # Refused
      BY <1>2, <1>7, <1>12, <2>2 DEF IInv, Typed
    <3>2. tcp(q) \in Links
      BY <1>12, <3>1 DEF IInv, Typed, ClientRecord, Sockets, tcp
    <3>3. QED BY <1>6, <1>9, <3>1, <3>2 DEF IInv, Vetted
  <2>3. QED BY <2>1, <2>2
<1>21. (\A n \in Slots : Count(n)' = Count(n)) /\ Informed'
  BY <1>9 DEF IInv, Informed, Count, Current, Told1
<1>22. Numbered'
  <2>1. Follows(k, 0)'
    <3>1. Nos(link'[k].to["server"]) = 0 + 1 .. 0
      BY <1>6
    <3>2. \A q \in Peers : tcp(q)' = k => client'[q].said = 0
      BY <1>2, <1>5, <1>7
    <3>3. QED BY <3>1, <3>2 DEF Follows
  <2>2. ASSUME NEW j \in Links, j # k, NEW h, Follows(j, h)
        PROVE  Follows(j, h)'
    <3>1. PICK m \in Nat :
            /\ h <= m /\ Nos(link[j].to["server"]) = h + 1 .. m
            /\ \A q \in Peers : tcp(q) = j => client[q].said = m
      BY <2>2 DEF Follows
    <3>2. \A q \in Peers : tcp(q)' = j => client'[q].said = m
      BY <1>7, <2>2, <3>1
    <3>3. Nos(link'[j].to["server"]) = h + 1 .. m
      BY <1>6, <2>2, <3>1
    <3>4. QED BY <3>1, <3>2, <3>3 DEF Follows
  <2>3. QED BY <1>2, <1>6, <1>9, <1>10, <1>21, <2>1, <2>2 DEF IInv, Numbered
<1>23. QED BY <1>13, <1>14, <1>15, <1>16, <1>17, <1>18, <1>19, <1>20, <1>21, <1>22 DEF IInv

(* A message: its number is the next one *)
LEMMA SendTXTStep ==
  ASSUME IInv, NEW p \in Peers, SendTXT(p), UNCHANGED server
  PROVE  IInv'
<1> DEFINE k == tcp(p)
           said == client[p].said
           x == Unit("text", said + 1)
           a == link[k]
           q == a.to["server"]
           u == q \o <<x>>
           b == [up |-> a.up, to |-> [a.to EXCEPT !["server"] = u]]
           c == [client[p] EXCEPT !.said = said + 1]
<1>1. /\ p \in Clients /\ ClientIsConnected(p) /\ client[p].status = "CONNECTED"
      /\ link' = Sent(link, k, "client", <<x>>) /\ link' # link /\ backlog' = backlog
      /\ client' = [client EXCEPT ![p] = c]
  <2>1. client' = [client EXCEPT ![p].said = said + 1]
    BY DEF SendTXT
  <2>2. QED BY <2>1 DEF SendTXT
<1>2. k \in Links /\ client[p] \in ClientRecord /\ AllSound(link)
  BY <1>1, Reader
<1>3. /\ a.up["server"] /\ link' = [link EXCEPT ![k].to["server"] = u]
  BY <1>1, TwoEnds DEF Sent
<1>4. a \in LinkRecord /\ Sound(a) /\ link \in [Links -> LinkRecord]
  BY <1>2 DEF AllSound
<1>5. link' = [link EXCEPT ![k] = b]
  <2> HIDE DEF u
  <2>1. [link EXCEPT ![k].to["server"] = u] = [link EXCEPT ![k] = [a EXCEPT !.to["server"] = u]]
    OBVIOUS
  <2>2. [a EXCEPT !.to["server"] = u] = [up |-> a.up, to |-> [a.to EXCEPT !["server"] = u]]
    <3> HIDE DEF a
    <3>1. QED BY <1>4 DEF LinkRecord
  <2>3. QED BY <1>3, <2>1, <2>2
<1>6. said \in Nat /\ c \in ClientRecord /\ c.tcp = k /\ c.said = said + 1
      /\ c.status = client[p].status /\ c.accepted = client[p].accepted
  BY <1>2 DEF ClientRecord, tcp
<1>7. a.up \in Views /\ a.to \in Queues /\ q \in Seq(Units) /\ Ordered(q)
  BY <1>4, TwoEnds DEF LinkRecord, Queues, Sound
<1>8. p \in Peers /\ \A h, m : (\A r \in Peers : tcp(r) = k => client[r].said = m) => m = said
  OBVIOUS
<1> HIDE DEF c
<1>9. PICK g \in Nat : Nos(q) = g + 1 .. said /\ g <= said
  <2>1. \/ Follows(k, 0)
        \/ \E n \in Slots : Follows(k, Count(n))
    BY <1>2, <1>3 DEF IInv, OnePlace, Numbered
  <2>2. \A n \in Slots : Count(n) \in Nat
    BY DEF IInv, Typed, Count, Told1, Tasks
  <2>3. \A h \in Nat : Follows(k, h) => Nos(q) = h + 1 .. said /\ h <= said
    BY <1>8 DEF Follows
  <2>4. QED BY <2>1, <2>2, <2>3
<1>10. \A y \in Nos(q) : y < said + 1
  BY <1>6, <1>9
<1>11. /\ u \in Seq(Units) /\ Ordered(u) /\ Nos(u) = Nos(q) \cup {said + 1}
       /\ Has(u, "WS") => Has(q, "WS")
  <2> HIDE DEF q, said
  <2>1. said + 1 \in Nat
    BY <1>6
  <2>2. QED BY <1>7, <1>10, <2>1, SaysNext
<1>12. /\ b \in LinkRecord /\ b.up = a.up /\ b.to["server"] = u /\ b.to["client"] = a.to["client"]
       /\ b.to \in Queues
  <2> HIDE DEF u
  <2>1. [a.to EXCEPT !["server"] = u] \in Queues
    BY <1>7, <1>11 DEF Queues
  <2>2. [a.to EXCEPT !["server"] = u]["server"] = u /\ [a.to EXCEPT !["server"] = u]["client"] = a.to["client"]
    BY <1>7, TwoEnds DEF Queues
  <2>3. QED BY <1>7, <2>1, <2>2 DEF LinkRecord
<1> HIDE DEF u
<1>13. Sound(b)
  BY <1>3, <1>4, <1>11, <1>12, TwoEnds DEF Sound, Ends
<1>14. \A j \in Links : link'[j] = IF j = k THEN b ELSE link[j]
  BY <1>4, <1>5
<1>15. AllSound(link')
  BY <1>2, <1>4, <1>5, <1>12, <1>13, <1>14 DEF AllSound
<1>16. /\ client' \in [Peers -> ClientRecord]
       /\ \A r \in Peers : /\ tcp(r)' = tcp(r) /\ client'[r].status = client[r].status
                           /\ client'[r].accepted = client[r].accepted
                           /\ r # p => client'[r].said = client[r].said
       /\ client'[p].said = said + 1
  BY <1>1, <1>6 DEF IInv, Typed, tcp
<1>17. slot' = slot /\ todo' = todo /\ session' = session /\ heard' = heard
  BY DEF server
<1>18. \A j : Waiting(j)' <=> Waiting(j)
  BY <1>1, <1>17, WaitingIs
<1>19. (\A r \in Browsers : r \in Peers) /\ (\A r \in Clients : r \in Peers)
  BY WsClientAssumption DEF Clients
<1> HIDE DEF b, q, a, said
<1>20. \A j \in Links, e \in Ends : link'[j].up[e] <=> link[j].up[e]
  BY <1>12, <1>14 DEF a
<1>21. Typed'
  BY <1>1, <1>15, <1>16, <1>17, <1>19 DEF IInv, Typed, AllSound
<1>22. TypeOK'
  <2>1. \A r \in Peers : client'[r].holdOff \in 0 .. Interval
    BY <1>16 DEF ClientRecord, Times
  <2>2. QED BY <1>17, <2>1 DEF IInv, TypeOK
<1>23. Opened' /\ InOrder' /\ OneEvent'
  BY <1>15, <1>17 DEF IInv, Opened, InOrder, AllSound, Sound, OneEvent
<1>24. NoTwoPlaces'
  BY <1>1, <1>16, <1>17, <1>18 DEF IInv, NoTwoPlaces
<1>25. OnePlace'
  BY <1>17, <1>18, <1>20, TwoEnds DEF IInv, OnePlace
<1>26. Agreed'
  <2>1. \A j \in Links : Met(j)' => Met(j)
    BY <1>12, <1>14, <1>16, <1>19 DEF Met, a
  <2>2. QED BY <1>17, <1>20, <2>1, TwoEnds DEF IInv, Agreed
<1>27. Vetted'
  <2> SUFFICES ASSUME NEW r \in Browsers, tcp(r)' # None
               PROVE  /\ ~Has(link'[tcp(r)'].to["server"], "WS")
                      /\ \A n \in Slots :
                           /\ slot'[n].tcp = tcp(r)' => ~slot'[n].ws /\ slot'[n].status # "CONNECTED"
                           /\ session'[n] # tcp(r)'
    BY DEF Vetted
  <2>1. tcp(r)' = tcp(r) /\ tcp(r) # Refused
    BY <1>16, <1>19 DEF IInv, Typed
  <2>2. tcp(r) \in Links
    BY <1>19, <2>1 DEF IInv, Typed, ClientRecord, Sockets, tcp
  <2>3. Has(link'[tcp(r)].to["server"], "WS") => Has(link[tcp(r)].to["server"], "WS")
    BY <1>11, <1>12, <1>14, <2>2 DEF a, q
  <2>4. QED BY <1>17, <2>1, <2>3 DEF IInv, Vetted
<1>28. (\A n \in Slots : Count(n)' = Count(n)) /\ Informed'
  BY <1>17 DEF IInv, Informed, Count, Current, Told1
<1>29. Numbered'
  <2>1. \A n \in Slots : Count(n) \in Nat
    BY DEF IInv, Typed, Count, Told1, Tasks
  <2>2. ASSUME NEW j \in Links, NEW h \in Nat, Follows(j, h)
        PROVE  Follows(j, h)'
    <3>1. PICK m \in Nat :
            /\ h <= m /\ Nos(link[j].to["server"]) = h + 1 .. m
            /\ \A r \in Peers : tcp(r) = j => client[r].said = m
      BY <2>2 DEF Follows
    <3>2. CASE j # k
      <4>1. \A r \in Peers : tcp(r)' = j => client'[r].said = m
        BY <1>16, <3>1, <3>2
      <4>2. Nos(link'[j].to["server"]) = h + 1 .. m
        BY <1>14, <3>1, <3>2
      <4>3. QED BY <3>1, <4>1, <4>2 DEF Follows
    <3>3. CASE j = k
      <4>1. m = said
        BY <3>1, <3>3 DEF said
      <4>2. Nos(link'[j].to["server"]) = (h + 1 .. m) \cup {m + 1}
        BY <1>11, <1>12, <1>14, <3>1, <3>3, <4>1 DEF q, a
      <4>3. (h + 1 .. m) \cup {m + 1} = h + 1 .. m + 1
        BY <3>1
      <4>4. \A r \in Peers : tcp(r)' = j => client'[r].said = m + 1
        <5>1. \A r \in Peers : tcp(r) = k => r = p
          BY <1>2 DEF IInv, NoTwoPlaces
        <5>2. QED BY <1>16, <3>3, <4>1, <5>1
      <4>5. m + 1 \in Nat /\ h <= m + 1
        BY <3>1
      <4>6. QED BY <4>2, <4>3, <4>4, <4>5 DEF Follows
    <3>4. QED BY <3>2, <3>3
  <2>3. QED BY <1>17, <1>18, <1>20, <1>28, <2>1, <2>2, TwoEnds DEF IInv, Numbered
<1>30. QED BY <1>21, <1>22, <1>23, <1>24, <1>25, <1>26, <1>27, <1>28, <1>29 DEF IInv

-----------------------------------------------------------------------------
(* Steps of the server *)

LEMMA Returns ==
  ASSUME IInv, NEW i \in Top, todo[i].op \notin Events \cup {"newClient"}, NEW t, Quiet(t),
         todo' = t \o rest(i)
  PROVE  GoesOn
<1>1. /\ rest(i) \in Seq(Tasks) /\ Silent(rest(i)) /\ PlacesOnce(rest(i))
      /\ Placing(todo) = Placing(rest(i)) /\ \A n \in Slots : ~Told1(n)
  <2>1. todo \in Seq(Tasks) /\ OneEvent /\ PlacesOnce(todo)
    BY DEF IInv, Typed, NoTwoPlaces
  <2>2. todo[i].op # "newClient" /\ todo[i].op \notin Events
    OBVIOUS
  <2>3. Placing(todo) = (IF todo[i].op = "newClient" THEN {todo[i].tcp} ELSE {}) \cup Placing(rest(i))
    BY <2>1, OnTop
  <2>4. Placing(todo) = Placing(rest(i))
    BY <2>2, <2>3
  <2>5. QED BY <2>1, <2>2, <2>4, OnTop
<1>2. t \in Seq(Tasks) /\ Silent(t) /\ Placing(t) = {} /\ PlacesOnce(t)
  BY DEF Quiet, Placing, PlacesOnce
<1>3. /\ t \o rest(i) \in Seq(Tasks) /\ Silent(t \o rest(i)) /\ PlacesOnce(t \o rest(i))
      /\ Placing(t \o rest(i)) = Placing(todo)
  <2>1. Placing(t) \cap Placing(rest(i)) = {} /\ Placing(t) \cup Placing(rest(i)) = Placing(todo)
    BY <1>1, <1>2
  <2> DEFINE r == rest(i)
  <2>2. r \in Seq(Tasks) /\ Silent(r) /\ PlacesOnce(r)
    BY <1>1
  <2> HIDE DEF r
  <2>3. /\ t \o r \in Seq(Tasks) /\ Placing(t \o r) = Placing(t) \cup Placing(r) /\ Silent(t \o r)
        /\ Placing(t) \cap Placing(r) = {} => PlacesOnce(t \o r)
    BY <1>2, <2>2, Stacked
  <2>4. QED BY <2>1, <2>3 DEF r
<1>4. QED BY <1>1, <1>3 DEF GoesOn

LEMMA ReturnsOnly ==
  ASSUME IInv, NEW i \in Top, todo[i].op \notin Events \cup {"newClient"}, Return(i)
  PROVE  GoesOn
<1>1. /\ rest(i) \in Seq(Tasks) /\ Silent(rest(i)) /\ PlacesOnce(rest(i))
      /\ Placing(todo) = Placing(rest(i)) /\ \A n \in Slots : ~Told1(n)
  <2>1. todo \in Seq(Tasks) /\ OneEvent /\ PlacesOnce(todo)
    BY DEF IInv, Typed, NoTwoPlaces
  <2>2. todo[i].op # "newClient" /\ todo[i].op \notin Events
    OBVIOUS
  <2>3. Placing(todo) = (IF todo[i].op = "newClient" THEN {todo[i].tcp} ELSE {}) \cup Placing(rest(i))
    BY <2>1, OnTop
  <2>4. Placing(todo) = Placing(rest(i))
    BY <2>2, <2>3
  <2>5. QED BY <2>1, <2>2, <2>4, OnTop
<1>2. QED BY <1>1 DEF GoesOn, Return

(* The task on top, and its client *)
LEMMA TopTask ==
  ASSUME IInv, NEW i \in Top
  PROVE  /\ todo[i] \in Tasks /\ num(i) \in 1 .. MAX_CLIENTS + 1 /\ AllSound(link)
         /\ todo[i].op \notin {"accept", "newClient"} => num(i) \in Slots
         /\ num(i) \in Slots /\ tcpOf(i) # None => tcpOf(i) \in Links
         /\ num(i) \in Slots => slot[num(i)] \in SlotRecord
         /\ num(i) \in Slots /\ IsConnected(num(i)) =>
              tcpOf(i) \in Links /\ tcpOf(i) # None /\ link[tcpOf(i)].up["server"]
<1>1. todo[i] \in Tasks
  BY OnTop DEF IInv, Typed, NoTwoPlaces
<1>2. todo[i].op \notin {"accept", "newClient"} => num(i) \in Slots
  BY <1>1 DEF Tasks, num
<1>3. num(i) \in 1 .. MAX_CLIENTS + 1
  BY <1>1 DEF Tasks, num
<1>4. num(i) \in Slots => slot[num(i)] \in SlotRecord /\ tcpOf(i) \in Links \cup {None}
  BY DEF IInv, Typed, TypeOK, tcpOf
<1>5. num(i) \in Slots /\ IsConnected(num(i)) => tcpOf(i) \in Links /\ link[tcpOf(i)].up["server"]
  BY DEF IsConnected, Up, tcpOf
<1>6. None \notin Links
  BY TcpAssumption DEF Links, None
<1>7. QED BY <1>1, <1>2, <1>3, <1>4, <1>5, <1>6, LinksAreSound DEF IInv

(* An event, on top of a stack without one *)
LEMMA EventOnTop ==
  ASSUME NEW x \in Tasks, x.op \in Events, NEW t \in Seq(Tasks), Silent(t), PlacesOnce(t)
  PROVE  LET r == <<x>> \o t IN
         /\ r \in Seq(Tasks) /\ r # <<>> /\ r[1] = x /\ PlacesOnce(r) /\ Placing(r) = Placing(t)
         /\ \A j \in DOMAIN r : j > 1 => r[j].op \notin Events
<1> DEFINE s == <<x>>
           r == s \o t
<1>1. s \in Seq(Tasks) /\ Len(s) = 1 /\ DOMAIN s = {1} /\ s[1] = x
  OBVIOUS
<1>2. x.op # "newClient"
  BY DEF Events
<1>3. Placing(s) = {} /\ PlacesOnce(s)
  BY <1>1, <1>2 DEF Placing, PlacesOnce
<1> HIDE DEF s
<1>4. /\ r \in Seq(Tasks) /\ Placing(r) = Placing(t) /\ PlacesOnce(r)
  BY <1>1, <1>3, Stacked
<1>5. /\ \A i \in DOMAIN s : i \in DOMAIN r /\ r[i] = s[i]
      /\ \A i \in DOMAIN r : i \in DOMAIN s \/ (i - Len(s) \in DOMAIN t /\ r[i] = t[i - Len(s)])
  BY <1>1, Concat
<1> HIDE DEF r
<1>6. r # <<>> /\ r[1] = x
  BY <1>1, <1>5
<1>7. \A j \in DOMAIN r : j > 1 => r[j].op \notin Events
  BY <1>1, <1>5 DEF Silent
<1>8. QED BY <1>4, <1>6, <1>7 DEF r, s

LEMMA FollowsKept ==
  ASSUME Harmless(link, link'), client' = client, NEW j \in Links, link'[j].up["server"],
         NEW h, Follows(j, h)
  PROVE  Follows(j, h)'
<1>1. Nos(link'[j].to["server"]) = Nos(link[j].to["server"])
  BY DEF Harmless, Calmer, Keeps
<1>2. QED BY <1>1 DEF Follows, tcp

(* clientDisconnect(): the connection, the slot, and the event *)
LEMMA Releases ==
  ASSUME IInv, NEW n \in Slots, slot[n].tcp # None, NEW l, Harmless(link, l),
         NEW then \in Seq(Tasks), Silent(then), PlacesOnce(then), Placing(then) = Placing(todo),
         \A m \in Slots : ~Told1(m), clientDisconnect(l, n, then),
         backlog' = backlog, client' = client
  PROVE  IInv'
<1> DEFINE k == slot[n].tcp
           x == runCbEvent(n, "DISCONNECTED", k, 0)
<1>1. k \in Links /\ AllSound(link)
  BY LinksAreSound DEF IInv, TypeOK
<1>2. None \notin Links
  BY TcpAssumption DEF Links, None
<1>3. Harmless(link, link') /\ ~link'[k].up["server"]
  <2>1. link' = Stopped(l, k, "server") /\ AllSound(l)
    BY DEF clientDisconnect, Stops, Harmless
  <2>2. Harmless(l, link') /\ ~link'[k].up["server"]
    BY <1>1, <2>1, StoppedIs, TwoEnds
  <2>3. QED BY <1>1, <2>2, Both
<1>4. x \in Tasks /\ x.op = "DISCONNECTED" /\ x.n = n
  BY <1>1, ServerAssumption DEF runCbEvent, Task, Tasks, Ops, Events, Slots
<1>5. todo' = <<x>> \o then /\ session' = session /\ heard' = heard
  BY DEF clientDisconnect, Told
<1> HIDE DEF x
<1>6. /\ todo' \in Seq(Tasks) /\ todo' # <<>> /\ todo'[1] = x /\ PlacesOnce(todo')
      /\ Placing(todo') = Placing(todo) /\ OneEvent'
  BY <1>4, <1>5, EventOnTop DEF OneEvent, Events
<1>7. Free \in SlotRecord /\ Free.tcp = None /\ ~Free.ws /\ Free.status = "NOT_CONNECTED"
  BY DEF Free, SlotRecord, Statuses
<1>8. /\ slot' \in [Slots -> SlotRecord] /\ slot'[n] = Free
      /\ \A m \in Slots : m # n => slot'[m] = slot[m]
  BY <1>7 DEF clientDisconnect, Released, IInv, Typed
<1>9. (\A j : Waiting(j)' <=> Waiting(j)) /\ ~Waiting(None)
  <2>1. None \notin Placing(todo)
    BY <1>2 DEF IInv, Typed, Placing, Tasks
  <2>2. None \notin Range(backlog)
    BY <1>2 DEF IInv, Typed, Range
  <2>3. QED BY <1>6, <2>1, <2>2, WaitingIs
<1>10. \A m \in Slots : Told1(m)' <=> m = n
  BY <1>4, <1>6 DEF Told1, Events
<1>11. \A j \in Links : link'[j].up["server"] => j # k /\ link[j].up["server"]
  BY <1>3, TwoEnds DEF Harmless, Calmer, Keeps
<1>12. Typed'
  BY <1>3, <1>5, <1>6, <1>8 DEF IInv, Typed, Harmless, AllSound, tcp
<1>13. TypeOK'
  <2>1. \A i \in DOMAIN todo' : todo'[i].n \in 1 .. MAX_CLIENTS + 1
    BY <1>6 DEF Tasks
  <2>2. QED BY <1>7, <1>8, <2>1 DEF IInv, TypeOK
<1>14. Opened' /\ InOrder'
  BY <1>3 DEF Opened, InOrder, Harmless, AllSound, Sound
<1>15. NoTwoPlaces'
  <2>1. \A m \in Slots : ~Waiting(slot[m].tcp)'
    BY <1>7, <1>8, <1>9 DEF IInv, NoTwoPlaces
  <2>2. \A m, o \in Slots : slot'[m].tcp = slot'[o].tcp /\ slot'[m].tcp # None => m = o
    BY <1>7, <1>8 DEF IInv, NoTwoPlaces
  <2>3. QED BY <1>6, <2>1, <2>2 DEF IInv, NoTwoPlaces, tcp
<1>16. OnePlace'
  BY <1>8, <1>9, <1>11 DEF IInv, OnePlace
<1>17. Agreed'
  <2>1. \A j \in Links : Met(j)' => Met(j)
    BY <1>3 DEF Met, Harmless, Calmer, tcp
  <2>2. QED BY <1>8, <1>11, <2>1 DEF IInv, Agreed
<1>18. Vetted'
  <2> SUFFICES ASSUME NEW p \in Browsers, tcp(p) # None
               PROVE  /\ ~Has(link'[tcp(p)].to["server"], "WS")
                      /\ \A m \in Slots :
                           /\ slot'[m].tcp = tcp(p) => ~slot'[m].ws /\ slot'[m].status # "CONNECTED"
                           /\ session'[m] # tcp(p)
    BY DEF Vetted, tcp
  <2>1. tcp(p) \in Links
    BY WsClientAssumption DEF IInv, Typed, ClientRecord, Sockets, tcp
  <2>2. QED BY <1>3, <1>5, <1>7, <1>8, <2>1 DEF IInv, Vetted, Harmless, Calmer, Keeps
<1>19. \A m \in Slots : m # n => Current(m)' = Current(m) /\ Count(m)' = Count(m)
  BY <1>5, <1>8, <1>10 DEF Current, Count
<1>20. Informed'
  <2>1. \A m \in Slots : m # n => ~Told1(m)' /\ session'[m] = Current(m)'
    BY <1>5, <1>10, <1>19 DEF IInv, Informed
  <2>2. Told1(n)' /\ todo'[1].op = "DISCONNECTED" /\ slot'[n].tcp = None
    BY <1>4, <1>6, <1>7, <1>8, <1>10
  <2>3. QED BY <2>1, <2>2 DEF Informed
<1>21. Numbered'
  <2> SUFFICES ASSUME NEW j \in Links, link'[j].up["server"]
               PROVE  /\ Waiting(j)' => Follows(j, 0)'
                      /\ \A m \in Slots : slot'[m].tcp = j => Follows(j, Count(m))'
    BY DEF Numbered
  <2>1. Waiting(j)' => Follows(j, 0)'
    BY <1>3, <1>9, <1>11, FollowsKept DEF IInv, Numbered
  <2>2. ASSUME NEW m \in Slots, slot'[m].tcp = j PROVE Follows(j, Count(m))'
    <3>1. m # n /\ slot[m].tcp = j
      BY <1>2, <1>7, <1>8, <2>2
    <3>2. Follows(j, Count(m))
      BY <1>11, <3>1 DEF IInv, Numbered
    <3> DEFINE h == Count(m)
    <3>3. h' = h
      BY <1>19, <3>1
    <3>4. \A g : Follows(j, g) => Follows(j, g)'
      BY <1>3, FollowsKept
    <3>5. QED BY <3>2, <3>3, <3>4
  <2>3. QED BY <2>1, <2>2
<1>22. QED BY <1>6, <1>12, <1>13, <1>14, <1>15, <1>16, <1>17, <1>18, <1>20, <1>21 DEF IInv

(* The rest of the stack, with and without the task on top *)
LEMMA RestIs ==
  ASSUME IInv, NEW i \in Top, todo[i].op \notin Events
  PROVE  /\ rest(i) \in Seq(Tasks) /\ Silent(rest(i)) /\ PlacesOnce(rest(i))
         /\ \A n \in Slots : ~Told1(n)
         /\ todo[i].op # "newClient" => Placing(rest(i)) = Placing(todo)
         /\ LET r == <<todo[i]>> \o rest(i) IN
            r \in Seq(Tasks) /\ Silent(r) /\ PlacesOnce(r) /\ Placing(r) = Placing(todo)
<1> DEFINE x == todo[i]
           s == <<x>>
           t == rest(i)
<1>1. todo \in Seq(Tasks) /\ OneEvent /\ PlacesOnce(todo)
  BY DEF IInv, Typed, NoTwoPlaces
<1>2. /\ x \in Tasks
      /\ t \in Seq(Tasks) /\ Silent(t) /\ PlacesOnce(t) /\ \A n \in Slots : ~Told1(n)
      /\ Placing(todo) = (IF x.op = "newClient" THEN {x.tcp} ELSE {}) \cup Placing(t)
      /\ x.op = "newClient" => x.tcp \notin Placing(t)
  BY <1>1, OnTop
<1>3. x.op \notin Events
  OBVIOUS
<1> HIDE DEF x, t
<1>4. /\ s \in Seq(Tasks) /\ PlacesOnce(s) /\ Silent(s)
      /\ Placing(s) = IF x.op = "newClient" THEN {x.tcp} ELSE {}
  BY <1>2, <1>3, OneTask
<1>5. Placing(s) \cap Placing(t) = {} /\ Placing(s) \cup Placing(t) = Placing(todo)
  BY <1>2, <1>4
<1> HIDE DEF s
<1>6. /\ s \o t \in Seq(Tasks) /\ Placing(s \o t) = Placing(s) \cup Placing(t) /\ Silent(s \o t)
      /\ Placing(s) \cap Placing(t) = {} => PlacesOnce(s \o t)
  BY <1>2, <1>4, Stacked
<1>7. x.op # "newClient" => Placing(t) = Placing(todo)
  BY <1>2
<1>8. QED BY <1>2, <1>5, <1>6, <1>7 DEF s, t, x

LEMMA ClientLostStep ==
  ASSUME IInv, NEW i \in Top, ClientLost(i), client' = client
  PROVE  IInv'
<1> DEFINE then == <<todo[i]>> \o rest(i)
<1>1. /\ todo[i].op \notin Events /\ num(i) \in Slots /\ slot[num(i)].tcp # None
      /\ clientDisconnect(link, num(i), then) /\ backlog' = backlog
  BY DEF ClientLost, Doing, Events, IsLost
<1>2. /\ then \in Seq(Tasks) /\ Silent(then) /\ PlacesOnce(then) /\ Placing(then) = Placing(todo)
      /\ \A n \in Slots : ~Told1(n)
  BY <1>1, RestIs
<1> HIDE DEF then
<1>3. Harmless(link, link)
  BY TopTask, Nothing
<1>4. QED BY <1>1, <1>2, <1>3, Releases

(* A client that is sent away while its task was on top *)
LEMMA GivenUp ==
  ASSUME IInv, NEW i \in Top, todo[i].op \notin Events \cup {"newClient"}, num(i) \in Slots,
         IsConnected(num(i)), NEW l, Harmless(link, l), clientDisconnect(l, num(i), rest(i)),
         backlog' = backlog, client' = client
  PROVE  IInv'
<1> DEFINE then == rest(i)
           n == num(i)
<1>1. /\ then \in Seq(Tasks) /\ Silent(then) /\ PlacesOnce(then) /\ Placing(then) = Placing(todo)
      /\ \A m \in Slots : ~Told1(m)
  BY RestIs
<1>2. slot[n].tcp # None /\ n \in Slots
  BY TopTask DEF tcpOf
<1>3. clientDisconnect(l, n, then)
  OBVIOUS
<1> HIDE DEF then, n
<1>4. QED BY <1>1, <1>2, <1>3, Releases

(* What a task of handleClientData() reads *)
LEMMA ServerTakes ==
  ASSUME IInv, NEW i \in Top, NEW status, Reading(i, status)
  PROVE  /\ todo[i].op = "data" /\ todo[i].op \notin Events \cup {"newClient"}
         /\ num(i) \in Slots /\ IsConnected(num(i)) /\ slot[num(i)].status = status
         /\ tcpOf(i) \in Links /\ link[tcpOf(i)].up["server"] /\ AllSound(link)
         /\ link[tcpOf(i)].to["server"] # <<>>
         /\ Incoming(tcpOf(i), "server").kind # "text" =>
              /\ Harmless(link, Taken(link, tcpOf(i), "server"))
              /\ AllSound(Taken(link, tcpOf(i), "server"))
         /\ \A kind : Incoming(tcpOf(i), "server").kind = kind =>
                      Has(link[tcpOf(i)].to["server"], kind)
<1>1. /\ todo[i].op = "data" /\ IsConnected(num(i)) /\ slot[num(i)].status = status
      /\ link[tcpOf(i)].to["server"] # <<>>
  BY DEF Reading, Doing, Available
<1>2. todo[i].op \notin Events \cup {"newClient"} /\ todo[i].op # "accept"
  BY <1>1 DEF Events
<1>3. num(i) \in Slots /\ tcpOf(i) \in Links /\ link[tcpOf(i)].up["server"] /\ AllSound(link)
  BY <1>1, <1>2, TopTask
<1>4. Incoming(tcpOf(i), "server").kind # "text" => Harmless(link, Taken(link, tcpOf(i), "server"))
  <2> DEFINE k == tcpOf(i)
  <2>1. k \in Links /\ link[k].to["server"] # <<>>
    BY <1>1, <1>3
  <2> HIDE DEF k
  <2>2. Incoming(k, "server").kind # "text" => Harmless(link, Taken(link, k, "server"))
    BY <1>3, <2>1, TakenIs, TwoEnds DEF Incoming
  <2>3. QED BY <2>2 DEF k
<1>5. \A kind : Incoming(tcpOf(i), "server").kind = kind => Has(link[tcpOf(i)].to["server"], kind)
  <2>1. link[tcpOf(i)].to["server"] \in Seq(Units)
    BY <1>3, TwoEnds DEF AllSound, LinkRecord, Queues
  <2>2. QED BY <1>1, <2>1, TailIs DEF Has, Incoming
<1>6. QED BY <1>1, <1>2, <1>3, <1>4, <1>5 DEF Harmless

LEMMA RequestLineStep ==
  ASSUME IInv, NEW i \in Top, RequestLine(i), client' = client
  PROVE  IInv'
<1> DEFINE n == num(i)
           k == tcpOf(i)
<1>1. /\ Reading(i, "HEADER") /\ link' = Taken(link, k, "server") /\ Return(i)
      /\ backlog' = backlog /\ session' = session /\ heard' = heard
  BY DEF RequestLine
<1>2. /\ todo[i].op \notin Events \cup {"newClient"} /\ n \in Slots /\ k \in Links /\ k = slot[n].tcp
      /\ Incoming(k, "server").kind # "text" => Harmless(link, link')
      /\ Incoming(k, "server").kind = "WS" => Has(link[k].to["server"], "WS")
  BY <1>1, ServerTakes DEF tcpOf
<1>3. GoesOn
  BY <1>1, <1>2, ReturnsOnly
<1>4. Forgets
  BY ForgetsNothing
<1>5. Harmless(link, link')
  BY <1>2 DEF RequestLine
<1>6. CASE slot' = slot
  BY <1>1, <1>3, <1>4, <1>5, <1>6, KeepsAllSlots, Calm
<1>7. CASE /\ Incoming(k, "server").kind = "WS"
           /\ \E valid \in BOOLEAN : slot' = [slot EXCEPT ![n].ws = valid]
  <2>1. PICK valid \in BOOLEAN : slot' = [slot EXCEPT ![n].ws = valid]
    BY <1>7
  <2>2. k # None /\ \A p \in Browsers : tcp(p) # k
    BY <1>2, <1>7, TcpAssumption DEF IInv, Vetted, Links, None
  <2>3. KeepsSlots
    <3>1. slot \in [Slots -> SlotRecord]
      BY DEF IInv, Typed
    <3>2. /\ slot' \in [Slots -> SlotRecord]
          /\ \A m \in Slots : /\ slot'[m].tcp = slot[m].tcp /\ slot'[m].status = slot[m].status
                              /\ m # n => slot'[m].ws = slot[m].ws
      BY <2>1, <3>1 DEF SlotRecord
    <3>3. QED BY <1>2, <2>2, <3>2 DEF KeepsSlots
  <2>4. QED BY <1>1, <1>3, <1>4, <1>5, <2>3, Calm
<1>8. QED BY <1>6, <1>7 DEF RequestLine

LEMMA SendTextStep ==
  ASSUME IInv, NEW i \in Top, SendText(i), client' = client
  PROVE  IInv'
<1> DEFINE k == tcpOf(i)
<1>1. /\ todo[i].op \notin Events \cup {"newClient"} /\ Return(i)
      /\ backlog' = backlog /\ slot' = slot /\ session' = session /\ heard' = heard
      /\ link' = Sent(link, k, "server", <<Line("text")>>) \/ link' = link
  BY DEF SendText, Doing, Events
<1>2. AllSound(link)
  BY TopTask
<1> HIDE DEF k
<1>3. Harmless(link, link')
  BY <1>1, <1>2, SentLine, Nothing, TwoEnds
<1>4. GoesOn
  BY <1>1, ReturnsOnly
<1>5. QED BY <1>1, <1>3, <1>4, ForgetsNothing, KeepsAllSlots, Calm

LEMMA DisconnectClientStep ==
  ASSUME IInv, NEW i \in Top, DisconnectClient(i), client' = client
  PROVE  IInv'
<1> DEFINE k == tcpOf(i)
           l == IF slot[num(i)].status = "CONNECTED"
                THEN Sent(link, k, "server", <<Line("close")>>) ELSE link
<1>1. /\ todo[i].op \notin Events \cup {"newClient"} /\ todo[i].op # "accept" /\ IsConnected(num(i))
      /\ clientDisconnect(l, num(i), rest(i)) /\ backlog' = backlog
  BY DEF DisconnectClient, Doing, Events
<1>2. AllSound(link) /\ num(i) \in Slots
  BY <1>1, TopTask
<1>3. Harmless(link, l)
  <2> HIDE DEF k
  <2>1. QED BY <1>2, SentLine, Nothing, TwoEnds
<1> HIDE DEF l
<1>4. QED BY <1>1, <1>2, <1>3, GivenUp

LEMMA FrameCutStep ==
  ASSUME IInv, NEW i \in Top, FrameCut(i), client' = client
  PROVE  IInv'
<1> DEFINE k == tcpOf(i)
           l == Sent(link, k, "server", <<Line("close")>>)
<1>1. /\ Reading(i, "CONNECTED") /\ clientDisconnect(l, num(i), rest(i)) /\ backlog' = backlog
  BY DEF FrameCut
<1>2. /\ todo[i].op \notin Events \cup {"newClient"} /\ num(i) \in Slots /\ IsConnected(num(i))
      /\ AllSound(link)
  BY <1>1, ServerTakes
<1>3. Harmless(link, l)
  <2> HIDE DEF k
  <2>1. QED BY <1>2, SentLine, TwoEnds
<1> HIDE DEF l
<1>4. QED BY <1>1, <1>2, <1>3, GivenUp

(* loop() and the sketch begin when nothing is left to do *)
LEMMA BeginsStep ==
  ASSUME IInv, Top = {}, UNCHANGED <<net, slot, session, heard>>, client' = client,
         Quiet(todo')
  PROVE  IInv'
<1>1. Placing(todo) = {} /\ \A n \in Slots : ~Told1(n)
  BY NothingOnTop DEF IInv, Typed
<1>2. GoesOn
  BY <1>1 DEF GoesOn, Quiet, Placing, PlacesOnce
<1>3. Harmless(link, link')
  BY LinksAreSound, Nothing DEF IInv, net
<1>4. backlog' = backlog
  BY DEF net
<1>5. QED BY <1>2, <1>3, <1>4, ForgetsNothing, KeepsAllSlots, Calm

(* Steps that leave the connections, the slots and the clients alone *)
LEMMA StackOnly ==
  ASSUME IInv, link' = link, slot' = slot, session' = session, heard' = heard, client' = client,
         todo' \in Seq(Tasks), Silent(todo'), PlacesOnce(todo'), \A n \in Slots : ~Told1(n),
         backlog' \in Seq(Links),
         \A i, j \in DOMAIN backlog' : backlog'[i] = backlog'[j] => i = j,
         Range(backlog') \cap Placing(todo') = {},
         Range(backlog') \cup Placing(todo') = Range(backlog) \cup Placing(todo)
  PROVE  IInv'
<1>1. \A k : Waiting(k)' <=> Waiting(k)
  BY WaitingIs
<1>2. \A n \in Slots : ~Told1(n)'
  BY DEF Told1, Silent
<1>3. \A n \in Slots : Current(n)' = Current(n) /\ Count(n)' = Count(n)
  BY <1>2 DEF Current, Count
<1>4. Typed' /\ OneEvent'
  BY DEF IInv, Typed, tcp, Silent, OneEvent
<1>5. TypeOK'
  BY DEF IInv, TypeOK, Tasks
<1>6. Opened' /\ InOrder'
  BY DEF IInv, Opened, InOrder
<1>7. NoTwoPlaces'
  <2>1. \A i \in DOMAIN backlog' : backlog'[i] \notin Placing(todo')
    BY DEF Range
  <2>2. \A n \in Slots : ~Waiting(slot[n].tcp)'
    BY <1>1 DEF IInv, NoTwoPlaces
  <2>3. QED BY <2>1, <2>2 DEF IInv, NoTwoPlaces, tcp
<1>8. OnePlace'
  BY <1>1 DEF IInv, OnePlace
<1>9. Agreed' /\ Vetted'
  BY DEF IInv, Agreed, Vetted, Met, tcp
<1>10. Informed'
  BY <1>2, <1>3 DEF IInv, Informed
<1>11. Numbered'
  <2>1. \A k, h : Follows(k, h)' <=> Follows(k, h)
    BY DEF Follows, tcp
  <2>2. QED BY <1>1, <1>3, <2>1 DEF IInv, Numbered
<1>12. QED BY <1>4, <1>5, <1>6, <1>7, <1>8, <1>9, <1>10, <1>11 DEF IInv

LEMMA NewClientTask ==
  ASSUME NEW k \in Links, NEW n \in 1 .. MAX_CLIENTS + 1
  PROVE  newClient(n, k) \in Tasks /\ newClient(n, k).op = "newClient" /\ newClient(n, k).tcp = k
         /\ newClient(n, k).op \notin Events
BY DEF newClient, Task, Tasks, Ops, Events

LEMMA AcceptNextStep ==
  ASSUME IInv, NEW i \in Top, AcceptNext(i), client' = client
  PROVE  IInv'
<1> DEFINE k == Head(backlog)
           x == newClient(1, k)
           r == <<todo[i]>> \o rest(i)
           s == <<x>>
<1>1. todo[i].op = "accept" /\ todo[i].op \notin Events
  BY DEF AcceptNext, Doing, Events
<1>2. /\ link' = link /\ slot' = slot /\ session' = session /\ heard' = heard
      /\ backlog' = Tail(backlog) /\ todo' = <<x, todo[i]>> \o rest(i)
  BY DEF AcceptNext, Call
<1>3. backlog \in Seq(Links) /\ backlog # <<>> /\ todo \in Seq(Tasks)
  BY <1>1 DEF IInv, Typed, Top, IsNext, Idle
<1>4. k \in Links /\ backlog' \in Seq(Links)
  BY <1>2, <1>3, TailIs
<1>5. 1 \in DOMAIN backlog /\ backlog[1] = k
      /\ (\A j \in DOMAIN backlog' : 1 + j \in DOMAIN backlog /\ backlog'[j] = backlog[1 + j] /\ j \in Nat \ {0})
      /\ (\A j \in DOMAIN backlog : j # 1 => j - 1 \in DOMAIN backlog' /\ backlog'[j - 1] = backlog[j])
  BY <1>2, <1>3, TailIs
<1>6. /\ r \in Seq(Tasks) /\ Silent(r) /\ PlacesOnce(r) /\ Placing(r) = Placing(todo)
      /\ \A n \in Slots : ~Told1(n)
  BY <1>1, RestIs
<1>7. x \in Tasks /\ x.op = "newClient" /\ x.tcp = k /\ x.op \notin Events
  BY <1>4, NewClientTask, ServerAssumption
<1>8. todo' = s \o r
  <2>1. todo[i] \in Tasks /\ rest(i) \in Seq(Tasks)
    BY <1>1, TopTask, RestIs
  <2>2. <<x, todo[i]>> = <<x>> \o <<todo[i]>>
    OBVIOUS
  <2> DEFINE y == <<todo[i]>>
             t == rest(i)
  <2>3. s \in Seq(Tasks) /\ y \in Seq(Tasks) /\ t \in Seq(Tasks)
    BY <1>7, <2>1
  <2> HIDE DEF s, y, t
  <2>4. (s \o y) \o t = s \o (y \o t)
    BY <2>3, ConcatAssociative
  <2>5. QED BY <1>2, <2>2, <2>4 DEF s, y, t
<1>9. k \notin Placing(todo) /\ \A j \in DOMAIN backlog' : backlog'[j] # k
  <2>1. k \notin Placing(todo)
    BY <1>5 DEF IInv, NoTwoPlaces
  <2>2. ASSUME NEW j \in DOMAIN backlog', backlog'[j] = k PROVE FALSE
    <3>1. 1 + j = 1
      BY <1>5, <2>2 DEF IInv, NoTwoPlaces
    <3>2. QED BY <1>5, <3>1
  <2>3. QED BY <2>1, <2>2
<1> HIDE DEF x, r, k
<1>10. s \in Seq(Tasks) /\ PlacesOnce(s) /\ Placing(s) = {k} /\ Silent(s)
  BY <1>7, OneTask
<1> HIDE DEF s
<1>11. /\ todo' \in Seq(Tasks) /\ Placing(todo') = {k} \cup Placing(todo)
       /\ Silent(todo') /\ PlacesOnce(todo')
  <2>1. Placing(s) \cap Placing(r) = {}
    BY <1>6, <1>9, <1>10
  <2>2. QED BY <1>6, <1>8, <1>10, <2>1, Stacked
<1>12. \A j, h \in DOMAIN backlog' : backlog'[j] = backlog'[h] => j = h
  <2> SUFFICES ASSUME NEW j \in DOMAIN backlog', NEW h \in DOMAIN backlog', backlog'[j] = backlog'[h]
               PROVE  j = h
    OBVIOUS
  <2>1. 1 + j = 1 + h
    BY <1>5 DEF IInv, NoTwoPlaces
  <2>2. QED BY <1>5, <2>1
<1>13. Range(backlog) = {k} \cup Range(backlog')
  <2>1. Range(backlog') \subseteq Range(backlog)
    BY <1>5 DEF Range
  <2>2. k \in Range(backlog)
    BY <1>5 DEF Range
  <2>3. Range(backlog) \subseteq {k} \cup Range(backlog')
    BY <1>5 DEF Range
  <2>4. QED BY <2>1, <2>2, <2>3
<1>14. Range(backlog') \cap Placing(todo) = {} /\ k \notin Range(backlog')
  <2>1. Range(backlog) \cap Placing(todo) = {}
    BY DEF IInv, NoTwoPlaces, Range
  <2>2. k \notin Range(backlog')
    BY <1>9 DEF Range
  <2>3. QED BY <1>13, <2>1, <2>2
<1>15. QED BY <1>2, <1>4, <1>6, <1>11, <1>12, <1>13, <1>14, StackOnly

LEMMA PlaceNextStep ==
  ASSUME IInv, NEW i \in Top, todo[i].op = "newClient", num(i) \in Slots,
         Call(i, <<newClient(num(i) + 1, todo[i].tcp)>>), UNCHANGED <<link, slot, backlog, session, heard>>,
         client' = client
  PROVE  IInv'
<1> DEFINE k == todo[i].tcp
           x == newClient(num(i) + 1, k)
           s == <<x>>
           r == rest(i)
<1>1. todo[i].op \notin Events /\ k \in Links
  BY TopTask DEF Events, Tasks
<1>2. num(i) + 1 \in 1 .. MAX_CLIENTS + 1
  BY ServerAssumption DEF Slots
<1>3. x \in Tasks /\ x.op = "newClient" /\ x.tcp = k /\ x.op \notin Events
  BY <1>1, <1>2, NewClientTask
<1>4. /\ r \in Seq(Tasks) /\ Silent(r) /\ PlacesOnce(r) /\ k \notin Placing(r)
      /\ Placing(todo) = {k} \cup Placing(r)
  BY OnTop DEF IInv, Typed, NoTwoPlaces
<1>5. \A n \in Slots : ~Told1(n)
  BY <1>1, RestIs
<1>6. todo' = s \o r
  BY DEF Call
<1> HIDE DEF x, r, k
<1>7. s \in Seq(Tasks) /\ PlacesOnce(s) /\ Placing(s) = {k} /\ Silent(s)
  BY <1>3, OneTask
<1> HIDE DEF s
<1>8. /\ todo' \in Seq(Tasks) /\ Placing(todo') = Placing(todo)
      /\ Silent(todo') /\ PlacesOnce(todo')
  <2>1. Placing(s) \cap Placing(r) = {}
    BY <1>4, <1>7
  <2>2. QED BY <1>4, <1>6, <1>7, <2>1, Stacked
<1>9. GoesOn
  BY <1>5, <1>8 DEF GoesOn
<1>10. Harmless(link, link')
  BY LinksAreSound, Nothing DEF IInv
<1>11. QED BY <1>9, <1>10, ForgetsNothing, KeepsAllSlots, Calm

LEMMA LeavesTop ==
  ASSUME IInv, NEW i \in Top, todo[i].op = "newClient", Return(i), backlog' = backlog
  PROVE  /\ todo[i].tcp \in Links /\ todo[i].op \notin Events
         /\ todo' \in Seq(Tasks) /\ Silent(todo') /\ PlacesOnce(todo')
         /\ Placing(todo') \subseteq Placing(todo)
         /\ Waiting(todo[i].tcp) /\ \A j : Waiting(j)' <=> Waiting(j) /\ j # todo[i].tcp
         /\ \A n \in Slots : ~Told1(n) /\ ~Told1(n)'
<1> DEFINE k == todo[i].tcp
<1>1. todo[i].op \notin Events /\ k \in Links
  BY TopTask DEF Events, Tasks
<1>2. /\ todo' \in Seq(Tasks) /\ Silent(todo') /\ PlacesOnce(todo') /\ k \notin Placing(todo')
      /\ Placing(todo) = {k} \cup Placing(todo')
  BY OnTop DEF IInv, Typed, NoTwoPlaces, Return
<1>3. \A n \in Slots : ~Told1(n)
  BY <1>1, RestIs
<1>4. \A n \in Slots : ~Told1(n)'
  BY <1>2 DEF Told1, Silent
<1>5. k \notin Range(backlog)
  BY <1>2 DEF IInv, NoTwoPlaces, Range
<1>6. QED BY <1>1, <1>2, <1>3, <1>4, <1>5, WaitingIs

LEMMA TakesStep ==
  ASSUME IInv, NEW i \in Top, todo[i].op = "newClient", num(i) \in Slots, Takes(num(i)),
         slot' = [slot EXCEPT ![num(i)].tcp = todo[i].tcp, ![num(i)].status = "HEADER"],
         Return(i), link' = link, UNCHANGED <<backlog, session, heard>>, client' = client
  PROVE  IInv'
<1> DEFINE k == todo[i].tcp
           n == num(i)
<1>1. /\ k \in Links
      /\ todo' \in Seq(Tasks) /\ Silent(todo') /\ PlacesOnce(todo')
      /\ Placing(todo') \subseteq Placing(todo)
      /\ Waiting(k) /\ \A j : Waiting(j)' <=> Waiting(j) /\ j # k
      /\ \A m \in Slots : ~Told1(m) /\ ~Told1(m)'
  BY LeavesTop
<1>2. n \in Slots /\ slot[n].tcp = None /\ k # None
  BY <1>1, TcpAssumption DEF Takes, Links, None
<1>3. ~slot[n].ws /\ slot[n].status = "NOT_CONNECTED"
  BY <1>2 DEF IInv, TypeOK
<1>4. \A m \in Slots : slot[m].tcp # k
  BY <1>1 DEF IInv, NoTwoPlaces
<1>5. slot' = [slot EXCEPT ![n].tcp = k, ![n].status = "HEADER"]
  OBVIOUS
<1> HIDE DEF k, n
<1>6. /\ slot' \in [Slots -> SlotRecord]
      /\ slot'[n].tcp = k /\ slot'[n].status = "HEADER" /\ ~slot'[n].ws
      /\ \A m \in Slots : m # n => slot'[m] = slot[m]
  <2>1. slot \in [Slots -> SlotRecord]
    BY DEF IInv, Typed
  <2>2. QED BY <1>1, <1>2, <1>3, <1>5, <2>1 DEF SlotRecord, Statuses
<1>7. \A m \in Slots : Current(m)' = Current(m) /\ Count(m)' = Count(m)
  BY <1>1, <1>2, <1>3, <1>6 DEF Current, Count
<1>8. Typed' /\ OneEvent'
  BY <1>1, <1>6 DEF IInv, Typed, tcp, Silent, OneEvent
<1>9. TypeOK'
  <2>1. \A j \in DOMAIN todo' : todo'[j].n \in 1 .. MAX_CLIENTS + 1
    BY <1>1 DEF Tasks
  <2>2. QED BY <1>1, <1>2, <1>6, <2>1 DEF IInv, TypeOK
<1>10. Opened' /\ InOrder'
  BY DEF IInv, Opened, InOrder
<1>11. NoTwoPlaces'
  <2>1. \A j \in DOMAIN backlog' : backlog'[j] \notin Placing(todo')
    BY <1>1 DEF IInv, NoTwoPlaces
  <2>2. \A m \in Slots : ~Waiting(slot[m].tcp)'
    BY <1>1, <1>6 DEF IInv, NoTwoPlaces
  <2>3. \A m, o \in Slots : slot'[m].tcp = slot'[o].tcp /\ slot'[m].tcp # None => m = o
    <3>1. \A m \in Slots : slot'[m].tcp = k <=> m = n
      BY <1>4, <1>6
    <3>2. \A m \in Slots : m # n => slot'[m].tcp = slot[m].tcp
      BY <1>6
    <3>3. \A m, o \in Slots : slot[m].tcp = slot[o].tcp /\ slot[m].tcp # None => m = o
      BY DEF IInv, NoTwoPlaces
    <3>4. QED BY <3>1, <3>2, <3>3
  <2>4. QED BY <1>1, <2>1, <2>2, <2>3 DEF IInv, NoTwoPlaces, tcp
<1>12. OnePlace'
  <2> SUFFICES ASSUME NEW j \in Links, link[j].up["server"], ~Waiting(j)'
               PROVE  \E m \in Slots : slot'[m].tcp = j
    BY DEF OnePlace
  <2>1. CASE j = k
    BY <1>2, <1>6, <2>1
  <2>2. CASE j # k
    <3>1. PICK m \in Slots : slot[m].tcp = j
      BY <1>1, <2>2 DEF IInv, OnePlace
    <3>2. CASE m = n
      BY <1>2, <3>1, <3>2, TcpAssumption DEF Links, None
    <3>3. CASE m # n
      BY <1>6, <3>1, <3>3
    <3>4. QED BY <3>2, <3>3
  <2>3. QED BY <2>1, <2>2
<1>13. Agreed'
  <2>1. \A j \in Links : Met(j)' => Met(j)
    BY DEF Met, tcp
  <2>2. \A m \in Slots : slot[m].status = "CONNECTED" => m # n /\ slot'[m] = slot[m]
    BY <1>3, <1>6
  <2>3. ASSUME NEW j \in Links, link'[j].up["server"], Met(j)'
        PROVE  \E m \in Slots : slot'[m].tcp = j /\ slot'[m].status = "CONNECTED"
    <3>1. PICK m \in Slots : slot[m].tcp = j /\ slot[m].status = "CONNECTED"
      BY <2>1, <2>3 DEF IInv, Agreed
    <3>2. QED BY <2>2, <3>1
  <2>4. QED BY <2>3 DEF Agreed
<1>14. Vetted'
  <2> SUFFICES ASSUME NEW p \in Browsers, tcp(p) # None
               PROVE  /\ ~Has(link[tcp(p)].to["server"], "WS")
                      /\ \A m \in Slots :
                           /\ slot'[m].tcp = tcp(p) => ~slot'[m].ws /\ slot'[m].status # "CONNECTED"
                           /\ session'[m] # tcp(p)
    BY DEF Vetted, tcp
  <2>1. \A m \in Slots : slot[m].tcp = tcp(p) => ~slot[m].ws /\ slot[m].status # "CONNECTED"
    BY DEF IInv, Vetted
  <2>2. ASSUME NEW m \in Slots, slot'[m].tcp = tcp(p) PROVE ~slot'[m].ws /\ slot'[m].status # "CONNECTED"
    <3>1. CASE m = n
      BY <1>6, <3>1
    <3>2. CASE m # n
      BY <1>6, <2>1, <2>2, <3>2
    <3>3. QED BY <3>1, <3>2
  <2>3. QED BY <2>2 DEF IInv, Vetted
<1>15. Informed'
  BY <1>1, <1>7 DEF IInv, Informed
<1>16. Numbered'
  <2>1. \A j, h : Follows(j, h)' <=> Follows(j, h)
    BY DEF Follows, tcp
  <2>2. Current(n) = None /\ Count(n) = 0
    BY <1>3 DEF Current, Count
  <2>3. link[k].up["server"] => Follows(k, 0)
    BY <1>1 DEF IInv, Numbered
  <2>4. \A m \in Slots : slot'[m].tcp # k => slot'[m].tcp = slot[m].tcp
    BY <1>6
  <2>5. \A m \in Slots : slot'[m].tcp = k => m = n
    BY <1>4, <1>6
  <2>6. QED BY <1>1, <1>7, <2>1, <2>2, <2>3, <2>4, <2>5 DEF IInv, Numbered
<1>17. QED BY <1>1, <1>8, <1>9, <1>10, <1>11, <1>12, <1>13, <1>14, <1>15, <1>16 DEF IInv

(* No slot is free: the connection is closed *)
LEMMA NoSlotStep ==
  ASSUME IInv, NEW i \in Top, todo[i].op = "newClient",
         link' = Stopped(link, todo[i].tcp, "server"), slot' = slot,
         Return(i), UNCHANGED <<backlog, session, heard>>, client' = client
  PROVE  IInv'
<1> DEFINE k == todo[i].tcp
<1>1. /\ k \in Links
      /\ todo' \in Seq(Tasks) /\ Silent(todo') /\ PlacesOnce(todo')
      /\ Placing(todo') \subseteq Placing(todo)
      /\ Waiting(k) /\ \A j : Waiting(j)' <=> Waiting(j) /\ j # k
      /\ \A m \in Slots : ~Told1(m) /\ ~Told1(m)'
  BY LeavesTop
<1>2. link' = Stopped(link, k, "server")
  OBVIOUS
<1> HIDE DEF k
<1>3. Harmless(link, link') /\ ~link'[k].up["server"]
  BY <1>1, <1>2, LinksAreSound, StoppedIs, TwoEnds DEF IInv
<1>4. \A m \in Slots : Current(m)' = Current(m) /\ Count(m)' = Count(m)
  BY <1>1 DEF Current, Count
<1>5. \A j \in Links : link'[j].up["server"] => j # k /\ link[j].up["server"]
  BY <1>3, TwoEnds DEF Harmless, Calmer, Keeps
<1>6. Typed' /\ OneEvent'
  BY <1>1, <1>3 DEF IInv, Typed, tcp, Silent, OneEvent, Harmless, AllSound
<1>7. TypeOK'
  <2>1. \A j \in DOMAIN todo' : todo'[j].n \in 1 .. MAX_CLIENTS + 1
    BY <1>1 DEF Tasks
  <2>2. QED BY <2>1 DEF IInv, TypeOK
<1>8. Opened' /\ InOrder'
  BY <1>3 DEF Opened, InOrder, Harmless, AllSound, Sound
<1>9. NoTwoPlaces'
  <2>1. \A j \in DOMAIN backlog' : backlog'[j] \notin Placing(todo')
    BY <1>1 DEF IInv, NoTwoPlaces
  <2>2. \A m \in Slots : ~Waiting(slot[m].tcp)'
    BY <1>1 DEF IInv, NoTwoPlaces
  <2>3. QED BY <1>1, <2>1, <2>2 DEF IInv, NoTwoPlaces, tcp
<1>10. OnePlace'
  BY <1>1, <1>5 DEF IInv, OnePlace
<1>11. Agreed'
  <2>1. \A j \in Links : Met(j)' => Met(j)
    BY <1>3 DEF Met, Harmless, Calmer, tcp
  <2>2. QED BY <1>5, <2>1 DEF IInv, Agreed
<1>12. Vetted'
  <2> SUFFICES ASSUME NEW p \in Browsers, tcp(p) # None
               PROVE  ~Has(link'[tcp(p)].to["server"], "WS")
    BY DEF IInv, Vetted, tcp
  <2>1. tcp(p) \in Links
    BY WsClientAssumption DEF IInv, Typed, ClientRecord, Sockets, tcp
  <2>2. QED BY <1>3, <2>1 DEF IInv, Vetted, Harmless, Calmer, Keeps
<1>13. Informed'
  BY <1>1, <1>4 DEF IInv, Informed
<1>14. Numbered'
  <2>1. \A j \in Links : link'[j].up["server"] => \A h : Follows(j, h) => Follows(j, h)'
    BY <1>3, FollowsKept
  <2>2. QED BY <1>1, <1>4, <1>5, <2>1 DEF IInv, Numbered
<1>15. QED BY <1>1, <1>6, <1>7, <1>8, <1>9, <1>10, <1>11, <1>12, <1>13, <1>14 DEF IInv

LEMMA PlaceClientStep ==
  ASSUME IInv, NEW i \in Top, PlaceClient(i), client' = client
  PROVE  IInv'
BY TakesStep, PlaceNextStep, NoSlotStep DEF PlaceClient, Doing

(* What is sent to a client changes nothing else *)
LEMMA SentToClient ==
  ASSUME NEW l, AllSound(l), NEW k \in Links, NEW u \in Seq(Units)
  PROVE  LET m == Sent(l, k, "server", u) IN
         AllSound(m) /\ \A j \in Links : Keeps(l[j], m[j]) /\ (j # k => m[j] = l[j])
<1> DEFINE m == Sent(l, k, "server", u)
<1>1. CASE m = l
  BY <1>1 DEF Keeps
<1>2. CASE ~(m = l)
  <2> DEFINE a == l[k]
             q == a.to["client"] \o u
             b == [up |-> a.up, to |-> [a.to EXCEPT !["client"] = q]]
  <2>1. a \in LinkRecord /\ Sound(a) /\ l \in [Links -> LinkRecord]
    BY DEF AllSound
  <2>2. a.up \in Views /\ a.to \in Queues
    BY <2>1 DEF LinkRecord
  <2>3. a.up["client"] /\ m = [l EXCEPT ![k].to["client"] = q]
    BY <1>2, TwoEnds DEF Sent
  <2>4. q \in Seq(Units)
    BY <2>2, Concat, TwoEnds DEF Queues
  <2> HIDE DEF q, m
  <2>5. m = [l EXCEPT ![k] = b]
    <3>1. [l EXCEPT ![k].to["client"] = q] = [l EXCEPT ![k] = [a EXCEPT !.to["client"] = q]]
      OBVIOUS
    <3>2. [a EXCEPT !.to["client"] = q] = [up |-> a.up, to |-> [a.to EXCEPT !["client"] = q]]
      <4> HIDE DEF a
      <4>1. QED BY <2>1 DEF LinkRecord
    <3>3. QED BY <2>3, <3>1, <3>2
  <2>6. [a.to EXCEPT !["client"] = q] \in Queues /\ [a.to EXCEPT !["client"] = q]["server"] = a.to["server"]
        /\ [a.to EXCEPT !["client"] = q]["client"] = q
    BY <2>2, <2>4, TwoEnds DEF Queues
  <2>7. b \in LinkRecord /\ b.up = a.up /\ b.to["server"] = a.to["server"]
    BY <2>2, <2>6 DEF LinkRecord
  <2>8. Sound(b)
    BY <2>1, <2>3, <2>7, TwoEnds DEF Sound, Ends
  <2>9. Keeps(a, b)
    BY <2>7 DEF Keeps
  <2> HIDE DEF b
  <2>10. m \in [Links -> LinkRecord] /\ \A j \in Links : m[j] = IF j = k THEN b ELSE l[j]
    BY <2>1, <2>5, <2>7
  <2>11. AllSound(m)
    BY <2>8, <2>10 DEF AllSound
  <2>12. \A j \in Links : Keeps(l[j], m[j]) /\ (j # k => m[j] = l[j])
    BY <2>9, <2>10 DEF Keeps
  <2>13. QED BY <2>11, <2>12 DEF m
<1>3. QED BY <1>1, <1>2

(* The handshake is answered: the slot gets its session *)
LEMMA OpensStep ==
  ASSUME IInv, NEW i \in Top, NEW n, NEW k, n = num(i), k = tcpOf(i), Reading(i, "HEADER"), Incoming(tcpOf(i), "server").kind = "END",
         slot[num(i)].ws, slot' = [slot EXCEPT ![num(i)].status = "CONNECTED"],
         link' = Sent(Taken(link, tcpOf(i), "server"), tcpOf(i), "server", Handshake),
         Call(i, <<runCbEvent(num(i), "CONNECTED", tcpOf(i), 0)>>),
         UNCHANGED <<session, heard, backlog>>, client' = client
  PROVE  IInv'
<1> DEFINE l == Taken(link, k, "server")
           x == runCbEvent(n, "CONNECTED", k, 0)
           r == rest(i)
<1>1. /\ todo[i].op \notin Events \cup {"newClient"} /\ n \in Slots /\ slot[n].status = "HEADER"
      /\ k \in Links /\ k = slot[n].tcp /\ Harmless(link, l) /\ AllSound(l)
  BY ServerTakes DEF tcpOf
<1>2. k # None
  BY <1>1, TcpAssumption DEF Links, None
<1>3. x \in Tasks /\ x.op = "CONNECTED" /\ x.n = n /\ x.tcp = k /\ x.no = 0
  BY <1>1, ServerAssumption DEF runCbEvent, Task, Tasks, Ops, Events, Slots
<1>4. /\ r \in Seq(Tasks) /\ Silent(r) /\ PlacesOnce(r) /\ Placing(r) = Placing(todo)
      /\ \A m \in Slots : ~Told1(m)
  BY <1>1, RestIs
<1>5. /\ todo' = <<x>> \o r /\ link' = Sent(l, k, "server", Handshake)
      /\ slot' = [slot EXCEPT ![n].status = "CONNECTED"] /\ slot[n].ws
  BY DEF Call
<1> HIDE DEF l, x, r
<1>6. /\ todo' \in Seq(Tasks) /\ todo' # <<>> /\ todo'[1] = x /\ PlacesOnce(todo')
      /\ Placing(todo') = Placing(todo) /\ OneEvent'
  BY <1>3, <1>4, <1>5, EventOnTop DEF OneEvent, Events
<1>7. Handshake \in Seq(Units)
  BY DEF Handshake, Line, Unit, Units, UnitKinds
<1>8. AllSound(link') /\ \A j \in Links : Keeps(l[j], link'[j]) /\ (j # k => link'[j] = l[j])
  BY <1>1, <1>5, <1>7, SentToClient
<1>9. \A j \in Links : Keeps(link[j], link'[j]) /\ (j # k => Calmer(link[j], link'[j]))
  BY <1>1, <1>8, TwoEnds DEF Harmless, Calmer, Keeps
<1>10. /\ slot' \in [Slots -> SlotRecord]
       /\ slot'[n].tcp = slot[n].tcp /\ slot'[n].status = "CONNECTED"
       /\ \A m \in Slots : m # n => slot'[m] = slot[m]
  <2>1. slot \in [Slots -> SlotRecord]
    BY DEF IInv, Typed
  <2>2. QED BY <1>1, <1>5, <2>1 DEF SlotRecord, Statuses
<1>11. \A j : Waiting(j)' <=> Waiting(j)
  BY <1>6, WaitingIs
<1>12. \A m \in Slots : Told1(m)' <=> m = n
  BY <1>3, <1>6 DEF Told1, Events
<1>13. \A j \in Links : link'[j].up["server"] => link[j].up["server"]
  BY <1>9, TwoEnds DEF Keeps
<1>14. Typed'
  BY <1>6, <1>8, <1>10 DEF IInv, Typed, AllSound, tcp
<1>15. TypeOK'
  <2>1. \A j \in DOMAIN todo' : todo'[j].n \in 1 .. MAX_CLIENTS + 1
    BY <1>6 DEF Tasks
  <2>2. \A m \in Slots :
          /\ slot'[m].tcp \in Links \cup {None}
          /\ slot'[m].status = "NOT_CONNECTED" <=> slot'[m].tcp = None
          /\ slot'[m].tcp = None => ~slot'[m].ws
    <3> TAKE m \in Slots
    <3>1. CASE m = n
      BY <1>1, <1>2, <1>10, <3>1
    <3>2. CASE m # n
      BY <1>10, <3>2 DEF IInv, TypeOK
    <3>3. QED BY <3>1, <3>2
  <2>3. QED BY <2>1, <2>2 DEF IInv, TypeOK
<1>16. Opened' /\ InOrder'
  BY <1>8 DEF Opened, InOrder, AllSound, Sound
<1>17. NoTwoPlaces'
  <2>1. \A m \in Slots : ~Waiting(slot[m].tcp)'
    BY <1>10, <1>11 DEF IInv, NoTwoPlaces
  <2>2. QED BY <1>6, <1>10, <2>1 DEF IInv, NoTwoPlaces, tcp
<1>18. OnePlace'
  BY <1>10, <1>11, <1>13 DEF IInv, OnePlace
<1>19. Agreed'
  <2> SUFFICES ASSUME NEW j \in Links, link'[j].up["server"], Met(j)'
               PROVE  \E m \in Slots : slot'[m].tcp = j /\ slot'[m].status = "CONNECTED"
    BY DEF Agreed
  <2>1. CASE j = k
    BY <1>1, <1>10, <2>1
  <2>2. CASE j # k
    <3>1. Met(j)
      BY <1>9, <2>2 DEF Met, Calmer, tcp
    <3>2. PICK m \in Slots : slot[m].tcp = j /\ slot[m].status = "CONNECTED"
      BY <1>13, <3>1 DEF IInv, Agreed
    <3>3. QED BY <1>10, <3>2
  <2>3. QED BY <2>1, <2>2
<1>20. Vetted'
  <2> SUFFICES ASSUME NEW p \in Browsers, tcp(p) # None
               PROVE  /\ ~Has(link'[tcp(p)].to["server"], "WS")
                      /\ \A m \in Slots :
                           /\ slot'[m].tcp = tcp(p) => ~slot'[m].ws /\ slot'[m].status # "CONNECTED"
                           /\ session'[m] # tcp(p)
    BY DEF Vetted, tcp
  <2>1. tcp(p) \in Links
    BY WsClientAssumption DEF IInv, Typed, ClientRecord, Sockets, tcp
  <2>2. tcp(p) # k
    BY <1>1, <1>5 DEF IInv, Vetted
  <2>3. ~Has(link'[tcp(p)].to["server"], "WS")
    BY <1>9, <2>1 DEF IInv, Vetted, Keeps
  <2>4. \A m \in Slots : slot'[m].tcp = tcp(p) => ~slot'[m].ws /\ slot'[m].status # "CONNECTED"
    <3>1. \A m \in Slots : slot'[m].tcp = tcp(p) => m # n
      BY <1>1, <1>10, <2>2
    <3>2. QED BY <1>10, <3>1 DEF IInv, Vetted
  <2>5. QED BY <2>3, <2>4 DEF IInv, Vetted
<1>21. \A m \in Slots : m # n => Current(m)' = Current(m) /\ Count(m)' = Count(m)
  BY <1>4, <1>10, <1>12 DEF Current, Count
<1>22. Current(n)' = k /\ Current(n) = None /\ Count(n) = 0 /\ Count(n)' = 0
  <2>1. Current(n)' = k /\ Current(n) = None
    BY <1>1, <1>10 DEF Current
  <2>2. Told1(n)' /\ todo'[1].no = 0
    BY <1>1, <1>3, <1>6, <1>12
  <2>3. QED BY <1>2, <2>1, <2>2 DEF Count
<1>23. Informed'
  <2>1. \A m \in Slots : m # n => ~Told1(m)' /\ session'[m] = Current(m)'
    BY <1>4, <1>12, <1>21 DEF IInv, Informed
  <2>2. session[n] = None
    BY <1>1, <1>4, <1>22 DEF IInv, Informed
  <2>3. Told1(n)' /\ todo'[1].op = "CONNECTED" /\ todo'[1].tcp = k /\ todo'[1].no = 0
    BY <1>1, <1>3, <1>6, <1>12
  <2>4. QED BY <1>22, <2>1, <2>2, <2>3 DEF Informed
<1>24. Numbered'
  <2>1. ASSUME NEW j \in Links, link'[j].up["server"], NEW h, Follows(j, h)
        PROVE  Follows(j, h)'
    <3>1. Nos(link'[j].to["server"]) = Nos(link[j].to["server"])
      BY <1>9, <2>1 DEF Keeps
    <3>2. QED BY <2>1, <3>1 DEF Follows, tcp
  <2>2. \A m \in Slots : Count(m)' = Count(m)
    BY <1>21, <1>22
  <2>3. QED BY <1>10, <1>11, <1>13, <2>1, <2>2 DEF IInv, Numbered
<1>25. QED BY <1>6, <1>14, <1>15, <1>16, <1>17, <1>18, <1>19, <1>20, <1>23, <1>24 DEF IInv

LEMMA RequestEndStep ==
  ASSUME IInv, NEW i \in Top, RequestEnd(i), client' = client
  PROVE  IInv'
<1> DEFINE k == tcpOf(i)
           l == Taken(link, k, "server")
           m == Sent(l, k, "server", BadRequest)
<1>1. Reading(i, "HEADER") /\ Incoming(k, "server").kind = "END" /\ backlog' = backlog
  BY DEF RequestEnd
<1>2. CASE /\ slot[num(i)].ws
           /\ slot' = [slot EXCEPT ![num(i)].status = "CONNECTED"]
           /\ link' = Sent(l, k, "server", Handshake)
           /\ Call(i, <<runCbEvent(num(i), "CONNECTED", k, 0)>>)
           /\ UNCHANGED <<session, heard>>
  BY <1>1, <1>2, OpensStep
<1>3. CASE clientDisconnect(m, num(i), rest(i))
  <2>1. /\ todo[i].op \notin Events \cup {"newClient"} /\ num(i) \in Slots /\ IsConnected(num(i))
        /\ k \in Links /\ Harmless(link, l) /\ AllSound(l) /\ AllSound(link)
    BY <1>1, ServerTakes
  <2>2. BadRequest \in Seq(Units) /\ ~Has(BadRequest, "101")
    BY DEF BadRequest, Line, Unit, Units, UnitKinds, Has
  <2> HIDE DEF l, k
  <2>3. Harmless(l, m)
    BY <2>1, <2>2, SentIs, TwoEnds
  <2>4. Harmless(link, m)
    BY <2>1, <2>3, Both
  <2> HIDE DEF m
  <2>5. QED BY <1>1, <1>3, <2>1, <2>4, GivenUp
<1>4. QED BY <1>2, <1>3 DEF RequestEnd

(* A message is taken: it is the first of those on their way *)
LEMMA TakesText ==
  ASSUME NEW l, AllSound(l), NEW k \in Links, l[k].to["server"] # <<>>,
         Head(l[k].to["server"]).kind = "text"
  PROVE  LET m == Taken(l, k, "server")
             f == Head(l[k].to["server"]) IN
         /\ AllSound(m) /\ f.no \in Nat
         /\ \A j \in Links : j # k => m[j] = l[j]
         /\ m[k].up = l[k].up /\ m[k].to["client"] = l[k].to["client"]
         /\ Has(m[k].to["server"], "WS") => Has(l[k].to["server"], "WS")
         /\ Nos(l[k].to["server"]) = {f.no} \cup Nos(m[k].to["server"])
         /\ \A no \in Nos(m[k].to["server"]) : f.no < no
<1> DEFINE m == Taken(l, k, "server")
           a == l[k]
           q == a.to["server"]
           t == Tail(q)
           b == [up |-> a.up, to |-> [a.to EXCEPT !["server"] = t]]
<1>1. a \in LinkRecord /\ Sound(a) /\ l \in [Links -> LinkRecord]
  BY DEF AllSound
<1>2. a.up \in Views /\ a.to \in Queues /\ q \in Seq(Units) /\ Ordered(q)
  BY <1>1, TwoEnds DEF LinkRecord, Queues, Sound
<1>3. q # <<>> /\ Head(q).kind = "text" /\ a.up["server"]
  BY <1>1, TwoEnds DEF Sound
<1>4. Head(q) \in Units
  BY <1>2, <1>3, HeadTailProperties
<1>5. Head(q).no \in Nat
  BY <1>4 DEF Units
<1>6. /\ t \in Seq(Units) /\ Ordered(t) /\ (Has(t, "WS") => Has(q, "WS"))
      /\ Nos(q) = {Head(q).no} \cup Nos(t) /\ \A no \in Nos(t) : Head(q).no < no
  <2> HIDE DEF q
  <2>1. QED BY <1>2, <1>3, TailOf
<1>7. m = [l EXCEPT ![k].to["server"] = t]
  BY DEF Taken
<1> HIDE DEF m, t
<1>8. m = [l EXCEPT ![k] = b]
  <2>1. [l EXCEPT ![k].to["server"] = t] = [l EXCEPT ![k] = [a EXCEPT !.to["server"] = t]]
    OBVIOUS
  <2>2. [a EXCEPT !.to["server"] = t] = [up |-> a.up, to |-> [a.to EXCEPT !["server"] = t]]
    <3> HIDE DEF a
    <3>1. QED BY <1>1 DEF LinkRecord
  <2>3. QED BY <1>7, <2>1, <2>2
<1>9. [a.to EXCEPT !["server"] = t] \in Queues /\ [a.to EXCEPT !["server"] = t]["server"] = t
      /\ [a.to EXCEPT !["server"] = t]["client"] = a.to["client"]
  BY <1>2, <1>6, TwoEnds DEF Queues
<1>10. b \in LinkRecord /\ b.up = a.up /\ b.to["server"] = t /\ b.to["client"] = a.to["client"]
  BY <1>2, <1>9 DEF LinkRecord
<1>11. Sound(b)
  BY <1>1, <1>3, <1>6, <1>10, TwoEnds DEF Sound, Ends
<1> HIDE DEF b
<1>12. m \in [Links -> LinkRecord] /\ \A j \in Links : m[j] = IF j = k THEN b ELSE l[j]
  BY <1>1, <1>8, <1>10
<1>13. AllSound(m)
  BY <1>1, <1>11, <1>12 DEF AllSound
<1>14. QED BY <1>5, <1>6, <1>10, <1>12, <1>13 DEF m

LEMMA TextStep ==
  ASSUME IInv, NEW i \in Top, NEW n, NEW k, n = num(i), k = tcpOf(i), Reading(i, "CONNECTED"),
         NEW no, no = Incoming(k, "server").no, Incoming(k, "server").kind = "text",
         link' = Taken(link, k, "server"), Call(i, <<runCbEvent(n, "TEXT", k, no)>>),
         UNCHANGED <<slot, session, heard, backlog>>, client' = client
  PROVE  IInv'
<1> DEFINE x == runCbEvent(n, "TEXT", k, no)
           r == rest(i)
<1>1. /\ todo[i].op \notin Events \cup {"newClient"} /\ n \in Slots /\ slot[n].status = "CONNECTED"
      /\ k \in Links /\ k = slot[n].tcp /\ AllSound(link)
      /\ link[k].to["server"] # <<>> /\ link[k].up["server"]
  BY ServerTakes DEF tcpOf
<1>2. k # None
  BY <1>1, TcpAssumption DEF Links, None
<1>3. /\ AllSound(link') /\ no \in Nat
      /\ \A j \in Links : j # k => link'[j] = link[j]
      /\ link'[k].up = link[k].up /\ link'[k].to["client"] = link[k].to["client"]
      /\ Has(link'[k].to["server"], "WS") => Has(link[k].to["server"], "WS")
      /\ Nos(link[k].to["server"]) = {no} \cup Nos(link'[k].to["server"])
      /\ \A g \in Nos(link'[k].to["server"]) : no < g
  <2> DEFINE m == Taken(link, k, "server")
             f == Head(link[k].to["server"])
  <2>1. f.kind = "text" /\ no = f.no /\ link' = m
    BY DEF Incoming
  <2>2. /\ AllSound(m) /\ f.no \in Nat
        /\ \A j \in Links : j # k => m[j] = link[j]
        /\ m[k].up = link[k].up /\ m[k].to["client"] = link[k].to["client"]
        /\ Has(m[k].to["server"], "WS") => Has(link[k].to["server"], "WS")
        /\ Nos(link[k].to["server"]) = {f.no} \cup Nos(m[k].to["server"])
        /\ \A g \in Nos(m[k].to["server"]) : f.no < g
    BY <1>1, <2>1, TakesText
  <2> HIDE DEF m, f
  <2>3. QED BY <2>1, <2>2
<1>4. x \in Tasks /\ x.op = "TEXT" /\ x.n = n /\ x.tcp = k /\ x.no = no
  BY <1>1, <1>3, ServerAssumption DEF runCbEvent, Task, Tasks, Ops, Events, Slots
<1>5. /\ r \in Seq(Tasks) /\ Silent(r) /\ PlacesOnce(r) /\ Placing(r) = Placing(todo)
      /\ \A m \in Slots : ~Told1(m)
  BY <1>1, RestIs
<1>6. todo' = <<x>> \o r
  BY DEF Call
<1> HIDE DEF x, r
<1>7. /\ todo' \in Seq(Tasks) /\ todo' # <<>> /\ todo'[1] = x /\ PlacesOnce(todo')
      /\ Placing(todo') = Placing(todo) /\ OneEvent'
  BY <1>4, <1>5, <1>6, EventOnTop DEF OneEvent, Events
<1>8. \A j : Waiting(j)' <=> Waiting(j)
  BY <1>7, WaitingIs
<1>9. \A m \in Slots : Told1(m)' <=> m = n
  BY <1>4, <1>7 DEF Told1, Events
<1>10. \A j \in Links, e \in Ends : link'[j].up[e] <=> link[j].up[e]
  BY <1>3
<1>11. \A j \in Links :
         /\ Has(link'[j].to["server"], "WS") => Has(link[j].to["server"], "WS")
         /\ link'[j].to["client"] = link[j].to["client"]
  BY <1>3
<1>12. Typed'
  BY <1>3, <1>7 DEF IInv, Typed, AllSound, tcp
<1>13. TypeOK'
  <2>1. \A j \in DOMAIN todo' : todo'[j].n \in 1 .. MAX_CLIENTS + 1
    BY <1>7 DEF Tasks
  <2>2. QED BY <2>1 DEF IInv, TypeOK
<1>14. Opened' /\ InOrder'
  BY <1>3 DEF Opened, InOrder, AllSound, Sound
<1>15. NoTwoPlaces'
  <2>1. \A m \in Slots : ~Waiting(slot[m].tcp)'
    BY <1>8 DEF IInv, NoTwoPlaces
  <2>2. QED BY <1>7, <2>1 DEF IInv, NoTwoPlaces, tcp
<1>16. OnePlace'
  BY <1>8, <1>10, TwoEnds DEF IInv, OnePlace
<1>17. Agreed'
  <2>1. \A j \in Links : Met(j)' <=> Met(j)
    BY <1>11 DEF Met, tcp
  <2>2. QED BY <1>10, <2>1, TwoEnds DEF IInv, Agreed
<1>18. Vetted'
  <2> SUFFICES ASSUME NEW p \in Browsers, tcp(p) # None
               PROVE  ~Has(link'[tcp(p)].to["server"], "WS")
    BY DEF IInv, Vetted, tcp
  <2>1. tcp(p) \in Links
    BY WsClientAssumption DEF IInv, Typed, ClientRecord, Sockets, tcp
  <2>2. QED BY <1>11, <2>1 DEF IInv, Vetted
<1>19. Current(n) = k /\ Count(n) = heard[n] /\ heard[n] \in Nat /\ session[n] = k
  <2>1. Current(n) = k
    BY <1>1 DEF Current
  <2>2. QED BY <1>1, <1>2, <1>5, <2>1 DEF IInv, Typed, Informed, Count
<1>20. PICK m \in Nat :
         /\ heard[n] <= m /\ Nos(link[k].to["server"]) = heard[n] + 1 .. m
         /\ \A p \in Peers : tcp(p) = k => client[p].said = m
  BY <1>1, <1>19 DEF IInv, Numbered, Follows
<1>21. no = heard[n] + 1 /\ no <= m
  <2>1. no \in heard[n] + 1 .. m
    BY <1>3, <1>20
  <2>2. heard[n] + 1 \in heard[n] + 1 .. m
    BY <1>19, <1>20, <2>1
  <2>3. heard[n] + 1 = no \/ no < heard[n] + 1
    BY <1>3, <1>20, <2>2
  <2>4. QED BY <1>3, <1>19, <1>20, <2>1, <2>3
<1>22. Nos(link'[k].to["server"]) = no + 1 .. m
  <2>1. \A g \in Nos(link'[k].to["server"]) : g \in heard[n] + 1 .. m /\ no < g
    BY <1>3, <1>20
  <2>2. \A g \in no + 1 .. m : g \in heard[n] + 1 .. m /\ g # no
    BY <1>19, <1>20, <1>21
  <2>3. \A g \in no + 1 .. m : g \in Nos(link'[k].to["server"])
    BY <1>3, <1>20, <2>2
  <2>4. \A g \in Nos(link'[k].to["server"]) : g \in no + 1 .. m
    BY <1>3, <1>19, <1>20, <2>1
  <2>5. QED BY <2>3, <2>4
<1>23. \A o \in Slots : Current(o)' = Current(o) /\ (o # n => Count(o)' = Count(o))
  BY <1>5, <1>9 DEF Current, Count
<1>24. Count(n)' = no
  <2>1. Told1(n)' /\ todo'[1].no = no
    BY <1>1, <1>4, <1>7, <1>9
  <2>2. Current(n)' # None
    BY <1>1, <1>2, <1>19, <1>23
  <2>3. QED BY <2>1, <2>2 DEF Count
<1>25. Informed'
  <2>1. \A o \in Slots : o # n => ~Told1(o)' /\ session'[o] = Current(o)'
    BY <1>5, <1>9, <1>23 DEF IInv, Informed
  <2>2. Told1(n)' /\ todo'[1].op = "TEXT" /\ todo'[1].no = heard'[n] + 1
    BY <1>1, <1>4, <1>7, <1>9, <1>21
  <2>3. session'[n] = Current(n)' /\ Current(n)' # None
    BY <1>1, <1>2, <1>19, <1>23
  <2>4. QED BY <2>1, <2>2, <2>3 DEF Informed
<1>26. Numbered'
  <2>1. Follows(k, no)'
    BY <1>3, <1>20, <1>21, <1>22 DEF Follows, tcp
  <2>2. ASSUME NEW j \in Links, j # k, NEW h, Follows(j, h)
        PROVE  Follows(j, h)'
    BY <1>3, <2>2 DEF Follows, tcp
  <2>3. \A o \in Slots : slot[o].tcp = k => o = n
    BY <1>1, <1>2 DEF IInv, NoTwoPlaces
  <2>4. ~Waiting(k)
    BY <1>1 DEF IInv, NoTwoPlaces
  <2> SUFFICES ASSUME NEW j \in Links, link'[j].up["server"]
               PROVE  /\ Waiting(j)' => Follows(j, 0)'
                      /\ \A o \in Slots : slot'[o].tcp = j => Follows(j, Count(o))'
    BY DEF Numbered
  <2>5. CASE j = k
    <3>1. ~Waiting(j)'
      BY <1>8, <2>4, <2>5
    <3>2. ASSUME NEW o \in Slots, slot'[o].tcp = j PROVE Follows(j, Count(o))'
      <4>1. o = n
        BY <2>3, <2>5, <3>2
      <4>2. Count(o)' = no
        BY <1>24, <4>1
      <4>3. QED BY <2>1, <2>5, <4>2
    <3>3. QED BY <3>1, <3>2
  <2>6. CASE j # k
    <3>1. link[j].up["server"]
      BY <1>10, TwoEnds
    <3>2. Waiting(j)' => Follows(j, 0)'
      BY <1>8, <2>2, <2>6, <3>1 DEF IInv, Numbered
    <3>3. ASSUME NEW o \in Slots, slot'[o].tcp = j PROVE Follows(j, Count(o))'
      <4>1. o # n /\ slot[o].tcp = j
        BY <1>1, <2>6, <3>3
      <4>2. Follows(j, Count(o)) /\ Count(o)' = Count(o)
        BY <1>23, <3>1, <4>1 DEF IInv, Numbered
      <4>3. QED BY <2>2, <2>6, <4>2
    <3>4. QED BY <3>2, <3>3
  <2>7. QED BY <2>5, <2>6
<1>27. QED BY <1>7, <1>12, <1>13, <1>14, <1>15, <1>16, <1>17, <1>18, <1>25, <1>26 DEF IInv

LEMMA ServerFrameStep ==
  ASSUME IInv, NEW i \in Top, ServerFrame(i), client' = client
  PROVE  IInv'
<1> DEFINE k == tcpOf(i)
           l == Taken(link, k, "server")
           m == Sent(l, k, "server", <<Line("close")>>)
           f == Incoming(k, "server")
<1>1. Reading(i, "CONNECTED") /\ backlog' = backlog
  BY DEF ServerFrame
<1>2. /\ todo[i].op \notin Events \cup {"newClient"} /\ num(i) \in Slots /\ IsConnected(num(i))
      /\ AllSound(link)
      /\ f.kind # "text" => Harmless(link, l) /\ AllSound(l)
  BY <1>1, ServerTakes
<1>3. CASE /\ f.kind = "text" /\ link' = l
           /\ Call(i, <<runCbEvent(num(i), "TEXT", k, f.no)>>)
           /\ UNCHANGED <<slot, session, heard>>
  <2>1. PICK n, j, no : n = num(i) /\ j = k /\ no = f.no
    OBVIOUS
  <2>2. QED BY <1>1, <1>3, <2>1, TextStep
<1>4. CASE f.kind = "pong" /\ link' = l /\ Return(i) /\ UNCHANGED <<slot, session, heard>>
  <2>1. GoesOn
    BY <1>2, <1>4, ReturnsOnly
  <2>2. Harmless(link, link')
    BY <1>2, <1>4
  <2>3. QED BY <1>1, <1>4, <2>1, <2>2, ForgetsNothing, KeepsAllSlots, Calm
<1>5. CASE f.kind = "close" /\ clientDisconnect(m, num(i), rest(i))
  <2>1. Harmless(link, l) /\ AllSound(l)
    BY <1>2, <1>5
  <2> HIDE DEF l, k
  <2>2. Harmless(l, m)
    BY <2>1, SentLine, TwoEnds
  <2>3. Harmless(link, m)
    BY <1>2, <2>1, <2>2, Both
  <2> HIDE DEF m
  <2>4. QED BY <1>1, <1>2, <1>5, <2>3, GivenUp
<1>6. QED BY <1>3, <1>4, <1>5 DEF ServerFrame

(* The sketch is told *)
LEMMA CallbackStep ==
  ASSUME IInv, NEW i \in Top, NEW n, n = num(i), Callback(i), client' = client
  PROVE  IInv'
<1>1. todo[i].op \in Events /\ UNCHANGED <<link, backlog, slot>>
  BY DEF Callback, Doing, net
<1>2. /\ i = 1 /\ 1 \in DOMAIN todo /\ todo[1] \in Tasks /\ todo[1].op \in Events
      /\ rest(i) \in Seq(Tasks) /\ Silent(rest(i)) /\ PlacesOnce(rest(i))
      /\ Placing(todo) = Placing(rest(i))
  <2>1. todo \in Seq(Tasks) /\ OneEvent /\ PlacesOnce(todo)
    BY DEF IInv, Typed, NoTwoPlaces
  <2>2. todo[i].op # "newClient"
    BY <1>1 DEF Events
  <2>3. Placing(todo) = (IF todo[i].op = "newClient" THEN {todo[i].tcp} ELSE {}) \cup Placing(rest(i))
    BY <2>1, OnTop
  <2>4. Placing(todo) = Placing(rest(i))
    BY <2>2, <2>3
  <2>5. QED BY <1>1, <2>1, <2>4, OnTop
<1> DEFINE x == todo[1]
<1>3. n \in Slots /\ x.tcp \in Links /\ x.no \in Nat /\ x.n = n
  BY <1>2 DEF Tasks, Events, num
<1>4. \A m \in Slots : Told1(m) <=> m = n
  BY <1>2, <1>3 DEF Told1
<1>5. /\ todo' \in Seq(Tasks) /\ Silent(todo') /\ PlacesOnce(todo') /\ Placing(todo') = Placing(todo)
  <2>1. PICK calls \in Calls(n) : todo' = calls \o rest(i)
    BY DEF Callback, Call
  <2>2. /\ calls \in Seq(Tasks) /\ Silent(calls) /\ Placing(calls) = {} /\ PlacesOnce(calls)
    BY <1>3, <2>1, CallsAreQuiet DEF Quiet, Placing, PlacesOnce
  <2>3. /\ todo' \in Seq(Tasks) /\ Placing(todo') = Placing(calls) \cup Placing(rest(i)) /\ Silent(todo')
        /\ Placing(calls) \cap Placing(rest(i)) = {} => PlacesOnce(todo')
    <3> DEFINE r == rest(i)
    <3>1. r \in Seq(Tasks) /\ Silent(r) /\ PlacesOnce(r) /\ todo' = calls \o r
      BY <1>2, <2>1
    <3> HIDE DEF r
    <3>2. /\ calls \o r \in Seq(Tasks) /\ Placing(calls \o r) = Placing(calls) \cup Placing(r)
          /\ Silent(calls \o r)
          /\ Placing(calls) \cap Placing(r) = {} => PlacesOnce(calls \o r)
      BY <2>2, <3>1, Stacked
    <3>3. QED BY <3>1, <3>2 DEF r
  <2>4. QED BY <1>2, <2>2, <2>3
<1>6. \A m \in Slots : ~Told1(m)'
  BY <1>5 DEF Told1, Silent
<1>7. \A m \in Slots : Current(m)' = Current(m)
  BY <1>1 DEF Current
<1>8. slot[n].tcp = None => Current(n) = None
  BY <1>3 DEF IInv, TypeOK, Current
<1>9. session \in [Slots -> Links \cup {None}] /\ heard \in [Slots -> Nat]
  BY DEF IInv, Typed
<1>10. /\ session' \in [Slots -> Links \cup {None}] /\ heard' \in [Slots -> Nat]
       /\ \A m \in Slots : m # n => session'[m] = session[m] /\ heard'[m] = heard[m]
       /\ session'[n] = Current(n) /\ (Current(n) # None => heard'[n] = x.no)
  <2>1. x = todo[i] /\ num(i) = n
    BY <1>2
  <2>2. CASE x.op = "CONNECTED"
    <3>1. session' = [session EXCEPT ![n] = x.tcp] /\ heard' = [heard EXCEPT ![n] = 0]
      BY <2>1, <2>2 DEF Callback, Doing
    <3>2. Current(n) = x.tcp /\ x.no = 0
      BY <1>3, <1>4, <2>2 DEF IInv, Informed
    <3>3. QED BY <1>3, <1>9, <3>1, <3>2
  <2>3. CASE x.op = "TEXT"
    <3>1. session' = session /\ heard' = [heard EXCEPT ![n] = x.no]
      BY <2>1, <2>3 DEF Callback, Doing
    <3>2. session[n] = Current(n)
      BY <1>3, <1>4, <2>3 DEF IInv, Informed
    <3>3. QED BY <1>3, <1>9, <3>1, <3>2
  <2>4. CASE x.op = "DISCONNECTED"
    <3>1. session' = [session EXCEPT ![n] = None] /\ heard' = [heard EXCEPT ![n] = 0]
      BY <2>1, <2>4 DEF Callback, Doing
    <3>2. slot[n].tcp = None
      BY <1>3, <1>4, <2>4 DEF IInv, Informed
    <3>3. QED BY <1>3, <1>8, <1>9, <3>1, <3>2
  <2>5. QED BY <1>2, <2>2, <2>3, <2>4 DEF Events
<1>11. \A m \in Slots : Count(m)' = Count(m)
  <2> TAKE m \in Slots
  <2>1. CASE m = n
    BY <1>3, <1>4, <1>6, <1>7, <1>10, <2>1 DEF Count
  <2>2. CASE m # n
    BY <1>4, <1>6, <1>7, <1>10, <2>2 DEF Count
  <2>3. QED BY <2>1, <2>2
<1> HIDE DEF x
<1>12. \A j : Waiting(j)' <=> Waiting(j)
  BY <1>1, <1>5, WaitingIs
<1>13. Typed' /\ OneEvent'
  BY <1>1, <1>5, <1>10 DEF IInv, Typed, tcp, Silent, OneEvent
<1>14. TypeOK'
  <2>1. \A j \in DOMAIN todo' : todo'[j].n \in 1 .. MAX_CLIENTS + 1
    BY <1>5 DEF Tasks
  <2>2. QED BY <1>1, <2>1 DEF IInv, TypeOK
<1>15. Opened' /\ InOrder'
  BY <1>1 DEF IInv, Opened, InOrder
<1>16. NoTwoPlaces'
  <2>1. \A m \in Slots : ~Waiting(slot[m].tcp)'
    BY <1>1, <1>12 DEF IInv, NoTwoPlaces
  <2>2. QED BY <1>1, <1>5, <2>1 DEF IInv, NoTwoPlaces, tcp
<1>17. OnePlace'
  BY <1>1, <1>12 DEF IInv, OnePlace
<1>18. Agreed'
  BY <1>1 DEF IInv, Agreed, Met, tcp
<1>19. Vetted'
  <2>1. ASSUME NEW p \in Browsers, tcp(p) # None, NEW m \in Slots PROVE session'[m] # tcp(p)
    <3>1. CASE m = n
      BY <1>10, <2>1, <3>1 DEF IInv, Vetted, Current
    <3>2. CASE m # n
      BY <1>10, <2>1, <3>2 DEF IInv, Vetted
    <3>3. QED BY <3>1, <3>2
  <2>2. QED BY <1>1, <2>1 DEF IInv, Vetted, tcp
<1>20. Informed'
  <2>1. ASSUME NEW m \in Slots PROVE session'[m] = Current(m)'
    <3>1. CASE m = n
      BY <1>3, <1>7, <1>10, <3>1
    <3>2. CASE m # n
      BY <1>4, <1>7, <1>10, <3>2 DEF IInv, Informed
    <3>3. QED BY <3>1, <3>2
  <2>2. QED BY <1>6, <2>1 DEF Informed
<1>21. Numbered'
  <2>1. \A j, h : Follows(j, h)' <=> Follows(j, h)
    BY <1>1 DEF Follows, tcp
  <2>2. QED BY <1>1, <1>11, <1>12, <2>1 DEF IInv, Numbered
<1>22. QED BY <1>5, <1>13, <1>14, <1>15, <1>16, <1>17, <1>18, <1>19, <1>20, <1>21 DEF IInv

-----------------------------------------------------------------------------
(* The invariant *)

LEMMA Begins == Init => IInv
<1> SUFFICES ASSUME Init PROVE IInv
  OBVIOUS
<1> USE DEF Init, NetInit, ServerInit, ClientInit
<1>1. Ordered(<<>>) /\ \A kind : ~Has(<<>>, kind)
  BY DEF Ordered, Has
<1>2. Down \in LinkRecord /\ \A e \in Ends : ~Down.up[e] /\ Down.to[e] = <<>>
  <2>1. [e \in Ends |-> FALSE] \in Views /\ [e \in Ends |-> <<>>] \in Queues
    BY DEF Views, Queues
  <2>2. QED BY <2>1 DEF Down, LinkRecord
<1>3. \A k \in Links : link[k] \in LinkRecord /\ \A e \in Ends : ~link[k].up[e] /\ link[k].to[e] = <<>>
  BY <1>2
<1>4. New \in ClientRecord /\ New.tcp = None /\ ~New.accepted /\ New.status = "NOT_CONNECTED"
      /\ New.holdOff \in 0 .. Interval
  BY WsClientAssumption DEF New, ClientRecord, Sockets, Times, Statuses
<1>5. Free \in SlotRecord /\ Free.tcp = None /\ ~Free.ws /\ Free.status = "NOT_CONNECTED"
  BY DEF Free, SlotRecord, Statuses
<1>6. None # Refused /\ None \notin Links
  BY TcpAssumption DEF None, Refused, Links
<1>7. \A p \in Peers : tcp(p) = None /\ client[p] = New
  BY <1>4 DEF tcp
<1>8. \A p \in Browsers : tcp(p) = None
  BY <1>7, WsClientAssumption
<1>9. Typed
  BY <1>2, <1>4, <1>5, <1>6, <1>8 DEF Typed
<1>10. Placing(todo) = {} /\ \A n \in Slots : ~Told1(n)
  BY DEF Placing, Told1
<1>11. TypeOK /\ Opened /\ InOrder /\ OneEvent
  BY <1>1, <1>3, <1>4, <1>5, TwoEnds DEF TypeOK, Opened, InOrder, OneEvent
<1>12. NoTwoPlaces
  <2>1. \A n \in Slots : ~Waiting(slot[n].tcp)
    BY <1>10, WaitingIs DEF Range
  <2>2. QED BY <1>5, <1>6, <1>7, <2>1 DEF NoTwoPlaces, PlacesOnce
<1>13. OnePlace /\ Agreed /\ Numbered
  BY <1>3, TwoEnds DEF OnePlace, Agreed, Numbered
<1>14. Vetted
  BY <1>8 DEF Vetted
<1>15. Informed
  <2>1. \A n \in Slots : Current(n) = None /\ session[n] = None
    BY <1>5 DEF Current
  <2>2. QED BY <1>10, <2>1 DEF Informed
<1>16. QED BY <1>9, <1>11, <1>12, <1>13, <1>14, <1>15 DEF IInv

LEMMA Stutters ==
  ASSUME IInv, UNCHANGED vars
  PROVE  IInv'
<1>1. link' = link /\ backlog' = backlog /\ client' = client /\ UNCHANGED server
  BY DEF vars, net
<1>2. Harmless(link, link')
  BY <1>1, LinksAreSound, Nothing DEF IInv
<1>3. QED BY <1>1, <1>2, ForgetsNothing, CalmClient

LEMMA ServerSteps ==
  ASSUME IInv, ServerStep
  PROVE  IInv'
<1>1. client' = client
  BY DEF ServerStep
<1>2. CASE loop
  BY <1>1, <1>2, BeginsStep, CallsAreQuiet DEF loop
<1>3. CASE Sketch
  BY <1>1, <1>3, BeginsStep, CallsAreQuiet DEF Sketch
<1>4. ASSUME NEW i \in Top, Callback(i) PROVE IInv'
  <2>1. PICK n : n = num(i)
    OBVIOUS
  <2>2. QED BY <1>1, <1>4, <2>1, CallbackStep
<1>5. ASSUME NEW i \in Top,
             \/ ClientLost(i) \/ AcceptNext(i) \/ PlaceClient(i) \/ RequestLine(i)
             \/ RequestEnd(i) \/ ServerFrame(i) \/ SendText(i) \/ DisconnectClient(i)
             \/ FrameCut(i)
      PROVE  IInv'
  BY <1>1, <1>5, ClientLostStep, AcceptNextStep, PlaceClientStep, RequestLineStep, RequestEndStep,
     ServerFrameStep, SendTextStep, DisconnectClientStep, FrameCutStep
<1>6. QED BY <1>2, <1>3, <1>4, <1>5 DEF ServerStep, ServerNext, ServerWorks

LEMMA OpensSteps ==
  ASSUME IInv, NEW p \in Peers, Opens(p), UNCHANGED server
  PROVE  IInv'
<1>1. client[p] \in ClientRecord
  BY Reader
<1>2. /\ Disconnected(client[p]) \in ClientRecord /\ ~Disconnected(client[p]).accepted
      /\ New \in ClientRecord /\ ~New.accepted
  <2>1. ~Disconnected(client[p]).accepted
    BY <1>1 DEF Disconnected, ClientRecord
  <2>2. New \in ClientRecord /\ ~New.accepted
    BY WsClientAssumption DEF New, ClientRecord, Sockets, Times, Statuses
  <2>3. QED BY <1>1, <2>1, <2>2, DisconnectedIs
<1>3. PICK k \in NextLink : Reconnects(p, k) \/ BrowserAsks(p, k)
  BY DEF Opens
<1>4. QED BY <1>2, <1>3, ConnectStep, FailsStep DEF Reconnects, BrowserAsks

LEMMA Steps == IInv /\ [Next]_vars => IInv'
<1> SUFFICES ASSUME IInv, [Next]_vars PROVE IInv'
  OBVIOUS
<1>1. CASE NetStep /\ UNCHANGED <<server, client>>
  BY <1>1, NetSteps
<1>2. CASE ServerStep
  BY <1>2, ServerSteps
<1>3. CASE Tick /\ UNCHANGED server
  BY <1>3, TickStep
<1>4. ASSUME NEW p \in Peers, ClientStep(p), UNCHANGED server PROVE IInv'
  BY <1>4, HoldsOffStep, AnswerLineStep, AnswerEndStep, ClientFrameStep, OpensSteps, SendTXTStep,
     DisconnectStep, BrowserGoesStep DEF ClientStep, ClientWorks
<1>5. CASE UNCHANGED vars
  BY <1>5, Stutters
<1>6. QED BY <1>1, <1>2, <1>3, <1>4, <1>5 DEF Next

(* The inductive invariant holds in every state of every instance. *)
THEOREM Invariant == Spec => []IInv
<1>1. Init => IInv
  BY Begins
<1>2. IInv /\ [Next]_vars => IInv'
  BY Steps
<1>3. QED BY <1>1, <1>2, PTL DEF Spec

-----------------------------------------------------------------------------
(* What the invariant is for *)

LEMMA HasOneSlot ==
  ASSUME IInv
  PROVE  OneSlotEach
<1> SUFFICES ASSUME NEW k \in Links, link[k].up["server"]
             PROVE  \/ Waiting(k) /\ Held(k) = {}
                    \/ ~Waiting(k) /\ \E n \in Slots : Held(k) = {n}
  BY DEF OneSlotEach
<1>1. k # None
  BY DEF Links, None
<1>2. CASE Waiting(k)
  BY <1>2 DEF IInv, NoTwoPlaces, Held
<1>3. CASE ~Waiting(k)
  <2>1. PICK n \in Slots : slot[n].tcp = k
    BY <1>3 DEF IInv, OnePlace
  <2>2. \A m \in Slots : slot[m].tcp = k => m = n
    BY <1>1, <2>1 DEF IInv, NoTwoPlaces
  <2>3. Held(k) = {n}
    BY <2>1, <2>2 DEF Held
  <2>4. QED BY <1>3, <2>3
<1>4. QED BY <1>2, <1>3

(* Slots and connections belong together (newClient(), clientDisconnect(),   *)
(* handleNewClients()): a connection that is open at the server has one slot *)
(* or waits for one, two clients never share a slot, no client is forgotten, *)
(* and a slot given back is as new.                                          *)
THEOREM SlotsAreSound == Spec => []SlotsSound
<1>1. IInv => SlotsSound
  BY HasOneSlot DEF SlotsSound, IInv
<1>2. QED BY <1>1, Invariant, PTL

(* A client that holds itself CONNECTED is a client of the server that is in *)
(* a session, unless the server has already given its end up: the answer to  *)
(* the handshake is sent by the step that makes the slot CONNECTED, and the  *)
(* slot stays so as long as the server's end is open.                        *)
THEOREM EndsAgree == Spec => []BothAgree
<1>1. IInv => BothAgree
  <2> SUFFICES ASSUME IInv, NEW p \in Clients, ClientIsConnected(p),
                      client[p].status = "CONNECTED", link[tcp(p)].up["server"]
               PROVE  \E n \in Slots : slot[n].tcp = tcp(p) /\ slot[n].status = "CONNECTED"
    BY DEF BothAgree
  <2>1. tcp(p) \in Links
    BY DEF ClientIsConnected, Up
  <2>2. Met(tcp(p))
    BY DEF Met
  <2>3. QED BY <2>1, <2>2 DEF IInv, Agreed
<1>2. QED BY <1>1, Invariant, PTL

(* A client that never asked for a WebSocket never has a session, whatever   *)
(* the client that had its slot before had sent: RequestLine sets the slot's *)
(* fields from its own request, and clientDisconnect() clears all of them.   *)
THEOREM BrowsersHaveNone == Spec => []OnlyWebSockets
<1>1. IInv => OnlyWebSockets
  BY DEF IInv, Vetted, OnlyWebSockets
<1>2. QED BY <1>1, Invariant, PTL

-----------------------------------------------------------------------------
(* The events of a slot are sessions *)

LEMMA SessionsBegin == Init => Sessions!Init
BY DEF Init, ServerInit, Sessions!Init

LEMMA NoEvent ==
  ASSUME NEW i \in Top,
         \/ ClientLost(i) \/ AcceptNext(i) \/ PlaceClient(i) \/ RequestLine(i)
         \/ RequestEnd(i) \/ ServerFrame(i) \/ SendText(i) \/ DisconnectClient(i)
         \/ FrameCut(i)
  PROVE  UNCHANGED <<session, heard>>
BY DEF ClientLost, AcceptNext, PlaceClient, RequestLine, RequestEnd, ServerFrame, SendText,
       DisconnectClient, FrameCut, clientDisconnect

LEMMA EventStep ==
  ASSUME IInv, NEW i \in Top, Callback(i)
  PROVE  Sessions!Next
<1> DEFINE x == todo[i]
<1>1. PICK n : n = num(i)
  OBVIOUS
<1>2. x.op \in Events
  BY DEF Callback, Doing
<1>3. i = 1 /\ x = todo[1] /\ x \in Tasks /\ todo # <<>>
  <2>1. todo \in Seq(Tasks) /\ OneEvent /\ PlacesOnce(todo)
    BY DEF IInv, Typed, NoTwoPlaces
  <2>2. i = 1 /\ i \in DOMAIN todo /\ todo[i] \in Tasks
    BY <1>2, <2>1, OnTop
  <2>3. QED BY <2>2, EmptySeq
<1>4. n \in Slots /\ x.tcp \in Links /\ x.n = n /\ Told1(n)
  BY <1>1, <1>2, <1>3 DEF Tasks, Events, num, Told1
<1>5. CASE x.op = "CONNECTED"
  <2>1. session' = [session EXCEPT ![n] = x.tcp] /\ heard' = [heard EXCEPT ![n] = 0]
    BY <1>1, <1>5 DEF Callback, Doing
  <2>2. session[n] = None /\ slot[n].tcp = x.tcp
    BY <1>3, <1>4, <1>5 DEF IInv, Informed, Current, Links, None
  <2>3. \A o \in Slots : session[o] # x.tcp
    <3> SUFFICES ASSUME NEW o \in Slots, o # n PROVE session[o] # x.tcp
      BY <1>4, <2>2 DEF Links, None
    <3>1. session[o] = Current(o)
      BY <1>3, <1>4 DEF IInv, Informed, Told1
    <3>2. slot[o].tcp # x.tcp /\ x.tcp # None
      BY <1>4, <2>2 DEF IInv, NoTwoPlaces, Links, None
    <3>3. QED BY <3>1, <3>2 DEF Current
  <2>4. Sessions!Begin(n, x.tcp)
    BY <2>1, <2>2, <2>3 DEF Sessions!Begin
  <2>5. QED BY <1>4, <2>4 DEF Sessions!Next
<1>6. CASE x.op = "TEXT"
  <2>1. heard' = [heard EXCEPT ![n] = x.no] /\ UNCHANGED session
    BY <1>1, <1>6 DEF Callback, Doing
  <2>2. session[n] # None /\ x.no = heard[n] + 1
    BY <1>3, <1>4, <1>6 DEF IInv, Informed
  <2>3. Sessions!Hear(n)
    BY <2>1, <2>2 DEF Sessions!Hear
  <2>4. QED BY <1>4, <2>3 DEF Sessions!Next
<1>7. CASE x.op = "DISCONNECTED"
  <2>1. session' = [session EXCEPT ![n] = None] /\ heard' = [heard EXCEPT ![n] = 0]
    BY <1>1, <1>7 DEF Callback, Doing
  <2>2. Sessions!End(n)
    BY <2>1 DEF Sessions!End
  <2>3. QED BY <1>4, <2>2 DEF Sessions!Next
<1>8. QED BY <1>2, <1>5, <1>6, <1>7 DEF Events

LEMMA ServerEvents ==
  ASSUME IInv, ServerNext
  PROVE  [Sessions!Next]_(Sessions!vars)
<1>1. ASSUME loop \/ Sketch PROVE UNCHANGED Sessions!vars
  BY <1>1 DEF loop, Sketch, Sessions!vars
<1>2. ASSUME NEW i \in Top, Callback(i) PROVE Sessions!Next
  BY <1>2, EventStep
<1>3. ASSUME NEW i \in Top, UNCHANGED <<session, heard>> PROVE UNCHANGED Sessions!vars
  BY <1>3 DEF Sessions!vars
<1>4. CASE \E i \in Top : UNCHANGED <<session, heard>>
  BY <1>3, <1>4
<1>5. CASE \E i \in Top : Callback(i)
  BY <1>2, <1>5
<1>6. (loop \/ Sketch) \/ (\E i \in Top : UNCHANGED <<session, heard>>) \/ (\E i \in Top : Callback(i))
  BY NoEvent DEF ServerNext, ServerWorks
<1>7. QED BY <1>1, <1>4, <1>5, <1>6

LEMMA SessionSteps == IInv /\ [Next]_vars => [Sessions!Next]_(Sessions!vars)
<1> SUFFICES ASSUME IInv, [Next]_vars PROVE [Sessions!Next]_(Sessions!vars)
  OBVIOUS
<1>1. CASE ServerStep
  BY <1>1, ServerEvents DEF ServerStep
<1>2. CASE UNCHANGED server
  BY <1>2 DEF server, Sessions!vars
<1>3. QED BY <1>1, <1>2 DEF Next, vars

(* The server implements the contract of its callback (WsSessions): each     *)
(* event the sketch is given begins a session of one client in one slot,     *)
(* hands over the next message of that client, or ends the session; no other *)
(* step changes what the sketch knows.                                       *)
THEOREM ImplementsSessions == Spec => EventsAreSessions
<1>1. Init => Sessions!Init
  BY SessionsBegin
<1>2. IInv /\ [Next]_vars => [Sessions!Next]_(Sessions!vars)
  BY SessionSteps
<1>3. QED BY <1>1, <1>2, Invariant, PTL DEF Spec, EventsAreSessions, Sessions!Spec
=============================================================================
